--------------------------- MODULE Loading_proofs ---------------------------
(***************************************************************************)
(* Proofs about Loading, for any commands, jobs and data: the file stays a *)
(* whole snapshot; catalogue and records stay together; no source loses    *)
(* its records to another; a command by itself keeps the sources it was    *)
(* not asked for, and one that reports success has done what it was asked. *)
(***************************************************************************)
EXTENDS Loading, BankData_proofs

-----------------------------------------------------------------------------
\* What is put into a store: the type of a parcel, without what ties its records
\* to its source.
TypedParcel(p) ==
  p.name \in Names /\ p.country \in Nat /\ p.edition \in Nat /\ IsTable(p.part)

\* Nothing held is typed and consistent.
LEMMA NothingHeldOK ==
  IsTable(Empty) /\ IsCatalogue(Empty) /\ IsHeld(NothingHeld) /\ Consistent(NothingHeld)
<1>1. DOMAIN Empty = {} /\ Empty \in [{} -> Record] /\ Empty \in [{} -> SourceInfo]
  BY DEF Empty
<1>2. IsTable(Empty) /\ IsCatalogue(Empty)
  BY <1>1 DEF IsTable, IsCatalogue
<1>3. NothingHeld.bank = Empty /\ NothingHeld.sources = Empty
  BY DEF NothingHeld, Held
<1> QED
  BY <1>1, <1>2, <1>3 DEF IsHeld, Consistent, Catalogued, OneEditionEach, Counted

\* The parcel of a batch is one.
LEMMA ParcelOK == ASSUME NEW batch \in Batches PROVE IsParcel(Parcel(batch))
<1> DEFINE part == Overlay(Empty, batch, 1)
<1>1. IsTable(part)
  BY NothingHeldOK, OverlayTable
<1>2. DOMAIN part = Incoming(batch)
      /\ \A k \in DOMAIN part : part[k] = RecordOf(batch, LastAt(batch, k))
  BY DEF Overlay, Empty, Incoming
<1>3. \A k \in DOMAIN part : part[k].source = batch.name /\ part[k].edition = batch.edition
  BY <1>2, RecordOfBatch
<1>4. batch.name \in Names /\ batch.country \in Nat /\ batch.edition \in Nat
  BY BatchesAssumption
<1> HIDE DEF part
<1>5. /\ Parcel(batch).name = batch.name /\ Parcel(batch).country = batch.country
      /\ Parcel(batch).edition = batch.edition /\ Parcel(batch).part = part
  BY DEF Parcel, part
<1> QED
  BY <1>1, <1>3, <1>4, <1>5 DEF IsParcel

\* The parcel of a listed source is typed, and one if the source is of one edition.
LEMMA ParcelOfOK ==
  ASSUME NEW h, IsHeld(h), NEW n \in DOMAIN h.sources
  PROVE  /\ ParcelOf(h, n).name = n
         /\ TypedParcel(ParcelOf(h, n))
         /\ Consistent(h) => IsParcel(ParcelOf(h, n))
<1> DEFINE p == ParcelOf(h, n)
<1>1. n \in Names /\ h.sources[n] \in SourceInfo
  BY DEF IsHeld, IsCatalogue
<1>2. p.name = n /\ p.country = h.sources[n].country /\ p.edition = h.sources[n].edition
      /\ p.part = Restrict(h.bank, Owned(h.bank, n))
  BY DEF ParcelOf, PartOf
<1>3. IsTable(p.part)
  BY <1>2, TableFacts, RestrictTable DEF IsHeld
<1>4. TypedParcel(p)
  BY <1>1, <1>2, <1>3 DEF TypedParcel, SourceInfo
<1>5. ASSUME Consistent(h), NEW k \in DOMAIN p.part
      PROVE  p.part[k].source = n /\ p.part[k].edition = p.edition
  <2>1. k \in DOMAIN h.bank /\ h.bank[k].source = n /\ p.part[k] = h.bank[k]
    BY <1>2 DEF Restrict, Owned
  <2> QED
    BY <2>1, <1>2, <1>5 DEF Consistent, OneEditionEach
<1> QED
  BY <1>2, <1>4, <1>5 DEF IsParcel, TypedParcel

\* What Replace makes of the records: those of the parcel, and of what was there
\* those of other sources.
LEMMA ReplacedBank ==
  ASSUME NEW h, IsHeld(h), NEW p, TypedParcel(p), NEW r, r = Replaced(h, p)
  PROVE  /\ IsTable(r.bank)
         /\ \A k \in DOMAIN r.bank :
              \/ k \in DOMAIN p.part /\ r.bank[k] = p.part[k]
              \/ k \in DOMAIN h.bank /\ r.bank[k] = h.bank[k] /\ h.bank[k].source # p.name
<1> DEFINE kept == Clear(h.bank, p.name)
           K == DOMAIN kept \cup DOMAIN p.part
<1>1. IsTable(kept)
  BY RestrictTable DEF Clear, IsHeld
<1>2. DOMAIN kept \subseteq DOMAIN h.bank
      /\ \A k \in DOMAIN kept : kept[k] = h.bank[k] /\ h.bank[k].source # p.name
  BY DEF Clear, Restrict, Owned
<1>3. r.bank = [k \in K |-> IF k \in DOMAIN p.part THEN p.part[k] ELSE kept[k]]
  BY DEF Replaced, Held
<1>4. IsTable(p.part)
  BY DEF TypedParcel
<1> HIDE DEF kept
<1>5. r.bank \in [K -> Record] /\ K \subseteq Keys
  BY <1>1, <1>3, <1>4, TableFacts
<1> QED
  BY <1>2, <1>3, <1>5 DEF IsTable

\* And of the catalogue: one entry, counting the records of the source.
LEMMA ReplacedSources ==
  ASSUME NEW h, IsHeld(h), NEW p, TypedParcel(p), NEW r, r = Replaced(h, p)
  PROVE  /\ IsHeld(r)
         /\ DOMAIN r.sources = DOMAIN h.sources \cup {p.name}
         /\ r.sources[p.name].edition = p.edition
         /\ r.sources[p.name].count = Cardinality(Owned(r.bank, p.name))
         /\ \A n \in DOMAIN h.sources : n # p.name => r.sources[n] = h.sources[n]
<1> DEFINE info == [country |-> p.country, edition |-> p.edition,
                    count |-> Cardinality(Owned(r.bank, p.name))]
<1>1. IsTable(r.bank)
  BY ReplacedBank
<1>2. r.sources = Assign(h.sources, p.name, info)
  BY DEF Replaced, Held
<1>3. info \in SourceInfo
  BY <1>1, TableFacts DEF TypedParcel, SourceInfo
<1>4. IsCatalogue(r.sources)
  BY <1>2, <1>3, AssignCatalogue DEF IsHeld, TypedParcel
<1>5. info.edition = p.edition /\ info.count = Cardinality(Owned(r.bank, p.name))
  OBVIOUS
<1> HIDE DEF info
<1> QED
  BY <1>1, <1>2, <1>4, <1>5 DEF IsHeld, Assign

\* Replace keeps what is held consistent.
LEMMA ReplacedConsistent ==
  ASSUME NEW h, IsHeld(h), Consistent(h), NEW p, IsParcel(p)
  PROVE  Consistent(Replaced(h, p))
<1> DEFINE r == Replaced(h, p)
<1>1. TypedParcel(p)
  BY DEF IsParcel, TypedParcel
<1>2. /\ IsTable(r.bank)
      /\ \A k \in DOMAIN r.bank :
           \/ k \in DOMAIN p.part /\ r.bank[k] = p.part[k]
           \/ k \in DOMAIN h.bank /\ r.bank[k] = h.bank[k] /\ h.bank[k].source # p.name
  BY <1>1, ReplacedBank
<1>3. /\ DOMAIN r.sources = DOMAIN h.sources \cup {p.name}
      /\ r.sources[p.name].edition = p.edition
      /\ r.sources[p.name].count = Cardinality(Owned(r.bank, p.name))
      /\ \A n \in DOMAIN h.sources : n # p.name => r.sources[n] = h.sources[n]
  BY <1>1, ReplacedSources
<1> HIDE DEF r
<1>4. Catalogued(r.bank, r.sources)
  BY <1>2, <1>3 DEF Catalogued, Consistent, IsParcel
<1>5. OneEditionEach(r.bank, r.sources)
  BY <1>2, <1>3 DEF Catalogued, OneEditionEach, Consistent, IsParcel
<1>6. Counted(r.bank, r.sources)
  <2> SUFFICES ASSUME NEW m \in DOMAIN h.sources \cup {p.name}
               PROVE  Cardinality(Owned(r.bank, m)) <= r.sources[m].count
    BY <1>3 DEF Counted
  <2>1. CASE m = p.name
    BY <2>1, <1>2, <1>3, TableFacts
  <2>2. CASE m # p.name
    <3>1. Owned(r.bank, m) \subseteq Owned(h.bank, m)
      BY <2>2, <1>2 DEF Owned, IsParcel
    <3>2. Cardinality(Owned(r.bank, m)) <= Cardinality(Owned(h.bank, m))
      BY <3>1, TableFacts, FS_Subset DEF IsHeld
    <3>3. Cardinality(Owned(h.bank, m)) <= h.sources[m].count
      BY <2>2 DEF Counted, Consistent
    <3>4. h.sources[m].count \in Nat
      BY <2>2 DEF IsHeld, IsCatalogue, SourceInfo
    <3> QED
      BY <2>2, <3>2, <3>3, <3>4, <1>2, <1>3, TableFacts DEF IsHeld
  <2> QED
    BY <2>1, <2>2
<1> QED
  BY <1>4, <1>5, <1>6 DEF Consistent, r

\* A part of the records goes with the catalogue as the whole does: a file that a
\* limited search has cut is consistent.
LEMMA SearchedOK ==
  ASSUME NEW h, IsHeld(h)
  PROVE  /\ IsTable(Searched(h.bank))
         /\ Consistent(h) => Consistent(Held(Searched(h.bank), h.sources))
<1> DEFINE s == Searched(h.bank)
<1>1. FirstKeys(DOMAIN h.bank, MaxLimit) \subseteq DOMAIN h.bank
  BY DEF FirstKeys
<1>2. IsTable(s)
  BY <1>1, RestrictTable DEF Searched, IsHeld
<1>3. DOMAIN s \subseteq DOMAIN h.bank /\ \A k \in DOMAIN s : s[k] = h.bank[k]
  BY <1>1 DEF Searched, Restrict
<1> HIDE DEF s
<1>4. ASSUME Consistent(h) PROVE Consistent(Held(s, h.sources))
  <2>1. Catalogued(s, h.sources) /\ OneEditionEach(s, h.sources)
    BY <1>3, <1>4 DEF Consistent, Catalogued, OneEditionEach
  <2>2. ASSUME NEW n \in DOMAIN h.sources
        PROVE  Cardinality(Owned(s, n)) <= h.sources[n].count
    <3>1. Owned(s, n) \subseteq Owned(h.bank, n)
      BY <1>3 DEF Owned
    <3>2. Cardinality(Owned(s, n)) <= Cardinality(Owned(h.bank, n))
      BY <3>1, TableFacts, FS_Subset DEF IsHeld
    <3>3. Cardinality(Owned(h.bank, n)) <= h.sources[n].count /\ h.sources[n].count \in Nat
      BY <1>4 DEF Counted, Consistent, IsHeld, IsCatalogue, SourceInfo
    <3> QED
      BY <3>2, <3>3, <1>2, TableFacts DEF IsHeld
  <2> QED
    BY <2>1, <2>2 DEF Consistent, Counted, Held
<1> QED
  BY <1>2, <1>4 DEF s

-----------------------------------------------------------------------------
\* The inductive invariant of the types: what TypeOK says, command by command;
\* the functions have the commands for domain; update has still to fetch what it
\* was asked for, and a copy to put in sources of its snapshot; and only who was
\* asked to saves.
Typed(c) ==
  /\ pc[c] = "idle" <=> job[c] = NoJob
  /\ pc[c] # "idle" => job[c] \in Jobs
  /\ pc[c] = "done" <=> result[c] # "none"
  /\ IsHeld(from[c]) /\ IsHeld(mem[c]) /\ IsCatalogue(stats[c])
  /\ todo[c] \subseteq Names
  /\ \A p \in got[c] : IsParcel(p)
  /\ pc[c] = "rename" => Loads(tmp[c]) /\ IsFile(tmp[c])
  /\ pc[c] = "work" /\ job[c].op = "copy" => todo[c] \subseteq DOMAIN from[c].sources
  /\ pc[c] = "work" /\ job[c].op = "update" => todo[c] \subseteq job[c].names
  /\ pc[c] = "work" => job[c].op # "snapshot"
  /\ pc[c] \in {"stats", "write", "rename"} => Saves(c)

Domains ==
  /\ DOMAIN job = Commands /\ DOMAIN from = Commands /\ DOMAIN mem = Commands
  /\ DOMAIN todo = Commands /\ DOMAIN got = Commands /\ DOMAIN failed = Commands
  /\ DOMAIN stats = Commands /\ DOMAIN tmp = Commands

Shared ==
  /\ faults \subseteq Faults
  /\ published \in DOMAIN Editions
  /\ IsFile(file) /\ IsHeld(database)
  /\ pc \in [Commands -> Labels]
  /\ result \in [Commands -> {"none", "ok", "failed", "killed"}]
  /\ Domains

TInv == Shared /\ FileLoads /\ \A c \in Commands : Typed(c)

\* What a command holds itself, which no step of another one touches.
Locals(c) ==
  <<pc[c], job[c], from[c], mem[c], todo[c], got[c], stats[c], tmp[c], result[c]>>

\* A job is not the mark of having none, and jobs are what Job says.
LEMMA JobFacts ==
  ASSUME NEW j \in Jobs
  PROVE  /\ j # NoJob
         /\ j.names \subseteq Names
         /\ j.op \in {"update", "import", "copy", "snapshot"}
         /\ j.op = "import" => j.batch \in Batches /\ j.batch.name \in Names
<1>1. j \in Job
  BY JobsAssumption
<1>2. "op" \in DOMAIN j /\ "op" \notin DOMAIN NoJob
  BY <1>1 DEF Job, NoJob
<1>3. j.op = "import" => j.batch \in Batches
  BY <1>1, JobsAssumption DEF Job
<1> QED
  BY <1>1, <1>2, <1>3, BatchesAssumption DEF Job

\* A file that loads is typed as what it holds.
LEMMA LoadedHeld == ASSUME NEW f, IsFile(f), Loads(f) PROVE IsHeld(Loaded(f)) /\ f # Unreadable
<1>1. f \notin {Absent, Unreadable}
  BY DEF Loads, Absent, Unreadable
<1>2. f = Snapshot(f.bank, f.sources) /\ IsHeld(f)
  BY <1>1 DEF IsFile
<1> QED
  BY <1>1, <1>2 DEF Loaded, Held, IsHeld

\* What a command opens is typed.
LEMMA SourceFile == ASSUME Shared, NEW s PROVE IsFile(Source(s))
BY DataAssumption DEF Shared, Source

LEMMA OpenedHeld == ASSUME Shared, NEW c \in Commands PROVE IsHeld(Opened(c))
BY SourceFile, LoadedHeld, NothingHeldOK DEF Opened

\* The initial states are typed.
LEMMA InitTInv == Init => TInv
<1> SUFFICES ASSUME Init PROVE TInv
  OBVIOUS
<1>1. file \in FirstFiles /\ database \in FirstData
  BY DEF Init
<1>2. IsFile(file) /\ IsHeld(database)
  BY <1>1, DataAssumption
<1>3. published \in DOMAIN Editions
  BY EditionsAssumption DEF Init
<1>4. Shared
  BY <1>2, <1>3 DEF Init, Shared, Domains, Labels
<1>5. FileLoads
  BY DEF Init, FileLoads
<1>6. ASSUME NEW c \in Commands PROVE Typed(c)
  BY NothingHeldOK DEF Init, Typed
<1> QED
  BY <1>4, <1>5, <1>6 DEF TInv

\* A step of one command that leaves the locals of the others alone keeps them typed.
LEMMA OthersTyped ==
  ASSUME NEW d \in Commands, Typed(d), UNCHANGED Locals(d)
  PROVE  Typed(d)'
BY DEF Typed, Locals, Saves

\* A command that ends is typed, whatever it held.
LEMMA EndTyped ==
  ASSUME TInv, NEW c \in Commands, NEW r \in {"ok", "failed", "killed"},
         pc[c] \notin {"idle", "done"}, End(c, r)
  PROVE  /\ \A d \in Commands : Typed(d)'
         /\ Domains' /\ pc' \in [Commands -> Labels]
         /\ result' \in [Commands -> {"none", "ok", "failed", "killed"}]
<1>1. Domains' /\ pc' \in [Commands -> Labels]
      /\ result' \in [Commands -> {"none", "ok", "failed", "killed"}]
  BY DEF TInv, Shared, Domains, End, Goto, Labels
<1>2. ASSUME NEW d \in Commands, d # c PROVE Typed(d)'
  <2>1. UNCHANGED Locals(d)
    BY <1>2 DEF TInv, Shared, Domains, End, Goto, Locals
  <2> QED
    BY <2>1, OthersTyped DEF TInv
<1>3. Typed(c)'
  <2>1. /\ pc'[c] = "done" /\ result'[c] = r /\ job'[c] = job[c]
        /\ from'[c] = NothingHeld /\ mem'[c] = NothingHeld /\ todo'[c] = {}
        /\ got'[c] = {} /\ stats'[c] = Empty
    BY DEF TInv, Shared, Domains, End, Goto
  <2>2. job[c] # NoJob /\ job[c] \in Jobs
    BY DEF TInv, Typed
  <2> QED
    BY <2>1, <2>2, NothingHeldOK DEF Typed
<1> QED
  BY <1>1, <1>2, <1>3

\* A step that changes the locals of one command, and of the shared state at most
\* the database, keeps the types if it keeps those of the command and of the
\* database.
LEMMA StepTyped ==
  ASSUME TInv, NEW c \in Commands, Typed(c)', Domains', pc' \in [Commands -> Labels],
         \A d \in Commands \ {c} : UNCHANGED Locals(d),
         UNCHANGED <<faults, published, file, result>>, IsHeld(database')
  PROVE  TInv'
<1>1. \A d \in Commands : Typed(d)'
  BY OthersTyped DEF TInv
<1>2. Shared' /\ FileLoads'
  BY DEF TInv, Shared, FileLoads
<1> QED
  BY <1>1, <1>2 DEF TInv

\* Opening keeps the types.
LEMMA OpenTyped ==
  ASSUME TInv, NEW c \in Commands, OpenToLoad(c) \/ OpenToCopy(c) \/ OpenToSnapshot(c)
  PROVE  TInv'
<1>1. IsHeld(Opened(c)) /\ job[c] \in Jobs /\ job[c] # NoJob /\ Typed(c) /\ pc[c] = "open"
  BY OpenedHeld, JobFacts DEF TInv, Typed, OpenToLoad, OpenToCopy, OpenToSnapshot
<1>2. Domains' /\ pc' \in [Commands -> Labels]
  BY DEF TInv, Shared, Domains, Labels, Goto, OpenToLoad, OpenToCopy, OpenToSnapshot
<1>3. \A d \in Commands \ {c} : UNCHANGED Locals(d)
  BY DEF TInv, Shared, Domains, Locals, Goto, OpenToLoad, OpenToCopy, OpenToSnapshot
<1>4. UNCHANGED <<faults, published, file, result>> /\ IsHeld(database')
  BY DEF TInv, Shared, OpenToLoad, OpenToCopy, OpenToSnapshot
<1>5. Typed(c)'
  <2>1. CASE OpenToLoad(c)
    <3>1. /\ pc'[c] = "work" /\ mem'[c] = Opened(c) /\ job'[c] = job[c]
          /\ job[c].op \in {"update", "import"}
          /\ todo'[c] = IF job[c].op = "update" THEN job[c].names ELSE {job[c].batch.name}
          /\ UNCHANGED <<from[c], got[c], stats[c], result[c]>>
      BY <2>1 DEF TInv, Shared, Domains, Goto, OpenToLoad
    <3>2. todo'[c] \subseteq Names
      BY <1>1, <3>1, JobFacts
    <3> QED
      BY <1>1, <3>1, <3>2 DEF Typed
  <2>2. CASE OpenToCopy(c)
    <3>1. /\ pc'[c] = "work" /\ mem'[c] = Opened(c) /\ job'[c] = job[c]
          /\ job[c].op = "copy"
          /\ from'[c] = Loaded(Source(job[c].from)) /\ todo'[c] = DOMAIN from'[c].sources
          /\ UNCHANGED <<got[c], stats[c], result[c]>>
      BY <2>2 DEF TInv, Shared, Domains, Goto, OpenToCopy
    <3>2. IsHeld(from'[c])
      BY <2>2, <3>1, SourceFile, LoadedHeld DEF TInv, OpenToCopy
    <3>3. todo'[c] \subseteq Names
      BY <3>1, <3>2 DEF IsHeld, IsCatalogue
    <3> QED
      BY <1>1, <3>1, <3>2, <3>3 DEF Typed
  <2>3. CASE OpenToSnapshot(c)
    <3>1. /\ pc'[c] = "stats" /\ mem'[c] = Opened(c) /\ job'[c] = job[c]
          /\ job[c].op = "snapshot"
          /\ UNCHANGED <<from[c], todo[c], got[c], stats[c], result[c]>>
      BY <2>3 DEF TInv, Shared, Domains, Goto, OpenToSnapshot
    <3>2. Saves(c)'
      BY <1>1, <3>1 DEF Saves
    <3> QED
      BY <1>1, <3>1, <3>2 DEF Typed
  <2> QED
    BY <2>1, <2>2, <2>3
<1> QED
  BY <1>2, <1>3, <1>4, <1>5, StepTyped

\* Fetching keeps the types.
LEMMA FetchTyped ==
  ASSUME TInv, NEW c \in Commands, Fetch(c) \/ FetchFails(c)
  PROVE  TInv'
<1>1. Typed(c) /\ pc[c] = "work" /\ job[c].op = "update"
  BY DEF TInv, Fetch, FetchFails
<1>2. Domains' /\ pc' \in [Commands -> Labels]
  BY DEF TInv, Shared, Domains, Fetch, FetchFails
<1>3. \A d \in Commands \ {c} : UNCHANGED Locals(d)
  BY DEF TInv, Shared, Domains, Locals, Fetch, FetchFails
<1>4. UNCHANGED <<faults, published, file, result>> /\ IsHeld(database')
  BY DEF TInv, Shared, Fetch, FetchFails
<1>5. PICK n \in todo[c] :
        /\ todo'[c] = todo[c] \ {n}
        /\ got'[c] = {Parcel(Offered(n))} \/ got'[c] = got[c]
        /\ UNCHANGED <<pc[c], job[c], from[c], mem[c], stats[c], tmp[c], result[c]>>
  BY DEF TInv, Shared, Domains, Fetch, FetchFails
<1>6. \A p \in got'[c] : IsParcel(p)
  <2>1. Offered(n) \in Batches
    BY <1>1, <1>5, JobsAssumption, EditionsAssumption DEF TInv, Shared, Typed, Offered
  <2> QED
    BY <1>1, <1>5, <2>1, ParcelOK DEF Typed
<1>7. Typed(c)'
  BY <1>1, <1>5, <1>6 DEF Typed
<1> QED
  BY <1>2, <1>3, <1>4, <1>7, StepTyped

\* Storing keeps the types; a source that fails is only counted.
LEMMA StoreTyped ==
  ASSUME TInv, NEW c \in Commands, Store(c) \/ UpdateStoreFails(c)
  PROVE  TInv'
<1>1. Typed(c) /\ pc[c] = "work" /\ job[c] \in Jobs
  BY DEF TInv, Typed, Store, UpdateStoreFails
<1>2. Domains' /\ pc' \in [Commands -> Labels]
  BY DEF TInv, Shared, Domains, Handled, Store, UpdateStoreFails
<1>3. \A d \in Commands \ {c} : UNCHANGED Locals(d)
  BY DEF TInv, Shared, Domains, Locals, Handled, Store, UpdateStoreFails
<1>4. \A p \in Parcels(c) : TypedParcel(p)
  <2>1. CASE job[c].op = "update"
    BY <1>1, <2>1 DEF Parcels, Typed, IsParcel, TypedParcel
  <2>2. CASE job[c].op = "import"
    BY <1>1, <2>2, JobFacts, ParcelOK DEF Parcels, IsParcel, TypedParcel
  <2>3. CASE job[c].op = "copy"
    <3>1. todo[c] \subseteq DOMAIN from[c].sources /\ IsHeld(from[c])
      BY <1>1, <2>3 DEF Typed
    <3>2. Parcels(c) = {ParcelOf(from[c], n) : n \in FirstOf(from[c], todo[c])}
      BY <2>3 DEF Parcels
    <3>3. FirstOf(from[c], todo[c]) \subseteq todo[c]
      BY DEF FirstOf
    <3> QED
      BY <3>1, <3>2, <3>3, ParcelOfOK
  <2>4. job[c].op # "snapshot"
    BY <1>1 DEF Typed
  <2> QED
    BY <1>1, <2>1, <2>2, <2>3, <2>4, JobFacts
<1>5. IsHeld(database') /\ IsHeld(mem'[c])
  <2>1. CASE UpdateStoreFails(c)
    BY <1>1, <2>1 DEF TInv, Shared, Typed, UpdateStoreFails
  <2>2. CASE Store(c)
    <3>1. PICK p \in Parcels(c) :
            \/ UNCHANGED <<database, mem>>
            \/ database' = Replaced(database, p) /\ UNCHANGED mem
            \/ mem' = [mem EXCEPT ![c] = Replaced(@, p)] /\ UNCHANGED database
      BY <2>2 DEF Store
    <3>2. TypedParcel(p) /\ IsHeld(database) /\ IsHeld(mem[c])
      BY <1>1, <1>4 DEF TInv, Shared, Typed
    <3>3. IsHeld(Replaced(database, p)) /\ IsHeld(Replaced(mem[c], p))
      BY <3>2, ReplacedSources
    <3> QED
      BY <3>1, <3>2, <3>3 DEF TInv, Shared, Domains
  <2> QED
    BY <2>1, <2>2
<1>6. UNCHANGED <<faults, published, file, result>>
  BY DEF Store, UpdateStoreFails
<1>7. /\ todo'[c] \subseteq todo[c] /\ got'[c] = {}
      /\ UNCHANGED <<pc[c], job[c], from[c], stats[c], tmp[c], result[c]>>
  BY DEF TInv, Shared, Domains, Handled, Store, UpdateStoreFails
<1>8. Typed(c)'
  BY <1>1, <1>5, <1>7 DEF Typed
<1> QED
  BY <1>2, <1>3, <1>5, <1>6, <1>8, StepTyped

\* Going on to save, and the two halves of writing, keep the types.
LEMMA SaveTyped ==
  ASSUME TInv, NEW c \in Commands, GoOnToSave(c) \/ ReadStats(c) \/ Write(c)
  PROVE  TInv'
<1>1. Typed(c) /\ job[c] \in Jobs /\ IsHeld(database)
  BY DEF TInv, Shared, Typed, GoOnToSave, ReadStats, Write, StoredAll
<1>2. Domains' /\ pc' \in [Commands -> Labels]
  BY DEF TInv, Shared, Domains, Labels, Goto, GoOnToSave, ReadStats, Write, local
<1>3. \A d \in Commands \ {c} : UNCHANGED Locals(d)
  BY DEF TInv, Shared, Domains, Locals, Goto, GoOnToSave, ReadStats, Write, local
<1>4. UNCHANGED <<faults, published, file, result, database>>
  BY DEF GoOnToSave, ReadStats, Write, local
<1>5. Typed(c)'
  <2>1. CASE GoOnToSave(c)
    <3>1. pc[c] = "work" /\ pc'[c] = "stats" /\ job[c].save
          /\ UNCHANGED <<job[c], from[c], mem[c], todo[c], got[c], stats[c], tmp[c], result[c]>>
      BY <2>1 DEF TInv, Shared, Goto, GoOnToSave, StoredAll, local
    <3>2. Saves(c)'
      BY <1>1, <3>1, JobFacts DEF Saves
    <3> QED
      BY <1>1, <3>1, <3>2 DEF Typed
  <2>2. CASE ReadStats(c)
    <3>1. /\ pc[c] = "stats" /\ pc'[c] = "write"
          /\ stats'[c] = IF ToDatabase(c) THEN database.sources ELSE mem[c].sources
          /\ UNCHANGED <<job[c], from[c], mem[c], todo[c], got[c], tmp[c], result[c]>>
      BY <2>2 DEF TInv, Shared, Domains, Goto, ReadStats
    <3>2. IsCatalogue(stats'[c])
      BY <1>1, <3>1 DEF Typed, IsHeld
    <3> QED
      BY <1>1, <3>1, <3>2 DEF Typed, Saves
  <2>3. CASE Write(c)
    <3>1. /\ pc[c] = "write" /\ pc'[c] = "rename"
          /\ tmp'[c] = Snapshot(IF ToDatabase(c) THEN Searched(database.bank) ELSE mem[c].bank, stats[c])
          /\ UNCHANGED <<job[c], from[c], mem[c], todo[c], got[c], stats[c], result[c]>>
      BY <2>3 DEF TInv, Shared, Domains, Goto, Write
    <3>2. IsTable(IF ToDatabase(c) THEN Searched(database.bank) ELSE mem[c].bank)
          /\ IsCatalogue(stats[c])
      BY <1>1, SearchedOK DEF Typed, IsHeld
    <3>3. Loads(tmp'[c]) /\ IsFile(tmp'[c])
      BY <3>1, <3>2 DEF Snapshot, Loads, IsFile, IsHeld
    <3> QED
      BY <1>1, <3>1, <3>3 DEF Typed, Saves
  <2> QED
    BY <2>1, <2>2, <2>3
<1> QED
  BY <1>1, <1>2, <1>3, <1>4, <1>5, StepTyped

\* Ending keeps the types; only the rename changes the file, to one that loads.
LEMMA EndingTyped ==
  ASSUME TInv, NEW c \in Commands,
         \/ DryRun(c) \/ OpenFails(c) \/ StoreFails(c) \/ EndWithoutSave(c)
         \/ Rename(c) \/ SaveFails(c) \/ Crash(c)
  PROVE  TInv'
<1>1. PICK r \in {"ok", "failed", "killed"} : End(c, r)
  BY DEF DryRun, OpenFails, StoreFails, EndWithoutSave, Rename, SaveFails, Crash, Fail, Verdict
<1>2. pc[c] \notin {"idle", "done"}
  BY DEF DryRun, OpenFails, StoreFails, EndWithoutSave, Rename, SaveFails, Crash, Running, StoredAll
<1>3. UNCHANGED <<faults, published, database>>
      /\ (file' = file \/ (pc[c] = "rename" /\ file' = tmp[c]))
  BY DEF DryRun, OpenFails, StoreFails, EndWithoutSave, Rename, SaveFails, Crash, Fail
<1>4. IsFile(file') /\ (file' = file \/ file' # Unreadable)
  BY <1>3, LoadedHeld DEF TInv, Shared, Typed
<1>5. Shared' /\ FileLoads'
  BY <1>1, <1>2, <1>3, <1>4, EndTyped DEF TInv, Shared, FileLoads
<1> QED
  BY <1>1, <1>2, <1>5, EndTyped DEF TInv

\* The other steps: a publication, and the start of a command.
LEMMA PublishTyped == ASSUME TInv, Publish PROVE TInv'
<1>1. published' \in DOMAIN Editions
  BY EditionsAssumption DEF TInv, Shared, Publish
<1>2. \A c \in Commands : Typed(c)'
  BY DEF TInv, Publish, local, Typed, Saves
<1> QED
  BY <1>1, <1>2 DEF TInv, Shared, FileLoads, Domains, Publish, local

LEMMA StartTyped ==
  ASSUME TInv, NEW c \in Commands, NEW j \in Jobs, Start(c, j)
  PROVE  TInv'
<1>1. Typed(c) /\ j # NoJob
  BY JobFacts DEF TInv
<1>2. Domains' /\ pc' \in [Commands -> Labels]
  BY DEF TInv, Shared, Domains, Labels, Goto, Start
<1>3. \A d \in Commands \ {c} : UNCHANGED Locals(d)
  BY DEF TInv, Shared, Domains, Locals, Goto, Start
<1>4. UNCHANGED <<faults, published, file, result>> /\ IsHeld(database')
  BY DEF TInv, Shared, Start
<1>5. /\ pc[c] = "idle" /\ pc'[c] = "open" /\ job'[c] = j
      /\ UNCHANGED <<from[c], mem[c], todo[c], got[c], stats[c], tmp[c], result[c]>>
  BY DEF TInv, Shared, Domains, Goto, Start
<1>6. Typed(c)'
  BY <1>1, <1>5 DEF Typed
<1> QED
  BY <1>2, <1>3, <1>4, <1>6, StepTyped

\* Every step keeps the types.
LEMMA StepTInv == TInv /\ [Next]_vars => TInv'
<1> SUFFICES ASSUME TInv, [Next]_vars PROVE TInv'
  OBVIOUS
<1>1. ASSUME UNCHANGED vars PROVE TInv'
  <2>1. \A c \in Commands : Typed(c)'
    BY <1>1 DEF TInv, vars, local, Typed, Saves
  <2> QED
    BY <1>1, <2>1 DEF TInv, Shared, FileLoads, Domains, vars, local
<1>2. ASSUME NEW c \in Commands, Step(c) PROVE TInv'
  BY <1>2, OpenTyped, FetchTyped, StoreTyped, SaveTyped, EndingTyped DEF Step
<1>3. ASSUME NEW c \in Commands, Crash(c) PROVE TInv'
  BY <1>3, EndingTyped
<1>4. ASSUME NEW c \in Commands, NEW j \in Jobs, Start(c, j) PROVE TInv'
  BY <1>4, StartTyped
<1> QED
  BY <1>1, <1>2, <1>3, <1>4, PublishTyped DEF Next, Terminated

\* What the commands, the file and the database hold is always of its type.
THEOREM LoadingTypeOK == Spec => []TypeOK
<1>1. TInv => TypeOK
  BY DEF TInv, Shared, Typed, TypeOK
<1> QED
  BY <1>1, InitTInv, StepTInv, PTL DEF Spec

\* A snapshot file that loads is never followed by one that does not, whatever
\* fails and however many commands write it at once.
THEOREM LoadingFileLoads == Spec => []FileLoads
<1>1. TInv => FileLoads
  BY DEF TInv
<1> QED
  BY <1>1, InitTInv, StepTInv, PTL DEF Spec
-----------------------------------------------------------------------------
\* The inductive invariant of the data: commands that never overlap run one at a
\* time; what each holds is consistent, the catalogue it has read for the file is
\* still that of its store, and so the temporary file is consistent.
Solo == Alone => \A c, d \in Commands : Running(c) /\ Running(d) => c = d

Undisturbed == Alone \/ FromMemory

Sound(c) ==
  /\ Consistent(mem[c]) /\ Consistent(from[c])
  /\ pc[c] = "write" =>
       stats[c] = IF ToDatabase(c) THEN database.sources ELSE mem[c].sources
  /\ pc[c] = "rename" => Consistent(Loaded(tmp[c]))

DInv ==
  /\ TInv /\ Solo
  /\ Undisturbed =>
       /\ Consistent(database)
       /\ Loads(file) => Consistent(Loaded(file))
       /\ \A c \in Commands : Sound(c)

\* What a command opens is consistent if the file is.
LEMMA OpenedConsistent ==
  ASSUME Loads(file) => Consistent(Loaded(file)), NEW c \in Commands
  PROVE  /\ Consistent(Opened(c))
         /\ \A s : Loads(Source(s)) => Consistent(Loaded(Source(s)))
<1>1. \A s : Loads(Source(s)) => Consistent(Loaded(Source(s)))
  BY DataAssumption DEF Source
<1> QED
  BY <1>1, NothingHeldOK DEF Opened

LEMMA InitDInv == Init => DInv
<1> SUFFICES ASSUME Init PROVE DInv
  OBVIOUS
<1>1. Solo
  BY DEF Init, Solo, Running
<1>2. Consistent(database) /\ (Loads(file) => Consistent(Loaded(file)))
  BY DataAssumption DEF Init
<1>3. \A c \in Commands : Sound(c)
  BY NothingHeldOK DEF Init, Sound
<1> QED
  BY <1>1, <1>2, <1>3, InitTInv DEF DInv

\* Commands that were disturbed stay so: what may overlap is fixed, and a command
\* that saves the database was one before.
LEMMA UndisturbedBefore ==
  ASSUME TInv, [Next]_vars, Undisturbed' PROVE Undisturbed
<1>1. faults' = faults
  BY DEF Next, Publish, Terminated, Start, Step, OpenToLoad, OpenToCopy, OpenToSnapshot, DryRun, OpenFails,
    Fetch, FetchFails, Store, UpdateStoreFails, StoreFails, GoOnToSave, EndWithoutSave,
    ReadStats, Write, Rename, SaveFails, Crash, Fail, vars
<1>2. \A c \in Commands : job[c] # NoJob => job'[c] = job[c]
  <2>1. ASSUME NEW c \in Commands, NEW j \in Jobs, Start(c, j)
        PROVE  \A d \in Commands : job[d] # NoJob => job'[d] = job[d]
    BY <2>1 DEF TInv, Shared, Typed, Domains, Start
  <2>2. (\E c \in Commands, j \in Jobs : Start(c, j)) \/ job' = job
    BY DEF Next, Publish, Terminated, Step, OpenToLoad, OpenToCopy, OpenToSnapshot, DryRun, OpenFails,
      Fetch, FetchFails, Store, UpdateStoreFails, StoreFails, GoOnToSave, EndWithoutSave,
      ReadStats, Write, Rename, SaveFails, Crash, Fail, End, vars, local
  <2> QED
    BY <2>1, <2>2
<1> QED
  BY <1>1, <1>2 DEF Undisturbed, Alone, FromMemory, Saves

\* A command runs only if it did or has just been started, alone if need be.
LEMMA StepSolo == ASSUME TInv, Solo, [Next]_vars PROVE Solo'
<1>1. ASSUME UNCHANGED <<pc, faults>> PROVE Solo'
  BY <1>1 DEF Solo, Alone, Running
<1>2. ASSUME NEW c \in Commands, Running(c), faults' = faults,
             \A d \in Commands \ {c} : pc'[d] = pc[d]
      PROVE  Solo'
  BY <1>2 DEF Solo, Alone, Running
<1>3. ASSUME NEW c \in Commands, NEW j \in Jobs, Start(c, j) PROVE Solo'
  <2>1. \A d \in Commands \ {c} : pc'[d] = pc[d]
    BY <1>3 DEF TInv, Shared, Start, Goto
  <2> QED
    BY <1>3, <2>1 DEF Solo, Alone, Running, Start
<1>4. ASSUME NEW c \in Commands, Step(c) \/ Crash(c) PROVE Solo'
  <2>1. Running(c) /\ faults' = faults
    BY <1>4 DEF Running, Step, OpenToLoad, OpenToCopy, OpenToSnapshot, DryRun, OpenFails,
      Fetch, FetchFails, Store, UpdateStoreFails, StoreFails, GoOnToSave, EndWithoutSave,
      ReadStats, Write, Rename, SaveFails, Crash, Fail, StoredAll
  <2>2. \A d \in Commands \ {c} : pc'[d] = pc[d]
    BY <1>4 DEF TInv, Shared, Step, OpenToLoad, OpenToCopy, OpenToSnapshot, DryRun, OpenFails,
      Fetch, FetchFails, Store, UpdateStoreFails, StoreFails, GoOnToSave, EndWithoutSave,
      ReadStats, Write, Rename, SaveFails, Crash, Fail, End, Goto
  <2> QED
    BY <1>2, <2>1, <2>2
<1> QED
  BY <1>1, <1>3, <1>4 DEF Next, Publish, Terminated, vars

\* A step that leaves database and file alone, and the locals of all commands but
\* one that stays sound.
LEMMA LocalSound ==
  ASSUME DInv, Undisturbed, NEW c \in Commands, Sound(c)',
         UNCHANGED <<database, file>>, \A d \in Commands \ {c} : UNCHANGED Locals(d)
  PROVE  /\ Consistent(database') /\ (Loads(file') => Consistent(Loaded(file')))
         /\ \A d \in Commands : Sound(d)'
<1>1. ASSUME NEW d \in Commands, d # c PROVE Sound(d)'
  BY <1>1 DEF DInv, Sound, Locals, ToDatabase
<1> QED
  BY <1>1 DEF DInv

\* What DInv says of the data after a step.
Data ==
  /\ Consistent(database) /\ (Loads(file) => Consistent(Loaded(file)))
  /\ \A c \in Commands : Sound(c)

\* Steps that leave what is held alone.
LEMMA QuietData ==
  ASSUME DInv, Undisturbed, NEW c \in Commands,
         \/ FetchFails(c) \/ Fetch(c) \/ UpdateStoreFails(c) \/ GoOnToSave(c)
         \/ \E j \in Jobs : Start(c, j)
  PROVE  Data'
<1>1. TInv /\ Sound(c)
  BY DEF DInv
<1>2. \A d \in Commands \ {c} : UNCHANGED Locals(d)
  BY <1>1 DEF TInv, Shared, Domains, Locals, Goto, Handled, local,
    FetchFails, Fetch, UpdateStoreFails, GoOnToSave, Start
<1>3. /\ UNCHANGED <<database, file, mem[c], from[c]>>
      /\ pc'[c] \notin {"write", "rename"}
  BY <1>1 DEF TInv, Shared, Domains, Goto, Handled, local, StoredAll,
    FetchFails, Fetch, UpdateStoreFails, GoOnToSave, Start
<1>4. Sound(c)'
  BY <1>1, <1>3 DEF Sound
<1> QED
  BY <1>2, <1>3, <1>4, LocalSound DEF Data

\* Opening takes over a consistent file.
LEMMA OpenData ==
  ASSUME DInv, Undisturbed, NEW c \in Commands,
         OpenToLoad(c) \/ OpenToCopy(c) \/ OpenToSnapshot(c)
  PROVE  Data'
<1>1. TInv /\ Sound(c) /\ (Loads(file) => Consistent(Loaded(file)))
  BY DEF DInv
<1>2. \A d \in Commands \ {c} : UNCHANGED Locals(d)
  BY <1>1 DEF TInv, Shared, Domains, Locals, Goto, OpenToLoad, OpenToCopy, OpenToSnapshot
<1>3. /\ UNCHANGED <<database, file>>
      /\ mem'[c] = Opened(c) /\ pc'[c] \notin {"write", "rename"}
      /\ \/ from'[c] = from[c]
         \/ Loads(Source(job[c].from)) /\ from'[c] = Loaded(Source(job[c].from))
  BY <1>1 DEF TInv, Shared, Domains, Goto, OpenToLoad, OpenToCopy, OpenToSnapshot
<1>4. Sound(c)'
  BY <1>1, <1>3, OpenedConsistent DEF Sound
<1> QED
  BY <1>2, <1>3, <1>4, LocalSound DEF Data

\* A Replace keeps what it is made on consistent; on the database it meets no other
\* command between its two reads, as such a command would save from the database.
LEMMA StoreData ==
  ASSUME DInv, Undisturbed, NEW c \in Commands, Store(c)
  PROVE  Data'
<1>1. /\ TInv /\ Solo /\ Sound(c) /\ Typed(c) /\ pc[c] = "work"
      /\ Consistent(database) /\ IsHeld(database)
      /\ Consistent(mem[c]) /\ IsHeld(mem[c]) /\ Consistent(from[c]) /\ IsHeld(from[c])
  BY DEF DInv, TInv, Shared, Typed, Sound, Store
<1>2. PICK p \in Parcels(c) :
        \/ UNCHANGED <<database, mem>>
        \/ database' = Replaced(database, p) /\ UNCHANGED mem
        \/ mem' = [mem EXCEPT ![c] = Replaced(@, p)] /\ UNCHANGED database
  BY DEF Store
<1>3. IsParcel(p)
  <2>1. CASE job[c].op = "update"
    BY <1>1, <1>2, <2>1 DEF Parcels, Typed
  <2>2. CASE job[c].op = "import"
    BY <1>1, <1>2, <2>2, JobFacts, ParcelOK DEF Parcels, Typed
  <2>3. CASE job[c].op = "copy"
    <3>1. FirstOf(from[c], todo[c]) \subseteq DOMAIN from[c].sources
      BY <1>1, <2>3 DEF FirstOf, Typed
    <3> QED
      BY <1>1, <1>2, <2>3, <3>1, ParcelOfOK DEF Parcels
  <2> QED
    BY <1>1, <2>1, <2>2, <2>3, JobFacts DEF Typed
<1>4. Consistent(Replaced(database, p)) /\ Consistent(Replaced(mem[c], p))
  BY <1>1, <1>3, ReplacedConsistent
<1>5. /\ \A d \in Commands \ {c} : UNCHANGED Locals(d)
      /\ UNCHANGED <<file, pc, job, from, stats, tmp>>
      /\ \A d \in Commands \ {c} : mem'[d] = mem[d]
  BY <1>1 DEF TInv, Shared, Domains, Locals, Handled, Store
<1>6. Consistent(database') /\ Consistent(mem'[c])
  BY <1>1, <1>2, <1>4 DEF TInv, Shared, Domains
<1>7. Sound(c)'
  BY <1>1, <1>5, <1>6 DEF Sound
<1>8. ASSUME NEW d \in Commands, d # c PROVE Sound(d)'
  <2>1. CASE pc[d] = "write"
    <3>1. ~ Alone
      BY <1>1, <1>8, <2>1 DEF Solo, Running
    <3>2. ~ ToDatabase(d)
      BY <1>1, <2>1, <3>1 DEF Undisturbed, FromMemory, TInv, Typed, ToDatabase
    <3> QED
      BY <1>5, <1>8, <3>2 DEF DInv, Sound, ToDatabase
  <2>2. CASE pc[d] # "write"
    BY <1>5, <1>8, <2>2 DEF DInv, Sound
  <2> QED
    BY <2>1, <2>2
<1> QED
  BY <1>5, <1>6, <1>7, <1>8 DEF Data, DInv

\* What is read for the file is the catalogue and the records of one store.
LEMMA SaveData ==
  ASSUME DInv, Undisturbed, NEW c \in Commands, ReadStats(c) \/ Write(c)
  PROVE  Data'
<1>1. /\ TInv /\ Sound(c)
      /\ Consistent(database) /\ IsHeld(database) /\ Consistent(mem[c]) /\ IsHeld(mem[c])
  BY DEF DInv, TInv, Shared, Typed, Sound
<1>2. \A d \in Commands \ {c} : UNCHANGED Locals(d)
  BY <1>1 DEF TInv, Shared, Domains, Locals, Goto, ReadStats, Write
<1>3. UNCHANGED <<database, file, job, mem, from>>
  BY DEF ReadStats, Write
<1>4. Sound(c)'
  <2>1. CASE ReadStats(c)
    <3>1. pc'[c] = "write"
          /\ stats'[c] = IF ToDatabase(c) THEN database.sources ELSE mem[c].sources
      BY <1>1, <2>1 DEF TInv, Shared, Domains, Goto, ReadStats
    <3> QED
      BY <1>1, <1>3, <3>1 DEF Sound, ToDatabase
  <2>2. CASE Write(c)
    <3>1. /\ pc[c] = "write" /\ pc'[c] = "rename"
          /\ tmp'[c] = Snapshot(IF ToDatabase(c) THEN Searched(database.bank) ELSE mem[c].bank, stats[c])
      BY <1>1, <2>2 DEF TInv, Shared, Domains, Goto, Write
    <3>2. \/ Loaded(tmp'[c]) = Held(Searched(database.bank), database.sources)
          \/ Loaded(tmp'[c]) = Held(mem[c].bank, mem[c].sources)
      BY <1>1, <3>1 DEF Sound, Snapshot, Loaded
    <3>3. Consistent(Held(Searched(database.bank), database.sources))
          /\ Consistent(Held(mem[c].bank, mem[c].sources))
      BY <1>1, SearchedOK DEF Consistent, Held
    <3> QED
      BY <1>1, <1>3, <3>1, <3>2, <3>3 DEF Sound
  <2> QED
    BY <2>1, <2>2
<1> QED
  BY <1>2, <1>3, <1>4, LocalSound DEF Data

\* Ending leaves nothing held, and a file as it was or as it was written.
LEMMA EndingData ==
  ASSUME DInv, Undisturbed, NEW c \in Commands,
         \/ DryRun(c) \/ OpenFails(c) \/ StoreFails(c) \/ EndWithoutSave(c)
         \/ Rename(c) \/ SaveFails(c) \/ Crash(c)
  PROVE  Data'
<1>1. TInv /\ Sound(c)
  BY DEF DInv
<1>2. PICK r : End(c, r)
  BY DEF DryRun, OpenFails, StoreFails, EndWithoutSave, Rename, SaveFails, Crash, Fail
<1>3. database' = database /\ (file' = file \/ (pc[c] = "rename" /\ file' = tmp[c]))
  BY DEF DryRun, OpenFails, StoreFails, EndWithoutSave, Rename, SaveFails, Crash, Fail
<1>4. Sound(c)'
  BY <1>1, <1>2, NothingHeldOK DEF TInv, Shared, Domains, End, Goto, Sound
<1>5. ASSUME NEW d \in Commands, d # c PROVE Sound(d)'
  <2>1. UNCHANGED Locals(d)
    BY <1>1, <1>2, <1>5 DEF TInv, Shared, Domains, End, Goto, Locals
  <2> QED
    BY <1>3, <2>1 DEF DInv, Sound, Locals, ToDatabase
<1> QED
  BY <1>1, <1>3, <1>4, <1>5 DEF Data, DInv, Sound

LEMMA StepDInv == DInv /\ [Next]_vars => DInv'
<1> SUFFICES ASSUME DInv, [Next]_vars PROVE DInv'
  OBVIOUS
<1>1. TInv' /\ Solo'
  BY StepTInv, StepSolo DEF DInv
<1>2. ASSUME Undisturbed PROVE Data'
  <2>1. CASE UNCHANGED vars \/ Publish
    BY <1>2, <2>1 DEF DInv, Data, Sound, ToDatabase, Publish, vars, local
  <2>2. ASSUME NEW c \in Commands, Step(c) \/ Crash(c) \/ \E j \in Jobs : Start(c, j) PROVE Data'
    BY <1>2, <2>2, QuietData, OpenData, StoreData, SaveData, EndingData DEF Step
  <2> QED
    BY <2>1, <2>2 DEF Next, Terminated
<1> QED
  BY <1>1, <1>2, UndisturbedBefore DEF DInv, Data

\* Catalogue and records belong together in the database and in every file written
\* from a command's own memory, whatever commands run at once and whatever fails;
\* and in every file at all, if no two commands run at once.
THEOREM LoadingDataConsistent == Spec => []DataConsistent
<1>1. DInv => DataConsistent
  BY DEF DInv, DataConsistent, Undisturbed
<1> QED
  BY <1>1, InitDInv, StepDInv, PTL DEF Spec
-----------------------------------------------------------------------------
\* What a step does to the locals of the command that takes it, one way per
\* action; the rest of the proofs goes by these.
Started(c) ==
  \E j \in Jobs :
    /\ pc[c] = "idle" /\ pc'[c] = "open" /\ job'[c] = j
    /\ j \in OddJobs => "odd file" \in faults
    /\ Alone => \A d \in Commands : ~ Running(d)
    /\ UNCHANGED <<database, file, from[c], mem[c], todo[c], got[c], failed[c], stats[c], tmp[c], result[c]>>

Opens(c) ==
  /\ pc[c] = "open" /\ mem'[c] = Opened(c)
  /\ UNCHANGED <<database, file, job[c], got[c], failed[c], stats[c], tmp[c], result[c]>>
  /\ \/ /\ job[c].op \in {"update", "import"} /\ pc'[c] = "work" /\ from'[c] = from[c]
        /\ todo'[c] = IF job[c].op = "update" THEN job[c].names ELSE {job[c].batch.name}
     \/ /\ job[c].op = "copy" /\ pc'[c] = "work" /\ Loads(Source(job[c].from))
        /\ from'[c] = Loaded(Source(job[c].from)) /\ todo'[c] = DOMAIN from'[c].sources
     \/ job[c].op = "snapshot" /\ pc'[c] = "stats" /\ UNCHANGED <<from[c], todo[c]>>

Fetches(c) ==
  /\ pc[c] = "work" /\ job[c].op = "update" /\ got[c] = {}
  /\ \E n \in todo[c] :
       /\ todo'[c] = todo[c] \ {n}
       /\ \/ got'[c] = {Parcel(Offered(n))} /\ Offered(n).banks # <<>> /\ failed'[c] = failed[c]
          \/ got'[c] = {} /\ failed'[c] = TRUE
  /\ UNCHANGED <<database, file, pc[c], job[c], from[c], mem[c], stats[c], tmp[c], result[c]>>

Stores(c) ==
  /\ pc[c] = "work" /\ got'[c] = {}
  /\ \E p \in Parcels(c) :
       /\ todo'[c] = todo[c] \ {p.name}
       /\ \/ job[c].op = "update" /\ failed'[c] = TRUE /\ UNCHANGED <<database, mem[c]>>
          \/ /\ ~ Refused(c, p) /\ failed'[c] = failed[c]
             /\ \/ job[c].dry /\ UNCHANGED <<database, mem[c]>>
                \/ ~ job[c].dry /\ ToDatabase(c) /\ database' = Replaced(database, p) /\ mem'[c] = mem[c]
                \/ ~ job[c].dry /\ ~ ToDatabase(c) /\ mem'[c] = Replaced(mem[c], p) /\ database' = database
  /\ UNCHANGED <<file, pc[c], job[c], from[c], stats[c], tmp[c], result[c]>>

GoesOn(c) ==
  /\ pc[c] = "work" /\ todo[c] = {} /\ got[c] = {} /\ pc'[c] = "stats"
  /\ UNCHANGED <<database, file, job[c], from[c], mem[c], todo[c], got[c], failed[c], stats[c], tmp[c], result[c]>>

Saving(c) ==
  /\ \/ /\ pc[c] = "stats" /\ pc'[c] = "write" /\ tmp'[c] = tmp[c]
        /\ stats'[c] = IF ToDatabase(c) THEN database.sources ELSE mem[c].sources
     \/ /\ pc[c] = "write" /\ pc'[c] = "rename" /\ stats'[c] = stats[c]
        /\ tmp'[c] = Snapshot(IF ToDatabase(c) THEN Searched(database.bank) ELSE mem[c].bank, stats[c])
  /\ UNCHANGED <<database, file, job[c], from[c], mem[c], todo[c], got[c], failed[c], result[c]>>

Ends(c) ==
  /\ Running(c) /\ pc'[c] = "done" /\ result'[c] \in {"ok", "failed", "killed"}
  /\ from'[c] = NothingHeld /\ mem'[c] = NothingHeld /\ todo'[c] = {} /\ got'[c] = {}
  /\ UNCHANGED <<database, job[c]>>
  /\ \/ result'[c] # "ok" /\ file' = file
     \/ /\ result'[c] = "ok" => job[c].dry \/ ~ failed[c]
        /\ \/ (job[c].dry \/ StoredAll(c)) /\ (job[c].save => job[c].dry) /\ file' = file
           \/ pc[c] = "rename" /\ file' = tmp[c]

Moves(c) ==
  /\ UNCHANGED <<faults, published>>
  /\ \A d \in Commands \ {c} : UNCHANGED Locals(d) /\ failed'[d] = failed[d]
  /\ Started(c) \/ Opens(c) \/ Fetches(c) \/ Stores(c) \/ GoesOn(c) \/ Saving(c) \/ Ends(c)

\* The publishers have offered something.
LEMMA PublishedFacts ==
  ASSUME TInv
  PROVE  published \in Nat /\ published \in 1 .. published
<1>1. DOMAIN Editions = 1 .. Len(Editions) /\ Len(Editions) \in Nat
  BY EditionsAssumption
<1>2. published \in 1 .. Len(Editions)
  BY <1>1 DEF TInv, Shared
<1> QED
  BY <1>1, <1>2

LEMMA OpensMove ==
  ASSUME TInv, NEW c \in Commands, OpenToLoad(c) \/ OpenToCopy(c) \/ OpenToSnapshot(c)
  PROVE  Moves(c)
<1>1. UNCHANGED <<faults, published>>
      /\ \A d \in Commands \ {c} : UNCHANGED Locals(d) /\ failed'[d] = failed[d]
  BY DEF TInv, Shared, Domains, Locals, Goto, OpenToLoad, OpenToCopy, OpenToSnapshot
<1>2. Opens(c)
  BY DEF TInv, Shared, Domains, Goto, OpenToLoad, OpenToCopy, OpenToSnapshot, Opens
<1> QED
  BY <1>1, <1>2 DEF Moves

LEMMA FetchesMove ==
  ASSUME TInv, NEW c \in Commands, Fetch(c) \/ FetchFails(c)
  PROVE  Moves(c)
<1>1. UNCHANGED <<faults, published>>
      /\ \A d \in Commands \ {c} : UNCHANGED Locals(d) /\ failed'[d] = failed[d]
  BY DEF TInv, Shared, Domains, Locals, Fetch, FetchFails
<1>2. Fetches(c)
  BY DEF TInv, Shared, Domains, Fetch, FetchFails, Fetches
<1> QED
  BY <1>1, <1>2 DEF Moves

LEMMA StoresMove ==
  ASSUME TInv, NEW c \in Commands, Store(c) \/ UpdateStoreFails(c)
  PROVE  Moves(c)
<1>1. UNCHANGED <<faults, published>>
      /\ \A d \in Commands \ {c} : UNCHANGED Locals(d) /\ failed'[d] = failed[d]
  BY DEF TInv, Shared, Domains, Locals, Handled, Store, UpdateStoreFails
<1>2. Stores(c)
  <2>1. CASE UpdateStoreFails(c)
    BY <2>1 DEF TInv, Shared, Domains, Handled, UpdateStoreFails, Stores
  <2>2. CASE Store(c)
    <3>1. PICK p \in Parcels(c) :
            /\ ~ Refused(c, p) /\ Handled(c, p)
            /\ \/ job[c].dry /\ UNCHANGED <<database, mem>>
               \/ ~ job[c].dry /\ ToDatabase(c) /\ database' = Replaced(database, p) /\ UNCHANGED mem
               \/ ~ job[c].dry /\ ~ ToDatabase(c)
                  /\ mem' = [mem EXCEPT ![c] = Replaced(@, p)] /\ UNCHANGED database
      BY <2>2 DEF Store
    <3>2. pc[c] = "work" /\ UNCHANGED <<faults, published, file, pc, job, from, failed, stats, tmp, result>>
      BY <2>2 DEF Store
    <3>3. todo'[c] = todo[c] \ {p.name} /\ got'[c] = {}
      BY <3>1 DEF TInv, Shared, Domains, Handled
    <3>4. \/ job[c].dry /\ UNCHANGED <<database, mem[c]>>
          \/ ~ job[c].dry /\ ToDatabase(c) /\ database' = Replaced(database, p) /\ mem'[c] = mem[c]
          \/ ~ job[c].dry /\ ~ ToDatabase(c) /\ mem'[c] = Replaced(mem[c], p) /\ database' = database
      BY <3>1 DEF TInv, Shared, Domains
    <3> QED
      BY <3>1, <3>2, <3>3, <3>4 DEF Stores
  <2> QED
    BY <2>1, <2>2
<1> QED
  BY <1>1, <1>2 DEF Moves

LEMMA SavesMove ==
  ASSUME TInv, NEW c \in Commands, GoOnToSave(c) \/ ReadStats(c) \/ Write(c)
  PROVE  Moves(c)
<1>1. UNCHANGED <<faults, published>>
      /\ \A d \in Commands \ {c} : UNCHANGED Locals(d) /\ failed'[d] = failed[d]
  BY DEF TInv, Shared, Domains, Locals, Goto, GoOnToSave, ReadStats, Write, local
<1>2. GoesOn(c) \/ Saving(c)
  BY DEF TInv, Shared, Domains, Goto, GoOnToSave, StoredAll, ReadStats, Write, local, GoesOn, Saving
<1> QED
  BY <1>1, <1>2 DEF Moves

LEMMA EndingMove ==
  ASSUME TInv, NEW c \in Commands,
         \/ DryRun(c) \/ OpenFails(c) \/ StoreFails(c) \/ EndWithoutSave(c)
         \/ Rename(c) \/ SaveFails(c) \/ Crash(c)
  PROVE  Moves(c)
<1>1. PICK r \in {"ok", "failed", "killed"} :
        /\ End(c, r)
        /\ \/ r # "ok" /\ file' = file
           \/ /\ r = "ok" => job[c].dry \/ ~ failed[c]
              /\ \/ (job[c].dry \/ StoredAll(c)) /\ (job[c].save => job[c].dry) /\ file' = file
                 \/ pc[c] = "rename" /\ file' = tmp[c]
  <2>1. CASE DryRun(c)
    BY <2>1, Zenon DEF DryRun, EndsDry
  <2>2. CASE \/ OpenFails(c) \/ StoreFails(c) \/ EndWithoutSave(c)
             \/ Rename(c) \/ SaveFails(c) \/ Crash(c)
    BY <2>2 DEF OpenFails, StoreFails, EndWithoutSave, Rename, SaveFails, Crash, Fail, Verdict
  <2> QED
    BY <2>1, <2>2
<1>2. /\ Running(c) /\ UNCHANGED <<faults, published, database>>
  BY DEF DryRun, OpenFails, StoreFails, EndWithoutSave, Rename, SaveFails, Crash, Running, StoredAll, Fail
<1>3. \A d \in Commands \ {c} : UNCHANGED Locals(d) /\ failed'[d] = failed[d]
  BY <1>1 DEF TInv, Shared, Domains, End, Goto, Locals
<1>4. /\ pc'[c] = "done" /\ result'[c] = r /\ job'[c] = job[c]
      /\ from'[c] = NothingHeld /\ mem'[c] = NothingHeld /\ todo'[c] = {} /\ got'[c] = {}
  BY <1>1 DEF TInv, Shared, Domains, End, Goto
<1> QED
  BY <1>1, <1>2, <1>3, <1>4 DEF Moves, Ends

\* Every step is a publication, or nothing, or a move of one command.
LEMMA StepMoves ==
  ASSUME TInv, [Next]_vars
  PROVE  \/ UNCHANGED vars
         \/ Publish
         \/ \E c \in Commands : Moves(c)
<1>1. ASSUME NEW c \in Commands, NEW j \in Jobs, Start(c, j) PROVE Moves(c)
  <2>1. UNCHANGED <<faults, published>>
        /\ \A d \in Commands \ {c} : UNCHANGED Locals(d) /\ failed'[d] = failed[d]
    BY <1>1 DEF TInv, Shared, Domains, Locals, Goto, Start
  <2>2. Started(c)
    BY <1>1 DEF TInv, Shared, Domains, Goto, Start, Started, Alone
  <2> QED
    BY <2>1, <2>2 DEF Moves
<1>2. ASSUME NEW c \in Commands, Step(c) \/ Crash(c) PROVE Moves(c)
  BY <1>2, OpensMove, FetchesMove, StoresMove, SavesMove, EndingMove DEF Step
<1> QED
  BY <1>1, <1>2 DEF Next, Terminated

-----------------------------------------------------------------------------
\* Each bank is one source's, of all that ordinary files bring.
Owner == CHOOSE owner \in [Keys -> Names] : Owners(owner)
LEMMA OwnerFacts == Owners(Owner)
BY OwnersAssumption DEF Owner

Mine(bank) == \A k \in DOMAIN bank : bank[k].source = Owner[k]
Claims(p) == \A k \in DOMAIN p.part : Owner[k] = p.name
OwnParcel(p) == TypedParcel(p) /\ \A k \in DOMAIN p.part : p.part[k].source = p.name

\* A parcel that brings what its source was found to have is its own, and is empty
\* only if the batch is.
LEMMA BatchParcel ==
  ASSUME NEW batch \in Batches
  PROVE  /\ OwnParcel(Parcel(batch)) /\ Parcel(batch).name = batch.name
         /\ DOMAIN Parcel(batch).part = Incoming(batch)
         /\ Brings(batch, Owner) => Claims(Parcel(batch))
         /\ batch.banks # <<>> => DOMAIN Parcel(batch).part # {}
<1>1. Parcel(batch).name = batch.name /\ Parcel(batch).part = Overlay(Empty, batch, 1)
  BY DEF Parcel
<1>2. DOMAIN Parcel(batch).part = Incoming(batch)
  BY <1>1 DEF Overlay, Empty, Incoming
<1>3. OwnParcel(Parcel(batch))
  BY ParcelOK DEF IsParcel, OwnParcel, TypedParcel
<1>4. Brings(batch, Owner) => Claims(Parcel(batch))
  BY <1>1, <1>2 DEF Brings, Claims
<1>5. ASSUME batch.banks # <<>> PROVE Incoming(batch) # {}
  <2>1. batch.banks \in Seq(Banks)
    BY BatchesAssumption
  <2>2. Len(batch.banks) \in Nat /\ Len(batch.banks) # 0
    BY <1>5, <2>1
  <2>3. batch.banks[1].key \in Incoming(batch)
    BY <2>2 DEF Incoming, IncomingFrom
  <2> QED
    BY <2>3
<1> QED
  BY <1>1, <1>2, <1>3, <1>4, <1>5

LEMMA CopyParcel ==
  ASSUME NEW h, IsHeld(h), NEW n \in DOMAIN h.sources
  PROVE  /\ OwnParcel(ParcelOf(h, n)) /\ ParcelOf(h, n).name = n
         /\ ParcelOf(h, n).part = PartOf(h, n)
         /\ DOMAIN PartOf(h, n) = Owned(h.bank, n)
         /\ Mine(h.bank) => Claims(ParcelOf(h, n))
<1>1. ParcelOf(h, n).name = n /\ ParcelOf(h, n).part = PartOf(h, n)
  BY DEF ParcelOf
<1>2. /\ DOMAIN PartOf(h, n) = Owned(h.bank, n)
      /\ \A k \in DOMAIN PartOf(h, n) : k \in DOMAIN h.bank /\ PartOf(h, n)[k] = h.bank[k]
      /\ \A k \in DOMAIN PartOf(h, n) : h.bank[k].source = n
  BY DEF PartOf, Restrict, Owned
<1>3. TypedParcel(ParcelOf(h, n))
  BY ParcelOfOK
<1> QED
  BY <1>1, <1>2, <1>3 DEF OwnParcel, Mine, Claims

\* After a Replace the source has what the parcel brought, and another source has
\* what it had, unless the parcel took it.
LEMMA ReplacedParts ==
  ASSUME NEW h, IsHeld(h), NEW p, OwnParcel(p), NEW r, r = Replaced(h, p)
  PROVE  /\ r = Held(r.bank, r.sources)
         /\ \A k : k \in DOMAIN r.bank <=>
                    (k \in DOMAIN h.bank /\ h.bank[k].source # p.name) \/ k \in DOMAIN p.part
         /\ \A k \in DOMAIN r.bank : r.bank[k] = IF k \in DOMAIN p.part THEN p.part[k] ELSE h.bank[k]
         /\ PartOf(r, p.name) = p.part
         /\ \A n : n # p.name /\ (\A k \in DOMAIN p.part : k \notin Owned(h.bank, n)) =>
                     PartOf(r, n) = PartOf(h, n)
<1>1. r = Held(r.bank, r.sources)
  BY DEF Replaced, Held
<1>2. DOMAIN r.bank = {k \in DOMAIN h.bank : h.bank[k].source # p.name} \cup DOMAIN p.part
  BY DEF Replaced, Held, Clear, Restrict, Owned
<1>3. \A k \in DOMAIN r.bank : r.bank[k] = IF k \in DOMAIN p.part THEN p.part[k] ELSE h.bank[k]
  BY DEF Replaced, Held, Clear, Restrict, Owned
<1>4. PartOf(r, p.name) = p.part
  <2>1. Owned(r.bank, p.name) = DOMAIN p.part
    BY <1>2, <1>3 DEF Owned, OwnParcel
  <2>2. PartOf(r, p.name) = [k \in DOMAIN p.part |-> r.bank[k]]
    BY <2>1 DEF PartOf, Restrict
  <2>3. PartOf(r, p.name) = [k \in DOMAIN p.part |-> p.part[k]]
    BY <1>2, <1>3, <2>2
  <2> QED
    BY <2>3 DEF OwnParcel, TypedParcel, IsTable
<1>5. ASSUME NEW n, n # p.name, \A k \in DOMAIN p.part : k \notin Owned(h.bank, n)
      PROVE  PartOf(r, n) = PartOf(h, n)
  <2>1. Owned(r.bank, n) = Owned(h.bank, n)
    BY <1>2, <1>3, <1>5 DEF Owned, OwnParcel
  <2>2. \A k \in Owned(h.bank, n) : r.bank[k] = h.bank[k]
    BY <1>2, <1>3, <1>5, <2>1 DEF Owned
  <2> QED
    BY <2>1, <2>2 DEF PartOf, Restrict
<1> QED
  BY <1>1, <1>2, <1>3, <1>4, <1>5

\* A search that is not cut short finds everything, and one that is, a part.
LEMMA SearchedPart ==
  ASSUME NEW h, IsHeld(h)
  PROVE  /\ Mine(h.bank) => Mine(Searched(h.bank))
         /\ Cardinality(DOMAIN h.bank) <= MaxLimit => Searched(h.bank) = h.bank
<1> DEFINE K == DOMAIN h.bank
<1>1. Searched(h.bank) = [k \in FirstKeys(K, MaxLimit) |-> h.bank[k]]
      /\ FirstKeys(K, MaxLimit) \subseteq K
  BY DEF Searched, Restrict, FirstKeys
<1>2. ASSUME Cardinality(K) <= MaxLimit PROVE FirstKeys(K, MaxLimit) = K
  <2>1. IsFiniteSet(K) /\ Cardinality(K) \in Nat /\ K \subseteq Nat \X Nat
    BY KeysAssumption, TableFacts, FS_Subset, FS_CardinalityType DEF IsHeld
  <2> SUFFICES ASSUME NEW k \in K PROVE Cardinality({l \in K : Before(l, k)}) < MaxLimit
    BY <1>1 DEF FirstKeys
  <2> DEFINE S == {l \in K : Before(l, k)}
  <2>2. S \subseteq K /\ k \notin S
    BY <2>1 DEF Before
  <2> HIDE DEF S, K
  <2>3. S # K
    BY <2>2
  <2>4. Cardinality(S) < Cardinality(K) /\ Cardinality(S) \in Nat
    BY <2>1, <2>2, <2>3, FS_Subset, FS_CardinalityType
  <2> QED
    BY <1>2, <2>1, <2>4, LimitAssumption DEF S
<1>3. h.bank = [k \in K |-> h.bank[k]]
  BY DEF IsHeld, IsTable
<1>4. Mine(h.bank) => Mine(Searched(h.bank))
  BY <1>1 DEF Mine
<1> QED
  BY <1>1, <1>2, <1>3, <1>4

-----------------------------------------------------------------------------
\* The inductive invariant of what is stored: what is fetched is what was offered;
\* the temporary file is the store it was written from; and without odd files no
\* bank is held for another source than its own.
Origin(c) ==
  /\ job[c] \in OddJobs => "odd file" \in faults
  /\ got[c] # {} => pc[c] = "work" /\ job[c].op = "update"
  /\ \A p \in got[c] : \E e \in 1 .. published : \E n \in job[c].names :
       p = Parcel(Editions[e][n]) /\ Editions[e][n].banks # <<>>
  /\ pc[c] = "work" /\ job[c].op = "import" => todo[c] \subseteq {job[c].batch.name}

Faithful(c) ==
  /\ mem[c] = Held(mem[c].bank, mem[c].sources)
  /\ Alone \/ ~ ToDatabase(c) =>
       /\ pc[c] = "write" => stats[c] = Target(c).sources
       /\ pc[c] = "rename" =>
            tmp[c] = Snapshot(IF ToDatabase(c) THEN Searched(database.bank) ELSE mem[c].bank,
                              Target(c).sources)

Owning(c) ==
  "odd file" \notin faults =>
    Mine(mem[c].bank) /\ Mine(from[c].bank) /\ (pc[c] = "rename" => Mine(tmp[c].bank))

OInv ==
  /\ TInv /\ Solo
  /\ database = Held(database.bank, database.sources)
  /\ "odd file" \notin faults => Mine(database.bank) /\ (Loads(file) => Mine(file.bank))
  /\ \A c \in Commands : Origin(c) /\ Faithful(c) /\ Owning(c)

LEMMA NothingFacts ==
  /\ NothingHeld = Held(NothingHeld.bank, NothingHeld.sources)
  /\ DOMAIN NothingHeld.bank = {} /\ DOMAIN NothingHeld.sources = {} /\ Mine(NothingHeld.bank)
<1>1. NothingHeld.bank = Empty /\ NothingHeld.sources = Empty /\ DOMAIN Empty = {}
  BY DEF NothingHeld, Held, Empty
<1> QED
  BY <1>1 DEF NothingHeld, Mine

\* What a command puts into its store.
LEMMA ParcelFacts ==
  ASSUME TInv, NEW c \in Commands, Origin(c), Owning(c), pc[c] = "work", NEW p \in Parcels(c)
  PROVE  /\ OwnParcel(p)
         /\ job[c].op = "update" \/ "odd file" \notin faults => Claims(p)
         /\ job[c].op = "update" =>
              /\ \E e \in 1 .. published : \E n \in job[c].names : p = Parcel(Editions[e][n])
              /\ p.name \in job[c].names /\ p \in got[c] /\ DOMAIN p.part # {}
         /\ job[c].op = "import" =>
              /\ p = Parcel(job[c].batch) /\ p.name = job[c].batch.name
              /\ "odd file" \notin faults => DOMAIN p.part # {}
         /\ job[c].op = "copy" => p.name \in todo[c] /\ p = ParcelOf(from[c], p.name)
<1>1. Typed(c) /\ job[c] \in Jobs /\ published \in DOMAIN Editions
  BY DEF TInv, Shared, Typed
<1>2. CASE job[c].op = "update"
  <2>1. PICK e \in 1 .. published, n \in job[c].names :
          p = Parcel(Editions[e][n]) /\ Editions[e][n].banks # <<>>
    BY <1>2 DEF Parcels, Origin
  <2>2. e \in DOMAIN Editions /\ n \in DOMAIN Editions[e]
    BY <1>1, <1>2, <2>1, EditionsAssumption
  <2>3. Editions[e][n] \in Batches /\ Editions[e][n].name = n /\ Brings(Editions[e][n], Owner)
    BY <2>2, EditionsAssumption, OwnerFacts DEF Owners
  <2> QED
    BY <1>2, <2>1, <2>3, BatchParcel DEF Parcels
<1>3. CASE job[c].op = "import"
  <2>1. p = Parcel(job[c].batch) /\ job[c].batch \in Batches
    BY <1>1, <1>3, JobFacts DEF Parcels
  <2>2. "odd file" \notin faults => Brings(job[c].batch, Owner) /\ job[c].batch.banks # <<>>
    BY <1>1, <1>3, OwnerFacts DEF Owners, Origin
  <2> QED
    BY <1>3, <2>1, <2>2, BatchParcel
<1>4. CASE job[c].op = "copy"
  <2>1. PICK n \in FirstOf(from[c], todo[c]) : p = ParcelOf(from[c], n)
    BY <1>4 DEF Parcels
  <2>2. n \in todo[c] /\ n \in DOMAIN from[c].sources /\ IsHeld(from[c])
    BY <1>1, <1>4, <2>1 DEF FirstOf, Typed
  <2> QED
    BY <1>4, <2>1, <2>2, CopyParcel DEF Owning
<1> QED
  BY <1>1, <1>2, <1>3, <1>4, JobFacts DEF Typed

\* What a command opens belongs to its sources if the file does.
LEMMA OpenedFacts ==
  ASSUME NEW c \in Commands
  PROVE  /\ Opened(c) = Held(Opened(c).bank, Opened(c).sources)
         /\ (Loads(file) => Mine(file.bank)) =>
              /\ Mine(Opened(c).bank)
              /\ \A s : Loads(Source(s)) => Mine(Loaded(Source(s)).bank)
<1>1. ASSUME Loads(Embedded) PROVE Mine(Loaded(Embedded).bank)
  BY <1>1, OwnerFacts DEF Owners, Ordinary, Mine
<1>2. \A f : Loaded(f) = Held(Loaded(f).bank, Loaded(f).sources) /\ Loaded(f).bank = f.bank
  BY DEF Loaded, Held
<1>3. (Loads(file) => Mine(file.bank)) => \A s : Loads(Source(s)) => Mine(Loaded(Source(s)).bank)
  BY <1>1, <1>2 DEF Source
<1> QED
  BY <1>2, <1>3, NothingFacts DEF Opened

LEMMA InitOInv == Init => OInv
<1> SUFFICES ASSUME Init PROVE OInv
  OBVIOUS
<1>1. TInv /\ Solo
  BY InitTInv DEF Init, Solo, Running
<1>2. database = Held(database.bank, database.sources) /\ Mine(database.bank)
  BY DataAssumption, OwnerFacts DEF Init, Owners, Ordinary, Mine
<1>3. Loads(file) => Mine(file.bank)
  BY OwnerFacts DEF Init, Owners, Ordinary, Mine, Loaded, Held
<1>4. ASSUME NEW c \in Commands PROVE Origin(c) /\ Faithful(c) /\ Owning(c)
  <2>1. NoJob \notin OddJobs
    BY JobFacts, JobsAssumption
  <2> QED
    BY <2>1, NothingFacts DEF Init, Origin, Faithful, Owning
<1> QED
  BY <1>1, <1>2, <1>3, <1>4 DEF OInv

\* The command that moves.
LEMMA MoverOInv ==
  ASSUME OInv, NEW c \in Commands, Moves(c)
  PROVE  /\ Origin(c)' /\ Faithful(c)' /\ Owning(c)'
         /\ database' = Held(database'.bank, database'.sources)
         /\ "odd file" \notin faults => Mine(database'.bank) /\ (Loads(file') => Mine(file'.bank))
<1>1. /\ TInv /\ Typed(c) /\ Origin(c) /\ Faithful(c) /\ Owning(c)
      /\ UNCHANGED <<faults, published>> /\ (Alone' <=> Alone)
      /\ database = Held(database.bank, database.sources) /\ IsHeld(database)
      /\ IsHeld(mem[c]) /\ IsHeld(from[c])
      /\ "odd file" \notin faults => Mine(database.bank) /\ (Loads(file) => Mine(file.bank))
  BY DEF OInv, TInv, Shared, Typed, Moves, Alone
<1>2. CASE Started(c)
  BY <1>1, <1>2 DEF Started, Typed, Origin, Faithful, Owning
<1>3. CASE Opens(c)
  <2>1. /\ UNCHANGED <<database, file, job[c], got[c]>> /\ mem'[c] = Opened(c)
        /\ got[c] = {} /\ pc'[c] \in {"work", "stats"}
        /\ from'[c] = from[c] \/ (Loads(Source(job[c].from)) /\ from'[c] = Loaded(Source(job[c].from)))
        /\ job[c].op = "import" => todo'[c] = {job[c].batch.name}
    BY <1>1, <1>3 DEF Opens, Origin
  <2>2. Origin(c)'
    BY <1>1, <2>1 DEF Origin
  <2>3. Faithful(c)' /\ Owning(c)'
    BY <1>1, <2>1, OpenedFacts DEF Faithful, Owning
  <2> QED
    BY <1>1, <2>1, <2>2, <2>3
<1>4. CASE Fetches(c)
  <2>1. /\ UNCHANGED <<database, file, pc[c], job[c], mem[c], from[c], stats[c], tmp[c]>>
        /\ pc[c] = "work" /\ job[c].op = "update"
    BY <1>4 DEF Fetches
  <2>2. Origin(c)'
    <3>1. PICK n \in todo[c] :
            got'[c] = {} \/ (got'[c] = {Parcel(Offered(n))} /\ Offered(n).banks # <<>>)
      BY <1>4 DEF Fetches
    <3>2. n \in job[c].names
      BY <1>1, <2>1, <3>1 DEF Typed
    <3>3. published \in 1 .. published /\ UNCHANGED <<published, job[c], pc[c]>>
      BY <1>1, <2>1, PublishedFacts
    <3>4. \A p \in got'[c] : \E e \in 1 .. published : \E m \in job[c].names :
            p = Parcel(Editions[e][m]) /\ Editions[e][m].banks # <<>>
      BY <3>1, <3>2, <3>3 DEF Offered
    <3> QED
      BY <1>1, <2>1, <3>3, <3>4 DEF Origin
  <2> QED
    BY <1>1, <2>1, <2>2 DEF Faithful, Owning
<1>5. CASE Stores(c)
  <2>1. PICK p \in Parcels(c) :
          /\ database' = database \/ database' = Replaced(database, p)
          /\ mem'[c] = mem[c] \/ mem'[c] = Replaced(mem[c], p)
    BY <1>5 DEF Stores
  <2>2. /\ UNCHANGED <<file, pc[c], job[c], from[c], stats[c], tmp[c]>>
        /\ pc[c] = "work" /\ got'[c] = {} /\ todo'[c] \subseteq todo[c]
    BY <1>5 DEF Stores
  <2>3. OwnParcel(p) /\ ("odd file" \notin faults => Claims(p))
    BY <1>1, <2>2, ParcelFacts
  <2>4. ASSUME NEW h, IsHeld(h)
        PROVE  /\ Replaced(h, p) = Held(Replaced(h, p).bank, Replaced(h, p).sources)
               /\ "odd file" \notin faults /\ Mine(h.bank) => Mine(Replaced(h, p).bank)
    <3>1. ASSUME NEW r, r = Replaced(h, p)
          PROVE  /\ r = Held(r.bank, r.sources)
                 /\ "odd file" \notin faults /\ Mine(h.bank) => Mine(r.bank)
      <4>1. OwnParcel(p)
        BY <2>3
      <4>2. r = Held(r.bank, r.sources)
        BY <2>4, <3>1, <4>1, ReplacedParts
      <4>3. \A k : k \in DOMAIN r.bank <=>
                     (k \in DOMAIN h.bank /\ h.bank[k].source # p.name) \/ k \in DOMAIN p.part
        BY <2>4, <3>1, <4>1, ReplacedParts
      <4>4. \A k \in DOMAIN r.bank : r.bank[k] = IF k \in DOMAIN p.part THEN p.part[k] ELSE h.bank[k]
        BY <2>4, <3>1, <4>1, ReplacedParts
      <4> QED
        BY <2>3, <4>2, <4>3, <4>4 DEF Mine, Claims, OwnParcel
    <3> QED
      BY <3>1
  <2>5. Origin(c)'
    BY <1>1, <2>2 DEF Origin
  <2>6. Faithful(c)' /\ Owning(c)'
    BY <1>1, <2>1, <2>2, <2>4 DEF Faithful, Owning
  <2> QED
    BY <1>1, <2>1, <2>2, <2>4, <2>5, <2>6
<1>6. CASE GoesOn(c)
  BY <1>1, <1>6 DEF GoesOn, Origin, Faithful, Owning
<1>7. CASE Saving(c)
  <2>1. UNCHANGED <<database, file, job[c], mem[c], from[c], got[c]>>
        /\ pc[c] # "work" /\ pc'[c] # "work"
    BY <1>7 DEF Saving
  <2>2. Origin(c)'
    BY <1>1, <2>1 DEF Origin
  <2>3. CASE pc[c] = "stats"
    BY <1>1, <1>7, <2>1, <2>2, <2>3 DEF Saving, Faithful, Owning, Target, ToDatabase
  <2>4. CASE pc[c] = "write"
    <3>1. /\ pc'[c] = "rename"
          /\ tmp'[c] = Snapshot(IF ToDatabase(c) THEN Searched(database.bank) ELSE mem[c].bank, stats[c])
      BY <1>7, <2>4 DEF Saving
    <3>2. Faithful(c)'
      BY <1>1, <2>1, <2>4, <3>1 DEF Faithful, Target, ToDatabase
    <3>3. tmp'[c].bank = IF ToDatabase(c) THEN Searched(database.bank) ELSE mem[c].bank
      BY <3>1 DEF Snapshot
    <3>4. Mine(database.bank) => Mine(Searched(database.bank))
      BY <1>1, SearchedPart
    <3>5. Owning(c)'
      BY <1>1, <2>1, <3>3, <3>4 DEF Owning
    <3> QED
      BY <1>1, <2>1, <2>2, <3>2, <3>5
  <2> QED
    BY <1>7, <2>3, <2>4 DEF Saving
<1>8. CASE Ends(c)
  <2>1. /\ database' = database /\ job'[c] = job[c] /\ pc'[c] = "done"
        /\ from'[c] = NothingHeld /\ mem'[c] = NothingHeld /\ got'[c] = {}
        /\ file' = file \/ (pc[c] = "rename" /\ file' = tmp[c])
    BY <1>8 DEF Ends
  <2>2. Origin(c)' /\ Faithful(c)' /\ Owning(c)'
    BY <1>1, <2>1, NothingFacts DEF Origin, Faithful, Owning
  <2> QED
    BY <1>1, <2>1, <2>2 DEF Owning
<1> QED
  BY <1>2, <1>3, <1>4, <1>5, <1>6, <1>7, <1>8 DEF Moves

\* Another command holds what it held; its store is the database, and changes, only
\* if the two overlap.
LEMMA StoreStays ==
  ASSUME TInv, Solo, NEW c \in Commands, Moves(c), NEW d \in Commands, d # c,
         Alone, Running(d)
  PROVE  database' = database /\ file' = file
<1>1. ~ Running(c)
  BY DEF Solo
<1>2. Started(c)
  BY <1>1 DEF Moves, Running, Opens, Fetches, Stores, GoesOn, Saving, Ends
<1> QED
  BY <1>2 DEF Started

LEMMA OtherOInv ==
  ASSUME OInv, NEW c \in Commands, Moves(c), NEW d \in Commands, d # c
  PROVE  Origin(d)' /\ Faithful(d)' /\ Owning(d)'
<1>1. /\ TInv /\ Solo /\ Origin(d) /\ Faithful(d) /\ Owning(d)
      /\ UNCHANGED <<faults, published, pc[d], job[d], from[d], mem[d], todo[d], got[d], stats[d], tmp[d]>>
      /\ Alone' <=> Alone
  BY DEF OInv, Moves, Locals, Alone
<1>2. Origin(d)' /\ Owning(d)'
  BY <1>1 DEF Origin, Owning
<1>3. Faithful(d)'
  <2>1. CASE Alone /\ Running(d)
    BY <1>1, <2>1, StoreStays DEF Faithful, Target, ToDatabase
  <2>2. CASE ~ Running(d)
    BY <1>1, <2>2 DEF Faithful, Running
  <2>3. CASE ~ Alone
    BY <1>1, <2>3 DEF Faithful, Target, ToDatabase
  <2> QED
    BY <2>1, <2>2, <2>3
<1> QED
  BY <1>2, <1>3

LEMMA StepOInv == OInv /\ [Next]_vars => OInv'
<1> SUFFICES ASSUME OInv, [Next]_vars PROVE OInv'
  OBVIOUS
<1>1. TInv' /\ Solo'
  BY StepTInv, StepSolo DEF OInv
<1>2. ASSUME NEW c \in Commands, Moves(c) PROVE OInv'
  BY <1>1, <1>2, MoverOInv, OtherOInv DEF OInv, Moves
<1>3. ASSUME UNCHANGED vars \/ Publish PROVE OInv'
  <2>1. UNCHANGED <<faults, file, database, pc, job, from, mem, todo, got, stats, tmp>>
    BY <1>3 DEF Publish, vars, local
  <2>2. published' = published \/ published' = published + 1
    BY <1>3 DEF Publish, vars
  <2>3. \A e \in 1 .. published : e \in 1 .. published'
    <3>1. published \in Nat
      BY PublishedFacts DEF OInv
    <3> QED
      BY <2>2, <3>1
  <2>4. ASSUME NEW c \in Commands PROVE Origin(c)' /\ Faithful(c)' /\ Owning(c)'
    <3>1. Origin(c) /\ Faithful(c) /\ Owning(c)
      BY DEF OInv
    <3>2. Origin(c)'
      BY <2>1, <2>3, <3>1 DEF Origin
    <3>3. Faithful(c)'
      BY <2>1, <3>1 DEF Faithful, Alone, Target, ToDatabase
    <3>4. Owning(c)'
      BY <2>1, <3>1 DEF Owning
    <3> QED
      BY <3>2, <3>3, <3>4
  <2> QED
    BY <1>1, <2>1, <2>4 DEF OInv
<1> QED
  BY <1>2, <1>3, StepMoves DEF OInv

-----------------------------------------------------------------------------
\* The inductive invariant of sources with records: every source listed in the
\* database, in the file and in what a command holds has some.
Stocked(c) ==
  /\ NoSourceEmpty(mem[c]) /\ NoSourceEmpty(from[c])
  /\ pc[c] = "rename" => NoSourceEmpty(Loaded(tmp[c]))

Stock == NoSourceEmpty(database) /\ (Loads(file) => NoSourceEmpty(Loaded(file)))

NInv ==
  /\ OInv
  /\ "odd file" \notin faults /\ FromMemory => Stock /\ \A c \in Commands : Stocked(c)

\* A parcel takes from no other source what that source had.
LEMMA ReplacedStocked ==
  ASSUME NEW h, IsHeld(h), Mine(h.bank), NoSourceEmpty(h),
         NEW p, OwnParcel(p), Claims(p), DOMAIN p.part # {}, NEW r, r = Replaced(h, p)
  PROVE  NoSourceEmpty(r)
<1>1. \A k : k \in DOMAIN r.bank <=>
               (k \in DOMAIN h.bank /\ h.bank[k].source # p.name) \/ k \in DOMAIN p.part
  BY ReplacedParts
<1>2. \A k \in DOMAIN r.bank : r.bank[k] = IF k \in DOMAIN p.part THEN p.part[k] ELSE h.bank[k]
  BY ReplacedParts
<1>3. DOMAIN r.sources = DOMAIN h.sources \cup {p.name}
  BY ReplacedSources DEF OwnParcel
<1>4. ASSUME NEW n \in DOMAIN r.sources PROVE Owned(r.bank, n) # {}
  <2>1. CASE n = p.name
    BY <1>1, <1>2, <2>1 DEF Owned, OwnParcel
  <2>2. CASE n # p.name
    <3>1. PICK k \in DOMAIN h.bank : h.bank[k].source = n
      BY <1>3, <1>4, <2>2 DEF NoSourceEmpty, Owned
    <3>2. k \notin DOMAIN p.part
      BY <2>2, <3>1 DEF Mine, Claims
    <3> QED
      BY <1>1, <1>2, <2>2, <3>1, <3>2 DEF Owned
  <2> QED
    BY <2>1, <2>2
<1> QED
  BY <1>4 DEF NoSourceEmpty

LEMMA NothingStocked == NoSourceEmpty(NothingHeld)
BY NothingFacts DEF NoSourceEmpty

\* What a command opens has records for its sources if the file does.
LEMMA OpenedStocked ==
  ASSUME Loads(file) => NoSourceEmpty(Loaded(file)), NEW c \in Commands
  PROVE  /\ NoSourceEmpty(Opened(c))
         /\ \A s : Loads(Source(s)) => NoSourceEmpty(Loaded(Source(s)))
<1>1. \A s : Loads(Source(s)) => NoSourceEmpty(Loaded(Source(s)))
  BY OwnerFacts DEF Source, Owners, Ordinary
<1> QED
  BY <1>1, NothingStocked DEF Opened

\* A command keeps its job, so one that saves from its memory did before.
LEMMA FromMemoryBefore ==
  ASSUME TInv, NEW c \in Commands, Moves(c), FromMemory' PROVE FromMemory
<1>1. ASSUME NEW d \in Commands, job[d] # NoJob PROVE job'[d] = job[d]
  <2>1. pc[d] # "idle"
    BY <1>1 DEF TInv, Typed
  <2>2. CASE d = c
    BY <2>1, <2>2 DEF Moves, Started, Opens, Fetches, Stores, GoesOn, Saving, Ends
  <2>3. CASE d # c
    BY <2>3 DEF Moves, Locals
  <2> QED
    BY <2>2, <2>3
<1> QED
  BY <1>1 DEF FromMemory, Saves

\* A file that is written from the memory loads as what is held there.
LEMMA WrittenStocked ==
  ASSUME NEW c \in Commands, tmp'[c] = Snapshot(mem[c].bank, mem[c].sources),
         NoSourceEmpty(mem[c])
  PROVE  NoSourceEmpty(Loaded(tmp'[c]))
<1>1. Loaded(tmp'[c]) = Held(mem[c].bank, mem[c].sources)
  BY DEF Loaded, Snapshot, Held
<1>2. Held(mem[c].bank, mem[c].sources).bank = mem[c].bank
      /\ Held(mem[c].bank, mem[c].sources).sources = mem[c].sources
  BY DEF Held
<1> QED
  BY <1>1, <1>2 DEF NoSourceEmpty

LEMMA MoverStocked ==
  ASSUME OInv, NEW c \in Commands, Moves(c), "odd file" \notin faults, FromMemory,
         Stock, Stocked(c)
  PROVE  Stock' /\ Stocked(c)'
<1>1. /\ TInv /\ Typed(c) /\ Origin(c) /\ Faithful(c) /\ Owning(c)
      /\ IsHeld(database) /\ IsHeld(mem[c]) /\ IsHeld(from[c])
      /\ Mine(database.bank) /\ Mine(mem[c].bank)
  BY DEF OInv, TInv, Shared, Typed, Owning
<1>2. CASE Started(c)
  BY <1>1, <1>2 DEF Started, Stock, Stocked
<1>3. CASE Opens(c)
  <2>1. /\ UNCHANGED <<database, file>> /\ mem'[c] = Opened(c) /\ pc'[c] # "rename"
        /\ from'[c] = from[c] \/ (Loads(Source(job[c].from)) /\ from'[c] = Loaded(Source(job[c].from)))
    BY <1>3 DEF Opens
  <2> QED
    BY <2>1, OpenedStocked DEF Stock, Stocked
<1>4. CASE Fetches(c)
  BY <1>4 DEF Fetches, Stock, Stocked
<1>5. CASE Stores(c)
  <2>1. PICK p \in Parcels(c) :
          /\ database' = database \/ database' = Replaced(database, p)
          /\ mem'[c] = mem[c] \/ mem'[c] = Replaced(mem[c], p)
    BY <1>5 DEF Stores
  <2>2. UNCHANGED <<file, pc[c], from[c]>> /\ pc[c] = "work"
    BY <1>5 DEF Stores
  <2>3. OwnParcel(p) /\ Claims(p)
    BY <1>1, <2>2, ParcelFacts
  <2>4. DOMAIN p.part # {}
    <3>1. CASE job[c].op = "copy"
      <4>1. p.name \in todo[c] /\ p = ParcelOf(from[c], p.name)
        BY <1>1, <2>2, <3>1, ParcelFacts
      <4>2. p.name \in DOMAIN from[c].sources
        BY <1>1, <2>2, <3>1, <4>1 DEF Typed
      <4>3. DOMAIN p.part = Owned(from[c].bank, p.name)
        <5>1. ParcelOf(from[c], p.name).part = PartOf(from[c], p.name)
              /\ DOMAIN PartOf(from[c], p.name) = Owned(from[c].bank, p.name)
          BY <1>1, <4>2, CopyParcel
        <5> QED
          BY <4>1, <5>1
      <4> QED
        BY <4>2, <4>3 DEF Stocked, NoSourceEmpty
    <3>2. CASE job[c].op \in {"update", "import"}
      BY <1>1, <2>2, <3>2, ParcelFacts
    <3> QED
      BY <1>1, <2>2, <3>1, <3>2, JobFacts DEF Typed
  <2>5. NoSourceEmpty(Replaced(database, p)) /\ NoSourceEmpty(Replaced(mem[c], p))
    BY <1>1, <2>3, <2>4, ReplacedStocked DEF Stock, Stocked
  <2> QED
    BY <2>1, <2>2, <2>5 DEF Stock, Stocked
<1>6. CASE GoesOn(c)
  BY <1>6 DEF GoesOn, Stock, Stocked
<1>7. CASE Saving(c)
  <2>1. UNCHANGED <<database, file, mem[c], from[c]>>
    BY <1>7 DEF Saving
  <2>2. CASE pc[c] = "stats"
    BY <1>7, <2>1, <2>2 DEF Saving, Stock, Stocked
  <2>3. CASE pc[c] = "write"
    <3>1. ~ ToDatabase(c)
      BY <1>1, <2>3 DEF Typed, FromMemory, ToDatabase
    <3>2. tmp'[c] = Snapshot(mem[c].bank, mem[c].sources)
      BY <1>1, <1>7, <2>3, <3>1 DEF Saving, Faithful, Target
    <3>3. NoSourceEmpty(Loaded(tmp'[c]))
      BY <3>2, WrittenStocked DEF Stocked
    <3> QED
      BY <2>1, <3>3 DEF Stock, Stocked
  <2> QED
    BY <1>7, <2>2, <2>3 DEF Saving
<1>8. CASE Ends(c)
  BY <1>8, NothingStocked DEF Ends, Stock, Stocked
<1> QED
  BY <1>2, <1>3, <1>4, <1>5, <1>6, <1>7, <1>8 DEF Moves

LEMMA InitNInv == Init => NInv
<1> SUFFICES ASSUME Init PROVE NInv
  OBVIOUS
<1>1. Stock
  BY OwnerFacts DEF Init, Stock, Owners, Ordinary
<1>2. \A c \in Commands : Stocked(c)
  BY NothingStocked DEF Init, Stocked
<1> QED
  BY <1>1, <1>2, InitOInv DEF NInv

LEMMA StepNInv == NInv /\ [Next]_vars => NInv'
<1> SUFFICES ASSUME NInv, [Next]_vars PROVE NInv'
  OBVIOUS
<1>1. OInv' /\ OInv /\ TInv
  BY StepOInv DEF NInv, OInv
<1>2. ASSUME NEW c \in Commands, Moves(c) PROVE NInv'
  <2> SUFFICES ASSUME "odd file" \notin faults', FromMemory'
               PROVE  Stock' /\ \A d \in Commands : Stocked(d)'
    BY <1>1 DEF NInv
  <2>1. "odd file" \notin faults /\ FromMemory
    BY <1>1, <1>2, FromMemoryBefore DEF Moves
  <2>2. Stock /\ \A d \in Commands : Stocked(d)
    BY <2>1 DEF NInv
  <2>3. \A d \in Commands \ {c} : Stocked(d)'
    BY <1>2, <2>2 DEF Moves, Locals, Stocked
  <2> QED
    BY <1>1, <1>2, <2>1, <2>2, <2>3, MoverStocked
<1>3. ASSUME UNCHANGED vars \/ Publish PROVE NInv'
  <2>1. UNCHANGED <<faults, file, database, pc, job, from, mem, tmp>>
    BY <1>3 DEF Publish, vars, local
  <2> QED
    BY <1>1, <2>1 DEF NInv, FromMemory, Saves, Stock, Stocked
<1> QED
  BY <1>1, <1>2, <1>3, StepMoves

\* As long as no odd file is imported, and files are written from a command's own
\* memory, every source that the database or a snapshot file lists has records,
\* whatever commands run at once and whatever fails.
THEOREM LoadingNoSourceLost == Spec => []NoSourceLost
<1>1. NInv => NoSourceLost
  BY DEF NInv, Stock, NoSourceLost
<1> QED
  BY <1>1, InitNInv, StepNInv, PTL DEF Spec

-----------------------------------------------------------------------------
\* The inductive invariant of what is left alone: a command that started from the
\* file still has the file's records of every source it was not asked for.
Keeping(c) ==
  /\ Alone /\ "odd file" \notin faults
  /\ pc[c] \in {"work", "stats", "write", "rename"}
  /\ job[c].store = "file" /\ job[c].op \in {"update", "import"} /\ Loads(file)
  => SameSources(Loaded(file), mem[c], Asked(c))

KInv == OInv /\ \A c \in Commands : Keeping(c)

\* A Replace of one source changes no other.
LEMMA ReplacedKeeps ==
  ASSUME NEW h, IsHeld(h), Mine(h.bank), NEW p, OwnParcel(p), Claims(p), NEW n, n # p.name
  PROVE  PartOf(Replaced(h, p), n) = PartOf(h, n)
<1>1. \A k \in DOMAIN p.part : k \notin Owned(h.bank, n)
  BY DEF Mine, Claims, Owned
<1>2. ASSUME NEW r, r = Replaced(h, p) PROVE PartOf(r, n) = PartOf(h, n)
  BY <1>1, <1>2, ReplacedParts
<1> QED
  BY <1>2

LEMMA MoverKeeping ==
  ASSUME OInv, NEW c \in Commands, Moves(c), Keeping(c)
  PROVE  Keeping(c)'
<1>1. /\ TInv /\ Typed(c) /\ Origin(c) /\ Owning(c) /\ IsHeld(mem[c])
      /\ UNCHANGED faults /\ (Alone' <=> Alone)
  BY DEF OInv, TInv, Typed, Moves, Alone
<1>2. CASE Started(c) \/ Ends(c)
  BY <1>2 DEF Started, Ends, Keeping
<1>3. CASE Opens(c)
  <2>1. UNCHANGED <<file, job[c]>> /\ mem'[c] = Opened(c)
    BY <1>3 DEF Opens
  <2>2. job[c].store = "file" /\ Loads(file) => Opened(c) = Loaded(file)
    BY DEF Opened, ToDatabase, Source
  <2> QED
    BY <2>1, <2>2 DEF Keeping, SameSources
<1>4. CASE Fetches(c) \/ GoesOn(c) \/ Saving(c)
  <2>1. /\ UNCHANGED <<file, job[c], mem[c]>>
        /\ pc[c] \in {"work", "stats", "write", "rename"}
    BY <1>4 DEF Fetches, GoesOn, Saving
  <2> QED
    BY <1>1, <2>1 DEF Keeping, Asked
<1>5. CASE Stores(c)
  <2>1. PICK p \in Parcels(c) : mem'[c] = mem[c] \/ mem'[c] = Replaced(mem[c], p)
    BY <1>5 DEF Stores
  <2>2. UNCHANGED <<file, pc[c], job[c]>> /\ pc[c] = "work"
    BY <1>5 DEF Stores
  <2>3. OwnParcel(p) /\ ("odd file" \notin faults => Claims(p))
    BY <1>1, <2>2, ParcelFacts
  <2> SUFFICES ASSUME Alone, "odd file" \notin faults, job[c].store = "file",
                      job[c].op \in {"update", "import"}, Loads(file),
                      NEW n \in DOMAIN Loaded(file).sources \ Asked(c)
               PROVE  PartOf(mem'[c], n) = PartOf(Loaded(file), n)
    BY <1>1, <2>2 DEF Keeping, SameSources, Asked
  <2>4. PartOf(mem[c], n) = PartOf(Loaded(file), n)
    BY <2>2 DEF Keeping, SameSources
  <2>5. n # p.name
    BY <1>1, <2>2, ParcelFacts DEF Asked
  <2>6. PartOf(Replaced(mem[c], p), n) = PartOf(mem[c], n)
    <3>1. OwnParcel(p) /\ Claims(p) /\ IsHeld(mem[c]) /\ Mine(mem[c].bank)
      BY <1>1, <2>3 DEF Owning
    <3> QED
      BY <2>5, <3>1, ReplacedKeeps
  <2> QED
    BY <2>1, <2>4, <2>6
<1> QED
  BY <1>2, <1>3, <1>4, <1>5 DEF Moves

LEMMA InitKInv == Init => KInv
<1>1. Init => \A c \in Commands : Keeping(c)
  BY DEF Init, Keeping
<1> QED
  BY <1>1, InitOInv DEF KInv

LEMMA StepKInv == KInv /\ [Next]_vars => KInv'
<1> SUFFICES ASSUME KInv, [Next]_vars PROVE KInv'
  OBVIOUS
<1>1. OInv' /\ OInv /\ TInv /\ Solo
  BY StepOInv DEF KInv, OInv
<1>2. ASSUME NEW c \in Commands, Moves(c) PROVE KInv'
  <2>1. ASSUME NEW d \in Commands, d # c PROVE Keeping(d)'
    <3>1. UNCHANGED <<faults, pc[d], job[d], mem[d]>> /\ (Alone' <=> Alone)
      BY <1>2, <2>1 DEF Moves, Locals, Alone
    <3>2. Alone /\ Running(d) => file' = file
      BY <1>1, <1>2, <2>1, StoreStays
    <3> QED
      BY <3>1, <3>2 DEF KInv, Keeping, Asked, Running
  <2> QED
    BY <1>1, <1>2, <2>1, MoverKeeping DEF KInv
<1>3. ASSUME UNCHANGED vars \/ Publish PROVE KInv'
  <2>1. UNCHANGED <<faults, file, pc, job, mem>>
    BY <1>3 DEF Publish, vars, local
  <2> QED
    BY <1>1, <2>1 DEF KInv, Keeping, Asked, Alone
<1> QED
  BY <1>1, <1>2, <1>3, StepMoves

\* update and import with a data file change the sources they were asked for and
\* no other, in every file they write while no other command runs.
THEOREM LoadingOthersKept == Spec => OthersKept
<1>1. ASSUME KInv, [Next]_vars, NEW c \in Commands,
             Alone, "odd file" \notin faults, job[c] # NoJob, job[c].store = "file"
      PROVE  KeepsOthers(c)
  <2> SUFFICES ASSUME pc[c] = "rename", result'[c] \in {"ok", "failed"},
                      job[c].op \in {"update", "import"}, Loads(file)
               PROVE  SameSources(Loaded(file), Loaded(file'), Asked(c))
    BY DEF KeepsOthers
  <2>1. SameSources(Loaded(file), mem[c], Asked(c))
    BY <1>1 DEF KInv, Keeping
  <2>2. Loaded(tmp[c]).bank = mem[c].bank
    <3>1. tmp[c] = Snapshot(mem[c].bank, mem[c].sources)
      BY <1>1 DEF KInv, OInv, Faithful, Target, ToDatabase
    <3> QED
      BY <3>1 DEF Loaded, Snapshot, Held
  <2>3. file' = file \/ file' = tmp[c]
    <3>1. result[c] = "none"
      BY <1>1 DEF KInv, OInv, TInv, Shared, Typed
    <3>2. ~ UNCHANGED vars /\ ~ Publish
      BY <3>1 DEF vars, local, Publish
    <3>3. ASSUME NEW d \in Commands, Moves(d) PROVE file' = file \/ file' = tmp[c]
      <4>1. CASE d = c
        BY <3>3, <4>1 DEF Moves, Started, Opens, Fetches, Stores, GoesOn, Saving, Ends, StoredAll
      <4>2. CASE d # c
        BY <1>1, <3>3, <4>2, StoreStays DEF KInv, OInv, Running
      <4> QED
        BY <4>1, <4>2
    <3> QED
      BY <1>1, <3>2, <3>3, StepMoves DEF KInv, OInv
  <2>4. SameSources(Loaded(file), Loaded(tmp[c]), Asked(c))
    BY <2>1, <2>2 DEF SameSources, PartOf
  <2>5. SameSources(Loaded(file), Loaded(file), Asked(c))
    BY DEF SameSources
  <2> QED
    BY <2>3, <2>4, <2>5
<1>2. KInv /\ [Next]_vars =>
        [\A c \in Commands :
           Alone /\ "odd file" \notin faults /\ job[c] # NoJob /\ job[c].store = "file" =>
             KeepsOthers(c)]_vars
  BY <1>1
<1> QED
  BY <1>2, InitKInv, StepKInv, PTL DEF Spec, OthersKept

-----------------------------------------------------------------------------
\* The inductive invariant of what is asked: every source a command was asked for is
\* still to come, or fetched, or in the store as it was wanted.
Due(c) ==
  CASE job[c].op = "update" -> job[c].names
    [] job[c].op = "import" -> {job[c].batch.name}
    [] job[c].op = "copy" -> DOMAIN from[c].sources
    [] OTHER -> {}

Delivered(c, n) == \E q \in Wanted(c) : q.name = n /\ Holds(Target(c), q)

Active(c) == pc[c] \in {"work", "stats", "write", "rename"}

Delivering(c) ==
  /\ pc[c] # "work" => todo[c] = {} /\ got[c] = {}
  /\ \A p, q \in got[c] : p = q
  /\ Alone /\ Active(c) /\ ~ failed[c] /\ ~ job[c].dry =>
       \A n \in Due(c) : n \in todo[c] \/ (\E p \in got[c] : p.name = n) \/ Delivered(c, n)

SInv == OInv /\ \A c \in Commands : Delivering(c)

\* What is wanted of a command: parcels of the sources it was asked for, of which no
\* two bring the same bank.
LEMMA WantedFacts ==
  ASSUME TInv, NEW c \in Commands, pc[c] # "idle", NEW p \in Wanted(c)
  PROVE  /\ OwnParcel(p) /\ p.name \in Due(c)
         /\ \A q \in Wanted(c) : q.name # p.name => \A k \in DOMAIN p.part : k \notin DOMAIN q.part
<1>1. Typed(c) /\ job[c] \in Jobs /\ IsHeld(from[c])
  BY DEF TInv, Typed
<1>2. CASE job[c].op = "update"
  <2>1. ASSUME NEW q \in Wanted(c)
        PROVE  OwnParcel(q) /\ Claims(q) /\ q.name \in job[c].names
    <3>1. PICK e \in 1 .. published, n \in job[c].names : q = Parcel(Editions[e][n])
      BY <1>2, <2>1 DEF Wanted
    <3>2. e \in DOMAIN Editions
      <4>1. DOMAIN Editions = 1 .. Len(Editions) /\ Len(Editions) \in Nat /\ published \in Nat
        BY EditionsAssumption, PublishedFacts
      <4>2. published \in 1 .. Len(Editions)
        BY <4>1 DEF TInv, Shared
      <4> QED
        BY <3>1, <4>1, <4>2
    <3>3. n \in DOMAIN Editions[e]
      BY <1>1, <1>2, <3>1, <3>2, EditionsAssumption
    <3>4. Editions[e][n] \in Batches /\ Editions[e][n].name = n /\ Brings(Editions[e][n], Owner)
      BY <3>2, <3>3, EditionsAssumption, OwnerFacts DEF Owners
    <3> QED
      BY <3>1, <3>4, BatchParcel
  <2> QED
    BY <1>2, <2>1 DEF Claims, Due
<1>3. CASE job[c].op = "import"
  <2>1. Wanted(c) = {Parcel(job[c].batch)} /\ job[c].batch \in Batches
    BY <1>1, <1>3, JobFacts DEF Wanted
  <2> QED
    BY <1>3, <2>1, BatchParcel DEF Due
<1>4. CASE job[c].op = "copy"
  <2>1. ASSUME NEW q \in Wanted(c)
        PROVE  /\ OwnParcel(q) /\ q.name \in DOMAIN from[c].sources
               /\ \A k \in DOMAIN q.part : from[c].bank[k].source = q.name
    <3>1. PICK n \in DOMAIN from[c].sources : q = ParcelOf(from[c], n)
      BY <1>4, <2>1 DEF Wanted
    <3>2. OwnParcel(ParcelOf(from[c], n)) /\ ParcelOf(from[c], n).name = n
          /\ DOMAIN ParcelOf(from[c], n).part = Owned(from[c].bank, n)
      <4>1. /\ OwnParcel(ParcelOf(from[c], n)) /\ ParcelOf(from[c], n).name = n
            /\ ParcelOf(from[c], n).part = PartOf(from[c], n)
            /\ DOMAIN PartOf(from[c], n) = Owned(from[c].bank, n)
        BY <1>1, <3>1, CopyParcel
      <4> QED
        BY <4>1
    <3> QED
      BY <3>1, <3>2 DEF Owned
  <2> QED
    BY <1>4, <2>1 DEF Due
<1>5. job[c].op = "snapshot" => Wanted(c) = {}
  BY DEF Wanted
<1> QED
  BY <1>1, <1>2, <1>3, <1>4, <1>5, JobFacts

\* What is put into the store is wanted.
LEMMA ParcelWanted ==
  ASSUME TInv, NEW c \in Commands, Origin(c), Owning(c), pc[c] = "work", NEW p \in Parcels(c)
  PROVE  p \in Wanted(c)
<1>1. Typed(c) /\ job[c] \in Jobs
  BY DEF TInv, Typed
<1>2. CASE job[c].op = "update"
  <2>1. \E e \in 1 .. published : \E n \in job[c].names : p = Parcel(Editions[e][n])
    BY <1>2, ParcelFacts
  <2> QED
    BY <1>2, <2>1 DEF Wanted
<1>3. CASE job[c].op = "import"
  <2>1. p = Parcel(job[c].batch)
    BY <1>3, ParcelFacts
  <2> QED
    BY <1>3, <2>1 DEF Wanted
<1>4. CASE job[c].op = "copy"
  <2>1. p.name \in todo[c] /\ p = ParcelOf(from[c], p.name)
    BY <1>4, ParcelFacts
  <2>2. p.name \in DOMAIN from[c].sources
    BY <1>1, <1>4, <2>1 DEF Typed
  <2> QED
    BY <1>4, <2>1, <2>2 DEF Wanted
<1> QED
  BY <1>1, <1>2, <1>3, <1>4, JobFacts DEF Typed

\* A Replace puts its parcel in, and leaves in what another parcel has put there.
LEMMA ReplacedHolds ==
  ASSUME NEW h, IsHeld(h), NEW p, OwnParcel(p)
  PROVE  /\ Holds(Replaced(h, p), p)
         /\ \A q : /\ Holds(h, q) /\ q.name # p.name /\ OwnParcel(q)
                   /\ \A k \in DOMAIN p.part : k \notin DOMAIN q.part
                   => Holds(Replaced(h, p), q)
<1> SUFFICES ASSUME NEW r, r = Replaced(h, p)
             PROVE  /\ Holds(r, p)
                    /\ \A q : /\ Holds(h, q) /\ q.name # p.name /\ OwnParcel(q)
                              /\ \A k \in DOMAIN p.part : k \notin DOMAIN q.part
                              => Holds(r, q)
  OBVIOUS
<1>1. /\ DOMAIN r.sources = DOMAIN h.sources \cup {p.name}
      /\ r.sources[p.name].edition = p.edition
      /\ \A n \in DOMAIN h.sources : n # p.name => r.sources[n] = h.sources[n]
  BY ReplacedSources DEF OwnParcel
<1>2. PartOf(r, p.name) = p.part
  BY ReplacedParts
<1>3. Holds(r, p)
  BY <1>1, <1>2 DEF Holds
<1>4. ASSUME NEW q, Holds(h, q), q.name # p.name, OwnParcel(q),
             \A k \in DOMAIN p.part : k \notin DOMAIN q.part
      PROVE  Holds(r, q)
  <2>1. DOMAIN q.part = Owned(h.bank, q.name)
    <3>1. DOMAIN PartOf(h, q.name) = Owned(h.bank, q.name)
      BY DEF PartOf, Restrict, Owned
    <3> QED
      BY <1>4, <3>1 DEF Holds
  <2>2. PartOf(r, q.name) = PartOf(h, q.name)
    BY <1>4, <2>1, ReplacedParts
  <2> QED
    BY <1>1, <1>4, <2>2 DEF Holds
<1> QED
  BY <1>3, <1>4

\* The command that moves: what it opens for is all to come; what it stores is
\* delivered, and takes nothing from what was.
LEMMA MoverDelivering ==
  ASSUME OInv, NEW c \in Commands, Moves(c), Delivering(c)
  PROVE  Delivering(c)'
<1>1. /\ TInv /\ Typed(c) /\ Origin(c) /\ Owning(c) /\ IsHeld(mem[c]) /\ IsHeld(database)
      /\ UNCHANGED <<faults, published>> /\ (Alone' <=> Alone)
  BY DEF OInv, TInv, Shared, Typed, Moves, Alone
<1>2. CASE Started(c) \/ Ends(c)
  BY <1>2 DEF Started, Ends, Delivering, Active
<1>3. CASE Opens(c)
  <2>1. job'[c] = job[c] /\ got'[c] = {} /\ pc'[c] \in {"work", "stats"}
    BY <1>3 DEF Opens, Delivering
  <2>2. CASE pc'[c] = "work"
    <3>1. todo'[c] = Due(c)'
      BY <1>3, <2>1, <2>2 DEF Opens, Due
    <3> QED
      BY <2>1, <2>2, <3>1 DEF Delivering
  <2>3. CASE pc'[c] = "stats"
    <3>1. Due(c)' = {} /\ todo'[c] = {}
      BY <1>3, <2>1, <2>3 DEF Opens, Due, Delivering
    <3> QED
      BY <2>1, <2>3, <3>1 DEF Delivering
  <2> QED
    BY <2>1, <2>2, <2>3
<1>4. CASE GoesOn(c) \/ Saving(c)
  <2>1. /\ UNCHANGED <<database, job[c], from[c], mem[c], todo[c], got[c], failed[c]>>
        /\ Active(c) /\ pc'[c] # "work" /\ todo[c] = {} /\ got[c] = {}
    BY <1>4 DEF GoesOn, Saving, Active, Delivering
  <2>2. Due(c)' = Due(c) /\ \A n : Delivered(c, n)' = Delivered(c, n)
    BY <1>1, <2>1 DEF Due, Delivered, Wanted, Target, ToDatabase
  <2> QED
    BY <1>1, <2>1, <2>2 DEF Delivering
<1>5. CASE Fetches(c)
  <2>1. /\ UNCHANGED <<database, pc[c], job[c], from[c], mem[c]>>
        /\ pc[c] = "work" /\ Active(c) /\ got[c] = {}
    BY <1>5 DEF Fetches, Active
  <2>2. Due(c)' = Due(c) /\ \A n : Delivered(c, n)' = Delivered(c, n)
    BY <1>1, <2>1 DEF Due, Delivered, Wanted, Target, ToDatabase
  <2>3. PICK n \in todo[c] :
          /\ todo'[c] = todo[c] \ {n}
          /\ \/ got'[c] = {Parcel(Offered(n))} /\ failed'[c] = failed[c]
             \/ got'[c] = {} /\ failed'[c] = TRUE
    BY <1>5 DEF Fetches
  <2>4. CASE got'[c] = {} /\ failed'[c] = TRUE
    BY <2>1, <2>4 DEF Delivering
  <2>5. CASE got'[c] = {Parcel(Offered(n))} /\ failed'[c] = failed[c]
    <3>1. Parcel(Offered(n)).name = n
      <4>1. published \in DOMAIN Editions /\ n \in DOMAIN Editions[published]
        BY <1>1, <1>5, <2>3, EditionsAssumption DEF TInv, Shared, Typed, Fetches
      <4>2. Editions[published][n].name = n
        BY <4>1, EditionsAssumption
      <4> QED
        BY <4>2 DEF Parcel, Offered
    <3> QED
      BY <1>1, <2>1, <2>2, <2>3, <2>5, <3>1 DEF Delivering
  <2> QED
    BY <2>3, <2>4, <2>5
<1>6. CASE Stores(c)
  <2>1. PICK p \in Parcels(c) :
          /\ todo'[c] = todo[c] \ {p.name}
          /\ \/ failed'[c] = TRUE
             \/ failed'[c] = failed[c] /\ job[c].dry
             \/ /\ failed'[c] = failed[c] /\ ~ job[c].dry
                /\ \/ ToDatabase(c) /\ database' = Replaced(database, p)
                   \/ ~ ToDatabase(c) /\ mem'[c] = Replaced(mem[c], p)
    BY <1>6 DEF Stores
  <2>2. /\ UNCHANGED <<pc[c], job[c], from[c]>> /\ pc[c] = "work" /\ got'[c] = {}
    BY <1>6 DEF Stores
  <2>3. p \in Wanted(c) /\ OwnParcel(p)
    BY <1>1, <2>2, ParcelWanted, ParcelFacts
  <2> SUFFICES ASSUME Alone, ~ failed'[c], ~ job[c].dry, NEW n \in Due(c), n \notin todo'[c]
               PROVE  Delivered(c, n)'
    <3>1. Due(c)' = Due(c)
      BY <2>2 DEF Due
    <3> QED
      BY <1>1, <2>2, <3>1 DEF Delivering
  <2>4. Target(c)' = Replaced(Target(c), p) /\ failed'[c] = failed[c] /\ IsHeld(Target(c))
    BY <1>1, <2>1, <2>2 DEF Target, ToDatabase
  <2>5. Wanted(c)' = Wanted(c)
    BY <1>1, <2>2 DEF Wanted
  <2>6. CASE n = p.name
    <3>1. Holds(Replaced(Target(c), p), p)
      BY <2>3, <2>4, ReplacedHolds
    <3>2. Holds(Target(c)', p)
      BY <2>4, <3>1
    <3> QED
      BY <2>3, <2>5, <2>6, <3>2 DEF Delivered
  <2>7. CASE n # p.name
    <3>1. n \notin todo[c]
      BY <2>1, <2>7
    <3>2. \A q \in got[c] : q.name # n
      <4>1. got[c] # {} => Parcels(c) = got[c]
        BY <1>1 DEF Origin, Parcels
      <4> QED
        BY <2>1, <2>7, <4>1 DEF Delivering
    <3>3. PICK q \in Wanted(c) : q.name = n /\ Holds(Target(c), q)
      BY <2>2, <2>4, <3>1, <3>2 DEF Delivering, Active, Delivered
    <3>4. OwnParcel(q) /\ \A k \in DOMAIN p.part : k \notin DOMAIN q.part
      BY <1>1, <2>2, <2>3, <2>7, <3>3, WantedFacts
    <3>5. Holds(Replaced(Target(c), p), q)
      BY <2>3, <2>4, <2>7, <3>3, <3>4, ReplacedHolds
    <3>6. Holds(Target(c)', q)
      BY <2>4, <3>5
    <3> QED
      BY <2>5, <3>3, <3>6 DEF Delivered
  <2> QED
    BY <2>6, <2>7
<1> QED
  BY <1>2, <1>3, <1>4, <1>5, <1>6 DEF Moves

LEMMA InitSInv == Init => SInv
<1>1. Init => \A c \in Commands : Delivering(c)
  BY DEF Init, Delivering, Active
<1> QED
  BY <1>1, InitOInv DEF SInv

LEMMA StepSInv == SInv /\ [Next]_vars => SInv'
<1> SUFFICES ASSUME SInv, [Next]_vars PROVE SInv'
  OBVIOUS
<1>1. OInv' /\ OInv /\ TInv /\ Solo
  BY StepOInv DEF SInv, OInv
<1>2. ASSUME NEW c \in Commands, Moves(c) PROVE SInv'
  <2>1. ASSUME NEW d \in Commands, d # c PROVE Delivering(d)'
    <3>1. /\ UNCHANGED <<faults, published, pc[d], job[d], from[d], mem[d], todo[d], got[d], failed[d]>>
          /\ (Alone' <=> Alone)
      BY <1>2, <2>1 DEF Moves, Locals, Alone
    <3>2. CASE Alone /\ Active(d)
      <4>1. database' = database
        BY <1>1, <1>2, <2>1, <3>2, StoreStays DEF Active, Running
      <4>2. Due(d)' = Due(d) /\ \A n : Delivered(d, n)' = Delivered(d, n)
        BY <3>1, <4>1 DEF Due, Delivered, Wanted, Target, ToDatabase
      <4> QED
        BY <3>1, <3>2, <4>2 DEF SInv, Delivering
    <3>3. CASE ~ (Alone /\ Active(d))
      BY <3>1, <3>3 DEF SInv, Delivering, Active
    <3> QED
      BY <3>2, <3>3
  <2> QED
    BY <1>1, <1>2, <2>1, MoverDelivering DEF SInv
<1>3. ASSUME UNCHANGED vars \/ Publish PROVE SInv'
  <2>1. UNCHANGED <<faults, database, pc, job, from, mem, todo, got, failed>>
    BY <1>3 DEF Publish, vars, local
  <2>2. \A e \in 1 .. published : e \in 1 .. published'
    <3>1. published \in Nat /\ (published' = published \/ published' = published + 1)
      BY <1>1, <1>3, PublishedFacts DEF Publish, vars
    <3> QED
      BY <3>1
  <2>3. ASSUME NEW c \in Commands PROVE Delivering(c)'
    <3>1. \A q \in Wanted(c) : q \in Wanted(c)'
      BY <2>1, <2>2 DEF Wanted
    <3>2. Target(c)' = Target(c) /\ Due(c)' = Due(c)
      BY <2>1 DEF Target, ToDatabase, Due
    <3>3. \A n : Delivered(c, n) => Delivered(c, n)'
      BY <3>1, <3>2 DEF Delivered
    <3> QED
      BY <2>1, <3>2, <3>3 DEF SInv, Delivering, Active, Alone
  <2> QED
    BY <1>1, <2>3 DEF SInv
<1> QED
  BY <1>1, <1>2, <1>3, StepMoves

\* A command that succeeds has everything asked for in its store, and the file it
\* has written is that store.
LEMMA EndDone ==
  ASSUME SInv, NEW c \in Commands, Alone, Ends(c), result'[c] = "ok"
  PROVE  DoneAsAsked(c)
<1> SUFFICES ASSUME ~ job[c].dry PROVE DoneAsAsked(c)
  BY DEF DoneAsAsked
<1>1. /\ TInv /\ Typed(c) /\ Faithful(c) /\ Delivering(c) /\ ~ failed[c]
      /\ IsHeld(database) /\ database = Held(database.bank, database.sources)
      /\ mem[c] = Held(mem[c].bank, mem[c].sources)
      /\ \/ StoredAll(c) /\ ~ job[c].save /\ file' = file
         \/ pc[c] = "rename" /\ file' = tmp[c]
  BY DEF SInv, OInv, TInv, Shared, Ends, Faithful
<1>2. todo[c] = {} /\ got[c] = {} /\ Active(c) /\ pc[c] # "idle"
  BY <1>1 DEF Delivering, StoredAll, Active
<1>3. ASSUME ~ job[c].dry, NEW w \in Wanted(c)
      PROVE  \E p \in Wanted(c) : p.name = w.name /\ Holds(Target(c), p)
  <2>1. w.name \in Due(c)
    BY <1>1, <1>2, WantedFacts
  <2> QED
    BY <1>1, <1>2, <1>3, <2>1 DEF Delivering, Delivered
<1>4. ASSUME Saves(c), ~ job[c].dry
      PROVE  \/ ToDatabase(c) /\ Cardinality(DOMAIN database.bank) > MaxLimit
             \/ Loads(file') /\ Loaded(file') = Target(c)
  <2>1. pc[c] = "rename" /\ file' = tmp[c]
    BY <1>1, <1>4 DEF Saves, StoredAll, Typed
  <2>2. tmp[c] = Snapshot(IF ToDatabase(c) THEN Searched(database.bank) ELSE mem[c].bank,
                          Target(c).sources)
    BY <1>1, <2>1 DEF Faithful
  <2>3. CASE ~ ToDatabase(c)
    <3>1. file' = Snapshot(mem[c].bank, mem[c].sources) /\ Target(c) = mem[c]
      BY <2>1, <2>2, <2>3 DEF Target
    <3> QED
      BY <1>1, <3>1 DEF Loads, Loaded, Snapshot, Held
  <2>4. CASE ToDatabase(c) /\ Cardinality(DOMAIN database.bank) <= MaxLimit
    <3>1. Searched(database.bank) = database.bank
      BY <1>1, <2>4, SearchedPart
    <3>2. file' = Snapshot(database.bank, database.sources) /\ Target(c) = database
      BY <2>1, <2>2, <2>4, <3>1 DEF Target
    <3> QED
      BY <1>1, <3>2 DEF Loads, Loaded, Snapshot, Held
  <2>5. Cardinality(DOMAIN database.bank) \in Nat
    BY <1>1, KeysAssumption, TableFacts, FS_Subset, FS_CardinalityType DEF IsHeld
  <2> QED
    BY <2>3, <2>4, <2>5, LimitAssumption
<1> QED
  BY <1>3, <1>4 DEF DoneAsAsked

\* A command that reports success, with no other running, has done what it was
\* asked for.
THEOREM LoadingSuccessMeansDone == Spec => SuccessMeansDone
<1>1. ASSUME SInv, [Next]_vars, NEW c \in Commands, Alone, Succeeds(c)
      PROVE  DoneAsAsked(c)
  <2>1. pc'[c] # pc[c]
    BY <1>1 DEF Succeeds
  <2>2. PICK d \in Commands : Moves(d)
    BY <1>1, <2>1, StepMoves DEF SInv, OInv, vars, Publish
  <2>3. d = c
    BY <2>1, <2>2 DEF Moves, Locals
  <2>4. Ends(c)
    BY <1>1, <2>2, <2>3 DEF Moves, Succeeds, Started, Opens, Fetches, Stores, GoesOn, Saving
  <2> QED
    BY <1>1, <2>4, EndDone DEF Succeeds
<1>2. SInv /\ [Next]_vars => [\A c \in Commands : Alone /\ Succeeds(c) => DoneAsAsked(c)]_vars
  BY <1>1
<1> QED
  BY <1>2, InitSInv, StepSInv, PTL DEF Spec, SuccessMeansDone
=============================================================================
