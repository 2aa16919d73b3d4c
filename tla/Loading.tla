------------------------------ MODULE Loading -------------------------------
(***************************************************************************)
(* The commands that move bank data (cmd/iban-pizza: update, import,       *)
(* import -snapshot, snapshot) as processes over one snapshot file and one *)
(* database.  A command opens a store (the database, or a store in its own *)
(* memory that starts from the file or from the embedded snapshot), puts   *)
(* the sources it was asked for into it one by one, and may then save the  *)
(* store to the file: to a temporary file that is renamed in the end.      *)
(*                                                                         *)
(* A Replace is one step here, on the database too: what overlapping loads *)
(* of one source do there is PgStore's subject.                            *)
(***************************************************************************)
EXTENDS SnapshotFile

CONSTANTS
  Commands,     \* the invocations, each one process that runs once
  Jobs,         \* what they can be asked to do
  OddJobs,      \* the imports of a file without records, or with records that
                \* are another source's as well
  Editions,     \* a sequence, what the publishers offer: a batch per source
  Embedded,     \* the snapshot compiled into the binary, or Absent
  FirstFiles,   \* what the file may be at first
  FirstData,    \* what the database may hold at first
  Faults        \* what may go wrong in some behaviour

Job == [op : {"update", "import", "copy", "snapshot"},
        store : {"database", "file", "embedded"},  \* -database-url, -data-file, neither
        names : SUBSET Names,                      \* the sources update fetches
        batch : Batches \cup {NoBatch},            \* what import has parsed
        from : {"file", "embedded"},               \* what import -snapshot copies
        save : BOOLEAN,                            \* -write-snapshot
        dry : BOOLEAN]                             \* -dry-run

ASSUME JobsAssumption ==
  /\ Jobs \subseteq Job /\ OddJobs \subseteq Jobs
  /\ \A j \in Jobs : j.op = "import" <=> j.batch # NoBatch
ASSUME EditionsAssumption ==
  /\ Editions # <<>> /\ Editions \in Seq(UNION {[N -> Batches] : N \in SUBSET Names})
  /\ \A e \in DOMAIN Editions : \A n \in DOMAIN Editions[e] : Editions[e][n].name = n
  /\ \A j \in Jobs : j.op = "update" => \A e \in DOMAIN Editions : j.names \subseteq DOMAIN Editions[e]
ASSUME DataAssumption ==
  /\ \A f \in FirstFiles \cup {Embedded} : IsFile(f) /\ (Loads(f) => Consistent(Loaded(f)))
  /\ Embedded # Unreadable
  /\ \A h \in FirstData : h = Held(h.bank, h.sources) /\ IsHeld(h) /\ Consistent(h)

\* The sources bring the banks of a country each, so that no bank is two sources';
\* and who comes with no banks is not stored.  Only odd imports do otherwise.
Brings(batch, owner) == \A k \in Incoming(batch) : owner[k] = batch.name
Ordinary(held, owner) ==
  NoSourceEmpty(held) /\ \A k \in DOMAIN held.bank : held.bank[k].source = owner[k]
Owners(owner) ==
  /\ \A e \in DOMAIN Editions : \A n \in DOMAIN Editions[e] : Brings(Editions[e][n], owner)
  /\ \A j \in Jobs \ OddJobs :
       j.op = "import" => Brings(j.batch, owner) /\ j.batch.banks # <<>>
  /\ \A h \in FirstData : Ordinary(h, owner)
  /\ \A f \in FirstFiles \cup {Embedded} : Loads(f) => Ordinary(Loaded(f), owner)
ASSUME OwnersAssumption == \E owner \in [Keys -> Names] : Owners(owner)

ASSUME FaultsAssumption == Faults \subseteq {"overlap", "failure", "unreadable", "odd file"}

VARIABLES
  faults,       \* what may go wrong in this behaviour
  published,    \* the edition the publishers offer
  file,         \* the snapshot file
  database,     \* what the database holds
  pc,           \* the step each command is at
  job,          \* what each command was asked to do
  from,         \* the snapshot import -snapshot copies
  mem,          \* the store in the command's memory
  todo,         \* the sources it has still to put into the store
  got,          \* what update has fetched and not yet stored: a parcel, or nothing
  failed,       \* whether a source has failed
  stats,        \* the catalogue WriteSnapshot has read
  tmp,          \* the temporary file
  result        \* how each command ended

local == <<job, from, mem, todo, got, failed, stats, tmp, result>>
vars == <<faults, published, file, database, pc, local>>

NoJob == [none |-> TRUE]
Labels == {"idle", "open", "work", "stats", "write", "rename", "done"}
Running(c) == pc[c] \notin {"idle", "done"}

Init ==
  /\ faults \in SUBSET Faults
  /\ published = 1
  /\ file \in {f \in FirstFiles : f = Unreadable => "unreadable" \in faults}
  /\ database \in FirstData
  /\ pc = [c \in Commands |-> "idle"]
  /\ job = [c \in Commands |-> NoJob]
  /\ from = [c \in Commands |-> NothingHeld]
  /\ mem = [c \in Commands |-> NothingHeld]
  /\ todo = [c \in Commands |-> {}]
  /\ got = [c \in Commands |-> {}]
  /\ failed = [c \in Commands |-> FALSE]
  /\ stats = [c \in Commands |-> Empty]
  /\ tmp = [c \in Commands |-> Absent]
  /\ result = [c \in Commands |-> "none"]

Publish ==
  /\ published < Len(Editions)
  /\ published' = published + 1
  /\ UNCHANGED <<faults, file, database, pc, local>>

Goto(c, label) == pc' = [pc EXCEPT ![c] = label]

\* The process ends; what it had in memory is gone, and the deferred Remove or
\* nobody takes the temporary file away.
End(c, r) ==
  /\ Goto(c, "done")
  /\ result' = [result EXCEPT ![c] = r]
  /\ from' = [from EXCEPT ![c] = NothingHeld]
  /\ mem' = [mem EXCEPT ![c] = NothingHeld]
  /\ todo' = [todo EXCEPT ![c] = {}]
  /\ got' = [got EXCEPT ![c] = {}]
  /\ failed' = [failed EXCEPT ![c] = FALSE]
  /\ stats' = [stats EXCEPT ![c] = Empty]
  /\ tmp' = [tmp EXCEPT ![c] = Absent]
  /\ UNCHANGED job

Fail(c) == End(c, "failed") /\ UNCHANGED <<faults, published, file, database>>

-----------------------------------------------------------------------------
\* What the command is asked for.  import has read and parsed its file already
\* and puts one source in; import -snapshot puts in what it finds in the snapshot.
Start(c, j) ==
  /\ pc[c] = "idle"
  /\ "overlap" \in faults \/ \A d \in Commands : ~ Running(d)
  /\ j \in OddJobs => "odd file" \in faults
  /\ job' = [job EXCEPT ![c] = j]
  /\ Goto(c, "open")
  /\ UNCHANGED <<faults, published, file, database, from, mem, todo, got, failed, stats, tmp, result>>

ToDatabase(c) == job[c].store = "database"
Source(s) == IF s = "embedded" THEN Embedded ELSE file

\* Faulty: the store always starts empty.
OpenedEmpty(c) == NothingHeld

\* openWritableStore: "Start from whatever is already there so that refreshing one
\* country does not discard the others" (main.go:147), or from nothing if that
\* does not load.
Opened(c) ==
  IF ~ ToDatabase(c) /\ Loads(Source(job[c].store)) THEN Loaded(Source(job[c].store))
  ELSE NothingHeld

\* A dry import ends once its file or snapshot has been read; update goes on, into
\* a store of its own.
EndsDry(c) == job[c].dry /\ job[c].op \in {"import", "copy"}

DryRun(c) ==
  /\ pc[c] = "open" /\ EndsDry(c)
  /\ job[c].op = "copy" => Loads(Source(job[c].from))
  /\ End(c, "ok")
  /\ UNCHANGED <<faults, published, file, database>>

OpenToLoad(c) ==
  /\ pc[c] = "open" /\ job[c].op \in {"update", "import"} /\ ~ EndsDry(c)
  /\ mem' = [mem EXCEPT ![c] = Opened(c)]
  /\ todo' = [todo EXCEPT ![c] =
                IF job[c].op = "update" THEN job[c].names ELSE {job[c].batch.name}]
  /\ Goto(c, "work")
  /\ UNCHANGED <<faults, published, file, database, job, from, got, failed, stats, tmp, result>>

OpenToCopy(c) ==
  /\ pc[c] = "open" /\ job[c].op = "copy" /\ ~ EndsDry(c)
  /\ Loads(Source(job[c].from))
  /\ from' = [from EXCEPT ![c] = Loaded(Source(job[c].from))]
  /\ todo' = [todo EXCEPT ![c] = DOMAIN from'[c].sources]
  /\ mem' = [mem EXCEPT ![c] = Opened(c)]
  /\ Goto(c, "work")
  /\ UNCHANGED <<faults, published, file, database, job, got, failed, stats, tmp, result>>

\* openRepository, and "refusing to write an empty snapshot".
OpenToSnapshot(c) ==
  /\ pc[c] = "open" /\ job[c].op = "snapshot"
  /\ ToDatabase(c) \/ Loads(Source(job[c].store))
  /\ (IF ToDatabase(c) THEN database.bank ELSE Opened(c).bank) # Empty
  /\ mem' = [mem EXCEPT ![c] = Opened(c)]
  /\ Goto(c, "stats")
  /\ UNCHANGED <<faults, published, file, database, job, from, todo, got, failed, stats, tmp, result>>

OpenFails(c) ==
  /\ pc[c] = "open"
  /\ \/ job[c].op = "copy" /\ ~ Loads(Source(job[c].from))
     \/ /\ job[c].op = "snapshot"
        /\ IF ToDatabase(c) THEN database.bank = Empty
           ELSE Loads(Source(job[c].store)) => Opened(c).bank = Empty
     \/ ToDatabase(c) /\ ~ EndsDry(c) /\ "failure" \in faults
  /\ Fail(c)

-----------------------------------------------------------------------------
\* sources.Update: fetch, parse, refuse what has no records, replace.
Offered(n) == Editions[published][n]

\* Faulty: stores whatever was fetched.
FetchAnything(c) ==
  /\ pc[c] = "work" /\ job[c].op = "update" /\ got[c] = {}
  /\ \E n \in todo[c] :
       /\ got' = [got EXCEPT ![c] = {Parcel(Offered(n))}]
       /\ todo' = [todo EXCEPT ![c] = @ \ {n}]
  /\ UNCHANGED <<faults, published, file, database, pc, job, from, mem, failed, stats, tmp, result>>

Fetch(c) ==
  /\ pc[c] = "work" /\ job[c].op = "update" /\ got[c] = {}
  /\ \E n \in todo[c] :
       /\ Offered(n).banks # <<>>
       /\ got' = [got EXCEPT ![c] = {Parcel(Offered(n))}]
       /\ todo' = [todo EXCEPT ![c] = @ \ {n}]
  /\ UNCHANGED <<faults, published, file, database, pc, job, from, mem, failed, stats, tmp, result>>

\* The download fails, or what came does not parse or has no records; update goes
\* on with the next source.
FetchFails(c) ==
  /\ pc[c] = "work" /\ job[c].op = "update" /\ got[c] = {}
  /\ \E n \in todo[c] :
       /\ "failure" \in faults \/ Offered(n).banks = <<>>
       /\ todo' = [todo EXCEPT ![c] = @ \ {n}]
  /\ failed' = [failed EXCEPT ![c] = TRUE]
  /\ UNCHANGED <<faults, published, file, database, pc, job, from, mem, got, stats, tmp, result>>

\* The parcels the next Replace may be given.
Parcels(c) ==
  CASE job[c].op = "update" -> got[c]
    [] job[c].op = "import" -> {Parcel(job[c].batch) : n \in todo[c]}
    [] job[c].op = "copy" -> {ParcelOf(from[c], n) : n \in FirstOf(from[c], todo[c])}

\* CopySources stops at a source without records.
Refused(c, p) == job[c].op = "copy" /\ p.part = Empty

Handled(c, p) ==
  /\ got' = [got EXCEPT ![c] = {}]
  /\ todo' = [todo EXCEPT ![c] = @ \ {p.name}]

\* A dry update puts the records into a store of its own.
Store(c) ==
  /\ pc[c] = "work"
  /\ \E p \in Parcels(c) :
       /\ ~ Refused(c, p)
       /\ Handled(c, p)
       /\ CASE job[c].dry -> UNCHANGED <<database, mem>>
            [] ~ job[c].dry /\ ToDatabase(c) ->
                 ~ p.repeats /\ database' = Replaced(database, p) /\ UNCHANGED mem
            [] OTHER -> mem' = [mem EXCEPT ![c] = Replaced(@, p)] /\ UNCHANGED database
  /\ UNCHANGED <<faults, published, file, pc, job, from, failed, stats, tmp, result>>

\* The database refuses a repeated key, or fails.  update goes on with the next
\* source, import and import -snapshot end here, without saving.
Refusing(c, p) ==
  \/ Refused(c, p)
  \/ ToDatabase(c) /\ ~ job[c].dry /\ (p.repeats \/ "failure" \in faults)

\* Faulty: update does not count the failure.
UpdateForgets(c) ==
  /\ pc[c] = "work" /\ job[c].op = "update"
  /\ \E p \in Parcels(c) : Refusing(c, p) /\ Handled(c, p)
  /\ UNCHANGED <<faults, published, file, database, pc, job, from, mem, failed, stats, tmp, result>>

UpdateStoreFails(c) ==
  /\ pc[c] = "work" /\ job[c].op = "update"
  /\ \E p \in Parcels(c) : Refusing(c, p) /\ Handled(c, p)
  /\ failed' = [failed EXCEPT ![c] = TRUE]
  /\ UNCHANGED <<faults, published, file, database, pc, job, from, mem, stats, tmp, result>>

StoreFails(c) ==
  /\ pc[c] = "work" /\ job[c].op \in {"import", "copy"}
  /\ \E p \in Parcels(c) : Refusing(c, p)
  /\ Fail(c)

Verdict(c) == IF failed[c] THEN "failed" ELSE "ok"
StoredAll(c) == pc[c] = "work" /\ todo[c] = {} /\ got[c] = {}

\* update saves what it has even if some source failed.
GoOnToSave(c) ==
  /\ StoredAll(c)
  /\ job[c].save /\ ~ job[c].dry
  /\ Goto(c, "stats")
  /\ UNCHANGED <<faults, published, file, database, local>>

EndWithoutSave(c) ==
  /\ StoredAll(c)
  /\ job[c].save => job[c].dry
  /\ End(c, Verdict(c))
  /\ UNCHANGED <<faults, published, file, database>>

-----------------------------------------------------------------------------
\* SaveSnapshotFile: WriteSnapshot to a temporary file, then the rename.
ReadStats(c) ==
  /\ pc[c] = "stats"
  /\ stats' = [stats EXCEPT ![c] = IF ToDatabase(c) THEN database.sources ELSE mem[c].sources]
  /\ Goto(c, "write")
  /\ UNCHANGED <<faults, published, file, database, job, from, mem, todo, got, failed, tmp, result>>

\* Faulty: truncates and writes the file itself.
WriteInPlace(c) ==
  /\ pc[c] = "write"
  /\ tmp' = [tmp EXCEPT ![c] =
               Snapshot(IF ToDatabase(c) THEN Searched(database.bank) ELSE mem[c].bank, stats[c])]
  /\ file' = Unreadable
  /\ Goto(c, "rename")
  /\ UNCHANGED <<faults, published, database, job, from, mem, todo, got, failed, stats, result>>

Write(c) ==
  /\ pc[c] = "write"
  /\ tmp' = [tmp EXCEPT ![c] =
               Snapshot(IF ToDatabase(c) THEN Searched(database.bank) ELSE mem[c].bank, stats[c])]
  /\ Goto(c, "rename")
  /\ UNCHANGED <<faults, published, file, database, job, from, mem, todo, got, failed, stats, result>>

Rename(c) ==
  /\ pc[c] = "rename"
  /\ file' = tmp[c]
  /\ End(c, Verdict(c))
  /\ UNCHANGED <<faults, published, database>>

\* Faulty: an error of WriteSnapshot does not keep the file from being renamed.
SaveAnyway(c) ==
  /\ pc[c] \in {"stats", "write"}
  /\ "failure" \in faults
  /\ tmp' = [tmp EXCEPT ![c] = Unreadable]
  /\ Goto(c, "rename")
  /\ UNCHANGED <<faults, published, file, database, job, from, mem, todo, got, failed, stats, result>>

\* The disk is full, or the database gone.
SaveFails(c) ==
  /\ pc[c] \in {"stats", "write", "rename"}
  /\ "failure" \in faults
  /\ Fail(c)

\* The process is killed.
Crash(c) ==
  /\ Running(c)
  /\ "failure" \in faults
  /\ End(c, "killed")
  /\ UNCHANGED <<faults, published, file, database>>

Step(c) ==
  \/ DryRun(c) \/ OpenToLoad(c) \/ OpenToCopy(c) \/ OpenToSnapshot(c) \/ OpenFails(c)
  \/ Fetch(c) \/ FetchFails(c) \/ Store(c) \/ UpdateStoreFails(c) \/ StoreFails(c)
  \/ GoOnToSave(c) \/ EndWithoutSave(c)
  \/ ReadStats(c) \/ Write(c) \/ Rename(c) \/ SaveFails(c)

\* Every command has run.
Terminated == (\A c \in Commands : pc[c] = "done") /\ UNCHANGED vars

Next ==
  \/ Publish \/ Terminated
  \/ \E c \in Commands : (\E j \in Jobs : Start(c, j)) \/ Step(c) \/ Crash(c)

Spec == Init /\ [][Next]_vars

-----------------------------------------------------------------------------
IsParcel(p) ==
  /\ p.name \in Names /\ p.country \in Nat /\ p.edition \in Nat
  /\ IsTable(p.part)
  /\ \A k \in DOMAIN p.part : p.part[k].source = p.name /\ p.part[k].edition = p.edition

TypeOK ==
  /\ faults \subseteq Faults
  /\ published \in DOMAIN Editions
  /\ IsFile(file) /\ IsHeld(database)
  /\ pc \in [Commands -> Labels]
  /\ result \in [Commands -> {"none", "ok", "failed", "killed"}]
  /\ \A c \in Commands :
       /\ pc[c] = "idle" <=> job[c] = NoJob
       /\ pc[c] # "idle" => job[c] \in Jobs
       /\ pc[c] = "done" <=> result[c] # "none"
       /\ IsHeld(from[c]) /\ IsHeld(mem[c]) /\ IsCatalogue(stats[c])
       /\ todo[c] \subseteq Names
       /\ \A p \in got[c] : IsParcel(p)
       /\ pc[c] = "rename" => Loads(tmp[c])

\* The file is replaced as a whole: one that loads is never followed by one that
\* does not, whatever fails and whoever else writes ("a crash midway cannot leave
\* a half written snapshot where a valid one used to be", snapshot.go:152).
FileLoads == "unreadable" \notin faults => file # Unreadable

Alone == "overlap" \notin faults
Saves(c) == job[c] # NoJob /\ (job[c].save \/ job[c].op = "snapshot")
FromMemory == \A c \in Commands : Saves(c) => job[c].store # "database"

\* Catalogue and records belong together in the database and in the file, and so
\* in every store that is opened from them or copied: each record's source is
\* listed, and is of the one edition listed.  A file written from the database is
\* excepted when another command loads meanwhile, as its two halves are read one
\* after the other (snapshot.go:35, :40).
DataConsistent ==
  Alone \/ FromMemory =>
    Consistent(database) /\ (Loads(file) => Consistent(Loaded(file)))

\* The program writes no snapshot that it calls broken (snapshot.go:207): as long
\* as no file is imported that takes over another source's records or has none,
\* and the limit of a search cuts no source off, every listed source has records.
NoSourceLost ==
  "odd file" \notin faults /\ FromMemory =>
    NoSourceEmpty(database) /\ (Loads(file) => NoSourceEmpty(Loaded(file)))

\* Saving after update or import changes the sources that were asked for and no
\* other ("so that refreshing one country does not discard the others",
\* main.go:147), if the command was told to start from the file it writes to.
\* Out of reach of the code: a file that does not load or that another command
\* writes meanwhile, and a batch that brings other sources' keys.
Asked(c) == IF job[c].op = "update" THEN job[c].names ELSE {job[c].batch.name}
SameSources(before, after, names) ==
  \A n \in DOMAIN before.sources \ names : PartOf(after, n) = PartOf(before, n)
KeepsOthers(c) ==
  pc[c] = "rename" /\ result'[c] \in {"ok", "failed"} /\ job[c].op \in {"update", "import"} /\ Loads(file) =>
    SameSources(Loaded(file), Loaded(file'), Asked(c))
OthersKept ==
  [][\A c \in Commands :
       Alone /\ "odd file" \notin faults /\ job[c] # NoJob /\ job[c].store = "file" =>
         KeepsOthers(c)]_vars

\* Every import leaves the countries alone it does not bring: "countries can be
\* loaded one at a time and in any order" (docs/deployment.md:302-304), also with
\* -write-snapshot alone, as in the example above these lines (:294-295).
OneAtATime == [][\A c \in Commands : Alone /\ job[c] # NoJob => KeepsOthers(c)]_vars

\* A command that reports success has done what it was asked to do: every source
\* is in the store as it was fetched, parsed or found in the snapshot ("the
\* database matches the image", docs/deployment.md:222), and the file that was
\* asked for is the whole store; while no other command interferes, and unless
\* the store is a database with more records than one search returns.
Wanted(c) ==
  CASE job[c].op = "update" -> {Parcel(Editions[e][n]) : e \in 1 .. published, n \in job[c].names}
    [] job[c].op = "import" -> {Parcel(job[c].batch)}
    [] job[c].op = "copy" -> {ParcelOf(from[c], n) : n \in DOMAIN from[c].sources}
    [] OTHER -> {}
Target(c) == IF ToDatabase(c) THEN database ELSE mem[c]
Holds(held, p) ==
  p.name \in DOMAIN held.sources /\ PartOf(held, p.name) = p.part
    /\ held.sources[p.name].edition = p.edition
Succeeds(c) == pc[c] # "done" /\ pc'[c] = "done" /\ result'[c] = "ok"
DoneAsAsked(c) ==
  /\ ~ job[c].dry =>
       \A n \in {p.name : p \in Wanted(c)} :
         \E p \in Wanted(c) : p.name = n /\ Holds(Target(c), p)
  /\ Saves(c) /\ ~ job[c].dry =>
       \/ ToDatabase(c) /\ Cardinality(DOMAIN database.bank) > MaxLimit
       \/ Loads(file') /\ Loaded(file') = Target(c)
SuccessMeansDone ==
  [][\A c \in Commands : Alone /\ Succeeds(c) => DoneAsAsked(c)]_vars
=============================================================================
