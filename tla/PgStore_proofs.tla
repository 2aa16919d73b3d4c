--------------------------- MODULE PgStore_proofs ---------------------------
(***************************************************************************)
(* Proofs about PgStore: however transactions interleave, wait, fail and   *)
(* are rolled back, every committed row has its source in the catalogue; a *)
(* load nobody else overlaps fails on the primary key only if its own      *)
(* batch repeats a key; and as long as no two loads of one source overlap, *)
(* the committed tables implement the contract of BankStore.               *)
(***************************************************************************)
EXTENDS PgStore, BankData_proofs

-----------------------------------------------------------------------------
\* The inductive invariant, one part per concern.
Versioned ==
  [source : Names, bic : BICs \cup {NoBIC}, edition : Nat, version : Nat]
VersionedTables == UNION {[K -> Versioned] : K \in SUBSET Keys}

\* Types, as functions of the loaders; a loader that is idle holds nothing.
TypeInv ==
  /\ rows \in VersionedTables
  /\ IsCatalogue(catalogue)
  /\ calls \in 0 .. MaxReplaces
  /\ pc \in [Loaders -> Labels]
  /\ job \in [Loaders -> Batches \cup {NoBatch}]
  /\ version \in [Loaders -> 0 .. calls]
  /\ target \in [Loaders -> SUBSET (Keys \X (1 .. calls))]
  /\ gone \in [Loaders -> SUBSET DOMAIN rows]
  /\ added \in [Loaders -> VersionedTables]
  /\ next \in [Loaders -> Nat \ {0}]
  /\ alone \in [Loaders -> BOOLEAN]
  /\ apart \in BOOLEAN
  /\ \A l \in Loaders :
       IF Open(l) THEN job[l] \in Batches /\ version[l] # 0
       ELSE /\ job[l] = NoBatch /\ version[l] = 0 /\ target[l] = {} /\ gone[l] = {}
            /\ added[l] = Empty /\ next[l] = 1

\* Each load writes a version of its own, which nothing committed has before it
\* commits.
VersionInv ==
  /\ \A k \in DOMAIN rows : rows[k].version \in 1 .. calls
  /\ \A l \in Loaders : Open(l) =>
       /\ \A k \in DOMAIN rows : rows[k].version # version[l]
       /\ \A m \in Loaders \ {l} : version[m] # version[l]
       /\ \A m \in Loaders : \A t \in target[m] : t[2] # version[l]

\* Row locks are exclusive, and a key is inserted only where its row is away.
LockInv ==
  \A l \in Loaders :
    /\ DOMAIN added[l] \cap (DOMAIN rows \ gone[l]) = {}
    /\ \A m \in Loaders \ {l} :
         gone[l] \cap gone[m] = {} /\ DOMAIN added[l] \cap DOMAIN added[m] = {}
           /\ DOMAIN added[l] \cap gone[m] = {}

\* How far a load is: what it has deleted and means to delete is of its source or
\* under its keys, and what it has inserted are its banks up to the next one.
Own(l, k) == rows[k].source = job[l].name \/ k \in Incoming(job[l])
Early == {"clear", "clearing", "clearKeys", "clearingKeys"}
Deleting(l) ==
  /\ \A k \in gone[l] : Own(l, k)
  /\ \A t \in target[l] :
       t[1] \in DOMAIN rows /\ rows[t[1]].version = t[2] => Own(l, t[1])
Position(l) ==
  /\ pc[l] = "clear" => gone[l] = {}
  /\ pc[l] \in Early => next[l] = 1
  /\ pc[l] \in {"upsert", "commit"} => next[l] = Len(job[l].banks) + 1
  /\ next[l] <= Len(job[l].banks) + 1
KeyAt(l, i) == job[l].banks[i].key
Copied(l) ==
  /\ DOMAIN added[l] = {KeyAt(l, i) : i \in 1 .. next[l] - 1}
  /\ \A i \in 1 .. next[l] - 1 :
       /\ added[l][KeyAt(l, i)] = RowOf(l, i)
       /\ \A j \in 1 .. next[l] - 1 : KeyAt(l, i) = KeyAt(l, j) => i = j
LoadInv == \A l \in Loaders : Open(l) => Deleting(l) /\ Position(l) /\ Copied(l)

\* What a DELETE over the keys K has still to remove, and what it has removed.
Clearing(l, K) == \A k \in K : k \in gone[l] \/ <<k, rows[k].version>> \in target[l]
Cleared(l, K) == K \subseteq gone[l]

\* While no two loads of one source overlap, the first DELETE finds every row of
\* the source.
ApartInv ==
  apart =>
    /\ \A l \in Loaders : \A m \in Loaders \ {l} :
         Open(l) /\ Open(m) => job[l].name # job[m].name
    /\ \A l \in Loaders :
         /\ pc[l] = "clearing" => Clearing(l, Owned(rows, job[l].name))
         /\ pc[l] \in Labels \ {"idle", "clear", "clearing"} =>
              Cleared(l, Owned(rows, job[l].name))

\* While nobody else loads, the second finds every row under the incoming keys.
AloneLoad(l) ==
  /\ \A m \in Loaders \ {l} : ~ Open(m)
  /\ pc[l] = "clearingKeys" => Clearing(l, Incoming(job[l]) \cap DOMAIN rows)
  /\ pc[l] \in {"copy", "upsert", "commit"} =>
       Cleared(l, Incoming(job[l]) \cap DOMAIN rows)
AloneInv == \A l \in Loaders : Open(l) /\ alone[l] => AloneLoad(l)

\* Every committed row has its source in the catalogue.
NoOrphans == Catalogued(rows, catalogue)

Inv == TypeInv /\ VersionInv /\ LockInv /\ LoadInv /\ ApartInv /\ AloneInv /\ NoOrphans

-----------------------------------------------------------------------------
\* What a batch is, once it is typed.
LEMMA BatchFacts ==
  ASSUME NEW batch \in Batches
  PROVE  /\ batch.name \in Names /\ batch.edition \in Nat /\ batch.country \in Nat
         /\ Len(batch.banks) \in Nat /\ DOMAIN batch.banks = 1 .. Len(batch.banks)
         /\ \A i \in 1 .. Len(batch.banks) : batch.banks[i] \in Banks
         /\ batch # NoBatch
<1>1. batch \in [name : Names, country : Nat, edition : Nat, banks : Seq(Banks)]
  BY BatchesAssumption
<1>2. batch # NoBatch
  BY <1>1 DEF NoBatch
<1> QED
  BY <1>1, <1>2

\* The empty function is a table, a catalogue and a versioned table.
LEMMA EmptyFacts ==
  /\ Empty \in VersionedTables /\ IsCatalogue(Empty) /\ IsTable(Empty)
  /\ DOMAIN Empty = {}
<1>1. Empty \in [{} -> Versioned] /\ Empty \in [{} -> SourceInfo] /\ Empty \in [{} -> Record]
      /\ DOMAIN Empty = {}
  BY DEF Empty
<1> QED
  BY <1>1 DEF VersionedTables, IsCatalogue, IsTable

\* What it is to be a versioned table.
LEMMA VersionedFacts ==
  ASSUME NEW t
  PROVE  t \in VersionedTables <=>
           /\ DOMAIN t \subseteq Keys /\ t = [k \in DOMAIN t |-> t[k]]
           /\ \A k \in DOMAIN t : t[k] \in Versioned
BY DEF VersionedTables

\* The invariant holds of an empty database without loads.
LEMMA InitInv == Init => Inv
<1> SUFFICES ASSUME Init PROVE Inv
  OBVIOUS
<1> USE EmptyFacts DEF Init, Open
<1>1. TypeInv
  BY BoundAssumption DEF TypeInv, Labels
<1>2. VersionInv /\ LockInv /\ LoadInv /\ NoOrphans
  BY DEF VersionInv, LockInv, LoadInv, NoOrphans, Catalogued
<1>3. ApartInv /\ AloneInv
  BY DEF ApartInv, AloneInv
<1> QED
  BY <1>1, <1>2, <1>3 DEF Inv

-----------------------------------------------------------------------------
\* A load begins.
LEMMA BeginInv ==
  ASSUME Inv, NEW l \in Loaders, NEW batch \in Batches, Begin(l, batch)
  PROVE  Inv'
<1>1. /\ calls \in Nat /\ calls < MaxReplaces /\ calls' = calls + 1 /\ calls' \in 1 .. MaxReplaces
      /\ ~ Open(l) /\ target[l] = {} /\ gone[l] = {} /\ added[l] = Empty /\ next[l] = 1
      /\ batch # NoBatch
  BY BoundAssumption, BatchFacts DEF Inv, TypeInv, Begin, Open
<1>2. /\ pc'[l] = "clear" /\ job'[l] = batch /\ version'[l] = calls + 1
      /\ \A m \in Loaders \ {l} : pc'[m] = pc[m] /\ job'[m] = job[m] /\ version'[m] = version[m]
  BY DEF Begin, Goto, Inv, TypeInv
<1>3. UNCHANGED <<rows, catalogue, target, gone, added, next, answer>>
  BY DEF Begin, committed
<1>4. TypeInv'
  <2>1. pc' \in [Loaders -> Labels] /\ job' \in [Loaders -> Batches \cup {NoBatch}]
    BY DEF Begin, Goto, Inv, TypeInv, Labels
  <2>2. version' \in [Loaders -> 0 .. calls']
    BY <1>1 DEF Begin, Inv, TypeInv
  <2>3. target' \in [Loaders -> SUBSET (Keys \X (1 .. calls'))]
    <3>1. 1 .. calls \subseteq 1 .. calls'
      BY <1>1
    <3> QED
      BY <1>3, <3>1 DEF Inv, TypeInv
  <2>4. apart' \in BOOLEAN /\ alone' \in [Loaders -> BOOLEAN]
    <3>1. \A m \in Loaders : alone[m] \in BOOLEAN
      BY DEF Inv, TypeInv
    <3> QED
      BY <3>1 DEF Begin
  <2>5. \A m \in Loaders :
          IF Open(m)' THEN job'[m] \in Batches /\ version'[m] # 0
          ELSE /\ job'[m] = NoBatch /\ version'[m] = 0 /\ target'[m] = {} /\ gone'[m] = {}
               /\ added'[m] = Empty /\ next'[m] = 1
    BY <1>1, <1>2, <1>3 DEF Inv, TypeInv, Open
  <2> QED
    BY <1>1, <1>3, <2>1, <2>2, <2>3, <2>4, <2>5 DEF Inv, TypeInv
<1>5. VersionInv'
  <2>1. \A k \in DOMAIN rows : rows[k].version \in 1 .. calls
    BY DEF Inv, VersionInv
  <2>2. \A m \in Loaders : version[m] \in 0 .. calls /\ \A t \in target[m] : t[2] \in 1 .. calls
    BY DEF Inv, TypeInv
  <2>3. \A m \in Loaders \ {l} : Open(m)' <=> Open(m)
    BY <1>2 DEF Open
  <2> QED
    BY <1>1, <1>2, <1>3, <2>1, <2>2, <2>3 DEF Inv, VersionInv
<1>6. LockInv'
  BY <1>3 DEF Inv, LockInv
<1>7. LoadInv'
  <2>1. ASSUME NEW m \in Loaders \ {l}, Open(m)'
        PROVE  (Deleting(m) /\ Position(m) /\ Copied(m))'
    <3>1. Deleting(m) /\ Position(m) /\ Copied(m)
      BY <1>2, <2>1 DEF Inv, LoadInv, Open
    <3>2. /\ pc'[m] = pc[m] /\ job'[m] = job[m] /\ version'[m] = version[m]
          /\ UNCHANGED <<rows, target, gone, added, next>>
      BY <1>2, <1>3
    <3> QED
      BY <3>1, <3>2 DEF Deleting, Own, Position, Copied, KeyAt, RowOf
  <2>2. Deleting(l)' /\ Position(l)'
    BY <1>1, <1>2, <1>3, BatchFacts DEF Deleting, Position, Early
  <2>3. Copied(l)'
    BY <1>1, <1>3, EmptyFacts DEF Copied
  <2> QED
    BY <2>1, <2>2, <2>3 DEF LoadInv
<1>8. ApartInv'
  <2> SUFFICES ASSUME apart' PROVE ApartInv'
    BY DEF ApartInv
  <2>1. apart /\ \A m \in Loaders : Open(m) => job[m].name # batch.name
    BY DEF Begin
  <2> QED
    BY <1>1, <1>2, <1>3, <2>1 DEF Inv, ApartInv, Open, Clearing, Cleared
<1>9. AloneInv'
  <2> SUFFICES ASSUME NEW m \in Loaders, Open(m)', alone'[m]
               PROVE  AloneLoad(m)'
    BY DEF AloneInv
  <2>1. alone[m] /\ \A n \in Loaders \ {l} : ~ Open(n)
    BY <1>2 DEF Begin, Open
  <2>2. m = l
    BY <1>2, <2>1 DEF Open
  <2> QED
    BY <1>2, <2>1, <2>2 DEF AloneLoad, Open
<1>10. NoOrphans'
  BY <1>3 DEF Inv, NoOrphans
<1> QED
  BY <1>4, <1>5, <1>6, <1>7, <1>8, <1>9, <1>10 DEF Inv

-----------------------------------------------------------------------------
\* The end of a transaction leaves its loader idle, and the others as they were.
Local(m) == <<pc[m], job[m], version[m], target[m], gone[m], added[m], next[m], alone[m]>>

LEMMA EndFacts ==
  ASSUME TypeInv, NEW l \in Loaders, End(l)
  PROVE  /\ pc' \in [Loaders -> Labels] /\ job' \in [Loaders -> Batches \cup {NoBatch}]
         /\ version' \in [Loaders -> 0 .. calls]
         /\ target' \in [Loaders -> SUBSET (Keys \X (1 .. calls))]
         /\ DOMAIN gone' = Loaders /\ gone' = [m \in Loaders |-> gone'[m]]
         /\ added' \in [Loaders -> VersionedTables]
         /\ next' \in [Loaders -> Nat \ {0}] /\ alone' \in [Loaders -> BOOLEAN]
         /\ ~ Open(l)' /\ job'[l] = NoBatch /\ version'[l] = 0 /\ target'[l] = {}
         /\ gone'[l] = {} /\ added'[l] = Empty /\ next'[l] = 1
         /\ \A m \in Loaders \ {l} : UNCHANGED Local(m)
<1>1. pc' \in [Loaders -> Labels] /\ pc'[l] = "idle" /\ \A m \in Loaders \ {l} : pc'[m] = pc[m]
  BY DEF TypeInv, End, Goto, Labels
<1>2. /\ job' \in [Loaders -> Batches \cup {NoBatch}] /\ job'[l] = NoBatch
      /\ \A m \in Loaders \ {l} : job'[m] = job[m]
  BY DEF TypeInv, End
<1>3. /\ version' \in [Loaders -> 0 .. calls] /\ version'[l] = 0
      /\ \A m \in Loaders \ {l} : version'[m] = version[m]
  BY BoundAssumption DEF TypeInv, End
<1>4. /\ target' \in [Loaders -> SUBSET (Keys \X (1 .. calls))] /\ target'[l] = {}
      /\ \A m \in Loaders \ {l} : target'[m] = target[m]
  BY DEF TypeInv, End
<1>5. /\ DOMAIN gone' = Loaders /\ gone'[l] = {} /\ \A m \in Loaders \ {l} : gone'[m] = gone[m]
      /\ gone' = [m \in Loaders |-> gone'[m]]
  BY DEF TypeInv, End
<1>6. /\ added' \in [Loaders -> VersionedTables] /\ added'[l] = Empty
      /\ \A m \in Loaders \ {l} : added'[m] = added[m]
  BY EmptyFacts DEF TypeInv, End
<1>7. /\ next' \in [Loaders -> Nat \ {0}] /\ next'[l] = 1
      /\ \A m \in Loaders \ {l} : next'[m] = next[m]
  BY DEF TypeInv, End
<1>8. /\ alone' \in [Loaders -> BOOLEAN] /\ alone'[l] = TRUE
      /\ \A m \in Loaders \ {l} : alone'[m] = alone[m]
  BY DEF TypeInv, End
<1> QED
  BY <1>1, <1>2, <1>3, <1>4, <1>5, <1>6, <1>7, <1>8 DEF Local, Open

\* The parts of the invariant that speak of one load hold on as long as the load
\* stands still and the rows do not change.
LEMMA StandingLoad ==
  ASSUME NEW m, UNCHANGED Local(m), rows' = rows, Deleting(m), Position(m), Copied(m)
  PROVE  Deleting(m)' /\ Position(m)' /\ Copied(m)'
<1>1. UNCHANGED <<pc[m], job[m], version[m], target[m], gone[m], added[m], next[m], rows>>
  BY DEF Local
<1> QED
  BY <1>1 DEF Deleting, Own, Position, Copied, KeyAt, RowOf

\* A transaction that is rolled back leaves the invariant.
LEMMA RollbackInv ==
  ASSUME Inv, NEW l \in Loaders, End(l), UNCHANGED <<committed, calls, apart>>
  PROVE  Inv'
<1>1. TypeInv /\ VersionInv /\ LockInv /\ LoadInv /\ ApartInv /\ AloneInv /\ NoOrphans
  BY DEF Inv
<1>2. UNCHANGED <<rows, catalogue, calls, apart>>
  BY DEF committed
<1>3. /\ ~ Open(l)' /\ job'[l] = NoBatch /\ version'[l] = 0 /\ target'[l] = {}
      /\ gone'[l] = {} /\ added'[l] = Empty /\ next'[l] = 1
      /\ \A m \in Loaders \ {l} : UNCHANGED Local(m)
  BY <1>1, EndFacts
<1>4. \A m \in Loaders \ {l} :
        /\ Open(m)' <=> Open(m)
        /\ UNCHANGED <<pc[m], job[m], version[m], target[m], gone[m], added[m], next[m], alone[m]>>
  BY <1>3 DEF Local, Open
<1>5. TypeInv'
  <2>1. \A m \in Loaders :
          IF Open(m)' THEN job'[m] \in Batches /\ version'[m] # 0
          ELSE /\ job'[m] = NoBatch /\ version'[m] = 0 /\ target'[m] = {} /\ gone'[m] = {}
               /\ added'[m] = Empty /\ next'[m] = 1
    BY <1>1, <1>3, <1>4 DEF TypeInv
  <2>2. gone' \in [Loaders -> SUBSET DOMAIN rows]
    <3>1. \A m \in Loaders : gone'[m] \subseteq DOMAIN rows
      BY <1>1, <1>3, <1>4 DEF TypeInv
    <3> QED
      BY <1>1, <3>1, EndFacts
  <2> QED
    BY <1>1, <1>2, <2>1, <2>2, EndFacts DEF TypeInv
<1>6. VersionInv'
  <2>1. \A m \in Loaders : Open(m) => version[m] # 0
    BY <1>1 DEF TypeInv
  <2> QED
    BY <1>1, <1>2, <1>3, <1>4, <2>1 DEF VersionInv
<1>7. LockInv'
  BY <1>1, <1>2, <1>3, <1>4, EmptyFacts DEF LockInv
<1>8. LoadInv'
  BY <1>1, <1>2, <1>3, <1>4, StandingLoad DEF LoadInv
<1>9. ApartInv'
  BY <1>1, <1>2, <1>3, <1>4 DEF ApartInv, Open, Clearing, Cleared
<1>10. AloneInv'
  <2> SUFFICES ASSUME NEW m \in Loaders, Open(m)', alone'[m] PROVE AloneLoad(m)'
    BY DEF AloneInv
  <2>1. m # l /\ AloneLoad(m)
    BY <1>1, <1>3, <1>4 DEF AloneInv
  <2> QED
    BY <1>2, <1>3, <1>4, <2>1 DEF AloneLoad, Clearing, Cleared
<1>11. NoOrphans'
  BY <1>1, <1>2 DEF NoOrphans
<1> QED
  BY <1>5, <1>6, <1>7, <1>8, <1>9, <1>10, <1>11 DEF Inv

-----------------------------------------------------------------------------
\* The start and the end of a statement, but for COPY's rows.
Between(l) == ClearSource(l) \/ ClearKeys(l) \/ VisitedAll(l) \/ CopiedAll(l) \/ Upsert(l)

\* What they change: where the loader is, and what its DELETE has to visit.
LEMMA BetweenFacts ==
  ASSUME TypeInv, NEW l \in Loaders, Between(l)
  PROVE  /\ UNCHANGED <<rows, catalogue, calls, job, version, gone, added, next, alone, apart>>
         /\ pc' \in [Loaders -> Labels] /\ Open(l) /\ Open(l)'
         /\ \A m \in Loaders \ {l} : UNCHANGED Local(m)
         /\ target' = [target EXCEPT ![l] = target'[l]]
         /\ target'[l] = target[l]
              \/ \E K : target'[l] = Snapshot(l, K)
                   /\ \/ pc[l] = "clear" /\ pc'[l] = "clearing" /\ K = Owned(rows, job[l].name)
                      \/ pc[l] = "clearKeys" /\ pc'[l] = "clearingKeys" /\ K = Incoming(job[l])
<1> USE DEF TypeInv, Goto, Labels, Open, Local, committed
<1>1. CASE ClearSource(l)
  BY <1>1 DEF ClearSource
<1>2. CASE ClearKeys(l)
  BY <1>2 DEF ClearKeys
<1>3. CASE VisitedAll(l)
  BY <1>3 DEF VisitedAll
<1>4. CASE CopiedAll(l)
  BY <1>4 DEF CopiedAll
<1>5. CASE Upsert(l)
  BY <1>5 DEF Upsert
<1> QED
  BY <1>1, <1>2, <1>3, <1>4, <1>5 DEF Between

\* The rows a DELETE has to visit are of versions that are committed.
LEMMA SnapshotFacts ==
  ASSUME TypeInv, VersionInv, NEW l \in Loaders, NEW K
  PROVE  /\ Snapshot(l, K) \subseteq Keys \X (1 .. calls)
         /\ \A t \in Snapshot(l, K) :
              t[1] \in K /\ t[1] \in DOMAIN rows /\ t[2] = rows[t[1]].version
         /\ \A k \in K \cap DOMAIN rows : k \in gone[l] \/ <<k, rows[k].version>> \in Snapshot(l, K)
BY VersionedFacts DEF TypeInv, VersionInv, Snapshot

\* They keep the invariant.
LEMMA BetweenInv ==
  ASSUME Inv, NEW l \in Loaders, Between(l)
  PROVE  Inv'
<1>1. TypeInv /\ VersionInv /\ LockInv /\ LoadInv /\ ApartInv /\ AloneInv /\ NoOrphans
  BY DEF Inv
<1>2. /\ UNCHANGED <<rows, catalogue, calls, job, version, gone, added, next, alone, apart>>
      /\ Open(l) /\ Open(l)' /\ pc' \in [Loaders -> Labels]
      /\ \A m \in Loaders \ {l} : UNCHANGED Local(m)
  BY <1>1, BetweenFacts
<1>3. \A m \in Loaders \ {l} : pc'[m] = pc[m] /\ target'[m] = target[m]
  BY <1>2 DEF Local
<1>4. \A m \in Loaders : Open(m)' <=> Open(m)
  BY <1>2, <1>3 DEF Open
<1>5. TypeInv'
  <2>1. target' \in [Loaders -> SUBSET (Keys \X (1 .. calls))]
    <3>1. target'[l] \in SUBSET (Keys \X (1 .. calls))
      BY <1>1, BetweenFacts, SnapshotFacts DEF TypeInv
    <3> QED
      BY <1>1, <3>1, BetweenFacts DEF TypeInv
  <2> QED
    BY <1>1, <1>2, <1>3, <1>4, <2>1 DEF TypeInv
<1>6. VersionInv'
  <2>1. ASSUME NEW t \in target'[l]
        PROVE  t \in target[l] \/ \E k \in DOMAIN rows : t[2] = rows[k].version
    BY <1>1, <2>1, BetweenFacts, SnapshotFacts
  <2> QED
    BY <1>1, <1>2, <1>3, <1>4, <2>1 DEF VersionInv
<1>7. LockInv'
  BY <1>1, <1>2 DEF LockInv
<1>8. LoadInv'
  <2>1. Deleting(l) /\ Position(l) /\ Copied(l)
    BY <1>1, <1>2 DEF LoadInv
  <2>2. ASSUME NEW t \in target'[l], t[1] \in DOMAIN rows, rows[t[1]].version = t[2]
        PROVE  Own(l, t[1])
    <3>1. CASE t \in target[l]
      BY <2>1, <2>2, <3>1 DEF Deleting
    <3>2. CASE t \notin target[l]
      BY <1>1, <2>2, <3>2, BetweenFacts, SnapshotFacts DEF Own, Owned
    <3> QED
      BY <3>1, <3>2
  <2>3. Deleting(l)'
    BY <1>2, <2>1, <2>2 DEF Deleting, Own
  <2>4. Position(l)'
    <3>1. next[l] \in Nat \ {0} /\ Len(job[l].banks) \in Nat
      BY <1>1, <1>2, BatchFacts DEF TypeInv
    <3>2. \/ pc'[l] \in Early \ {"clear"} /\ next[l] = 1
          \/ pc'[l] = "copy"
          \/ pc'[l] \in {"upsert", "commit"} /\ next[l] = Len(job[l].banks) + 1
      <4>1. CASE ClearSource(l) \/ ClearKeys(l) \/ VisitedAll(l)
        BY <1>1, <2>1, <4>1 DEF ClearSource, ClearKeys, VisitedAll, Goto, TypeInv, Position, Early
      <4>2. CASE CopiedAll(l)
        <5>1. pc[l] = "copy" /\ pc'[l] = "upsert" /\ ~ (next[l] <= Len(job[l].banks))
          BY <1>1, <4>2 DEF CopiedAll, Goto, TypeInv, Copying
        <5>2. next[l] = Len(job[l].banks) + 1
          BY <2>1, <3>1, <5>1 DEF Position
        <5> QED
          BY <5>1, <5>2
      <4>3. CASE Upsert(l)
        BY <1>1, <2>1, <4>3 DEF Upsert, Goto, TypeInv, Position
      <4> QED
        BY <4>1, <4>2, <4>3 DEF Between
    <3> QED
      BY <1>2, <2>1, <3>2 DEF Position, Early
  <2>5. Copied(l)'
    BY <1>2, <2>1 DEF Copied, KeyAt, RowOf
  <2> QED
    BY <1>1, <1>2, <1>4, <2>3, <2>4, <2>5, StandingLoad DEF LoadInv
<1>9. ApartInv'
  <2> SUFFICES ASSUME apart PROVE ApartInv'
    BY <1>2 DEF ApartInv
  <2> DEFINE K == Owned(rows, job[l].name)
  <2>1. /\ pc'[l] = "clearing" => Clearing(l, K)'
        /\ pc'[l] \in Labels \ {"idle", "clear", "clearing"} => Cleared(l, K)'
    <3>1. CASE ClearSource(l)
      <4>1. pc'[l] = "clearing" /\ target'[l] = Snapshot(l, K)
        BY <1>1, <3>1 DEF ClearSource, Goto, TypeInv
      <4>2. K \subseteq DOMAIN rows
        BY DEF Owned
      <4>3. \A k \in K : k \in gone[l] \/ <<k, rows[k].version>> \in target'[l]
        BY <1>1, <4>1, <4>2, SnapshotFacts
      <4> QED
        BY <1>2, <4>1, <4>3 DEF Clearing
    <3>2. CASE ~ ClearSource(l)
      <4>1. pc[l] = "clearing" => target[l] = {}
        BY <3>2 DEF Between, VisitedAll, ClearKeys, CopiedAll, Upsert
      <4>2. pc[l] \notin {"idle", "clear"} /\ pc'[l] \notin {"idle", "clear", "clearing"}
        BY <1>1, <3>2 DEF Between, VisitedAll, ClearKeys, CopiedAll, Upsert, Goto, TypeInv
      <4>3. Cleared(l, K)
        BY <1>1, <4>1, <4>2 DEF ApartInv, Clearing, Cleared, TypeInv
      <4> QED
        BY <1>2, <4>2, <4>3 DEF Cleared
    <3> QED
      BY <3>1, <3>2
  <2> QED
    BY <1>1, <1>2, <1>3, <1>4, <2>1 DEF ApartInv, Clearing, Cleared
<1>10. AloneInv'
  <2> SUFFICES ASSUME NEW m \in Loaders, Open(m)', alone'[m] PROVE AloneLoad(m)'
    BY DEF AloneInv
  <2>1. AloneLoad(m)
    BY <1>1, <1>2, <1>4 DEF AloneInv
  <2>2. m = l
    BY <1>2, <2>1 DEF AloneLoad
  <2> DEFINE K == Incoming(job[l]) \cap DOMAIN rows
  <2>3. /\ pc'[l] = "clearingKeys" => Clearing(l, K)'
        /\ pc'[l] \in {"copy", "upsert", "commit"} => Cleared(l, K)'
    <3>1. CASE ClearKeys(l)
      <4>1. pc'[l] = "clearingKeys" /\ target'[l] = Snapshot(l, Incoming(job[l]))
        BY <1>1, <3>1 DEF ClearKeys, Goto, TypeInv
      <4>2. \A k \in K : k \in gone[l] \/ <<k, rows[k].version>> \in target'[l]
        BY <1>1, <4>1, SnapshotFacts
      <4> QED
        BY <1>2, <4>1, <4>2 DEF Clearing
    <3>2. CASE VisitedAll(l)
      <4>1. job[l] \in Batches /\ target[l] = {}
        BY <1>1, <1>2, <3>2 DEF TypeInv, VisitedAll
      <4>2. CASE pc[l] = "clearing" /\ job[l].banks = <<>>
        <5>1. Incoming(job[l]) = {}
          BY <4>2 DEF Incoming, IncomingFrom
        <5> QED
          BY <1>2, <5>1 DEF Clearing, Cleared
      <4>3. CASE pc[l] = "clearing" /\ job[l].banks # <<>>
        BY <1>1, <3>2, <4>3 DEF VisitedAll, Goto, TypeInv
      <4>4. CASE pc[l] = "clearingKeys"
        <5>1. pc'[l] = "copy"
          BY <1>1, <3>2, <4>4 DEF VisitedAll, Goto, TypeInv
        <5> QED
          BY <1>2, <2>1, <2>2, <4>1, <4>4, <5>1 DEF AloneLoad, Clearing, Cleared
      <4> QED
        BY <3>2, <4>2, <4>3, <4>4 DEF VisitedAll
    <3>3. CASE ClearSource(l)
      BY <1>1, <3>3 DEF ClearSource, Goto, TypeInv
    <3>4. CASE CopiedAll(l) \/ Upsert(l)
      <4>1. pc[l] \in {"copy", "upsert"} /\ pc'[l] # "clearingKeys"
        BY <1>1, <3>4 DEF CopiedAll, Upsert, Goto, TypeInv
      <4> QED
        BY <1>2, <2>1, <2>2, <4>1 DEF AloneLoad, Cleared
    <3> QED
      BY <3>1, <3>2, <3>3, <3>4 DEF Between
  <2> QED
    BY <1>2, <1>4, <2>1, <2>2, <2>3 DEF AloneLoad
<1>11. NoOrphans'
  BY <1>1, <1>2 DEF NoOrphans
<1> QED
  BY <1>5, <1>6, <1>7, <1>8, <1>9, <1>10, <1>11 DEF Inv

-----------------------------------------------------------------------------
\* A DELETE visits a row.
LEMMA VisitInv ==
  ASSUME Inv, NEW l \in Loaders, NEW k \in Keys, NEW v \in 1 .. MaxReplaces, Visit(l, k, v)
  PROVE  Inv'
<1>1. TypeInv /\ VersionInv /\ LockInv /\ LoadInv /\ ApartInv /\ AloneInv /\ NoOrphans
  BY DEF Inv
<1>2. /\ UNCHANGED <<rows, catalogue, calls, pc, job, version, added, next, alone, apart>>
      /\ pc[l] \in {"clearing", "clearingKeys"} /\ Open(l)
      /\ <<k, v>> \in target[l]
      /\ Standing(k, v) => \A m \in Loaders \ {l} : k \notin gone[m]
  BY DEF Visit, committed, Open, Deleters
<1> DEFINE hit == k \in DOMAIN rows /\ rows[k].version = v
<1>0. hit <=> Standing(k, v)
  BY DEF Standing
<1>3. /\ target' = [target EXCEPT ![l] = @ \ {<<k, v>>}]
      /\ target'[l] = target[l] \ {<<k, v>>}
      /\ gone'[l] = IF hit THEN gone[l] \cup {k} ELSE gone[l]
      /\ \A m \in Loaders \ {l} : target'[m] = target[m] /\ gone'[m] = gone[m]
  BY <1>0, <1>1 DEF Visit, TypeInv
<1>4. \A m \in Loaders : Open(m)' <=> Open(m)
  BY <1>2 DEF Open
<1>5. TypeInv'
  <2>1. gone' \in [Loaders -> SUBSET DOMAIN rows]
    BY <1>0, <1>1 DEF Visit, TypeInv
  <2>2. target' \in [Loaders -> SUBSET (Keys \X (1 .. calls))]
    BY <1>1, <1>3 DEF TypeInv
  <2> QED
    BY <1>1, <1>2, <1>3, <1>4, <2>1, <2>2 DEF TypeInv
<1>6. VersionInv'
  BY <1>1, <1>2, <1>3, <1>4 DEF VersionInv
<1>7. LockInv'
  <2>1. ASSUME hit, NEW m \in Loaders \ {l} PROVE k \notin gone[m] /\ k \notin DOMAIN added[m]
    BY <1>0, <1>1, <1>2, <2>1 DEF LockInv
  <2> QED
    BY <1>1, <1>2, <1>3, <2>1 DEF LockInv
<1>8. LoadInv'
  <2>1. Deleting(l) /\ Position(l) /\ Copied(l)
    BY <1>1, <1>2 DEF LoadInv
  <2>2. hit => Own(l, k)
    BY <1>2, <2>1 DEF Deleting
  <2>3. Deleting(l)'
    BY <1>2, <1>3, <2>1, <2>2 DEF Deleting, Own
  <2>4. Position(l)' /\ Copied(l)'
    BY <1>2, <2>1 DEF Position, Copied, KeyAt, RowOf
  <2>5. \A m \in Loaders \ {l} : UNCHANGED Local(m)
    BY <1>2, <1>3 DEF Local
  <2> QED
    BY <1>1, <1>2, <1>4, <2>3, <2>4, <2>5, StandingLoad DEF LoadInv
<1>9. ASSUME NEW K \in SUBSET DOMAIN rows, Clearing(l, K)
      PROVE  \A j \in K : j \in gone'[l] \/ <<j, rows[j].version>> \in target'[l]
  <2> TAKE j \in K
  <2>1. CASE j \in gone[l]
    BY <1>3, <2>1
  <2>2. CASE <<j, rows[j].version>> \in target[l] /\ <<j, rows[j].version>> # <<k, v>>
    BY <1>3, <2>2
  <2>3. CASE <<j, rows[j].version>> = <<k, v>>
    <3>1. j = k /\ rows[j].version = v
      BY <2>3
    <3> QED
      BY <1>3, <3>1
  <2> QED
    BY <1>9, <2>1, <2>2, <2>3 DEF Clearing
<1>10. ASSUME NEW K, Cleared(l, K) PROVE K \subseteq gone'[l]
  BY <1>3, <1>10 DEF Cleared
<1>11. ApartInv'
  <2> SUFFICES ASSUME apart PROVE ApartInv'
    BY <1>2 DEF ApartInv
  <2> DEFINE K == Owned(rows, job[l].name)
  <2>1. K \in SUBSET DOMAIN rows
    BY DEF Owned
  <2>2. /\ pc[l] = "clearing" => \A j \in K : j \in gone'[l] \/ <<j, rows[j].version>> \in target'[l]
        /\ pc[l] \in Labels \ {"idle", "clear", "clearing"} => K \subseteq gone'[l]
    BY <1>1, <1>9, <1>10, <2>1 DEF ApartInv
  <2> QED
    BY <1>1, <1>2, <1>3, <1>4, <2>2 DEF ApartInv, Clearing, Cleared
<1>12. AloneInv'
  <2> SUFFICES ASSUME NEW m \in Loaders, Open(m)', alone'[m] PROVE AloneLoad(m)'
    BY DEF AloneInv
  <2>1. AloneLoad(m)
    BY <1>1, <1>2, <1>4 DEF AloneInv
  <2>2. m = l
    BY <1>2, <2>1 DEF AloneLoad
  <2> DEFINE K == Incoming(job[l]) \cap DOMAIN rows
  <2>3. /\ pc[l] = "clearingKeys" => \A j \in K : j \in gone'[l] \/ <<j, rows[j].version>> \in target'[l]
        /\ pc[l] \in {"copy", "upsert", "commit"} => K \subseteq gone'[l]
    BY <1>9, <1>10, <2>1, <2>2 DEF AloneLoad
  <2> QED
    BY <1>2, <1>4, <2>1, <2>2, <2>3 DEF AloneLoad, Clearing, Cleared
<1>13. NoOrphans'
  BY <1>1, <1>2 DEF NoOrphans
<1> QED
  BY <1>5, <1>6, <1>7, <1>8, <1>11, <1>12, <1>13 DEF Inv

\* COPY inserts a row.
LEMMA CopyRowInv ==
  ASSUME Inv, NEW l \in Loaders, CopyRow(l)
  PROVE  Inv'
<1>1. TypeInv /\ VersionInv /\ LockInv /\ LoadInv /\ ApartInv /\ AloneInv /\ NoOrphans
  BY DEF Inv
<1> DEFINE key == NextKey(l)
           i == next[l]
<1>2. /\ UNCHANGED <<rows, catalogue, calls, pc, job, version, target, gone, alone, apart>>
      /\ pc[l] = "copy" /\ Open(l) /\ i <= Len(job[l].banks)
  BY DEF CopyRow, Copying, committed, Open
<1>3. /\ job[l] \in Batches /\ version[l] \in Nat /\ i \in 1 .. Len(job[l].banks)
      /\ Len(job[l].banks) \in Nat /\ DOMAIN job[l].banks = 1 .. Len(job[l].banks)
  <2>1. job[l] \in Batches /\ version[l] \in 0 .. calls /\ calls \in 0 .. MaxReplaces
        /\ i \in Nat \ {0}
    BY <1>1, <1>2 DEF TypeInv
  <2> QED
    BY <1>2, <2>1, BatchFacts
<1>4. key \in Keys /\ RowOf(l, i) \in Versioned /\ key = KeyAt(l, i)
  <2>1. job[l].banks[i] \in Banks /\ job[l].name \in Names /\ job[l].edition \in Nat
    BY <1>3, BatchFacts
  <2> QED
    BY <1>3, <2>1 DEF Banks, Versioned, RowOf, NextKey, KeyAt
<1>5. /\ added'[l] = Assign(added[l], key, RowOf(l, i)) /\ next'[l] = i + 1
      /\ \A m \in Loaders \ {l} : added'[m] = added[m] /\ next'[m] = next[m]
  BY <1>1 DEF CopyRow, TypeInv
<1>6. \A m \in Loaders : Open(m)' <=> Open(m)
  BY <1>2 DEF Open
<1>7. /\ \A m \in Loaders \ {l} : key \notin DOMAIN added[m] /\ key \notin gone[m]
      /\ key \notin DOMAIN added[l] /\ key \notin DOMAIN rows \ gone[l]
  <2>1. \A m \in Loaders \ {l} : key \notin DOMAIN added[m] /\ (key \in DOMAIN rows => key \notin gone[m])
    BY DEF CopyRow, Claimants, Inserters, Deleters
  <2>2. \A m \in Loaders : gone[m] \subseteq DOMAIN rows
    BY <1>1 DEF TypeInv
  <2> QED
    BY <2>1, <2>2 DEF CopyRow, Taken
<1>8. DOMAIN added'[l] = DOMAIN added[l] \cup {key}
      /\ \A k \in DOMAIN added'[l] :
           added'[l][k] = IF k = key THEN RowOf(l, i) ELSE added[l][k]
  BY <1>5 DEF Assign
<1> HIDE DEF key, i
<1>9. TypeInv'
  <2>1. Assign(added[l], key, RowOf(l, i)) \in VersionedTables
    <3>1. added[l] \in VersionedTables
      BY <1>1 DEF TypeInv
    <3>2. PICK K \in SUBSET Keys : added[l] \in [K -> Versioned]
      BY <3>1 DEF VersionedTables
    <3>3. Assign(added[l], key, RowOf(l, i)) \in [K \cup {key} -> Versioned]
          /\ K \cup {key} \in SUBSET Keys
      BY <1>4, <3>2 DEF Assign
    <3> QED
      BY <3>3 DEF VersionedTables
  <2>2. added' \in [Loaders -> VersionedTables] /\ next' \in [Loaders -> Nat \ {0}]
    BY <1>1, <2>1 DEF TypeInv, CopyRow, key, i
  <2> QED
    BY <1>1, <1>2, <1>5, <1>6, <2>2 DEF TypeInv
<1>10. VersionInv'
  BY <1>1, <1>2, <1>6 DEF VersionInv
<1>11. LockInv'
  BY <1>1, <1>2, <1>5, <1>7, <1>8 DEF LockInv
<1>12. LoadInv'
  <2>1. Deleting(l) /\ Position(l) /\ Copied(l)
    BY <1>1, <1>2 DEF LoadInv
  <2>2. Deleting(l)' /\ Position(l)'
    BY <1>2, <1>3, <1>5, <2>1 DEF Deleting, Own, Position, Early
  <2>3. Copied(l)'
    <3>1. 1 .. next'[l] - 1 = (1 .. next[l] - 1) \cup {i} /\ next[l] = i
      BY <1>3, <1>5 DEF i
    <3>2. DOMAIN added'[l] = {KeyAt(l, j) : j \in 1 .. next'[l] - 1}
      BY <1>4, <1>8, <2>1, <3>1 DEF Copied
    <3>3. ASSUME NEW j \in 1 .. next[l] - 1 PROVE KeyAt(l, j) # key /\ KeyAt(l, j) \in DOMAIN added[l]
      BY <1>7, <2>1 DEF Copied
    <3>4. ASSUME NEW j \in 1 .. next'[l] - 1 PROVE added'[l][KeyAt(l, j)] = RowOf(l, j)
      BY <1>4, <1>8, <2>1, <3>1, <3>3 DEF Copied
    <3>5. ASSUME NEW j \in 1 .. next'[l] - 1, NEW h \in 1 .. next'[l] - 1, KeyAt(l, j) = KeyAt(l, h)
          PROVE  j = h
      BY <1>4, <2>1, <3>1, <3>3, <3>5 DEF Copied
    <3>6. \A j : KeyAt(l, j)' = KeyAt(l, j) /\ RowOf(l, j)' = RowOf(l, j)
      BY <1>2 DEF KeyAt, RowOf
    <3> QED
      BY <3>2, <3>4, <3>5, <3>6 DEF Copied
  <2>4. \A m \in Loaders \ {l} : UNCHANGED Local(m)
    BY <1>2, <1>5 DEF Local
  <2> QED
    BY <1>1, <1>2, <1>6, <2>2, <2>3, <2>4, StandingLoad DEF LoadInv
<1>13. ApartInv'
  BY <1>1, <1>2, <1>6 DEF ApartInv, Clearing, Cleared
<1>14. AloneInv'
  BY <1>1, <1>2, <1>6 DEF AloneInv, AloneLoad, Clearing, Cleared
<1>15. NoOrphans'
  BY <1>1, <1>2 DEF NoOrphans
<1> QED
  BY <1>9, <1>10, <1>11, <1>12, <1>13, <1>14, <1>15 DEF Inv

-----------------------------------------------------------------------------
\* What a commit leaves in the table: the rows it has inserted, and those others
\* have committed that it has not deleted.
LEMMA CommitFacts ==
  ASSUME Inv, NEW l \in Loaders, Commit(l)
  PROVE  /\ rows' \in VersionedTables
         /\ DOMAIN rows' = (DOMAIN rows \ gone[l]) \cup DOMAIN added[l]
         /\ \A k \in DOMAIN added[l] :
              /\ rows'[k] = added[l][k] /\ added[l][k].version = version[l]
              /\ added[l][k].source = job[l].name
         /\ \A k \in DOMAIN rows' :
              \/ k \in DOMAIN added[l] /\ rows'[k].version = version[l]
                   /\ rows'[k].source = job[l].name
              \/ k \notin DOMAIN added[l] /\ k \in DOMAIN rows /\ rows'[k] = rows[k]
         /\ \A m \in Loaders \ {l} : \A k \in gone[m] :
              k \in DOMAIN rows' /\ k \notin DOMAIN added[l]
         /\ Open(l) /\ job[l] \in Batches /\ version[l] \in 1 .. calls
         /\ UNCHANGED <<calls, apart>>
<1>1. TypeInv /\ LockInv /\ LoadInv
  BY DEF Inv
<1>2. /\ Open(l) /\ job[l] \in Batches /\ version[l] \in 1 .. calls /\ pc[l] = "commit"
  <2>1. version[l] \in 0 .. calls /\ calls \in Nat /\ version[l] # 0
    BY <1>1, BoundAssumption DEF Commit, TypeInv, Open
  <2> QED
    BY <1>1, <2>1 DEF Commit, TypeInv, Open
<1>3. Copied(l)
  BY <1>1, <1>2 DEF LoadInv
<1>4. \A k \in DOMAIN added[l] : added[l][k].version = version[l] /\ added[l][k].source = job[l].name
  <2> TAKE k \in DOMAIN added[l]
  <2>1. PICK i \in 1 .. next[l] - 1 : k = KeyAt(l, i)
    BY <1>3 DEF Copied
  <2>2. added[l][k] = RowOf(l, i)
    BY <1>3, <2>1 DEF Copied
  <2> QED
    BY <2>2 DEF RowOf
<1>5. /\ DOMAIN rows' = (DOMAIN rows \ gone[l]) \cup DOMAIN added[l]
      /\ \A k \in DOMAIN rows' :
           rows'[k] = IF k \in DOMAIN added[l] THEN added[l][k] ELSE rows[k]
      /\ rows' = [k \in DOMAIN rows' |-> rows'[k]]
  BY DEF Commit
<1>6. rows' \in VersionedTables
  <2>1. rows \in VersionedTables /\ added[l] \in VersionedTables
    BY <1>1 DEF TypeInv
  <2> QED
    BY <1>5, <2>1, VersionedFacts
<1>7. \A m \in Loaders \ {l} : \A k \in gone[m] :
        k \in DOMAIN rows' /\ k \notin DOMAIN added[l]
  BY <1>1, <1>5 DEF TypeInv, LockInv
<1> QED
  BY <1>2, <1>4, <1>5, <1>6, <1>7 DEF Commit

\* A commit keeps the invariant.
LEMMA CommitInv ==
  ASSUME Inv, NEW l \in Loaders, Commit(l)
  PROVE  Inv'
<1>1. TypeInv /\ VersionInv /\ LockInv /\ LoadInv /\ ApartInv /\ AloneInv /\ NoOrphans
  BY DEF Inv
<1>2. /\ ~ Open(l)' /\ job'[l] = NoBatch /\ version'[l] = 0 /\ target'[l] = {}
      /\ gone'[l] = {} /\ added'[l] = Empty /\ next'[l] = 1
      /\ \A m \in Loaders \ {l} : UNCHANGED Local(m)
  BY <1>1, EndFacts DEF Commit
<1>3. \A m \in Loaders \ {l} :
        /\ Open(m)' <=> Open(m)
        /\ UNCHANGED <<pc[m], job[m], version[m], target[m], gone[m], added[m], next[m], alone[m]>>
  BY <1>2 DEF Local, Open
<1>4. UNCHANGED <<calls, apart>> /\ Open(l) /\ job[l] \in Batches /\ version[l] \in 1 .. calls
  BY CommitFacts
<1>5. catalogue' = Assign(catalogue, job[l].name, InfoOf(job[l], Len(job[l].banks)))
  BY DEF Commit
<1>6. TypeInv'
  <2>1. \A m \in Loaders :
          IF Open(m)' THEN job'[m] \in Batches /\ version'[m] # 0
          ELSE /\ job'[m] = NoBatch /\ version'[m] = 0 /\ target'[m] = {} /\ gone'[m] = {}
               /\ added'[m] = Empty /\ next'[m] = 1
    BY <1>1, <1>2, <1>3 DEF TypeInv
  <2>2. gone' \in [Loaders -> SUBSET DOMAIN rows']
    <3>1. \A m \in Loaders : gone'[m] \subseteq DOMAIN rows'
      BY <1>2, <1>3, CommitFacts
    <3>2. gone' = [m \in Loaders |-> gone'[m]]
      BY <1>1, EndFacts DEF Commit
    <3> QED
      BY <3>1, <3>2
  <2>3. IsCatalogue(catalogue')
    <3>1. job[l].name \in Names /\ InfoOf(job[l], Len(job[l].banks)) \in SourceInfo
      BY <1>4, BatchFacts DEF InfoOf, SourceInfo
    <3> QED
      BY <1>1, <1>5, <3>1, AssignCatalogue DEF TypeInv
  <2> QED
    BY <1>1, <1>4, <2>1, <2>2, <2>3, EndFacts, CommitFacts DEF TypeInv, Commit
<1>7. VersionInv'
  <2>1. \A m \in Loaders : Open(m) => version[m] # 0
    BY <1>1 DEF TypeInv
  <2>2. ASSUME NEW k \in DOMAIN rows'
        PROVE  rows'[k].version = version[l] \/ (k \in DOMAIN rows /\ rows'[k] = rows[k])
    BY <2>2, CommitFacts
  <2>3. \A k \in DOMAIN rows' : rows'[k].version \in 1 .. calls
    BY <1>1, <1>4, <2>2 DEF VersionInv
  <2>4. ASSUME NEW m \in Loaders \ {l}, Open(m)
        PROVE  /\ \A k \in DOMAIN rows' : rows'[k].version # version[m]
               /\ \A n \in Loaders \ {m} : version'[n] # version[m]
               /\ \A n \in Loaders : \A t \in target'[n] : t[2] # version[m]
    <3>1. /\ \A k \in DOMAIN rows : rows[k].version # version[m]
          /\ \A n \in Loaders \ {m} : version[n] # version[m]
          /\ \A n \in Loaders : \A t \in target[n] : t[2] # version[m]
      BY <1>1, <2>4 DEF VersionInv
    <3> QED
      BY <1>2, <1>3, <2>1, <2>2, <2>4, <3>1
  <2> QED
    BY <1>2, <1>3, <1>4, <2>3, <2>4 DEF VersionInv
<1>8. LockInv'
  <2>1. ASSUME NEW m \in Loaders \ {l}
        PROVE  DOMAIN added[m] \cap (DOMAIN rows' \ gone[m]) = {}
    BY <1>1, CommitFacts DEF LockInv
  <2> QED
    BY <1>1, <1>2, <1>3, <2>1, EmptyFacts DEF LockInv
<1>9. LoadInv'
  <2> SUFFICES ASSUME NEW m \in Loaders \ {l}, Open(m)
               PROVE  Deleting(m)' /\ Position(m)' /\ Copied(m)'
    BY <1>2, <1>3 DEF LoadInv
  <2>1. Deleting(m) /\ Position(m) /\ Copied(m)
    BY <1>1 DEF LoadInv
  <2>2. Position(m)' /\ Copied(m)'
    BY <1>3, <2>1 DEF Position, Copied, KeyAt, RowOf
  <2>3. ASSUME NEW k \in gone[m] PROVE Own(m, k)'
    <3>1. rows'[k] = rows[k]
      BY CommitFacts
    <3> QED
      BY <1>3, <2>1, <3>1 DEF Deleting, Own
  <2>4. ASSUME NEW t \in target[m], t[1] \in DOMAIN rows', rows'[t[1]].version = t[2]
        PROVE  Own(m, t[1])'
    <3>1. t[2] # version[l]
      BY <1>1, <1>4 DEF VersionInv
    <3>2. t[1] \in DOMAIN rows /\ rows'[t[1]] = rows[t[1]]
      BY <2>4, <3>1, CommitFacts
    <3> QED
      BY <1>3, <2>1, <2>4, <3>2 DEF Deleting, Own
  <2> QED
    BY <1>3, <2>2, <2>3, <2>4 DEF Deleting
<1>10. ApartInv'
  <2> SUFFICES ASSUME apart PROVE ApartInv'
    BY <1>4 DEF ApartInv
  <2>1. ASSUME NEW m \in Loaders \ {l}, Open(m), NEW k \in Owned(rows', job[m].name)
        PROVE  k \in Owned(rows, job[m].name) /\ rows'[k] = rows[k]
    <3>1. job[m].name # job[l].name
      BY <1>1, <1>4, <2>1 DEF ApartInv
    <3>2. k \in DOMAIN rows' /\ rows'[k].source = job[m].name
      BY DEF Owned
    <3>3. k \in DOMAIN rows /\ rows'[k] = rows[k]
      BY <3>1, <3>2, CommitFacts
    <3> QED
      BY <3>2, <3>3 DEF Owned
  <2>2. ASSUME NEW m \in Loaders \ {l}
        PROVE  /\ pc[m] = "clearing" => Clearing(m, Owned(rows, job[m].name))'
               /\ pc[m] \in Labels \ {"idle", "clear", "clearing"} =>
                    Cleared(m, Owned(rows, job[m].name))'
    <3>1. /\ pc[m] = "clearing" => Clearing(m, Owned(rows, job[m].name))
          /\ pc[m] \in Labels \ {"idle", "clear", "clearing"} =>
               Cleared(m, Owned(rows, job[m].name))
      BY <1>1 DEF ApartInv
    <3> QED
      BY <1>3, <2>1, <3>1 DEF Clearing, Cleared, Open
  <2> QED
    BY <1>1, <1>2, <1>3, <2>2 DEF ApartInv, Open
<1>11. AloneInv'
  <2> SUFFICES ASSUME NEW m \in Loaders, Open(m)', alone'[m] PROVE FALSE
    BY DEF AloneInv
  <2>1. m # l /\ AloneLoad(m)
    BY <1>1, <1>2, <1>3 DEF AloneInv
  <2> QED
    BY <1>4, <2>1 DEF AloneLoad
<1>12. NoOrphans'
  <2>1. DOMAIN catalogue' = DOMAIN catalogue \cup {job[l].name}
    BY <1>5 DEF Assign
  <2> QED
    BY <1>1, <2>1, CommitFacts DEF NoOrphans, Catalogued
<1> QED
  BY <1>6, <1>7, <1>8, <1>9, <1>10, <1>11, <1>12 DEF Inv

\* Every step keeps the invariant.
LEMMA StepInv == Inv /\ [Next]_vars => Inv'
<1> SUFFICES ASSUME Inv, [Next]_vars PROVE Inv'
  OBVIOUS
<1>1. ASSUME NEW l \in Loaders, NEW batch \in Batches, Begin(l, batch) PROVE Inv'
  BY <1>1, BeginInv
<1>2. ASSUME NEW l \in Loaders, Between(l) PROVE Inv'
  BY <1>2, BetweenInv
<1>3. ASSUME NEW l \in Loaders, NEW k \in Keys, NEW v \in 1 .. MaxReplaces, Visit(l, k, v)
      PROVE  Inv'
  BY <1>3, VisitInv
<1>4. ASSUME NEW l \in Loaders, CopyRow(l) PROVE Inv'
  BY <1>4, CopyRowInv
<1>5. ASSUME NEW l \in Loaders, UniqueViolation(l) \/ Abort(l) \/ DeadlockVictim(l) PROVE Inv'
  BY <1>5, RollbackInv DEF UniqueViolation, Abort, DeadlockVictim
<1>6. ASSUME NEW l \in Loaders, Commit(l) PROVE Inv'
  BY <1>6, CommitInv
<1>7. CASE UNCHANGED <<committed, calls, tx, apart>>
  <2>1. UNCHANGED <<rows, catalogue, calls, pc, job, version, target, gone, added, next, alone, apart>>
    BY <1>7 DEF committed, tx
  <2>2. \A l : (Open(l)' <=> Open(l)) /\ UNCHANGED Local(l)
    BY <2>1 DEF Open, Local
  <2>3. TypeInv' /\ VersionInv' /\ LockInv' /\ NoOrphans'
    BY <2>1, <2>2 DEF Inv, TypeInv, VersionInv, LockInv, NoOrphans
  <2>4. LoadInv'
    BY <2>1, <2>2, StandingLoad DEF Inv, LoadInv
  <2>5. ApartInv' /\ AloneInv'
    BY <2>1, <2>2 DEF Inv, ApartInv, AloneInv, AloneLoad, Clearing, Cleared
  <2> QED
    BY <2>3, <2>4, <2>5 DEF Inv
<1> QED
  BY <1>1, <1>2, <1>3, <1>4, <1>5, <1>6, <1>7 DEF Next, Statement, Between, Read, vars

\* Rows, catalogue and transactions keep their types: a transaction has deleted
\* committed rows only, and what it is about to visit is of a version there was.
THEOREM PgTypeOK == Spec => []TypeOK
<1>1. Inv => TypeOK
  <2> SUFFICES ASSUME Inv PROVE TypeOK
    OBVIOUS
  <2>1. IsTable(Table)
    <3>1. \A k \in DOMAIN rows : rows[k] \in Versioned
      BY VersionedFacts DEF Inv, TypeInv
    <3>2. Table \in [DOMAIN rows -> Record] /\ DOMAIN rows \subseteq Keys
      BY <3>1, VersionedFacts DEF Inv, TypeInv, Table, Versioned, Record
    <3> QED
      BY <3>2 DEF IsTable
  <2>2. \A l \in Loaders : DOMAIN added[l] \subseteq Keys
    BY VersionedFacts DEF Inv, TypeInv
  <2>3. \A l \in Loaders : (Open(l) <=> job[l] \in Batches) /\ (Open(l) <=> version[l] \in 1 .. calls)
    <3>1. NoBatch \notin Batches
      BY BatchFacts
    <3>2. \A l \in Loaders : version[l] \in 0 .. calls /\ calls \in Nat
      BY BoundAssumption DEF Inv, TypeInv
    <3> QED
      BY <3>1, <3>2 DEF Inv, TypeInv
  <2> QED
    BY <2>1, <2>2, <2>3 DEF Inv, TypeInv, VersionInv, TypeOK
<1> QED
  BY <1>1, InitInv, StepInv, PTL DEF Spec

\* However loads overlap, wait for each other and fail, no row is committed
\* whose source the catalogue does not list.
THEOREM PgNoOrphans == Spec => []NoOrphans
<1>1. Inv => NoOrphans
  BY DEF Inv
<1> QED
  BY <1>1, InitInv, StepInv, PTL DEF Spec

-----------------------------------------------------------------------------
\* A batch brings as many keys as it has banks unless it repeats one.
LEMMA RepeatsMeans ==
  ASSUME NEW batch \in Batches
  PROVE  Repeats(batch) <=>
           \E i, j \in 1 .. Len(batch.banks) : i # j /\ batch.banks[i].key = batch.banks[j].key
<1> DEFINE L == Len(batch.banks)
           S == 1 .. L
           f == [i \in S |-> batch.banks[i].key]
<1>1. L \in Nat /\ IsFiniteSet(S) /\ Cardinality(S) = L
  <2>1. L \in Nat
    BY BatchFacts
  <2> HIDE DEF L
  <2>2. 1 \in Int /\ L \in Int
    BY <2>1
  <2>3. IsFiniteSet(1 .. L) /\ Cardinality(1 .. L) = IF 1 > L THEN 0 ELSE L - 1 + 1
    BY <2>2, FS_Interval
  <2> QED
    BY <2>1, <2>3 DEF S
<1>2. f \in Surjection(S, Incoming(batch))
  BY DEF Surjection, Incoming, IncomingFrom
<1>3. Cardinality(Incoming(batch)) = Cardinality(S) <=> f \in Injection(S, Incoming(batch))
  BY <1>1, <1>2, FS_Surjection
<1>4. f \in Injection(S, Incoming(batch)) <=> \A i, j \in S : f[i] = f[j] => i = j
  BY <1>2 DEF Injection, IsInjective, Surjection
<1> QED
  BY <1>1, <1>3, <1>4 DEF Repeats

\* A load that no other overlapped has cleared every row under its keys when it
\* copies, so a key that is taken was taken by its own batch.
THEOREM PgFailsOnlyOnRepeats == Spec => []FailsOnlyOnRepeats
<1>1. Inv => FailsOnlyOnRepeats
  <2> SUFFICES ASSUME Inv, NEW l \in Loaders, alone[l], Copying(l), Taken(l, NextKey(l))
               PROVE  Repeats(job[l])
    BY DEF FailsOnlyOnRepeats
  <2>1. /\ Open(l) /\ job[l] \in Batches /\ pc[l] = "copy"
        /\ next[l] \in 1 .. Len(job[l].banks) /\ Len(job[l].banks) \in Nat
    <3>1. Open(l) /\ pc[l] = "copy" /\ next[l] <= Len(job[l].banks)
      BY DEF Copying, Open
    <3>2. job[l] \in Batches /\ next[l] \in Nat \ {0}
      BY <3>1 DEF Inv, TypeInv
    <3> QED
      BY <3>1, <3>2, BatchFacts
  <2>2. NextKey(l) \in Incoming(job[l]) /\ NextKey(l) = KeyAt(l, next[l])
    BY <2>1 DEF NextKey, Incoming, IncomingFrom, KeyAt
  <2>3. Cleared(l, Incoming(job[l]) \cap DOMAIN rows)
    BY <2>1 DEF Inv, AloneInv, AloneLoad
  <2>4. NextKey(l) \in DOMAIN added[l]
    BY <2>2, <2>3 DEF Taken, Cleared
  <2>5. Copied(l)
    BY <2>1 DEF Inv, LoadInv
  <2>6. PICK i \in 1 .. next[l] - 1 : KeyAt(l, i) = NextKey(l)
    BY <2>4, <2>5 DEF Copied
  <2>7. i \in 1 .. Len(job[l].banks) /\ i # next[l]
    BY <2>1
  <2> QED
    BY <2>1, <2>2, <2>6, <2>7, RepeatsMeans DEF KeyAt
<1> QED
  BY <1>1, InitInv, StepInv, PTL DEF Spec

-----------------------------------------------------------------------------
\* The operators of BankData, seen through the instance of the contract, are those
\* of this module: the instance leaves their constants as they are.
LEMMA SameCardinality == ASSUME NEW S PROVE Contract!Cardinality(S) = Cardinality(S)
BY DEF Contract!Cardinality, Cardinality

LEMMA SameSwap ==
  ASSUME NEW t, NEW batch, NEW n, NEW c, NEW v, NEW x
  PROVE  /\ Contract!Overlay(Contract!Clear(t, n), batch, 1) = Overlay(Clear(t, n), batch, 1)
         /\ Contract!Assign(c, x, v) = Assign(c, x, v)
         /\ Contract!InfoOf(batch, v) = InfoOf(batch, v)
         /\ Contract!Owned(t, n) = Owned(t, n)
         /\ Contract!Empty = Empty /\ Contract!NoAnswer = NoAnswer
<1>1. Contract!Owned(t, n) = Owned(t, n)
  BY DEF Contract!Owned, Owned
<1>2. Contract!Clear(t, n) = Clear(t, n)
  BY <1>1 DEF Contract!Clear, Clear, Contract!Restrict, Restrict
<1>3. \A k : Contract!LastAt(batch, k) = LastAt(batch, k)
  BY DEF Contract!LastAt, LastAt
<1>4. \A i : Contract!IncomingFrom(batch, i) = IncomingFrom(batch, i)
  BY DEF Contract!IncomingFrom, IncomingFrom
<1>5. \A i : Contract!RecordOf(batch, i) = RecordOf(batch, i)
  BY DEF Contract!RecordOf, RecordOf
<1> QED
  BY <1>1, <1>2, <1>3, <1>4, <1>5 DEF Contract!Overlay, Overlay, Contract!Assign, Assign,
    Contract!InfoOf, InfoOf, Contract!Empty, Empty, Contract!NoAnswer, NoAnswer

LEMMA SameAnswers ==
  ASSUME NEW t, NEW x
  PROVE  /\ Contract!ByKey(t, x) = ByKey(t, x)
         /\ Contract!ByBIC(t, x) = ByBIC(t, x)
         /\ Contract!ByCountry(t, x) = ByCountry(t, x)
<1> USE DEF Contract!Found, Found, Contract!Restrict, Restrict
<1>1. Contract!ByKey(t, x) = ByKey(t, x)
  BY DEF Contract!ByKey, ByKey
<1>2. Contract!ByBIC(t, x) = ByBIC(t, x)
  BY DEF Contract!ByBIC, ByBIC, Contract!WithBIC, WithBIC
<1>3. \A K : Contract!FirstKeys(K, MaxLimit) = FirstKeys(K, MaxLimit)
  BY SameCardinality DEF Contract!FirstKeys, FirstKeys, Contract!Before, Before
<1>4. Contract!ByCountry(t, x) = ByCountry(t, x)
  BY <1>3 DEF Contract!ByCountry, ByCountry
<1> QED
  BY <1>1, <1>2, <1>4

\* A load that comes to its commit while no two loads of a source overlap has
\* deleted the rows of its source, and of the others only rows under its keys.
LEMMA CommitReady ==
  ASSUME Inv, apart, NEW l \in Loaders, Commit(l)
  PROVE  /\ job[l] \in Batches /\ ~ Repeats(job[l])
         /\ DOMAIN added[l] = Incoming(job[l])
         /\ \A k \in Incoming(job[l]) :
              added[l][k] = RowOf(l, LastAt(job[l], k))
         /\ Owned(rows, job[l].name) \subseteq gone[l]
         /\ gone[l] \subseteq Owned(rows, job[l].name) \cup Incoming(job[l])
<1> DEFINE L == Len(job[l].banks)
<1>1. /\ job[l] \in Batches /\ Open(l) /\ pc[l] = "commit" /\ L \in Nat
      /\ DOMAIN job[l].banks = 1 .. L
  BY CommitFacts, BatchFacts DEF Commit
<1>2. Copied(l) /\ next[l] = L + 1 /\ Deleting(l)
  BY <1>1 DEF Inv, LoadInv, Position
<1>3. 1 .. next[l] - 1 = 1 .. L
  BY <1>1, <1>2
<1>4. \A i, j \in 1 .. L : KeyAt(l, i) = KeyAt(l, j) => i = j
  BY <1>2, <1>3 DEF Copied
<1>5. ~ Repeats(job[l])
  BY <1>1, <1>4, RepeatsMeans DEF KeyAt
<1>6. DOMAIN added[l] = Incoming(job[l])
  BY <1>2, <1>3 DEF Copied, KeyAt, Incoming, IncomingFrom
<1>7. ASSUME NEW k \in Incoming(job[l])
      PROVE  added[l][k] = RowOf(l, LastAt(job[l], k))
  <2>1. LastAt(job[l], k) \in 1 .. L /\ KeyAt(l, LastAt(job[l], k)) = k
    BY <1>1, LastAtIsLast DEF KeyAt
  <2> QED
    BY <1>2, <1>3, <2>1 DEF Copied
<1>8. Owned(rows, job[l].name) \subseteq gone[l]
  BY <1>1 DEF Inv, ApartInv, Cleared, Labels
<1>9. gone[l] \subseteq Owned(rows, job[l].name) \cup Incoming(job[l])
  BY <1>2 DEF Deleting, Own, Owned, Inv, TypeInv
<1> QED
  BY <1>1, <1>5, <1>6, <1>7, <1>8, <1>9

\* Its commit is the abstract Replace.
LEMMA CommitReplaces ==
  ASSUME Inv, apart, NEW l \in Loaders, Commit(l)
  PROVE  Contract!Replace(job[l])
<1> DEFINE batch == job[l]
           n == job[l].name
           kept == Clear(Table, n)
<1>1. /\ batch \in Batches /\ ~ Repeats(batch)
      /\ DOMAIN added[l] = Incoming(batch)
      /\ \A k \in Incoming(batch) : added[l][k] = RowOf(l, LastAt(batch, k))
      /\ Owned(rows, n) \subseteq gone[l]
      /\ gone[l] \subseteq Owned(rows, n) \cup Incoming(batch)
  BY CommitReady
<1>2. /\ DOMAIN rows' = (DOMAIN rows \ gone[l]) \cup Incoming(batch)
      /\ \A k \in DOMAIN rows' :
           rows'[k] = IF k \in Incoming(batch) THEN RowOf(l, LastAt(batch, k)) ELSE rows[k]
  <2>1. /\ DOMAIN rows' = (DOMAIN rows \ gone[l]) \cup DOMAIN added[l]
        /\ \A k \in DOMAIN rows' :
             rows'[k] = IF k \in DOMAIN added[l] THEN added[l][k] ELSE rows[k]
    BY DEF Commit
  <2> QED
    BY <1>1, <2>1
<1>3. Owned(Table, n) = Owned(rows, n) /\ DOMAIN Table = DOMAIN rows
  BY DEF Owned, Table
<1>4. DOMAIN kept = DOMAIN rows \ Owned(rows, n) /\ \A k \in DOMAIN kept : kept[k] = Table[k]
  BY <1>3 DEF Clear, Restrict
<1>5. DOMAIN rows' = DOMAIN kept \cup Incoming(batch)
  BY <1>1, <1>2, <1>4
<1>6. Table' = Overlay(kept, batch, 1)
  <2>1. Table' = [k \in DOMAIN rows' |->
                    [source |-> rows'[k].source, bic |-> rows'[k].bic, edition |-> rows'[k].edition]]
    BY DEF Table
  <2>2. ASSUME NEW k \in DOMAIN rows'
        PROVE  [source |-> rows'[k].source, bic |-> rows'[k].bic, edition |-> rows'[k].edition]
                 = IF k \in Incoming(batch) THEN RecordOf(batch, LastAt(batch, k)) ELSE kept[k]
    <3>1. CASE k \in Incoming(batch)
      <4>1. rows'[k] = RowOf(l, LastAt(batch, k))
        BY <1>2, <3>1
      <4> HIDE DEF batch
      <4>2. rows'[k].source = n /\ rows'[k].bic = batch.banks[LastAt(batch, k)].bic
            /\ rows'[k].edition = batch.edition
        BY <4>1 DEF RowOf, batch
      <4> QED
        BY <3>1, <4>2 DEF RecordOf, batch
    <3>2. CASE k \notin Incoming(batch)
      <4>1. k \in DOMAIN kept /\ k \in DOMAIN rows /\ rows'[k] = rows[k] /\ kept[k] = Table[k]
        BY <1>2, <1>4, <1>5, <3>2
      <4> QED
        BY <3>2, <4>1 DEF Table
    <3> QED
      BY <3>1, <3>2
  <2> HIDE DEF kept, batch
  <2> QED
    BY <1>5, <2>1, <2>2 DEF Overlay, Incoming
<1>7. Cardinality(Owned(Table', n)) = Len(batch.banks)
  <2>1. Owned(Table', n) = Incoming(batch)
    <3>1. ASSUME NEW k \in Incoming(batch) PROVE k \in Owned(Table', n)
      <4>1. k \in DOMAIN rows' /\ rows'[k].source = n
        <5>1. rows'[k] = RowOf(l, LastAt(batch, k))
          BY <1>2, <3>1
        <5> QED
          BY <1>2, <3>1, <5>1 DEF RowOf
      <4> QED
        BY <4>1 DEF Owned, Table
    <3>2. ASSUME NEW k \in Owned(Table', n), k \notin Incoming(batch) PROVE FALSE
      <4>1. k \in DOMAIN rows' /\ rows'[k].source = n
        BY <3>2 DEF Owned, Table
      <4>2. k \in DOMAIN rows /\ k \notin Owned(rows, n) /\ rows'[k] = rows[k]
        BY <1>1, <1>2, <3>2, <4>1
      <4> QED
        BY <4>1, <4>2 DEF Owned
    <3> QED
      BY <3>1, <3>2
  <2> QED
    BY <1>1, <2>1 DEF Repeats
<1>8. catalogue' = Assign(catalogue, n, InfoOf(batch, Cardinality(Owned(Table', n)))) /\ answer' = answer
  BY <1>7 DEF Commit
<1> HIDE DEF batch, n, kept
<1>9. Table' = Contract!Swap(batch)
  BY <1>6, SameSwap DEF Contract!Swap, kept, n, batch
<1>10. catalogue' = Contract!Assign(catalogue, n,
         Contract!InfoOf(batch, Contract!Cardinality(Contract!Owned(Table', n))))
  BY <1>8, SameSwap, SameCardinality
<1> QED
  BY <1>8, <1>9, <1>10 DEF Contract!Replace, batch, n

\* Every read is a read of the contract.
LEMMA ReadAsks ==
  ASSUME NEW r \in Readers, NEW q \in OneStatement, Read(r, q)
  PROVE  Contract!Ask(r, q)
<1>1. Table' = Table /\ catalogue' = catalogue
  BY DEF Read, committed, Table
<1>2. Answer(q) = Contract!Answer(q)
  <2>1. q.op \in {"Find", "FindByBIC", "Search"}
    BY DEF OneStatement, Queries
  <2> QED
    BY <2>1, SameAnswers DEF Answer, Contract!Answer
<1> QED
  BY <1>1, <1>2 DEF Read, Contract!Ask

\* As long as no two loads of one source overlap, the committed tables implement
\* the contract: every Replace takes effect in one step, its commit, or not at
\* all, and every answer of one statement is of one moment.
THEOREM PgAtomic == Spec => Atomic
<1>1. Init => Contract!Init
  <2> SUFFICES ASSUME Init PROVE Contract!Init
    OBVIOUS
  <2>1. Table = Empty
    BY DEF Init, Table, Empty
  <2> QED
    BY <2>1, SameSwap DEF Init, Contract!Init
<1>2. Inv /\ [Next]_vars => [apart' => Contract!Next]_<<Table, catalogue, answer>>
  <2> SUFFICES ASSUME Inv, [Next]_vars, apart'
               PROVE  Contract!Next \/ UNCHANGED <<Table, catalogue, answer>>
    OBVIOUS
  <2>1. ASSUME NEW l \in Loaders, Commit(l) PROVE Contract!Next
    <3>1. apart /\ job[l] \in Batches
      BY <2>1, CommitFacts
    <3> QED
      BY <2>1, <3>1, CommitReplaces DEF Contract!Next
  <2>2. ASSUME NEW r \in Readers, NEW q \in OneStatement, Read(r, q) PROVE Contract!Next
    BY <2>2, ReadAsks DEF Contract!Next
  <2>3. CASE UNCHANGED <<committed, answer>>
    BY <2>3 DEF committed, Table
  <2>4. ASSUME NEW l \in Loaders, NEW batch \in Batches, Begin(l, batch)
        PROVE  UNCHANGED <<committed, answer>>
    BY <2>4 DEF Begin
  <2>5. ASSUME NEW l \in Loaders, Statement(l), ~ Commit(l)
        PROVE  UNCHANGED <<committed, answer>>
    BY <2>5 DEF Statement, ClearSource, ClearKeys, VisitedAll, Visit, CopyRow, UniqueViolation,
      CopiedAll, Upsert
  <2>6. ASSUME NEW l \in Loaders, Abort(l) \/ DeadlockVictim(l)
        PROVE  UNCHANGED <<committed, answer>>
    BY <2>6 DEF Abort, DeadlockVictim
  <2>7. CASE UNCHANGED vars
    BY <2>3, <2>7 DEF vars
  <2> QED
    BY <2>1, <2>2, <2>3, <2>4, <2>5, <2>6, <2>7 DEF Next
<1> QED
  BY <1>1, <1>2, InitInv, StepInv, PTL DEF Spec, Atomic

-----------------------------------------------------------------------------
\* What the contract promises of table and catalogue at every moment.
CommittedConsistent ==
  apart => Catalogued(Table, catalogue) /\ OneEdition /\ Counted(Table, catalogue)

\* A commit swaps one source of consistent tables.
LEMMA CommitConsistent ==
  ASSUME Inv, TypeOK, CommittedConsistent, apart, NEW l \in Loaders, Commit(l)
  PROVE  CommittedConsistent'
<1>1. job[l] \in Batches /\ IsTable(Table) /\ IsCatalogue(catalogue)
  BY CommitFacts DEF TypeOK
<1>2. Table' = Overlay(Clear(Table, job[l].name), job[l], 1)
  BY CommitReplaces, SameSwap DEF Contract!Replace, Contract!Swap
<1>3. catalogue' = Assign(catalogue, job[l].name,
                     InfoOf(job[l], Cardinality(Owned(Table', job[l].name))))
  BY CommitReplaces, SameSwap, SameCardinality DEF Contract!Replace
<1> QED
  BY <1>1, <1>2, <1>3, SwapKeepsConsistent DEF CommittedConsistent, OneEdition

\* The rows of a source are of the edition its catalogue row is dated by, and no
\* more than it counts, until two loads of one source have overlapped.
THEOREM PgConsistent == Spec => [](apart => OneEdition /\ Counted(Table, catalogue))
<1>1. Init => CommittedConsistent
  BY EmptyFacts DEF Init, CommittedConsistent, Catalogued, OneEdition, OneEditionEach, Counted,
    Table
<1>2. Inv /\ TypeOK /\ CommittedConsistent /\ [Next]_vars => CommittedConsistent'
  <2> SUFFICES ASSUME Inv, TypeOK, CommittedConsistent, [Next]_vars, apart'
               PROVE  CommittedConsistent'
    BY DEF CommittedConsistent
  <2>1. ASSUME NEW l \in Loaders, Commit(l) PROVE CommittedConsistent'
    <3>1. apart
      BY <2>1, CommitFacts
    <3> QED
      BY <2>1, <3>1, CommitConsistent
  <2>2. CASE UNCHANGED <<Table, catalogue>> /\ apart
    BY <2>2 DEF CommittedConsistent, OneEdition
  <2>3. ASSUME NEW l \in Loaders, NEW batch \in Batches, Begin(l, batch)
        PROVE  UNCHANGED <<Table, catalogue>> /\ apart
    BY <2>3 DEF Begin, committed, Table
  <2>4. ASSUME NEW l \in Loaders, Statement(l) \/ Abort(l) \/ DeadlockVictim(l), ~ Commit(l)
        PROVE  UNCHANGED <<Table, catalogue>> /\ apart
    BY <2>4 DEF Statement, ClearSource, ClearKeys, VisitedAll, Visit, CopyRow, UniqueViolation,
      CopiedAll, Upsert, Abort, DeadlockVictim, committed, Table
  <2>5. ASSUME NEW r \in Readers, NEW q \in OneStatement, Read(r, q)
        PROVE  UNCHANGED <<Table, catalogue>> /\ apart
    BY <2>5 DEF Read, committed, Table
  <2>6. CASE UNCHANGED vars
    <3>1. UNCHANGED <<Table, catalogue>> /\ apart
      BY <2>6 DEF vars, committed, Table
    <3> QED
      BY <3>1, <2>2
  <2> QED
    BY <2>1, <2>2, <2>3, <2>4, <2>5, <2>6 DEF Next
<1>3. CommittedConsistent => (apart => OneEdition /\ Counted(Table, catalogue))
  BY DEF CommittedConsistent
<1> QED
  BY <1>1, <1>2, <1>3, InitInv, StepInv, PgTypeOK, PTL DEF Spec
=============================================================================
