---------------------------- MODULE MemoryStore -----------------------------
(***************************************************************************)
(* bankdata/memory.go: the store behind the embedded snapshot and a        *)
(* snapshot file.  Two maps of records and one of sources sit behind a     *)
(* sync.RWMutex; Replace edits them in place, loop by loop, under the      *)
(* write lock, and readers hold the read lock.                             *)
(*                                                                         *)
(* The mutex is modelled from how the code uses it: a writer that has      *)
(* announced itself keeps new readers out, waits for the readers inside,   *)
(* and other writers queue behind it.                                      *)
(***************************************************************************)
EXTENDS BankData

CONSTANTS
  Writers,    \* goroutines that call Replace
  Readers,    \* goroutines that call Find, FindByBIC, Search and Stats
  NoWriter    \* the holder of a mutex no writer has taken

ASSUME ProcsAssumption == NoWriter \notin Writers /\ Writers \cap Readers = {}

VARIABLES
  byKey,      \* MemoryStore.byKey
  byBIC,      \* MemoryStore.byBIC
  sources,    \* MemoryStore.sources
  holder,     \* the writer that has announced itself to the mutex
  reading,    \* the readers inside their critical section
  pc,         \* where each writer is in Replace
  job,        \* the batch each writer was called with
  next,       \* the index of the next bank each writer inserts
  answer      \* the last answer each reader got

store == <<byKey, byBIC, sources>>
mutex == <<holder, reading>>
local == <<pc, job, next>>
vars == <<store, mutex, local, answer>>

Labels == {"idle", "lock", "drain", "delete", "insert", "count", "reindex", "unlock"}
Inside == {"delete", "insert", "count", "reindex", "unlock"}

Init ==
  /\ byKey = Empty
  /\ byBIC = Empty
  /\ sources = Empty
  /\ holder = NoWriter
  /\ reading = {}
  /\ pc = [w \in Writers |-> "idle"]
  /\ job = [w \in Writers |-> NoBatch]
  /\ next = [w \in Writers |-> 1]
  /\ answer = [r \in Readers |-> NoAnswer]

-----------------------------------------------------------------------------
\* Replace, one action per stretch of the method.
Goto(w, label) == pc' = [pc EXCEPT ![w] = label]

Call(w, batch) ==
  /\ pc[w] = "idle"
  /\ Goto(w, "lock")
  /\ job' = [job EXCEPT ![w] = batch]
  /\ UNCHANGED <<store, mutex, next, answer>>

Announce(w) ==
  /\ pc[w] = "lock"
  /\ holder = NoWriter
  /\ holder' = w
  /\ Goto(w, "drain")
  /\ UNCHANGED <<store, reading, job, next, answer>>

Enter(w) ==
  /\ pc[w] = "drain"
  /\ reading = {}
  /\ Goto(w, "delete")
  /\ UNCHANGED <<store, mutex, job, next, answer>>

DeleteOld(w) ==
  /\ pc[w] = "delete"
  /\ byKey' = Clear(byKey, job[w].name)
  /\ Goto(w, "insert")
  /\ UNCHANGED <<byBIC, sources, mutex, job, next, answer>>

InsertNext(w) ==
  /\ pc[w] = "insert"
  /\ next[w] <= Len(job[w].banks)
  /\ byKey' = Assign(byKey, job[w].banks[next[w]].key, RecordOf(job[w], next[w]))
  /\ next' = [next EXCEPT ![w] = @ + 1]
  /\ UNCHANGED <<byBIC, sources, mutex, pc, job, answer>>

InsertedAll(w) ==
  /\ pc[w] = "insert"
  /\ next[w] > Len(job[w].banks)
  /\ Goto(w, "count")
  /\ UNCHANGED <<store, mutex, job, next, answer>>

RecordCount(name) == Cardinality(Owned(byKey, name))

Count(w) ==
  /\ pc[w] = "count"
  /\ sources' = Assign(sources, job[w].name, InfoOf(job[w], RecordCount(job[w].name)))
  /\ Goto(w, "reindex")
  /\ UNCHANGED <<byKey, byBIC, mutex, job, next, answer>>

\* Faulty: groups the records without a BIC too.
IndexWithEmpty(table) ==
  [bic \in {table[k].bic : k \in DOMAIN table} |-> WithBIC(table, bic)]

\* reindexBIC: the records with a BIC, grouped by it.
IndexOf(table) ==
  [bic \in {table[k].bic : k \in DOMAIN table} \ {NoBIC} |-> WithBIC(table, bic)]

\* Faulty: the rebuild forgotten.
ReindexForgotten(w) ==
  /\ pc[w] = "reindex"
  /\ Goto(w, "unlock")
  /\ UNCHANGED <<store, mutex, job, next, answer>>

Reindex(w) ==
  /\ pc[w] = "reindex"
  /\ byBIC' = IndexOf(byKey)
  /\ Goto(w, "unlock")
  /\ UNCHANGED <<byKey, sources, mutex, job, next, answer>>

Unlock(w) ==
  /\ pc[w] = "unlock"
  /\ holder' = NoWriter
  /\ Goto(w, "idle")
  /\ job' = [job EXCEPT ![w] = NoBatch]
  /\ next' = [next EXCEPT ![w] = 1]
  /\ UNCHANGED <<store, reading, answer>>

-----------------------------------------------------------------------------
\* The read methods: RLock, then the answer and the deferred RUnlock.
\* Faulty: reads without waiting for the writer.
RLockAnytime(r) ==
  /\ r \notin reading
  /\ reading' = reading \cup {r}
  /\ UNCHANGED <<store, holder, local, answer>>

RLock(r) ==
  /\ r \notin reading
  /\ holder = NoWriter
  /\ reading' = reading \cup {r}
  /\ UNCHANGED <<store, holder, local, answer>>

Answer(q) ==
  CASE q.op = "Find" -> ByKey(byKey, q.key)
    [] q.op = "FindByBIC" -> Found(IF q.bic \in DOMAIN byBIC THEN byBIC[q.bic] ELSE Empty)
    [] q.op = "Search" -> ByCountry(byKey, q.country)
    [] q.op = "Stats" -> StatsOf(byKey, sources)

\* Faulty: the deferred RUnlock missing.
ReadAndHold(r, q) ==
  /\ r \in reading
  /\ answer' = [answer EXCEPT ![r] = Answer(q)]
  /\ UNCHANGED <<store, mutex, local>>

Read(r, q) ==
  /\ r \in reading
  /\ answer' = [answer EXCEPT ![r] = Answer(q)]
  /\ reading' = reading \ {r}
  /\ UNCHANGED <<store, holder, local>>

ReplaceStep(w) ==
  \/ Announce(w) \/ Enter(w) \/ DeleteOld(w) \/ InsertNext(w) \/ InsertedAll(w)
  \/ Count(w) \/ Reindex(w) \/ Unlock(w)
ReadStep(r) == \E q \in Queries : Read(r, q)

Next ==
  \/ \E w \in Writers : ReplaceStep(w) \/ \E batch \in Batches : Call(w, batch)
  \/ \E r \in Readers : RLock(r) \/ ReadStep(r)

Spec == Init /\ [][Next]_vars

\* A goroutine inside its critical section runs on, and sync.RWMutex hands
\* itself to every waiting writer in the end, whatever the other writers do
\* (the writers queue on a sync.Mutex, which is starvation free).
Fairness ==
  /\ \A w \in Writers : WF_vars(ReplaceStep(w)) /\ SF_vars(Announce(w))
  /\ \A r \in Readers : WF_vars(ReadStep(r))

FairSpec == Spec /\ Fairness

-----------------------------------------------------------------------------
TypeOK ==
  /\ IsTable(byKey)
  /\ DOMAIN byBIC \subseteq BICs /\ \A b \in DOMAIN byBIC : IsTable(byBIC[b])
  /\ IsCatalogue(sources)
  /\ holder \in Writers \cup {NoWriter}
  /\ reading \subseteq Readers
  /\ pc \in [Writers -> Labels]
  /\ job \in [Writers -> Batches \cup {NoBatch}]
  /\ \A w \in Writers : pc[w] # "idle" => job[w] \in Batches
  /\ next \in [Writers -> Nat \ {0}]

\* While no writer is inside, the BIC index holds exactly the records of byKey
\* (memory.go rebuilds it as the last step of Replace), so that FindByBIC and
\* Find never disagree.
IndexAgrees == (\A w \in Writers : pc[w] \notin Inside) => byBIC = IndexOf(byKey)

\* A writer edits the maps alone: nobody reads while it does, and no two
\* writers are past Lock (memory.go:113, "under a write lock").
Exclusion ==
  \A w \in Writers :
    pc[w] \in Inside =>
      /\ reading = {}
      /\ \A v \in Writers \ {w} : pc[v] \notin Inside \cup {"drain"}

\* Whatever name a batch is loaded under, a step of Replace leaves the record of
\* another source alone unless the batch brings a record for the same key.
Isolation ==
  [][\A w \in Writers : pc[w] \in Inside =>
       \A k \in DOMAIN byKey :
         byKey[k].source # job[w].name /\ k \notin Incoming(job[w])
           => k \in DOMAIN byKey' /\ byKey'[k] = byKey[k]]_vars

\* A call of Replace returns, however the readers and the other writers behave.
ReplaceReturns == \A w \in Writers : pc[w] = "lock" ~> pc[w] = "idle"

-----------------------------------------------------------------------------
\* The contract.  A Replace takes effect for everybody when its writer enters:
\* from there on nobody can read until it is done, so the abstract table is the
\* one the rest of the method will leave.
Outcome ==
  IF holder # NoWriter /\ pc[holder] = "delete"
    THEN Overlay(Clear(byKey, job[holder].name), job[holder], 1)
  ELSE IF holder # NoWriter /\ pc[holder] = "insert"
    THEN Overlay(byKey, job[holder], next[holder])
  ELSE byKey

OutcomeSources ==
  IF holder # NoWriter /\ pc[holder] \in {"delete", "insert", "count"}
    THEN Assign(sources, job[holder].name,
           InfoOf(job[holder], Cardinality(Owned(Outcome, job[holder].name))))
    ELSE sources

Contract == INSTANCE BankStore WITH
  bank <- Outcome, sources <- OutcomeSources, Asked <- Queries

\* Seen from its readers the store is a BankStore: every Replace is one step and
\* every answer is of one moment (bankdata.go:139, "atomically swaps").
Atomic == Contract!Spec

\* What BankStore promises about records and catalogue, in the maps themselves
\* whenever no writer is inside.
Consistent ==
  (\A w \in Writers : pc[w] \notin Inside) =>
    /\ Catalogued(byKey, sources)
    /\ OneEditionEach(byKey, sources)
    /\ Counted(byKey, sources)
=============================================================================
