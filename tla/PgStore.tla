------------------------------ MODULE PgStore -------------------------------
(***************************************************************************)
(* bankdata/postgres/postgres.go: the store behind -database-url.          *)
(* Replace is one READ COMMITTED transaction of four statements: DELETE    *)
(* the rows of the source, DELETE the rows under the incoming keys, COPY   *)
(* the batch in, upsert the catalogue row.  Loaders are processes (a Job,  *)
(* a CronJob, a shell), so several transactions can be open at once.       *)
(*                                                                         *)
(* PostgreSQL is modelled from what these statements rely on.  A DELETE    *)
(* picks its rows from what is committed when it starts, then visits them  *)
(* one by one: it waits for the transaction that holds a row and skips a   *)
(* row that is gone when the wait ends.  An INSERT waits for an open       *)
(* transaction that has inserted or deleted its key, and then fails if the *)
(* key is taken.  Of transactions that wait for each other one is aborted. *)
(***************************************************************************)
EXTENDS BankData

CONSTANTS
  Loaders,      \* processes that call Replace
  Readers,      \* connections that read
  MaxReplaces   \* bound: how many calls of Replace a behaviour contains

ASSUME BoundAssumption == MaxReplaces \in Nat

VARIABLES
  rows,         \* the committed rows of table bank, each with its version
  catalogue,    \* the committed rows of table bank_source
  calls,        \* the number of calls of Replace so far, the version of new rows
  pc,           \* the statement each loader is at
  job,          \* the batch each loader replaces
  version,      \* the version each loader's transaction writes
  target,       \* the row versions a DELETE has still to visit
  gone,         \* the keys of the committed rows a transaction has deleted
  added,        \* the rows a transaction has inserted
  next,         \* the index of the next bank a COPY inserts
  alone,        \* history: whether no other load was open since each began
  apart,        \* history: whether no two loads of one source were ever open together
  answer        \* the last answer each reader got

committed == <<rows, catalogue>>
tx == <<pc, job, version, target, gone, added, next, alone>>
vars == <<committed, calls, tx, apart, answer>>

Labels == {"idle", "clear", "clearing", "clearKeys", "clearingKeys", "copy", "upsert", "commit"}
Open(l) == pc[l] # "idle"

Init ==
  /\ rows = Empty
  /\ catalogue = Empty
  /\ calls = 0
  /\ pc = [l \in Loaders |-> "idle"]
  /\ job = [l \in Loaders |-> NoBatch]
  /\ version = [l \in Loaders |-> 0]
  /\ target = [l \in Loaders |-> {}]
  /\ gone = [l \in Loaders |-> {}]
  /\ added = [l \in Loaders |-> Empty]
  /\ next = [l \in Loaders |-> 1]
  /\ alone = [l \in Loaders |-> TRUE]
  /\ apart = TRUE
  /\ answer = [r \in Readers |-> NoAnswer]

Goto(l, label) == pc' = [pc EXCEPT ![l] = label]

\* Faulty: the deferred Rollback missing, the transaction stays open on the server.
EndWithoutRollback(l) ==
  /\ Goto(l, "idle")
  /\ job' = [job EXCEPT ![l] = NoBatch]
  /\ version' = [version EXCEPT ![l] = 0]
  /\ target' = [target EXCEPT ![l] = {}]
  /\ next' = [next EXCEPT ![l] = 1]
  /\ alone' = [alone EXCEPT ![l] = TRUE]
  /\ UNCHANGED <<gone, added>>

\* The transaction ends: its locks and its uncommitted rows are no more.
End(l) ==
  /\ Goto(l, "idle")
  /\ job' = [job EXCEPT ![l] = NoBatch]
  /\ version' = [version EXCEPT ![l] = 0]
  /\ target' = [target EXCEPT ![l] = {}]
  /\ gone' = [gone EXCEPT ![l] = {}]
  /\ added' = [added EXCEPT ![l] = Empty]
  /\ next' = [next EXCEPT ![l] = 1]
  /\ alone' = [alone EXCEPT ![l] = TRUE]

-----------------------------------------------------------------------------
Begin(l, batch) ==
  /\ pc[l] = "idle"
  /\ calls < MaxReplaces
  /\ calls' = calls + 1
  /\ job' = [job EXCEPT ![l] = batch]
  /\ version' = [version EXCEPT ![l] = calls']
  /\ Goto(l, "clear")
  /\ alone' = [m \in Loaders |->
                 alone[m] /\ (m = l \/ Open(m) => \A n \in Loaders \ {l} : ~ Open(n))]
  /\ apart' = (apart /\ \A m \in Loaders : Open(m) => job[m].name # batch.name)
  /\ UNCHANGED <<committed, target, gone, added, next, answer>>

\* A DELETE starts: its snapshot holds the committed rows, less its own deletions.
Snapshot(l, K) == {<<k, rows[k].version>> : k \in (K \cap DOMAIN rows) \ gone[l]}

\* Faulty: drops the rows of the country whatever their source.
ClearCountry(l) ==
  /\ pc[l] = "clear"
  /\ target' = [target EXCEPT ![l] =
                  Snapshot(l, {k \in DOMAIN rows : k[1] = job[l].country})]
  /\ Goto(l, "clearing")
  /\ UNCHANGED <<committed, calls, job, version, gone, added, next, alone, answer, apart>>

ClearSource(l) ==
  /\ pc[l] = "clear"
  /\ target' = [target EXCEPT ![l] = Snapshot(l, Owned(rows, job[l].name))]
  /\ Goto(l, "clearing")
  /\ UNCHANGED <<committed, calls, job, version, gone, added, next, alone, answer, apart>>

ClearKeys(l) ==
  /\ pc[l] = "clearKeys"
  /\ target' = [target EXCEPT ![l] = Snapshot(l, Incoming(job[l]))]
  /\ Goto(l, "clearingKeys")
  /\ UNCHANGED <<committed, calls, job, version, gone, added, next, alone, answer, apart>>

\* The row version a DELETE found is still the committed one.
Standing(k, v) == k \in DOMAIN rows /\ rows[k].version = v

\* Who else holds the committed row under a key, and who has inserted the key.
Deleters(l, k) == {m \in Loaders \ {l} : k \in gone[m]}
Inserters(l, k) == {m \in Loaders \ {l} : k \in DOMAIN added[m]}

Visit(l, k, v) ==
  /\ pc[l] \in {"clearing", "clearingKeys"}
  /\ <<k, v>> \in target[l]
  /\ Standing(k, v) => Deleters(l, k) = {}
  /\ target' = [target EXCEPT ![l] = @ \ {<<k, v>>}]
  /\ gone' = [gone EXCEPT ![l] = IF Standing(k, v) THEN @ \cup {k} ELSE @]
  /\ UNCHANGED <<committed, calls, pc, job, version, added, next, alone, answer, apart>>

\* Faulty: goes on to the copy after the first DELETE.
VisitedAllSkip(l) ==
  /\ pc[l] \in {"clearing", "clearingKeys"}
  /\ target[l] = {}
  /\ Goto(l, "copy")
  /\ UNCHANGED <<committed, calls, job, version, target, gone, added, next, alone, answer, apart>>

VisitedAll(l) ==
  /\ pc[l] \in {"clearing", "clearingKeys"}
  /\ target[l] = {}
  /\ Goto(l, IF pc[l] = "clearing" /\ job[l].banks # <<>> THEN "clearKeys" ELSE "copy")
  /\ UNCHANGED <<committed, calls, job, version, target, gone, added, next, alone, answer, apart>>

\* COPY: each row waits for the open transactions that claim its key.
Claimants(l, k) ==
  Inserters(l, k) \cup (IF k \in DOMAIN rows THEN Deleters(l, k) ELSE {})
Taken(l, k) == k \in DOMAIN added[l] \/ k \in DOMAIN rows \ gone[l]
NextKey(l) == job[l].banks[next[l]].key
Copying(l) == pc[l] = "copy" /\ next[l] <= Len(job[l].banks)

RowOf(l, i) ==
  [source |-> job[l].name, bic |-> job[l].banks[i].bic, edition |-> job[l].edition,
   version |-> version[l]]

CopyRow(l) ==
  /\ Copying(l)
  /\ Claimants(l, NextKey(l)) = {}
  /\ ~ Taken(l, NextKey(l))
  /\ added' = [added EXCEPT ![l] = Assign(@, NextKey(l), RowOf(l, next[l]))]
  /\ next' = [next EXCEPT ![l] = @ + 1]
  /\ UNCHANGED <<committed, calls, pc, job, version, target, gone, alone, answer, apart>>

\* The primary key is taken: the statement and with it Replace fails.
UniqueViolation(l) ==
  /\ Copying(l)
  /\ Claimants(l, NextKey(l)) = {}
  /\ Taken(l, NextKey(l))
  /\ End(l)
  /\ UNCHANGED <<committed, calls, answer, apart>>

CopiedAll(l) ==
  /\ pc[l] = "copy"
  /\ ~ Copying(l)
  /\ Goto(l, "upsert")
  /\ UNCHANGED <<committed, calls, job, version, target, gone, added, next, alone, answer, apart>>

\* The upsert locks the catalogue row until the commit.
Upserters(l) == {m \in Loaders \ {l} : pc[m] = "commit" /\ job[m].name = job[l].name}

Upsert(l) ==
  /\ pc[l] = "upsert"
  /\ Upserters(l) = {}
  /\ Goto(l, "commit")
  /\ UNCHANGED <<committed, calls, job, version, target, gone, added, next, alone, answer, apart>>

Commit(l) ==
  /\ pc[l] = "commit"
  /\ rows' = [k \in (DOMAIN rows \ gone[l]) \cup DOMAIN added[l] |->
                IF k \in DOMAIN added[l] THEN added[l][k] ELSE rows[k]]
  /\ catalogue' = Assign(catalogue, job[l].name, InfoOf(job[l], Len(job[l].banks)))
  /\ End(l)
  /\ UNCHANGED <<calls, answer, apart>>

\* The connection is lost or the context cancelled: the deferred Rollback, or
\* the server when the client is gone, undoes the transaction.
Abort(l) ==
  /\ Open(l)
  /\ End(l)
  /\ UNCHANGED <<committed, calls, answer, apart>>

\* The transactions a loader waits for; a DELETE may be at any of its rows.
WaitsFor(l) ==
  IF pc[l] \in {"clearing", "clearingKeys"}
  THEN UNION {Deleters(l, t[1]) : t \in {u \in target[l] : Standing(u[1], u[2])}}
  ELSE IF Copying(l) THEN Claimants(l, NextKey(l))
  ELSE IF pc[l] = "upsert" THEN Upserters(l)
  ELSE {}

Deadlocked(l) ==
  \E S \in SUBSET Loaders : l \in S /\ \A m \in S : WaitsFor(m) \cap S # {}

DeadlockVictim(l) ==
  /\ Deadlocked(l)
  /\ End(l)
  /\ UNCHANGED <<committed, calls, answer, apart>>

-----------------------------------------------------------------------------
\* The reads that are one statement each: Find, FindByBIC and Search.
Table == [k \in DOMAIN rows |->
            [source |-> rows[k].source, bic |-> rows[k].bic, edition |-> rows[k].edition]]

Answer(q) ==
  CASE q.op = "Find" -> ByKey(Table, q.key)
    [] q.op = "FindByBIC" -> ByBIC(Table, q.bic)
    [] q.op = "Search" -> ByCountry(Table, q.country)

OneStatement == {q \in Queries : q.op # "Stats"}

Read(r, q) ==
  /\ answer' = [answer EXCEPT ![r] = Answer(q)]
  /\ UNCHANGED <<committed, calls, tx, apart>>

Statement(l) ==
  \/ ClearSource(l) \/ ClearKeys(l) \/ VisitedAll(l)
  \/ \E k \in Keys, v \in 1 .. MaxReplaces : Visit(l, k, v)
  \/ CopyRow(l) \/ UniqueViolation(l) \/ CopiedAll(l) \/ Upsert(l) \/ Commit(l)

Next ==
  \/ \E l \in Loaders :
       \/ \E batch \in Batches : Begin(l, batch)
       \/ Statement(l) \/ Abort(l) \/ DeadlockVictim(l)
  \/ \E r \in Readers, q \in OneStatement : Read(r, q)

Spec == Init /\ [][Next]_vars

\* The server runs every statement it can, and looks for deadlocks.
Fairness == \A l \in Loaders : WF_vars(Statement(l) \/ DeadlockVictim(l))
FairSpec == Spec /\ Fairness

-----------------------------------------------------------------------------
TypeOK ==
  /\ \A k \in DOMAIN rows : rows[k].version \in 1 .. calls
  /\ IsTable(Table)
  /\ IsCatalogue(catalogue)
  /\ calls \in 0 .. MaxReplaces
  /\ pc \in [Loaders -> Labels]
  /\ \A l \in Loaders :
       /\ Open(l) <=> job[l] \in Batches
       /\ Open(l) <=> version[l] \in 1 .. calls
       /\ target[l] \subseteq Keys \X (1 .. calls)
       /\ gone[l] \subseteq DOMAIN rows
       /\ DOMAIN added[l] \subseteq Keys
       /\ ~ Open(l) => gone[l] = {} /\ added[l] = Empty

\* The committed tables are a BankStore: every Replace takes effect in one step
\* or not at all, and every answer of one statement is of one moment
\* (postgres.go:214, "readers never observe a partially loaded country").  It
\* holds as long as no two loads of one source overlap.
Contract == INSTANCE BankStore WITH
  bank <- Table, sources <- catalogue, Asked <- OneStatement
Atomic == Contract!Init /\ [][apart' => Contract!Next]_<<Table, catalogue, answer>>

\* A Replace no other overlaps fails on the primary key only if its own batch repeats a key:
\* rows another source left under the incoming keys are out of the way
\* (postgres.go:240-246).
FailsOnlyOnRepeats ==
  \A l \in Loaders :
    alone[l] /\ Copying(l) /\ Taken(l, NextKey(l)) => Repeats(job[l])

\* The rows of a source come from the edition its catalogue row is dated by:
\* Replace "swaps every record of one source" (postgres.go:214).  Loads of one
\* source that overlap break it; without such an overlap it follows from Atomic.
OneEdition == OneEditionEach(Table, catalogue)

\* A Replace comes to its end whatever it waits for.
ReplaceReturns == \A l \in Loaders : Open(l) ~> ~ Open(l)
=============================================================================
