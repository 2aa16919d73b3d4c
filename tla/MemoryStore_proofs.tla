------------------------- MODULE MemoryStore_proofs -------------------------
(***************************************************************************)
(* Proofs about MemoryStore: the mutex discipline, the BIC index, and that *)
(* the store implements the contract of BankStore for any number of        *)
(* goroutines, keys and batches.                                           *)
(***************************************************************************)
EXTENDS MemoryStore, BankData_proofs

-----------------------------------------------------------------------------
\* The inductive invariant.  A writer from "drain" on is the holder, and alone;
\* its insert loop starts at the first bank; the index is stale only between
\* the first insertion and the rebuild.
LockInv ==
  /\ \A w \in Writers : pc[w] \in Inside \cup {"drain"} <=> holder = w
  /\ \A w \in Writers : pc[w] \in Inside => reading = {}
NextInv == \A w \in Writers : pc[w] \in {"idle", "lock", "drain", "delete"} => next[w] = 1
IndexInv ==
  (\A w \in Writers : pc[w] \notin {"insert", "count", "reindex"}) => byBIC = IndexOf(byKey)

Inv == TypeOK /\ LockInv /\ NextInv /\ IndexInv

\* The index built from a table is a map from BICs to tables.
LEMMA IndexTyped ==
  ASSUME NEW t, IsTable(t)
  PROVE  /\ DOMAIN IndexOf(t) \subseteq BICs
         /\ \A b \in DOMAIN IndexOf(t) : IsTable(IndexOf(t)[b])
<1>1. \A k \in DOMAIN t : t[k].bic \in BICs \cup {NoBIC}
  BY TableFacts DEF Record
<1>2. DOMAIN IndexOf(t) \subseteq BICs
  BY <1>1 DEF IndexOf
<1>3. ASSUME NEW b \in DOMAIN IndexOf(t) PROVE IsTable(IndexOf(t)[b])
  <2>1. IndexOf(t)[b] = WithBIC(t, b)
    BY DEF IndexOf
  <2>2. IsTable(WithBIC(t, b))
    BY RestrictTable DEF WithBIC
  <2> QED
    BY <2>1, <2>2
<1> QED
  BY <1>2, <1>3

\* The invariant holds of a new store.
LEMMA InitInv == Init => Inv
<1> SUFFICES ASSUME Init PROVE Inv
  OBVIOUS
<1>1. byKey \in [{} -> Record] /\ sources \in [{} -> SourceInfo] /\ DOMAIN byBIC = {}
  BY DEF Init, Empty
<1>2. byBIC = IndexOf(byKey)
  BY DEF Init, Empty, IndexOf
<1>3. TypeOK
  <2>1. IsTable(byKey) /\ IsCatalogue(sources)
    BY <1>1 DEF IsTable, IsCatalogue
  <2>2. DOMAIN byBIC \subseteq BICs /\ \A b \in DOMAIN byBIC : IsTable(byBIC[b])
    BY <1>1
  <2>3. pc \in [Writers -> Labels] /\ job \in [Writers -> Batches \cup {NoBatch}]
    BY DEF Init, Labels
  <2>4. \A w \in Writers : pc[w] = "idle"
    BY DEF Init
  <2>5. holder = NoWriter /\ reading = {} /\ next \in [Writers -> Nat \ {0}]
    BY DEF Init
  <2> QED
    BY <2>1, <2>2, <2>3, <2>4, <2>5 DEF TypeOK
<1>4. LockInv /\ NextInv /\ IndexInv
  BY <1>2, ProcsAssumption DEF Init, LockInv, NextInv, IndexInv, Inside
<1> QED
  BY <1>3, <1>4 DEF Inv

\* Every step of Replace keeps the store typed.
LEMMA ReplaceStepTypeOK ==
  ASSUME Inv, NEW w \in Writers, ReplaceStep(w)
  PROVE  TypeOK'
<1> USE DEF Inv, TypeOK, store, mutex, Goto
<1>1. CASE Announce(w) \/ Enter(w) \/ InsertedAll(w) \/ Unlock(w)
  BY <1>1 DEF Announce, Enter, InsertedAll, Unlock, Labels
<1>2. CASE DeleteOld(w)
  <2>1. IsTable(byKey')
    BY <1>2, RestrictTable DEF DeleteOld, Clear
  <2> QED
    BY <1>2, <2>1 DEF DeleteOld, Labels
<1>3. CASE InsertNext(w)
  <2>1. job[w] \in Batches /\ next[w] \in Nat \ {0} /\ next[w] <= Len(job[w].banks)
    BY <1>3 DEF InsertNext
  <2>2. next[w] \in DOMAIN job[w].banks
    BY <2>1, BatchesAssumption
  <2>3. job[w].banks[next[w]] \in Banks /\ job[w].name \in Names /\ job[w].edition \in Nat
    BY <2>1, <2>2, BatchesAssumption
  <2>4. RecordOf(job[w], next[w]) \in Record /\ job[w].banks[next[w]].key \in Keys
    BY <2>3 DEF Banks, Record, RecordOf
  <2>5. IsTable(byKey')
    BY <1>3, <2>4, AssignTable DEF InsertNext
  <2> QED
    BY <1>3, <2>1, <2>5 DEF InsertNext
<1>4. CASE Count(w)
  <2>1. job[w] \in Batches
    BY <1>4 DEF Count
  <2>2. InfoOf(job[w], RecordCount(job[w].name)) \in SourceInfo /\ job[w].name \in Names
    BY <2>1, BatchesAssumption, TableFacts DEF InfoOf, SourceInfo, RecordCount
  <2>3. IsCatalogue(sources')
    BY <1>4, <2>2, AssignCatalogue DEF Count
  <2> QED
    BY <1>4, <2>3 DEF Count, Labels
<1>5. CASE Reindex(w)
  BY <1>5, IndexTyped DEF Reindex, Labels
<1> QED
  BY <1>1, <1>2, <1>3, <1>4, <1>5 DEF ReplaceStep

\* Every step of Replace keeps the lock discipline and the loop counter.
LEMMA ReplaceStepLockInv ==
  ASSUME Inv, NEW w \in Writers, ReplaceStep(w)
  PROVE  LockInv' /\ NextInv'
<1> USE DEF Inv, TypeOK, LockInv, NextInv, Inside, store, mutex, Goto
<1>1. CASE Announce(w)
  BY <1>1, ProcsAssumption DEF Announce
<1>2. CASE Enter(w)
  BY <1>2 DEF Enter
<1>3. CASE DeleteOld(w) \/ InsertNext(w) \/ InsertedAll(w) \/ Count(w) \/ Reindex(w)
  BY <1>3 DEF DeleteOld, InsertNext, InsertedAll, Count, Reindex
<1>4. CASE Unlock(w)
  BY <1>4, ProcsAssumption DEF Unlock
<1> QED
  BY <1>1, <1>2, <1>3, <1>4 DEF ReplaceStep

\* Every step of Replace leaves the index fresh or marked as being rebuilt.
LEMMA ReplaceStepIndexInv ==
  ASSUME Inv, NEW w \in Writers, ReplaceStep(w)
  PROVE  IndexInv'
<1> USE DEF Inv, TypeOK, LockInv, IndexInv, Inside, store, mutex, Goto
<1>1. CASE Announce(w) \/ Enter(w) \/ Unlock(w)
  BY <1>1 DEF Announce, Enter, Unlock
<1>2. CASE DeleteOld(w) \/ InsertNext(w) \/ InsertedAll(w) \/ Count(w)
  BY <1>2 DEF DeleteOld, InsertNext, InsertedAll, Count
<1>3. CASE Reindex(w)
  BY <1>3 DEF Reindex
<1> QED
  BY <1>1, <1>2, <1>3 DEF ReplaceStep

\* The invariant is inductive.
LEMMA StepInv == Inv /\ [Next]_vars => Inv'
<1> SUFFICES ASSUME Inv, [Next]_vars PROVE Inv'
  OBVIOUS
<1>1. ASSUME NEW w \in Writers, ReplaceStep(w) PROVE Inv'
  BY <1>1, ReplaceStepTypeOK, ReplaceStepLockInv, ReplaceStepIndexInv DEF Inv
<1>2. ASSUME NEW w \in Writers, NEW batch \in Batches, Call(w, batch) PROVE Inv'
  BY <1>2 DEF Inv, TypeOK, LockInv, NextInv, IndexInv, Call, Goto, store, mutex,
    Labels, Inside
<1>3. ASSUME NEW r \in Readers, RLock(r) \/ ReadStep(r) PROVE Inv'
  <2>1. UNCHANGED <<store, holder, local>>
    BY <1>3 DEF RLock, ReadStep, Read, store, local
  <2>2. TypeOK' /\ NextInv' /\ IndexInv'
    <3>1. reading' \subseteq Readers
      BY <1>3 DEF RLock, ReadStep, Read, Inv, TypeOK
    <3> QED
      BY <2>1, <3>1 DEF Inv, TypeOK, NextInv, IndexInv, store, local
  <2>3. LockInv'
    <3>1. CASE RLock(r)
      BY <2>1, <3>1, ProcsAssumption DEF RLock, Inv, LockInv, local
    <3>2. CASE ReadStep(r)
      BY <2>1, <3>2 DEF ReadStep, Read, Inv, LockInv, local
    <3> QED
      BY <1>3, <3>1, <3>2
  <2> QED
    BY <2>2, <2>3 DEF Inv
<1>4. CASE UNCHANGED vars
  BY <1>4 DEF Inv, TypeOK, LockInv, NextInv, IndexInv, vars, store, mutex, local
<1> QED
  BY <1>1, <1>2, <1>3, <1>4 DEF Next

\* The store stays typed, writers edit it alone, and the BIC index agrees with
\* the records whenever no writer is inside.
THEOREM StoreInvariant == Spec => [](TypeOK /\ Exclusion /\ IndexAgrees)
<1>1. Inv => TypeOK /\ Exclusion /\ IndexAgrees
  BY DEF Inv, LockInv, IndexInv, Exclusion, IndexAgrees, Inside
<1> QED
  BY <1>1, InitInv, StepInv, PTL DEF Spec

\* The fields of the store and of the goroutines keep their types.
THEOREM StoreTypeOK == Spec => []TypeOK
<1>1. Inv => TypeOK
  BY DEF Inv
<1> QED
  BY <1>1, InitInv, StepInv, PTL DEF Spec

-----------------------------------------------------------------------------
\* The cardinality of a set, seen through the instance of the contract, is the one
\* of this module.
LEMMA SameCardinality == ASSUME NEW S PROVE Contract!Cardinality(S) = Cardinality(S)
BY DEF Contract!Cardinality, Cardinality

\* The operators of BankData, seen through the instance of the contract, are those
\* of this module: the instance leaves their constants as they are.
LEMMA SameSwap ==
  ASSUME NEW t, NEW batch, NEW n, NEW c, NEW v, NEW x
  PROVE  /\ Contract!Overlay(Contract!Clear(t, n), batch, 1) = Overlay(Clear(t, n), batch, 1)
         /\ Contract!Assign(c, x, v) = Assign(c, x, v)
         /\ Contract!InfoOf(batch, v) = InfoOf(batch, v)
         /\ Contract!Owned(t, n) = Owned(t, n)
         /\ Contract!Empty = Empty /\ Contract!NoAnswer = NoAnswer
<1>1. Contract!Owned(t, n) = Owned(t, n)
  BY DEF Contract!Owned, Owned
<1>2. Contract!Clear(t, n) = Clear(t, n)
  BY <1>1 DEF Contract!Clear, Clear, Contract!Restrict, Restrict
<1>3. \A k : Contract!LastAt(batch, k) = LastAt(batch, k)
  BY DEF Contract!LastAt, LastAt
<1>4. \A i : Contract!IncomingFrom(batch, i) = IncomingFrom(batch, i)
  BY DEF Contract!IncomingFrom, IncomingFrom
<1>5. \A i : Contract!RecordOf(batch, i) = RecordOf(batch, i)
  BY DEF Contract!RecordOf, RecordOf
<1> QED
  BY <1>1, <1>2, <1>3, <1>4, <1>5 DEF Contract!Overlay, Overlay, Contract!Assign, Assign,
    Contract!InfoOf, InfoOf, Contract!Empty, Empty, Contract!NoAnswer, NoAnswer

\* So are the answers.
LEMMA SameAnswers ==
  ASSUME NEW t, NEW s, NEW x
  PROVE  /\ Contract!ByKey(t, x) = ByKey(t, x)
         /\ Contract!ByBIC(t, x) = ByBIC(t, x)
         /\ Contract!ByCountry(t, x) = ByCountry(t, x)
         /\ Contract!StatsOf(t, s) = StatsOf(t, s)
<1> USE DEF Contract!Found, Found, Contract!Restrict, Restrict
<1>1. Contract!ByKey(t, x) = ByKey(t, x) /\ Contract!StatsOf(t, s) = StatsOf(t, s)
  BY SameCardinality DEF Contract!ByKey, ByKey, Contract!StatsOf, StatsOf
<1>2. Contract!ByBIC(t, x) = ByBIC(t, x)
  BY DEF Contract!ByBIC, ByBIC, Contract!WithBIC, WithBIC
<1>3. \A K : Contract!FirstKeys(K, MaxLimit) = FirstKeys(K, MaxLimit)
  BY SameCardinality DEF Contract!FirstKeys, FirstKeys, Contract!Before, Before
<1>4. Contract!ByCountry(t, x) = ByCountry(t, x)
  BY <1>3 DEF Contract!ByCountry, ByCountry
<1> QED
  BY <1>1, <1>2, <1>4

\* Where nobody is between Enter and Count, the abstract state is the store.
LEMMA OutcomeOutside ==
  ASSUME Inv, \A w \in Writers : pc[w] \notin Inside
  PROVE  Outcome = byKey /\ OutcomeSources = sources
BY DEF Inv, TypeOK, Outcome, OutcomeSources, Inside

\* Entering the critical section is the abstract Replace.
LEMMA EnterReplaces ==
  ASSUME Inv, NEW w \in Writers, Enter(w)
  PROVE  Contract!Replace(job[w])
<1>1. holder = w /\ pc[w] = "drain" /\ w # NoWriter
  BY ProcsAssumption DEF Inv, LockInv, Enter
<1>2. Outcome = byKey /\ OutcomeSources = sources
  BY <1>1 DEF Outcome, OutcomeSources
<1>3. /\ holder' = w /\ pc'[w] = "delete" /\ job'[w] = job[w]
      /\ byKey' = byKey /\ sources' = sources /\ answer' = answer
  BY <1>1 DEF Enter, Goto, mutex, store, Inv, TypeOK
<1>4. Outcome' = Overlay(Clear(byKey, job[w].name), job[w], 1)
  BY <1>1, <1>3 DEF Outcome
<1>5. OutcomeSources' = Assign(sources, job[w].name,
                          InfoOf(job[w], Cardinality(Owned(Outcome', job[w].name))))
  BY <1>1, <1>3 DEF OutcomeSources
<1>6. Outcome' = Contract!Swap(job[w])
  BY <1>2, <1>4, SameSwap DEF Contract!Swap
<1>7. OutcomeSources' = Contract!Assign(OutcomeSources, job[w].name,
        Contract!InfoOf(job[w], Cardinality(Contract!Owned(Outcome', job[w].name))))
  BY <1>2, <1>5, SameSwap
<1> QED
  BY <1>3, <1>6, <1>7, SameCardinality DEF Contract!Replace

\* Every later step of Replace leaves the abstract state alone.
LEMMA ReplaceStutters ==
  ASSUME Inv, NEW w \in Writers, ReplaceStep(w), ~ Enter(w)
  PROVE  Outcome' = Outcome /\ OutcomeSources' = OutcomeSources /\ answer' = answer
<1> USE DEF store, mutex, Goto
<1>1. CASE Announce(w)
  BY <1>1, ProcsAssumption DEF Announce, Outcome, OutcomeSources, Inv, TypeOK
<1>2. ASSUME pc[w] \in Inside
      PROVE  /\ holder = w /\ w # NoWriter /\ IsTable(byKey)
             /\ job[w] \in Batches /\ next[w] \in Nat \ {0} /\ pc \in [Writers -> Labels]
             /\ next \in [Writers -> Nat \ {0}]
             /\ pc[w] = "delete" => next[w] = 1
  BY <1>2, ProcsAssumption DEF Inv, TypeOK, LockInv, NextInv, Inside
<1> DEFINE n == job[w].name
<1>3. CASE DeleteOld(w)
  <2>1. /\ holder = w /\ w # NoWriter /\ pc[w] = "delete" /\ next[w] = 1
        /\ holder' = w /\ pc'[w] = "insert" /\ next' = next /\ job' = job
        /\ byKey' = Clear(byKey, n) /\ sources' = sources /\ answer' = answer
    BY <1>2, <1>3 DEF DeleteOld, Inside
  <2>2. Outcome = Overlay(byKey', job[w], 1) /\ Outcome' = Overlay(byKey', job[w], 1)
    BY <2>1 DEF Outcome
  <2> QED
    BY <2>1, <2>2 DEF OutcomeSources
<1>4. CASE InsertNext(w)
  <2>1. /\ holder = w /\ w # NoWriter /\ pc[w] = "insert" /\ pc' = pc /\ holder' = w
        /\ next'[w] = next[w] + 1 /\ job' = job /\ sources' = sources /\ answer' = answer
        /\ byKey' = Assign(byKey, job[w].banks[next[w]].key, RecordOf(job[w], next[w]))
        /\ job[w] \in Batches /\ IsTable(byKey)
    BY <1>2, <1>4 DEF InsertNext, Inside
  <2>2. next[w] \in DOMAIN job[w].banks
    BY <1>2, <1>4, <2>1, BatchesAssumption DEF InsertNext, Inside
  <2>3. Overlay(byKey', job[w], next[w] + 1) = Overlay(byKey, job[w], next[w])
    BY <2>1, <2>2, OverlayStep
  <2>4. Outcome' = Outcome
    BY <2>1, <2>3 DEF Outcome
  <2> QED
    BY <2>1, <2>4 DEF OutcomeSources
<1>5. CASE InsertedAll(w)
  <2>1. /\ holder = w /\ w # NoWriter /\ pc[w] = "insert" /\ pc'[w] = "count" /\ holder' = w
        /\ job' = job /\ sources' = sources /\ answer' = answer /\ byKey' = byKey
    BY <1>2, <1>5 DEF InsertedAll, Inside
  <2>2. Overlay(byKey, job[w], next[w]) = byKey
    BY <1>2, <1>5, <2>1, OverlayDone DEF InsertedAll, Inside
  <2>3. Outcome' = byKey /\ Outcome = byKey
    BY <2>1, <2>2 DEF Outcome
  <2> QED
    BY <2>1, <2>3 DEF OutcomeSources
<1>6. CASE Count(w)
  <2>1. /\ holder = w /\ w # NoWriter /\ pc[w] = "count" /\ pc'[w] = "reindex" /\ holder' = w
        /\ job' = job /\ answer' = answer /\ byKey' = byKey
        /\ sources' = Assign(sources, n, InfoOf(job[w], RecordCount(n)))
    BY <1>2, <1>6 DEF Count, Inside
  <2>2. Outcome' = byKey /\ Outcome = byKey
    BY <2>1 DEF Outcome
  <2> QED
    BY <2>1, <2>2 DEF OutcomeSources, RecordCount
<1>7. CASE Reindex(w)
  <2>1. /\ holder = w /\ pc[w] = "reindex" /\ pc'[w] = "unlock" /\ holder' = w
        /\ answer' = answer /\ byKey' = byKey /\ sources' = sources
    BY <1>2, <1>7 DEF Reindex, Inside
  <2> QED
    BY <2>1 DEF Outcome, OutcomeSources
<1>8. CASE Unlock(w)
  <2>1. /\ holder = w /\ pc[w] = "unlock" /\ holder' = NoWriter
        /\ answer' = answer /\ byKey' = byKey /\ sources' = sources
    BY <1>2, <1>8 DEF Unlock, Inside
  <2> QED
    BY <2>1 DEF Outcome, OutcomeSources
<1> QED
  BY <1>1, <1>3, <1>4, <1>5, <1>6, <1>7, <1>8 DEF ReplaceStep

\* What a reader inside its critical section answers is what the contract answers
\* of the records and the catalogue, FindByBIC by way of the index.
LEMMA ReadAsks ==
  ASSUME Inv, NEW r \in Readers, NEW q \in Queries, Read(r, q)
  PROVE  Contract!Ask(r, q)
<1>1. \A w \in Writers : pc[w] \notin Inside
  BY DEF Inv, LockInv, Read
<1>2. Outcome = byKey /\ OutcomeSources = sources
  BY <1>1, OutcomeOutside
<1>3. UNCHANGED <<byKey, sources, holder, pc, job, next>>
  BY DEF Read, store, local
<1>4. Outcome' = Outcome /\ OutcomeSources' = OutcomeSources
  BY <1>3 DEF Outcome, OutcomeSources
<1>5. byBIC = IndexOf(byKey)
  BY <1>1 DEF Inv, IndexInv, Inside
<1>6. Answer(q) = Contract!Answer(q)
  <2>1. CASE q.op = "FindByBIC"
    <3>1. q.bic \in BICs
      BY <2>1 DEF Queries
    <3>2. CASE q.bic \in DOMAIN byBIC
      BY <1>2, <1>5, SameAnswers, <2>1, <3>2 DEF IndexOf, ByBIC, Answer, Contract!Answer
    <3>3. CASE q.bic \notin DOMAIN byBIC
      <4>1. {k \in DOMAIN byKey : byKey[k].bic = q.bic} = {}
        BY <1>5, <3>1, <3>3, BICAssumption DEF IndexOf
      <4>2. WithBIC(byKey, q.bic) = Empty
        BY <4>1 DEF WithBIC, Restrict, Empty
      <4> QED
        BY <1>2, SameAnswers, <2>1, <3>3, <4>2 DEF Answer, Contract!Answer, ByBIC
    <3> QED
      BY <3>2, <3>3
  <2>2. CASE q.op = "Find"
    BY <1>2, SameAnswers, <2>2 DEF Answer, Contract!Answer
  <2>3. CASE q.op = "Search"
    BY <1>2, SameAnswers, <2>3 DEF Answer, Contract!Answer
  <2>4. CASE q.op = "Stats"
    BY <1>2, SameAnswers, <2>4 DEF Answer, Contract!Answer
  <2> QED
    BY <2>1, <2>2, <2>3, <2>4 DEF Queries
<1> QED
  BY <1>4, <1>6 DEF Read, Contract!Ask

\* The store implements the contract: every Replace takes effect in one step, and
\* every answer is of one moment.
THEOREM StoreAtomic == Spec => Atomic
<1>1. Init => Contract!Init
  BY ProcsAssumption, SameSwap DEF Init, Contract!Init, Outcome, OutcomeSources
<1>2. Inv /\ [Next]_vars => [Contract!Next]_Contract!vars
  <2> SUFFICES ASSUME Inv, [Next]_vars PROVE [Contract!Next]_Contract!vars
    OBVIOUS
  <2>1. ASSUME NEW w \in Writers, Enter(w) PROVE Contract!Next
    <3>1. job[w] \in Batches
      BY <2>1 DEF Inv, TypeOK, Enter
    <3> QED
      BY <2>1, <3>1, EnterReplaces DEF Contract!Next
  <2>2. ASSUME NEW w \in Writers, ReplaceStep(w), ~ Enter(w)
        PROVE  UNCHANGED Contract!vars
    BY <2>2, ReplaceStutters DEF Contract!vars
  <2>3. ASSUME NEW w \in Writers, NEW batch \in Batches, Call(w, batch)
        PROVE  UNCHANGED Contract!vars
    BY <2>3, ProcsAssumption DEF Call, Goto, store, mutex, Inv, TypeOK, LockInv, Inside, Contract!vars,
      Outcome, OutcomeSources
  <2>4. ASSUME NEW r \in Readers, RLock(r) PROVE UNCHANGED Contract!vars
    BY <2>4 DEF RLock, store, local, Contract!vars, Outcome, OutcomeSources
  <2>5. ASSUME NEW r \in Readers, ReadStep(r) PROVE Contract!Next
    BY <2>5, ReadAsks DEF ReadStep, Contract!Next
  <2>6. CASE UNCHANGED vars
    BY <2>6 DEF vars, store, mutex, local, Contract!vars, Outcome, OutcomeSources
  <2> QED
    BY <2>1, <2>2, <2>3, <2>4, <2>5, <2>6 DEF Next
<1> QED
  BY <1>1, <1>2, InitInv, StepInv, PTL DEF Spec, Atomic, Contract!Spec

-----------------------------------------------------------------------------
\* The abstract state is consistent.
OutcomeConsistent ==
  /\ IsTable(Outcome) /\ IsCatalogue(OutcomeSources)
  /\ Catalogued(Outcome, OutcomeSources)
  /\ OneEditionEach(Outcome, OutcomeSources)
  /\ Counted(Outcome, OutcomeSources)

\* Entering the critical section swaps one source of a consistent store.
LEMMA EnterConsistent ==
  ASSUME Inv, OutcomeConsistent, NEW w \in Writers, Enter(w)
  PROVE  OutcomeConsistent'
<1>1. job[w] \in Batches
  BY DEF Inv, TypeOK, Enter
<1>2. Outcome' = Overlay(Clear(Outcome, job[w].name), job[w], 1)
  BY EnterReplaces, SameSwap DEF Contract!Replace, Contract!Swap
<1>3. OutcomeSources' = Assign(OutcomeSources, job[w].name,
                          InfoOf(job[w], Cardinality(Owned(Outcome', job[w].name))))
  BY EnterReplaces, SameSwap, SameCardinality DEF Contract!Replace
<1> QED
  BY <1>1, <1>2, <1>3, SwapKeepsConsistent DEF OutcomeConsistent

\* Whenever no writer is inside, every record belongs to a source the catalogue
\* lists and comes from the edition that source is dated by, and no source holds
\* more records than the catalogue counts.
THEOREM StoreConsistent == Spec => []Consistent
<1>1. Init => OutcomeConsistent
  <2> SUFFICES ASSUME Init PROVE OutcomeConsistent
    OBVIOUS
  <2>1. Outcome = Empty /\ OutcomeSources = Empty
    BY DEF Init, Outcome, OutcomeSources
  <2>2. Empty \in [{} -> Record] /\ Empty \in [{} -> SourceInfo] /\ DOMAIN Empty = {}
    BY DEF Empty
  <2> QED
    BY <2>1, <2>2 DEF OutcomeConsistent, IsTable, IsCatalogue, Catalogued, OneEditionEach,
      Counted
<1>2. Inv /\ OutcomeConsistent /\ [Next]_vars => OutcomeConsistent'
  <2> SUFFICES ASSUME Inv, OutcomeConsistent, [Next]_vars PROVE OutcomeConsistent'
    OBVIOUS
  <2>1. ASSUME NEW w \in Writers, Enter(w) PROVE OutcomeConsistent'
    BY <2>1, EnterConsistent
  <2>2. CASE Outcome' = Outcome /\ OutcomeSources' = OutcomeSources
    BY <2>2 DEF OutcomeConsistent
  <2>3. ASSUME NEW w \in Writers, ReplaceStep(w), ~ Enter(w) PROVE OutcomeConsistent'
    BY <2>2, <2>3, ReplaceStutters
  <2>4. ASSUME NEW w \in Writers, NEW batch \in Batches, Call(w, batch)
        PROVE  OutcomeConsistent'
    BY <2>2, <2>4, ProcsAssumption DEF Call, Goto, store, mutex, Inv, TypeOK, LockInv,
      Inside, Outcome, OutcomeSources
  <2>5. ASSUME NEW r \in Readers, RLock(r) \/ ReadStep(r) PROVE OutcomeConsistent'
    BY <2>2, <2>5 DEF RLock, ReadStep, Read, store, local, Outcome, OutcomeSources
  <2>6. CASE UNCHANGED vars
    BY <2>2, <2>6 DEF vars, store, mutex, local, Outcome, OutcomeSources
  <2> QED
    BY <2>1, <2>3, <2>4, <2>5, <2>6 DEF Next
<1>3. Inv /\ OutcomeConsistent => Consistent
  BY OutcomeOutside DEF OutcomeConsistent, Consistent
<1> QED
  BY <1>1, <1>2, <1>3, InitInv, StepInv, PTL DEF Spec
-----------------------------------------------------------------------------
\* One record, and one step of the writer inside: only the insertion of its own
\* key and the deletion by its own name touch it.
LEMMA StepKeepsOthers ==
  ASSUME Inv, NEW w \in Writers, ReplaceStep(w), pc[w] \in Inside,
         NEW k \in DOMAIN byKey, byKey[k].source # job[w].name, k \notin Incoming(job[w])
  PROVE  k \in DOMAIN byKey' /\ byKey'[k] = byKey[k]
<1>1. CASE DeleteOld(w)
  BY <1>1 DEF DeleteOld, Clear, Owned, Restrict
<1>2. CASE InsertNext(w)
  <2>1. job[w] \in Batches /\ next[w] \in Nat \ {0}
    BY <1>2 DEF Inv, TypeOK, InsertNext
  <2>2. job[w].banks[next[w]].key \in Incoming(job[w])
    BY <1>2, <2>1, BatchesAssumption DEF InsertNext, Incoming, IncomingFrom
  <2> QED
    BY <1>2, <2>2 DEF InsertNext, Assign
<1>3. CASE ~ DeleteOld(w) /\ ~ InsertNext(w)
  BY <1>3 DEF ReplaceStep, Announce, Enter, InsertedAll, Count, Reindex, Unlock, store
<1> QED
  BY <1>1, <1>2, <1>3

\* Replace leaves the record of another source alone unless its batch brings a
\* record for the same key: deletion goes by the source name (memory.go:116-120).
THEOREM StoreIsolation == Spec => Isolation
<1>1. ASSUME Inv, Next, NEW w \in Writers, pc[w] \in Inside, NEW k \in DOMAIN byKey,
             byKey[k].source # job[w].name, k \notin Incoming(job[w])
      PROVE  k \in DOMAIN byKey' /\ byKey'[k] = byKey[k]
  <2>1. ASSUME NEW v \in Writers, ReplaceStep(v) PROVE v = w \/ byKey' = byKey
    <3>1. CASE pc[v] \in Inside
      BY <1>1, <3>1 DEF Inv, LockInv
    <3>2. CASE pc[v] \notin Inside
      BY <2>1, <3>2 DEF ReplaceStep, Announce, Enter, DeleteOld, InsertNext, InsertedAll,
        Count, Reindex, Unlock, Inside, store
    <3> QED
      BY <3>1, <3>2
  <2>2. ASSUME NEW v \in Writers, NEW batch \in Batches, Call(v, batch) PROVE byKey' = byKey
    BY <2>2 DEF Call, store
  <2>3. ASSUME NEW r \in Readers, RLock(r) \/ ReadStep(r) PROVE byKey' = byKey
    BY <2>3 DEF RLock, ReadStep, Read, store
  <2> QED
    BY <1>1, <2>1, <2>2, <2>3, StepKeepsOthers DEF Next
<1>2. Inv /\ [Next]_vars =>
        [\A w \in Writers : pc[w] \in Inside =>
           \A k \in DOMAIN byKey :
             byKey[k].source # job[w].name /\ k \notin Incoming(job[w])
               => k \in DOMAIN byKey' /\ byKey'[k] = byKey[k]]_vars
  BY <1>1
<1> QED
  BY <1>2, InitInv, StepInv, PTL DEF Spec, Isolation
=============================================================================
