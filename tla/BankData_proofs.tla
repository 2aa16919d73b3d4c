--------------------------- MODULE BankData_proofs ---------------------------
(***************************************************************************)
(* Facts about the operators of BankData that the proofs about the stores  *)
(* rest on.                                                                *)
(***************************************************************************)
EXTENDS BankData, FiniteSetTheorems, WellFoundedInduction, TLAPS

-----------------------------------------------------------------------------
\* A batch leaves a last entry under each key it brings.
LEMMA LastAtIsLast ==
  ASSUME NEW batch \in Batches, NEW k \in Incoming(batch)
  PROVE  LET i == LastAt(batch, k) IN
         /\ i \in DOMAIN batch.banks
         /\ batch.banks[i].key = k
         /\ \A j \in DOMAIN batch.banks : batch.banks[j].key = k => j <= i
<1> DEFINE D == {i \in DOMAIN batch.banks : batch.banks[i].key = k}
           After(i) == {j \in D : j > i}
           S == {After(i) : i \in D}
<1>1. DOMAIN batch.banks = 1 .. Len(batch.banks) /\ Len(batch.banks) \in Nat
  BY BatchesAssumption
<1>2. D # {}
  BY <1>1 DEF Incoming, IncomingFrom
<1>3. IsFiniteSet(D)
  <2>1. IsFiniteSet(1 .. Len(batch.banks))
    BY <1>1, FS_Interval
  <2> QED
    BY <2>1, <1>1, FS_Subset
<1>4. S \subseteq FiniteSubsetsOf(D) /\ S # {}
  <2>1. \A i : After(i) \in SUBSET D
    OBVIOUS
  <2>2. ASSUME NEW T \in SUBSET D PROVE IsFiniteSet(T)
    BY <1>3, FS_Subset
  <2>3. \A i \in D : After(i) \in FiniteSubsetsOf(D)
    BY <2>1, <2>2 DEF FiniteSubsetsOf
  <2> HIDE DEF D, After
  <2> QED
    BY <1>2, <2>3
<1>5. PICK x \in S : \A y \in S : ~ (<<y, x>> \in StrictSubsetOrdering(D))
  <2>1. IsWellFoundedOn(StrictSubsetOrdering(D), FiniteSubsetsOf(D))
    BY FS_StrictSubsetOrderingWellFounded
  <2> QED
    BY <2>1, <1>4, WFMin
<1>6. PICK i \in D : x = After(i)
  BY <1>5
<1>7. ASSUME NEW j \in D PROVE j <= i
  <2>1. SUFFICES ASSUME j > i PROVE FALSE
    BY <1>1
  <2>2. After(j) \subseteq After(i) /\ j \in After(i) /\ j \notin After(j)
    BY <2>1, <1>1
  <2>3. <<After(j), x>> \in StrictSubsetOrdering(D)
    BY <2>2, <1>6 DEF StrictSubsetOrdering
  <2> QED
    BY <2>3, <1>5
<1>8. \E l \in DOMAIN batch.banks :
        /\ batch.banks[l].key = k
        /\ \A j \in DOMAIN batch.banks : batch.banks[j].key = k => j <= l
  BY <1>7
<1> QED
  BY <1>8 DEF LastAt

\* The record a batch leaves under a key is a record of its source and edition.
LEMMA RecordOfBatch ==
  ASSUME NEW batch \in Batches, NEW k \in Incoming(batch)
  PROVE  /\ k \in Keys
         /\ RecordOf(batch, LastAt(batch, k)) \in Record
         /\ RecordOf(batch, LastAt(batch, k)).source = batch.name
         /\ RecordOf(batch, LastAt(batch, k)).edition = batch.edition
<1>1. PICK i \in DOMAIN batch.banks : i = LastAt(batch, k) /\ batch.banks[i].key = k
  BY LastAtIsLast
<1>2. batch.banks[i] \in Banks
  BY <1>1, BatchesAssumption
<1>3. batch.name \in Names /\ batch.edition \in Nat
  BY BatchesAssumption
<1> QED
  BY <1>1, <1>2, <1>3 DEF Banks, Record, RecordOf

\* The entries of a table are records, and every source owns finitely many of them.
LEMMA TableFacts ==
  ASSUME NEW t, IsTable(t)
  PROVE  /\ DOMAIN t \subseteq Keys
         /\ \A k \in DOMAIN t : t[k] \in Record
         /\ \A n : Owned(t, n) \subseteq DOMAIN t
         /\ \A n : IsFiniteSet(Owned(t, n)) /\ Cardinality(Owned(t, n)) \in Nat
<1>1. DOMAIN t \subseteq Keys /\ \A k \in DOMAIN t : t[k] \in Record
  BY DEF IsTable
<1>2. \A n : Owned(t, n) \subseteq DOMAIN t
  BY DEF Owned
<1>3. ASSUME NEW n PROVE IsFiniteSet(Owned(t, n)) /\ Cardinality(Owned(t, n)) \in Nat
  BY <1>1, <1>2, KeysAssumption, FS_Subset, FS_CardinalityType
<1> QED
  BY <1>1, <1>2, <1>3

\* A batch put over a table is a table.
LEMMA OverlayTable ==
  ASSUME NEW t, IsTable(t), NEW batch \in Batches
  PROVE  IsTable(Overlay(t, batch, 1))
<1> DEFINE K == DOMAIN t \cup Incoming(batch)
           val(k) == IF k \in Incoming(batch) THEN RecordOf(batch, LastAt(batch, k)) ELSE t[k]
<1>1. K \subseteq Keys /\ \A k \in K : val(k) \in Record
  BY TableFacts, RecordOfBatch
<1>2. [k \in K |-> val(k)] \in [K -> Record]
  BY <1>1
<1> QED
  BY <1>1, <1>2 DEF IsTable, Overlay, Incoming

\* A part of a table is a table.
LEMMA RestrictTable ==
  ASSUME NEW t, IsTable(t), NEW K \in SUBSET DOMAIN t
  PROVE  IsTable(Restrict(t, K))
<1>1. Restrict(t, K) \in [K -> Record] /\ K \subseteq Keys
  BY TableFacts DEF Restrict
<1> QED
  BY <1>1 DEF IsTable

\* A table with one more record is a table.
LEMMA AssignTable ==
  ASSUME NEW t, IsTable(t), NEW k \in Keys, NEW r \in Record
  PROVE  IsTable(Assign(t, k, r))
<1>1. Assign(t, k, r) \in [DOMAIN t \cup {k} -> Record] /\ DOMAIN t \cup {k} \subseteq Keys
  BY TableFacts DEF Assign
<1> QED
  BY <1>1 DEF IsTable

\* A catalogue with one more source is a catalogue.
LEMMA AssignCatalogue ==
  ASSUME NEW c, IsCatalogue(c), NEW n \in Names, NEW i \in SourceInfo
  PROVE  IsCatalogue(Assign(c, n, i))
<1>1. PICK N \in SUBSET Names : c \in [N -> SourceInfo]
  BY DEF IsCatalogue
<1>2. Assign(c, n, i) \in [N \cup {n} -> SourceInfo] /\ N \cup {n} \subseteq Names
  BY <1>1 DEF Assign
<1> QED
  BY <1>2 DEF IsCatalogue

-----------------------------------------------------------------------------
\* Inserting the i-th bank of a batch and then overlaying the banks after it is
\* overlaying the banks from the i-th on: what makes the insert loop of
\* MemoryStore.Replace leave the last entry of a repeated key.
LEMMA OverlayStep ==
  ASSUME NEW t, IsTable(t), NEW batch \in Batches, NEW i \in DOMAIN batch.banks
  PROVE  Overlay(Assign(t, batch.banks[i].key, RecordOf(batch, i)), batch, i + 1)
           = Overlay(t, batch, i)
<1> DEFINE key == batch.banks[i].key
           L == Len(batch.banks)
           late == IncomingFrom(batch, i + 1)
<1>1. DOMAIN batch.banks = 1 .. L /\ L \in Nat /\ i \in 1 .. L
  BY BatchesAssumption
<1>2. i .. L = {i} \cup ((i + 1) .. L)
  BY <1>1
<1>3. IncomingFrom(batch, i) = late \cup {key}
  BY <1>2 DEF IncomingFrom
<1>4. ASSUME key \notin late PROVE LastAt(batch, key) = i
  <2>1. \A j \in DOMAIN batch.banks : batch.banks[j].key = key => j <= i
    BY <1>1, <1>4 DEF IncomingFrom
  <2>2. ASSUME NEW l \in DOMAIN batch.banks, batch.banks[l].key = key,
               \A j \in DOMAIN batch.banks : batch.banks[j].key = key => j <= l
        PROVE  l = i
    BY <1>1, <2>1, <2>2
  <2> QED
    BY <2>1, <2>2 DEF LastAt
<1>5. DOMAIN Assign(t, key, RecordOf(batch, i)) = DOMAIN t \cup {key}
  BY DEF Assign
<1> DEFINE u == Assign(t, key, RecordOf(batch, i))
           K == DOMAIN t \cup late \cup {key}
<1>6. ASSUME NEW k \in K
      PROVE  (IF k \in late THEN RecordOf(batch, LastAt(batch, k)) ELSE u[k])
               = (IF k \in late \cup {key} THEN RecordOf(batch, LastAt(batch, k)) ELSE t[k])
  <2>1. CASE k \in late
    BY <2>1
  <2>2. CASE k \notin late /\ k = key
    BY <2>2, <1>4 DEF Assign
  <2>3. CASE k \notin late /\ k # key
    BY <2>3 DEF Assign
  <2> QED
    BY <2>1, <2>2, <2>3
<1> HIDE DEF key, late, u
<1> QED
  BY <1>3, <1>5, <1>6 DEF Overlay, u, late, key

\* Past the last bank there is nothing left to overlay.
LEMMA OverlayDone ==
  ASSUME NEW t, IsTable(t), NEW batch \in Batches, NEW i \in Nat, i > Len(batch.banks)
  PROVE  Overlay(t, batch, i) = t
<1>1. Len(batch.banks) \in Nat
  BY BatchesAssumption
<1>2. IncomingFrom(batch, i) = {}
  BY <1>1 DEF IncomingFrom
<1>3. t = [k \in DOMAIN t |-> t[k]]
  BY DEF IsTable
<1> QED
  BY <1>2, <1>3 DEF Overlay

-----------------------------------------------------------------------------
\* What Replace leaves: the batch under the keys it brings, and the records of
\* the other sources elsewhere.
LEMMA SwapFacts ==
  ASSUME NEW t, IsTable(t), NEW batch \in Batches,
         NEW u, u = Overlay(Clear(t, batch.name), batch, 1)
  PROVE  /\ IsTable(u)
         /\ \A k \in DOMAIN u :
              \/ u[k].source = batch.name /\ u[k].edition = batch.edition
              \/ k \in DOMAIN t /\ u[k] = t[k] /\ t[k].source # batch.name
<1> DEFINE kept == Clear(t, batch.name)
<1>1. IsTable(kept)
  BY RestrictTable DEF Clear
<1>2. DOMAIN kept \subseteq DOMAIN t
      /\ \A k \in DOMAIN kept : kept[k] = t[k] /\ t[k].source # batch.name
  BY DEF Clear, Restrict, Owned
<1>3. /\ DOMAIN u = DOMAIN kept \cup Incoming(batch)
      /\ \A k \in DOMAIN u : u[k] = IF k \in Incoming(batch)
                                      THEN RecordOf(batch, LastAt(batch, k)) ELSE kept[k]
  BY DEF Overlay, Incoming
<1>4. IsTable(u)
  BY <1>1, OverlayTable
<1> QED
  BY <1>2, <1>3, <1>4, RecordOfBatch

\* A swap keeps table and catalogue typed and consistent.
LEMMA SwapKeepsConsistent ==
  ASSUME NEW t, IsTable(t), NEW c, IsCatalogue(c),
         Catalogued(t, c), OneEditionEach(t, c), Counted(t, c), NEW batch \in Batches,
         NEW u, u = Overlay(Clear(t, batch.name), batch, 1),
         NEW d, d = Assign(c, batch.name, InfoOf(batch, Cardinality(Owned(u, batch.name))))
  PROVE  /\ IsTable(u) /\ IsCatalogue(d)
         /\ Catalogued(u, d) /\ OneEditionEach(u, d) /\ Counted(u, d)
<1> DEFINE n == batch.name
           info == InfoOf(batch, Cardinality(Owned(u, n)))
<1>1. IsTable(u)
  BY SwapFacts
<1>2. ASSUME NEW k \in DOMAIN u
      PROVE  \/ u[k].source = n /\ u[k].edition = batch.edition
             \/ k \in DOMAIN t /\ u[k] = t[k] /\ t[k].source # n
  BY SwapFacts
<1>3. DOMAIN d = DOMAIN c \cup {n}
  BY DEF Assign
<1>4. d[n] = info /\ \A m \in DOMAIN c : m # n => d[m] = c[m]
  BY DEF Assign
<1>5. info.count = Cardinality(Owned(u, n)) /\ info.edition = batch.edition
  BY DEF InfoOf
<1>6. IsCatalogue(d)
  <2>1. n \in Names /\ info \in SourceInfo
    BY <1>1, TableFacts, BatchesAssumption DEF InfoOf, SourceInfo
  <2> QED
    BY <2>1, AssignCatalogue
<1> HIDE DEF n, info
<1>7. Catalogued(u, d)
  BY <1>2, <1>3 DEF Catalogued
<1>8. OneEditionEach(u, d)
  BY <1>2, <1>3, <1>4, <1>5 DEF Catalogued, OneEditionEach
<1>9. Counted(u, d)
  <2> SUFFICES ASSUME NEW m \in DOMAIN c \cup {n}
               PROVE  Cardinality(Owned(u, m)) <= d[m].count
    BY <1>3 DEF Counted
  <2>1. CASE m = n
    BY <2>1, <1>1, <1>4, <1>5, TableFacts
  <2>2. CASE m # n
    <3>1. Owned(u, m) \subseteq Owned(t, m)
      BY <2>2, <1>2 DEF Owned
    <3>2. Cardinality(Owned(u, m)) <= Cardinality(Owned(t, m))
      BY <3>1, TableFacts, FS_Subset
    <3>3. Cardinality(Owned(t, m)) <= c[m].count
      BY <2>2 DEF Counted
    <3>4. c[m].count \in Nat
      BY <2>2 DEF IsCatalogue, SourceInfo
    <3> QED
      BY <2>2, <3>2, <3>3, <3>4, <1>1, <1>4, TableFacts
  <2> QED
    BY <2>1, <2>2
<1> QED
  BY <1>1, <1>6, <1>7, <1>8, <1>9
=============================================================================
