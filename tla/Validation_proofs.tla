-------------------------- MODULE Validation_proofs --------------------------
(***************************************************************************)
(* Proofs about a request's way through the API.                           *)
(*                                                                         *)
(* About the stores' contract, and the answers Validation puts together    *)
(* from several reads of such a store: whatever is loaded between them and *)
(* whichever of them fail, each statement was true at a moment of the      *)
(* request, and none reads as a failure for lack of data.                  *)
(*                                                                         *)
(* About RateLimiter, for any number of clients and goroutines, any limit, *)
(* and any lateness up to a minute: nobody is refused below the limit,     *)
(* nobody passes more than twice the limit in a minute, and the map of     *)
(* windows forgets the clients that have gone.                             *)
(***************************************************************************)
EXTENDS Validation, RateLimiter, BankData_proofs

-----------------------------------------------------------------------------
\* The operators of BankData, seen through the instance of the contract, are those
\* of this module: the instance leaves their constants as they are.
LEMMA SameCardinality == ASSUME NEW S PROVE Store!Cardinality(S) = Cardinality(S)
BY DEF Store!Cardinality, Cardinality

LEMMA SameSwap ==
  ASSUME NEW t, NEW batch, NEW n, NEW c, NEW v, NEW x
  PROVE  /\ Store!Overlay(Store!Clear(t, n), batch, 1) = Overlay(Clear(t, n), batch, 1)
         /\ Store!Assign(c, x, v) = Assign(c, x, v)
         /\ Store!InfoOf(batch, v) = InfoOf(batch, v)
         /\ Store!Owned(t, n) = Owned(t, n)
         /\ Store!Empty = Empty
<1>1. Store!Owned(t, n) = Owned(t, n)
  BY DEF Store!Owned, Owned
<1>2. Store!Clear(t, n) = Clear(t, n)
  BY <1>1 DEF Store!Clear, Clear, Store!Restrict, Restrict
<1>3. \A k : Store!LastAt(batch, k) = LastAt(batch, k)
  BY DEF Store!LastAt, LastAt
<1>4. \A i : Store!IncomingFrom(batch, i) = IncomingFrom(batch, i)
  BY DEF Store!IncomingFrom, IncomingFrom
<1>5. \A i : Store!RecordOf(batch, i) = RecordOf(batch, i)
  BY DEF Store!RecordOf, RecordOf
<1> QED
  BY <1>1, <1>2, <1>3, <1>4, <1>5 DEF Store!Overlay, Overlay, Store!Assign, Assign,
    Store!InfoOf, InfoOf, Store!Empty, Empty

LEMMA SameConsistent ==
  ASSUME NEW t, NEW c
  PROVE  /\ Store!IsTable(t) <=> IsTable(t)
         /\ Store!IsCatalogue(c) <=> IsCatalogue(c)
         /\ Store!Catalogued(t, c) <=> Catalogued(t, c)
         /\ Store!OneEditionEach(t, c) <=> OneEditionEach(t, c)
         /\ Store!Counted(t, c) <=> Counted(t, c)
<1>1. Store!IsTable(t) <=> IsTable(t)
  BY DEF Store!IsTable, IsTable, Store!Record, Record
<1>2. Store!IsCatalogue(c) <=> IsCatalogue(c)
  BY DEF Store!IsCatalogue, IsCatalogue, Store!SourceInfo, SourceInfo
<1>3. /\ Store!Catalogued(t, c) <=> Catalogued(t, c)
      /\ Store!OneEditionEach(t, c) <=> OneEditionEach(t, c)
  BY DEF Store!Catalogued, Catalogued, Store!OneEditionEach, OneEditionEach
<1>4. \A n : Store!Cardinality(Store!Owned(t, n)) = Cardinality(Owned(t, n))
  BY SameSwap, SameCardinality
<1>5. Store!Counted(t, c) <=> Counted(t, c)
  BY <1>4 DEF Store!Counted, Counted
<1> QED
  BY <1>1, <1>2, <1>3, <1>5

\* What the contract does, in the terms of this module.
LEMMA ReplaceFacts ==
  ASSUME NEW batch, Store!Replace(batch)
  PROVE  /\ bank' = Overlay(Clear(bank, batch.name), batch, 1)
         /\ sources' = Assign(sources, batch.name,
                              InfoOf(batch, Cardinality(Owned(bank', batch.name))))
         /\ call' = call
<1>1. /\ bank' = Store!Overlay(Store!Clear(bank, batch.name), batch, 1)
      /\ sources' = Store!Assign(sources, batch.name,
           Store!InfoOf(batch, Store!Cardinality(Store!Owned(bank', batch.name))))
      /\ call' = call
  BY DEF Store!Replace, Store!Swap
<1> QED
  BY <1>1, SameSwap, SameCardinality

LEMMA EmptyTable ==
  /\ DOMAIN Empty = {} /\ IsTable(Empty) /\ IsCatalogue(Empty)
  /\ Catalogued(Empty, Empty) /\ OneEditionEach(Empty, Empty) /\ Counted(Empty, Empty)
<1>1. DOMAIN Empty = {} /\ Empty \in [{} -> Record] /\ Empty \in [{} -> SourceInfo]
  BY DEF Empty
<1> QED
  BY <1>1 DEF IsTable, IsCatalogue, Catalogued, OneEditionEach, Counted

-----------------------------------------------------------------------------
\* The contract keeps its records typed, and table and catalogue consistent, however
\* often sources are replaced and whatever is asked: a record belongs to a listed
\* source, comes from the edition that source is dated by, and no source holds more
\* records than are counted for it.  The inductive invariant is what the theorem
\* states, and no more.
ContractInv ==
  /\ IsTable(bank) /\ IsCatalogue(sources)
  /\ Catalogued(bank, sources) /\ OneEditionEach(bank, sources) /\ Counted(bank, sources)

THEOREM ContractConsistent == Store!Spec => [](Store!TypeOK /\ Store!Consistent)
<1>1. Store!Init => ContractInv
  BY SameSwap, EmptyTable DEF Store!Init, ContractInv
<1>2. ContractInv /\ [Store!Next]_Store!vars => ContractInv'
  <2> SUFFICES ASSUME ContractInv, [Store!Next]_Store!vars PROVE ContractInv'
    OBVIOUS
  <2>1. ASSUME NEW batch \in Batches, Store!Replace(batch) PROVE ContractInv'
    BY <2>1, ReplaceFacts, SwapKeepsConsistent DEF ContractInv
  <2>2. CASE UNCHANGED <<bank, sources>>
    BY <2>2 DEF ContractInv
  <2> QED
    BY <2>1, <2>2 DEF Store!Next, Store!Ask, Store!vars
<1>3. ContractInv => Store!TypeOK /\ Store!Consistent
  BY SameConsistent DEF ContractInv, Store!TypeOK, Store!Consistent
<1> QED
  BY <1>1, <1>2, <1>3, PTL DEF Store!Spec

-----------------------------------------------------------------------------
\* What a request has put together, by its type.
Stages == {"find", "covered", "asOf", "done", "find1", "bic1"}
Tables == UNION {[K -> Record] : K \in SUBSET Keys}
DateLists == UNION {[C -> Nat] : C \in SUBSET Nat}
Call == [stage : Stages, api : {"v1", "v2"}, iban : Ibans, bankCode : Outcomes, shown : Tables,
         account : Outcomes, valid : BOOLEAN, asOf : DateLists, wants : SUBSET Extras,
         down : BOOLEAN]

\* Which of the reads a request is at, and for what.
Placed(c) ==
  /\ c.stage \in {"find", "covered", "asOf"} => c.api = "v2"
  /\ c.stage \in {"find", "covered"} => c.iban.key # NoKey /\ c.bankCode = "unchecked"
  /\ c.stage \in {"find1", "bic1"} => c.api = "v1"

\* What it has put together was so at one of the moments it lived through, or the
\* store was down.
Stated(c, lived) ==
  /\ c.shown = Empty \/ \E m \in lived : Restrict(m[1], {c.iban.key} \cap DOMAIN m[1]) = c.shown
  /\ c.asOf = Empty \/ \E m \in lived : c.asOf \in Dates(m[2])
  /\ c.bankCode = "passed" => \E m \in lived : c.iban.key \in DOMAIN m[1]
  /\ c.bankCode = "failed" /\ ~ c.down /\ (c.api = "v1" => PlacedV1(c.iban))
       => \E m \in lived : c.iban.key \notin DOMAIN m[1]
  /\ c.stage = "covered" => \E m \in lived : c.iban.key \notin DOMAIN m[1]
  /\ /\ c.stage \in {"asOf", "done"} /\ c.iban.parses /\ c.api = "v2"
     /\ c.bankCode = "unchecked" /\ c.iban.key # NoKey /\ ~ c.down
     => \E m \in lived : ~ Covers(m[2], c.iban.key[1])

\* An IBAN that is right by itself is invalid only for a bank that was missing from
\* a country that was covered.
Missing(c, lived) ==
  c.api = "v2" /\ c.iban.parses /\ c.iban.checksum /\ c.iban.account /\ ~ c.valid =>
    /\ c.iban.key # NoKey
    /\ \E m \in lived : c.iban.key \notin DOMAIN m[1]
    /\ \E m \in lived : Covers(m[2], c.iban.key[1])

Sound(c, lived) ==
  /\ c \in Call /\ DOMAIN c.shown \subseteq {c.iban.key}
  /\ Placed(c) /\ Stated(c, lived) /\ Missing(c, lived)

Busy(r) == call[r] # Free

Inv ==
  /\ IsTable(bank) /\ IsCatalogue(sources)
  /\ loads \in 0 .. MaxLoads
  /\ DOMAIN call = Requests /\ DOMAIN moments = Requests
  /\ \A r \in Requests : Busy(r) =>
       <<bank, sources>> \in moments[r] /\ Sound(call[r], moments[r])

\* The more moments, the more there was.
LEMMA SoundGrows ==
  ASSUME NEW c, NEW lived, NEW longer, lived \subseteq longer, Sound(c, lived)
  PROVE  Sound(c, longer)
<1>1. Stated(c, longer)
  BY DEF Sound, Stated
<1>2. Missing(c, longer)
  BY DEF Sound, Missing
<1> QED
  BY <1>1, <1>2 DEF Sound

LEMMA EmptyTyped == Empty \in Tables /\ Empty \in DateLists
<1>1. DOMAIN Empty = {} /\ Empty \in [{} -> Record] /\ Empty \in [{} -> Nat]
  BY DEF Empty
<1> QED
  BY <1>1 DEF Tables, DateLists

\* What is shown of a table is a table, of one key.
LEMMA ShownTable ==
  ASSUME NEW t, IsTable(t), NEW k
  PROVE  /\ Restrict(t, {k} \cap DOMAIN t) \in Tables
         /\ DOMAIN Restrict(t, {k} \cap DOMAIN t) \subseteq {k}
<1>1. IsTable(Restrict(t, {k} \cap DOMAIN t))
  BY RestrictTable
<1>2. Restrict(t, {k} \cap DOMAIN t) \in Tables
  BY <1>1 DEF IsTable, Tables
<1> QED
  BY <1>2 DEF Restrict

LEMMA TablesAreTables == ASSUME NEW t \in Tables PROVE IsTable(t)
BY DEF Tables, IsTable

\* The dates of a catalogue are dates.
LEMMA DatesTyped ==
  ASSUME NEW s, IsCatalogue(s), NEW d \in Dates(s)
  PROVE  d \in DateLists
<1>1. \A n \in DOMAIN s : s[n].country \in Nat /\ s[n].edition \in Nat
  BY DEF IsCatalogue, SourceInfo
<1>2. d \in [{s[n].country : n \in DOMAIN s} -> {s[n].edition : n \in DOMAIN s}]
  BY DEF Dates
<1>3. {s[n].country : n \in DOMAIN s} \in SUBSET Nat
  BY <1>1
<1>4. d \in [{s[n].country : n \in DOMAIN s} -> Nat]
  BY <1>1, <1>2
<1> QED
  BY <1>3, <1>4 DEF DateLists

LEMMA InitInv == Init => Inv
<1> SUFFICES ASSUME Init PROVE Inv
  OBVIOUS
<1>1. IsTable(bank) /\ IsCatalogue(sources)
  BY EmptyTable DEF Init
<1> QED
  BY <1>1, BoundAssumption DEF Init, Inv, Busy

\* A request that goes on from one state of its answer to another.
LEMMA RequestInv ==
  ASSUME Inv, NEW r \in Requests, NEW x, call' = [call EXCEPT ![r] = x],
         UNCHANGED <<bank, sources, loads>>, \A s \in Requests \ {r} : moments'[s] = moments[s],
         DOMAIN moments' = Requests,
         x # Free => <<bank, sources>> \in moments'[r] /\ Sound(x, moments'[r])
  PROVE  Inv'
<1>1. DOMAIN call' = Requests /\ call'[r] = x /\ \A s \in Requests \ {r} : call'[s] = call[s]
  BY DEF Inv
<1>2. ASSUME NEW s \in Requests, Busy(s)'
      PROVE  <<bank, sources>>' \in moments'[s] /\ Sound(call'[s], moments'[s])
  <2>1. CASE s = r
    BY <1>1, <1>2, <2>1 DEF Busy
  <2>2. CASE s # r
    <3>1. call'[s] = call[s] /\ moments'[s] = moments[s] /\ Busy(s)
      BY <1>1, <1>2, <2>2 DEF Busy
    <3> QED
      BY <3>1 DEF Inv
  <2> QED
    BY <2>1, <2>2
<1> QED
  BY <1>1, <1>2 DEF Inv

\* A load adds a moment to every request.
LEMMA LoadInv == ASSUME Inv, NEW batch \in Batches, Load(batch) PROVE Inv'
<1>1. /\ bank' = Overlay(Clear(bank, batch.name), batch, 1)
      /\ sources' = Assign(sources, batch.name, InfoOf(batch, Cardinality(Owned(bank', batch.name))))
      /\ call' = call /\ loads < MaxLoads /\ loads' = loads + 1
      /\ moments' = [r \in Requests |->
                       IF call[r] = Free THEN {} ELSE moments[r] \cup {<<bank', sources'>>}]
  BY ReplaceFacts DEF Load
<1>2. IsTable(bank')
  BY <1>1, SwapFacts DEF Inv
<1>3. IsCatalogue(sources')
  <2>1. InfoOf(batch, Cardinality(Owned(bank', batch.name))) \in SourceInfo /\ batch.name \in Names
    BY <1>2, TableFacts, BatchesAssumption DEF InfoOf, SourceInfo
  <2> QED
    BY <1>1, <2>1, AssignCatalogue DEF Inv
<1>4. loads' \in 0 .. MaxLoads
  BY <1>1, BoundAssumption DEF Inv
<1>5. ASSUME NEW r \in Requests, Busy(r)'
      PROVE  <<bank', sources'>> \in moments'[r] /\ Sound(call'[r], moments'[r])
  <2>1. Busy(r) /\ moments'[r] = moments[r] \cup {<<bank', sources'>>}
    BY <1>1, <1>5 DEF Busy
  <2>2. Sound(call[r], moments'[r])
    BY <2>1, SoundGrows DEF Inv
  <2> QED
    BY <1>1, <2>1, <2>2
<1> QED
  BY <1>1, <1>2, <1>3, <1>4, <1>5 DEF Inv

\* A request that reads the store, and goes on with what its reading makes of it.
LEMMA ReadingInv ==
  ASSUME Inv, NEW r \in Requests, Busy(r), NEW x, call' = [call EXCEPT ![r] = x],
         Reading, Sound(x, moments[r])
  PROVE  Inv'
<1>1. UNCHANGED <<bank, sources, loads, moments>>
  BY DEF Reading
<1>2. DOMAIN moments' = Requests /\ \A s \in Requests : moments'[s] = moments[s]
  BY <1>1 DEF Inv
<1>3. <<bank, sources>> \in moments'[r] /\ Sound(x, moments'[r])
  BY <1>2 DEF Inv
<1> QED
  BY <1>1, <1>2, <1>3, RequestInv

\* What a request that is at a stage has, and the moment it reads at.
LEMMA AtStageFacts ==
  ASSUME Inv, NEW r \in Requests, NEW stage \in Stages, AtStage(r, stage)
  PROVE  /\ Busy(r) /\ call[r] \in Call /\ call[r].stage = stage
         /\ Sound(call[r], moments[r])
         /\ <<bank, sources>> \in moments[r]
         /\ IsTable(bank) /\ IsCatalogue(sources)
<1>1. call[r] # Free
  BY DEF AtStage, Free, Stages
<1> QED
  BY <1>1 DEF Inv, Busy, AtStage, Sound

\* A request comes.
LEMMA BeginInv ==
  ASSUME Inv, NEW r \in Requests, NEW api \in {"v1", "v2"}, NEW i \in Ibans,
         NEW stage \in Stages, NEW code \in Outcomes, NEW ok \in BOOLEAN,
         NEW wants \in SUBSET Extras, Begin(r, api, i, stage, code, ok, wants),
         api = "v2" => code = "unchecked" /\ ok = (i.parses /\ i.checksum),
         api = "v1" => stage \in {"find1", "bic1", "done"},
         api = "v2" => stage = IF ~ i.parses THEN "done" ELSE IF i.key = NoKey THEN "asOf" ELSE "find",
         code # "passed", code = "failed" => ~ PlacedV1(i)
  PROVE  Inv'
<1> DEFINE x == [stage |-> stage, api |-> api, iban |-> i, bankCode |-> code,
                 shown |-> Empty, account |-> "unchecked", valid |-> ok, asOf |-> Empty,
                 wants |-> wants, down |-> FALSE]
           lived == {<<bank, sources>>}
<1>1. /\ call' = [call EXCEPT ![r] = x] /\ moments' = [moments EXCEPT ![r] = lived]
      /\ UNCHANGED <<bank, sources, loads>>
  BY DEF Begin, Update
<1>2. moments'[r] = lived /\ DOMAIN moments' = Requests
      /\ \A s \in Requests \ {r} : moments'[s] = moments[s]
  BY <1>1 DEF Inv
<1>3. x \in Call
  BY EmptyTyped DEF Call, Outcomes
<1>4. /\ x.stage = stage /\ x.api = api /\ x.iban = i /\ x.bankCode = code /\ x.shown = Empty
      /\ x.valid = ok /\ x.asOf = Empty /\ x.down = FALSE
  OBVIOUS
<1> HIDE DEF x, lived
<1>5. Placed(x)
  BY <1>4 DEF Placed
<1>6. Stated(x, lived)
  BY <1>4 DEF Stated
<1>7. Missing(x, lived)
  BY <1>4 DEF Missing
<1>8. Sound(x, lived)
  BY <1>3, <1>4, <1>5, <1>6, <1>7, EmptyTable DEF Sound
<1>9. <<bank, sources>> \in lived
  BY DEF lived
<1> QED
  BY <1>1, <1>2, <1>8, <1>9, RequestInv

LEMMA ReceiveInv ==
  ASSUME Inv, NEW r \in Requests, NEW i \in Ibans,
         ReceiveV2(r, i) \/ \E wants \in SUBSET Extras : ReceiveV1(r, i, wants)
  PROVE  Inv'
<1>1. i.parses \in BOOLEAN /\ i.checksum \in BOOLEAN
  BY IbansAssumption DEF Iban
<1>2. CASE ReceiveV2(r, i)
  <2>1. (IF ~ i.parses THEN "done" ELSE IF i.key = NoKey THEN "asOf" ELSE "find") \in Stages
        /\ "unchecked" \in Outcomes /\ (i.parses /\ i.checksum) \in BOOLEAN
        /\ {} \in SUBSET Extras
    BY <1>1 DEF Stages, Outcomes
  <2> QED
    BY <1>2, <2>1, BeginInv DEF ReceiveV2
<1>3. CASE \E wants \in SUBSET Extras : ReceiveV1(r, i, wants)
  <2>1. PICK wants \in SUBSET Extras : ReceiveV1(r, i, wants)
    BY <1>3
  <2> DEFINE code == IF i.parses /\ ~ PlacedV1(i) /\ "bankCode" \in wants THEN "failed" ELSE "unchecked"
  <2>2. AfterV1(i, wants) \in {"find1", "bic1", "done"}
    BY DEF AfterV1
  <2>3. code \in Outcomes /\ code # "passed" /\ (code = "failed" => ~ PlacedV1(i))
        /\ (i.parses /\ i.checksum) \in BOOLEAN
    BY <1>1 DEF Outcomes
  <2>4. Begin(r, "v1", i, AfterV1(i, wants), code, i.parses /\ i.checksum, wants)
    BY <2>1 DEF ReceiveV1
  <2> HIDE DEF code
  <2> QED
    BY <2>2, <2>3, <2>4, BeginInv DEF Stages
<1> QED
  BY <1>2, <1>3

\* A v2 lookup that finds the bank.
LEMMA FindInv == ASSUME Inv, NEW r \in Requests, FindOK(r) PROVE Inv'
<1> DEFINE c == call[r]
           k == c.iban.key
           verdict == AccountCheck(c, bank[k])
           shown == Restrict(bank, {k})
           x == [c EXCEPT !.stage = "asOf", !.bankCode = "passed", !.shown = shown,
                          !.account = verdict, !.valid = c.valid /\ verdict # "failed"]
<1>1. AtStage(r, "find") /\ k \in DOMAIN bank /\ Update(r, x) /\ Reading
  BY DEF FindOK
<1>2. /\ Busy(r) /\ c \in Call /\ c.stage = "find" /\ Sound(c, moments[r])
      /\ <<bank, sources>> \in moments[r] /\ IsTable(bank)
  BY <1>1, AtStageFacts DEF Stages
<1>3. verdict \in Outcomes /\ (verdict = "failed" => ~ c.iban.account)
  BY DEF AccountCheck, Outcomes
<1>4. shown \in Tables /\ DOMAIN shown \subseteq {k}
      /\ shown = Restrict(bank, {k} \cap DOMAIN bank)
  <2>1. {k} \cap DOMAIN bank = {k}
    BY <1>1
  <2> QED
    BY <1>2, <2>1, ShownTable
<1>5. c.iban \in Ibans /\ c.iban.account \in BOOLEAN
  BY <1>2, IbansAssumption DEF Call, Iban
<1>6. call' = [call EXCEPT ![r] = x]
  BY <1>1 DEF Update
<1> HIDE DEF verdict, shown
<1>7. /\ x \in Call
      /\ x.stage = "asOf" /\ x.bankCode = "passed" /\ x.shown = shown
      /\ x.valid = (c.valid /\ verdict # "failed")
      /\ x.api = c.api /\ x.iban = c.iban /\ x.asOf = c.asOf /\ x.down = c.down
  BY <1>2, <1>3, <1>4 DEF Call, Stages, Outcomes
<1> HIDE DEF x
<1>8. Placed(x) /\ DOMAIN x.shown \subseteq {x.iban.key}
  BY <1>2, <1>4, <1>7 DEF Sound, Placed
<1>9. Stated(x, moments[r])
  <2>1. \E m \in moments[r] : Restrict(m[1], {k} \cap DOMAIN m[1]) = shown /\ k \in DOMAIN m[1]
    BY <1>1, <1>2, <1>4
  <2> QED
    BY <1>2, <1>7, <2>1 DEF Sound, Stated
<1>10. Missing(x, moments[r])
  BY <1>2, <1>3, <1>5, <1>7 DEF Sound, Missing
<1>11. Sound(x, moments[r])
  BY <1>7, <1>8, <1>9, <1>10 DEF Sound
<1> QED
  BY <1>1, <1>2, <1>6, <1>11, ReadingInv

\* A step of a v2 request that changes neither what is shown nor the dates: the
\* bank is not found, is unknown, or its country is not covered, or a read fails.
LEMMA LookupInv ==
  ASSUME Inv, NEW r \in Requests,
         NotFound(r) \/ FindFails(r) \/ Unknown(r) \/ Uncovered(r) \/ CoveredFails(r)
  PROVE  Inv'
<1>1. PICK stage \in {"find", "covered"} : AtStage(r, stage)
  BY DEF NotFound, FindFails, Unknown, Uncovered, CoveredFails
<1> DEFINE c == call[r]
<1>2. /\ Busy(r) /\ c \in Call /\ c.stage = stage /\ Sound(c, moments[r])
      /\ <<bank, sources>> \in moments[r]
  BY <1>1, AtStageFacts DEF Stages
<1>3. c.api = "v2" /\ c.iban.key # NoKey /\ c.bankCode = "unchecked" /\ c.stage # "done"
  BY <1>1, <1>2 DEF Sound, Placed
<1>4. PICK x :
        /\ call' = [call EXCEPT ![r] = x] /\ Reading
        /\ \/ x = [c EXCEPT !.stage = "covered"] /\ c.iban.key \notin DOMAIN bank
           \/ x = [c EXCEPT !.stage = "asOf", !.down = TRUE]
           \/ /\ x = [c EXCEPT !.stage = "asOf", !.bankCode = "failed", !.valid = FALSE]
              /\ c.stage = "covered" /\ Covers(sources, c.iban.key[1])
           \/ x = [c EXCEPT !.stage = "asOf"] /\ ~ Covers(sources, c.iban.key[1])
  BY <1>2 DEF NotFound, FindFails, Unknown, Uncovered, CoveredFails, Update, AtStage
<1>5. x \in Call /\ x.shown = c.shown /\ x.asOf = c.asOf /\ x.api = c.api /\ x.iban = c.iban
  BY <1>2, <1>4 DEF Call, Stages, Outcomes
<1>6. \/ /\ x.stage = "covered" /\ x.bankCode = "unchecked" /\ x.valid = c.valid /\ x.down = c.down
         /\ c.iban.key \notin DOMAIN bank
      \/ x.stage = "asOf" /\ x.bankCode = "unchecked" /\ x.valid = c.valid /\ x.down
      \/ /\ x.stage = "asOf" /\ x.bankCode = "failed" /\ x.valid = FALSE
         /\ c.stage = "covered" /\ Covers(sources, c.iban.key[1])
      \/ /\ x.stage = "asOf" /\ x.bankCode = "unchecked" /\ x.valid = c.valid /\ x.down = c.down
         /\ ~ Covers(sources, c.iban.key[1])
  BY <1>2, <1>3, <1>4 DEF Call
<1>7. Placed(x) /\ DOMAIN x.shown \subseteq {x.iban.key}
  BY <1>2, <1>3, <1>5, <1>6 DEF Sound, Placed
<1>8. Stated(x, moments[r])
  <2>1. c.stage = "covered" => \E m \in moments[r] : c.iban.key \notin DOMAIN m[1]
    BY <1>2 DEF Sound, Stated
  <2>2. Covers(sources, c.iban.key[1]) \/ \E m \in moments[r] : ~ Covers(m[2], c.iban.key[1])
    BY <1>2
  <2>3. c.iban.key \in DOMAIN bank \/ \E m \in moments[r] : c.iban.key \notin DOMAIN m[1]
    BY <1>2
  <2> QED
    BY <1>2, <1>3, <1>5, <1>6, <2>1, <2>2, <2>3 DEF Sound, Stated
<1>9. Missing(x, moments[r])
  <2>1. c.stage = "covered" => \E m \in moments[r] : c.iban.key \notin DOMAIN m[1]
    BY <1>2 DEF Sound, Stated
  <2>2. Covers(sources, c.iban.key[1]) => \E m \in moments[r] : Covers(m[2], c.iban.key[1])
    BY <1>2
  <2> QED
    BY <1>2, <1>3, <1>5, <1>6, <2>1, <2>2 DEF Sound, Missing
<1>10. Sound(x, moments[r])
  BY <1>5, <1>7, <1>8, <1>9 DEF Sound
<1> QED
  BY <1>2, <1>4, <1>10, ReadingInv

\* The dates are those of the catalogue as it is.
LEMMA AsOfInv == ASSUME Inv, NEW r \in Requests, AsOf(r) \/ AsOfFails(r) PROVE Inv'
<1> DEFINE c == call[r]
<1>1. AtStage(r, "asOf")
  BY DEF AsOf, AsOfFails
<1>2. /\ Busy(r) /\ c \in Call /\ c.stage = "asOf" /\ Sound(c, moments[r])
      /\ <<bank, sources>> \in moments[r] /\ IsCatalogue(sources)
  BY <1>1, AtStageFacts DEF Stages
<1>3. PICK x :
        /\ call' = [call EXCEPT ![r] = x] /\ Reading
        /\ \/ \E d \in Dates(sources) : x = [c EXCEPT !.stage = "done", !.asOf = d]
           \/ x = [c EXCEPT !.stage = "done", !.down = TRUE]
  BY DEF AsOf, AsOfFails, Update
<1>4. /\ x \in Call /\ x.stage = "done" /\ x.shown = c.shown /\ x.api = c.api /\ x.iban = c.iban
      /\ x.bankCode = c.bankCode /\ x.valid = c.valid
      /\ (x.asOf \in Dates(sources) /\ x.down = c.down) \/ (x.asOf = c.asOf /\ x.down)
  <2>1. CASE x = [c EXCEPT !.stage = "done", !.down = TRUE]
    BY <1>2, <2>1 DEF Call, Stages
  <2>2. CASE \E d \in Dates(sources) : x = [c EXCEPT !.stage = "done", !.asOf = d]
    <3>1. PICK d \in Dates(sources) : x = [c EXCEPT !.stage = "done", !.asOf = d]
      BY <2>2
    <3>2. d \in DateLists
      BY <1>2, DatesTyped
    <3> QED
      BY <1>2, <3>1, <3>2 DEF Call, Stages
  <2> QED
    BY <1>3, <2>1, <2>2
<1>5. Placed(x) /\ DOMAIN x.shown \subseteq {x.iban.key}
  BY <1>2, <1>4 DEF Sound, Placed
<1>6. Stated(x, moments[r])
  <2>1. x.asOf \in Dates(sources) => \E m \in moments[r] : x.asOf \in Dates(m[2])
    BY <1>2
  <2> QED
    BY <1>2, <1>4, <2>1 DEF Sound, Stated
<1>7. Missing(x, moments[r])
  BY <1>2, <1>4 DEF Sound, Missing
<1>8. Sound(x, moments[r])
  BY <1>4, <1>5, <1>6, <1>7 DEF Sound
<1> QED
  BY <1>2, <1>3, <1>8, ReadingInv

\* The two lookups of v1.
LEMMA V1Inv == ASSUME Inv, NEW r \in Requests, CodeV1(r) \/ BicV1(r) PROVE Inv'
<1> DEFINE c == call[r]
           k == c.iban.key
           Goes(x, next) ==
             /\ call' = [call EXCEPT ![r] = x] /\ Reading
             /\ \/ x = [c EXCEPT !.stage = next, !.bankCode = "passed"] /\ k \in DOMAIN bank
                \/ /\ x = [c EXCEPT !.stage = next, !.bankCode = "failed", !.valid = FALSE]
                   /\ k \notin DOMAIN bank
                \/ x = [c EXCEPT !.stage = next, !.bankCode = "failed", !.valid = FALSE, !.down = TRUE]
                \/ x = [c EXCEPT !.stage = next, !.shown = Restrict(bank, {k} \cap DOMAIN bank)]
                \/ x = [c EXCEPT !.stage = next, !.down = TRUE]
<1>1. PICK stage \in {"find1", "bic1"} : AtStage(r, stage)
  BY DEF CodeV1, BicV1
<1>2. /\ Busy(r) /\ c \in Call /\ Sound(c, moments[r]) /\ c.api = "v1"
      /\ <<bank, sources>> \in moments[r] /\ IsTable(bank)
  BY <1>1, AtStageFacts DEF Stages, Sound, Placed
<1>3. PICK next \in {"bic1", "done"} : \E x : Goes(x, next)
  <2>1. CASE CodeV1(r)
    <3> DEFINE next == IF "bic" \in c.wants THEN "bic1" ELSE "done"
    <3>1. PICK x :
            /\ Update(r, x) /\ Reading
            /\ \/ x = [c EXCEPT !.stage = next, !.bankCode = "passed"] /\ k \in DOMAIN bank
               \/ /\ x = [c EXCEPT !.stage = next, !.bankCode = "failed", !.valid = FALSE]
                  /\ k \notin DOMAIN bank
               \/ x = [c EXCEPT !.stage = next, !.bankCode = "failed", !.valid = FALSE, !.down = TRUE]
      BY <2>1 DEF CodeV1
    <3>2. next \in {"bic1", "done"} /\ call' = [call EXCEPT ![r] = x]
      BY <3>1 DEF Update
    <3> HIDE DEF next
    <3> QED
      BY <3>1, <3>2
  <2>2. CASE BicV1(r)
    <3>1. PICK x :
            /\ Update(r, x) /\ Reading
            /\ \/ x = [c EXCEPT !.stage = "done", !.shown = Restrict(bank, {k} \cap DOMAIN bank)]
               \/ x = [c EXCEPT !.stage = "done", !.down = TRUE]
      BY <2>2 DEF BicV1
    <3> QED
      BY <3>1 DEF Update
  <2> QED
    BY <2>1, <2>2
<1>4. PICK x : Goes(x, next)
  BY <1>3
<1> HIDE DEF Goes
<1> DEFINE shown == Restrict(bank, {k} \cap DOMAIN bank)
<1>5. shown \in Tables /\ DOMAIN shown \subseteq {k}
  BY <1>2, ShownTable
<1> HIDE DEF shown
<1>6. /\ x \in Call /\ x.stage \in {"bic1", "done"} /\ x.api = "v1" /\ x.iban = c.iban /\ x.asOf = c.asOf
      /\ x.shown = c.shown \/ x.shown = shown
      /\ \/ x.bankCode = c.bankCode /\ (x.down = c.down \/ x.down)
         \/ x.bankCode = "passed" /\ k \in DOMAIN bank
         \/ x.bankCode = "failed" /\ (k \notin DOMAIN bank \/ x.down)
  BY <1>2, <1>4, <1>5 DEF Call, Stages, Outcomes, shown, Goes
<1>7. Placed(x) /\ DOMAIN x.shown \subseteq {x.iban.key}
  BY <1>2, <1>5, <1>6 DEF Sound, Placed
<1>8. Stated(x, moments[r])
  <2>1. \E m \in moments[r] : Restrict(m[1], {k} \cap DOMAIN m[1]) = shown
    BY <1>2 DEF shown
  <2>2. k \in DOMAIN bank => \E m \in moments[r] : k \in DOMAIN m[1]
    BY <1>2
  <2>3. k \notin DOMAIN bank => \E m \in moments[r] : k \notin DOMAIN m[1]
    BY <1>2
  <2> QED
    BY <1>2, <1>6, <2>1, <2>2, <2>3 DEF Sound, Stated
<1>9. Missing(x, moments[r])
  BY <1>6 DEF Missing
<1>10. Sound(x, moments[r])
  BY <1>6, <1>7, <1>8, <1>9 DEF Sound
<1> QED
  BY <1>2, <1>4, <1>10, ReadingInv DEF Goes

LEMMA RespondInv == ASSUME Inv, NEW r \in Requests, Respond(r) PROVE Inv'
<1>1. /\ call' = [call EXCEPT ![r] = Free] /\ moments' = [moments EXCEPT ![r] = {}]
      /\ UNCHANGED <<bank, sources, loads>>
  BY DEF Respond, Update
<1>2. DOMAIN moments' = Requests /\ \A s \in Requests \ {r} : moments'[s] = moments[s]
  BY <1>1 DEF Inv
<1> QED
  BY <1>1, <1>2, RequestInv

LEMMA StepInv == Inv /\ [Next]_vars => Inv'
<1> SUFFICES ASSUME Inv, [Next]_vars PROVE Inv'
  OBVIOUS
<1>1. CASE UNCHANGED vars
  BY <1>1 DEF Inv, Busy, vars
<1>2. ASSUME NEW r \in Requests, Serve(r) PROVE Inv'
  BY <1>2, ReceiveInv, FindInv, LookupInv, AsOfInv, V1Inv, RespondInv DEF Serve
<1> QED
  BY <1>1, <1>2, LoadInv DEF Next

\* The requests and what they have put together keep their types.
THEOREM ValidationTypeOK == Spec => []TypeOK
<1>1. ASSUME Inv PROVE TypeOK
  <2>1. ASSUME NEW r \in Requests, call[r] # Free
        PROVE  /\ call[r].iban \in Ibans /\ call[r].stage \in Stages
               /\ {call[r].bankCode, call[r].account} \subseteq Outcomes
               /\ IsTable(call[r].shown)
               /\ DOMAIN call[r].shown \subseteq {call[r].iban.key}
               /\ moments[r] # {}
    <3>1. call[r] \in Call /\ <<bank, sources>> \in moments[r]
          /\ DOMAIN call[r].shown \subseteq {call[r].iban.key}
      BY <1>1, <2>1 DEF Inv, Busy, Sound
    <3> QED
      BY <3>1, TablesAreTables DEF Call
  <2> QED
    BY <1>1, <2>1 DEF Inv, TypeOK, Stages
<1> QED
  BY <1>1, InitInv, StepInv, PTL DEF Spec

\* Every statement of an answer was true at some moment since the request came,
\* however many loads and failures there were while it was put together.
THEOREM ValidationStatementsHeld == Spec => []StatementsHeld
<1>1. ASSUME Inv PROVE StatementsHeld
  <2> SUFFICES ASSUME NEW r \in Requests, Answered(r)
               PROVE
                 LET c == call[r]  k == c.iban.key IN
                 /\ Lived(r, LAMBDA t, s : c.shown = Empty \/ Restrict(t, {k} \cap DOMAIN t) = c.shown)
                 /\ Lived(r, LAMBDA t, s : c.asOf = Empty \/ c.asOf \in Dates(s))
                 /\ c.bankCode = "passed" => Lived(r, LAMBDA t, s : k \in DOMAIN t)
                 /\ c.bankCode = "failed" /\ ~ c.down /\ (c.api = "v1" => PlacedV1(c.iban))
                      => Lived(r, LAMBDA t, s : k \notin DOMAIN t)
                 /\ c.api = "v2" /\ c.bankCode = "unchecked" /\ k # NoKey /\ ~ c.down
                      => Lived(r, LAMBDA t, s : ~ Covers(s, k[1]))
    BY DEF StatementsHeld
  <2>1. AtStage(r, "done") /\ call[r].iban.parses
    BY DEF Answered
  <2>2. Sound(call[r], moments[r]) /\ <<bank, sources>> \in moments[r] /\ call[r].stage = "done"
    BY <1>1, <2>1, AtStageFacts DEF Stages
  <2> QED
    BY <2>1, <2>2 DEF Lived, Sound, Stated
<1> QED
  BY <1>1, InitInv, StepInv, PTL DEF Spec

\* A v2 answer never calls an IBAN invalid for what the service lacks.
THEOREM ValidationMissingNeverFails == Spec => []MissingNeverFails
<1>1. ASSUME Inv PROVE MissingNeverFails
  <2>1. ASSUME NEW r \in Requests, Answered(r), call[r].api = "v2"
        PROVE  /\ Sound(call[r], moments[r]) /\ call[r].iban.parses /\ call[r].valid \in BOOLEAN
    BY <1>1, <2>1, AtStageFacts DEF Stages, Answered, Call
  <2> QED
    BY <2>1 DEF MissingNeverFails, Sound, Missing
<1> QED
  BY <1>1, InitInv, StepInv, PTL DEF Spec

-----------------------------------------------------------------------------
\* The rate limiter.  Its inductive invariant, one part per concern.
Message1 == [client : Clients, address : Clients \cup {Proxy}, at : 0 .. now]

\* A request is counted for the client that sent it, not long after it came; so
\* only clients have windows.
ClientInv ==
  /\ \A s \in Slots : Waiting(s) =>
       /\ request[s] \in Message1
       /\ request[s].address = request[s].client
       /\ now <= request[s].at + MaxLate
  /\ DOMAIN windows \subseteq Clients
  /\ \A a \in DOMAIN windows : windows[a] \in Window

\* The last sweep has left no window that had expired by then, and none began
\* much earlier since.
SweepInv == \A a \in DOMAIN windows : last <= windows[a].start + Minute

\* What a client has passed falls into three parts: what its window counts, what
\* the window before counted, and what is older than the span the bound is about.
\* The two windows meet at floor; every request that waits or will come arrived
\* at floor or later.
Span == Minute + 1 - 2 * MaxLate
Split(c, current, previous, floor) ==
  /\ IF c \in DOMAIN windows
       THEN /\ Cardinality(current) = windows[c].count
            /\ floor <= windows[c].start
            /\ \A p \in current :
                 windows[c].start - MaxLate <= p[1] /\ p[1] <= windows[c].start + Minute
       ELSE current = {}
  /\ Cardinality(previous) <= PerMin
  /\ \A p \in previous : p[1] <= floor - 1 + MaxLate
  /\ \A p \in passed[c] \ (current \cup previous) : p[1] <= floor - 1 - Span
  /\ floor + MaxLate <= now
SplitInv ==
  \A c \in Clients : \E current, previous \in SUBSET passed[c], floor \in Int :
    Split(c, current, previous, floor)

\* Two windows are the most a span can meet.
BurstInv == \A c \in Clients, t \in Nat : Passed(c, t .. (t + Span)) <= 2 * PerMin

LimiterInv == LimiterTypeOK /\ ClientInv /\ SweepInv /\ SplitInv /\ BurstInv

-----------------------------------------------------------------------------
\* There is a number left that tells a request from those of its time that have passed.
LEMMA NumberFresh ==
  ASSUME LimiterTypeOK, NEW c \in Clients, NEW at
  PROVE  Number(c, at) \in Nat /\ <<at, Number(c, at)>> \notin passed[c]
<1> DEFINE S == passed[c]
           n == Cardinality(passed[c])
           I == 1 .. n + 1
           f == [i \in I |-> <<at, i>>]
<1>1. IsFiniteSet(S) /\ n \in Nat
  BY FS_CardinalityType DEF LimiterTypeOK
<1>2. Cardinality(I) = n + 1
  <2> DEFINE m == n + 1
  <2>1. m \in Int /\ m >= 1
    BY <1>1
  <2> HIDE DEF m
  <2>2. Cardinality(1 .. m) = IF 1 > m THEN 0 ELSE m - 1 + 1
    BY <2>1, FS_Interval
  <2>3. Cardinality(1 .. m) = m
    BY <2>1, <2>2
  <2> QED
    BY <2>3 DEF m
<1>3. \E i \in I : <<at, i>> \notin S
  <2>1. SUFFICES ASSUME \A i \in I : <<at, i>> \in S PROVE FALSE
    OBVIOUS
  <2>2. f \in Injection(I, S)
    BY <2>1 DEF Injection, IsInjective
  <2>3. Cardinality(I) <= Cardinality(S)
    BY <1>1, <2>2, FS_Injection
  <2> QED
    BY <1>1, <1>2, <2>3
<1>4. Number(c, at) \in I /\ <<at, Number(c, at)>> \notin S
  BY <1>3 DEF Number
<1> QED
  BY <1>1, <1>4

\* A sweep drops windows that have expired, and changes none; if it is due, none
\* that has expired is left.
LEMMA SweptFacts ==
  ASSUME NEW at
  PROVE  /\ DOMAIN Swept(at) \subseteq DOMAIN windows
         /\ \A a \in DOMAIN Swept(at) : Swept(at)[a] = windows[a]
         /\ \A a \in DOMAIN windows \ DOMAIN Swept(at) : ~ (at <= windows[a].start + Minute)
         /\ at > last + Minute => \A a \in DOMAIN Swept(at) : at <= windows[a].start + Minute
BY DEF Swept, Restrict

\* A request that waits is a client's own, and came at most MaxLate ticks ago.
LEMMA WaitingFacts ==
  ASSUME LimiterInv, NEW s \in Slots, Waiting(s)
  PROVE  /\ request[s].client \in Clients /\ request[s].address = request[s].client
         /\ request[s].at \in Nat /\ request[s].at <= now /\ now <= request[s].at + MaxLate
         /\ now \in Nat /\ last \in Nat /\ last <= now
BY TimeAssumption DEF LimiterInv, LimiterTypeOK, ClientInv, Message1

\* What the limiter's decision does to the windows: it may open or count on the
\* window of the client who asks, and drops others only when they have expired.
Decision(s) == OpenWindow(s) \/ CountOn(s) \/ Refuse(s)

LEMMA DecisionFacts ==
  ASSUME LimiterInv, NEW s \in Slots, Decision(s)
  PROVE  LET c == request[s].client  at == request[s].at IN
         /\ Waiting(s) /\ UNCHANGED <<behindProxy, now>>
         /\ request' = [request EXCEPT ![s] = Idle]
         /\ last' = IF at > last + Minute THEN at ELSE last
         /\ \A d \in Clients \ {c} :
              /\ passed'[d] = passed[d]
              /\ \/ d \notin DOMAIN windows /\ d \notin DOMAIN windows'
                 \/ d \in DOMAIN windows /\ d \in DOMAIN windows' /\ windows'[d] = windows[d]
                 \/ /\ d \in DOMAIN windows /\ d \notin DOMAIN windows'
                    /\ at > windows[d].start + Minute
         /\ DOMAIN windows' \subseteq DOMAIN windows \cup {c}
         /\ at > last + Minute =>
              \A a \in DOMAIN windows' : at <= windows'[a].start + Minute
         /\ \A a \in DOMAIN windows' : windows'[a] \in Window /\ windows'[a].count \in 1 .. PerMin
<1> DEFINE c == request[s].client
           at == request[s].at
<1>1. Waiting(s)
  BY DEF Decision, OpenWindow, CountOn, Refuse
<1>2. /\ c \in Clients /\ request[s].address = c
      /\ at \in Nat /\ at <= now /\ last \in Nat /\ Minute \in Nat
  BY <1>1, WaitingFacts, TimeAssumption
<1>3. \A a \in DOMAIN windows : windows[a] \in Window /\ windows[a].start \in Nat /\ windows[a].count \in 1 .. PerMin
  BY DEF LimiterInv, LimiterTypeOK, ClientInv, Window
<1>4. /\ UNCHANGED <<behindProxy, now>> /\ request' = [request EXCEPT ![s] = Idle]
      /\ last' = IF at > last + Minute THEN at ELSE last
  BY DEF Decision, OpenWindow, CountOn, Refuse, Pass, SweptAt
<1>5. \A d \in Clients \ {c} : passed'[d] = passed[d]
  BY DEF Decision, OpenWindow, CountOn, Refuse, Pass, LimiterInv, LimiterTypeOK
<1> DEFINE W == Swept(at)
<1>6. /\ DOMAIN W \subseteq DOMAIN windows
      /\ \A a \in DOMAIN W : W[a] = windows[a]
      /\ \A a \in DOMAIN windows : a \notin DOMAIN W => at > windows[a].start + Minute
      /\ at > last + Minute => \A a \in DOMAIN W : at <= windows[a].start + Minute
  BY <1>2, <1>3, SweptFacts
<1> HIDE DEF W
<1>7. CASE OpenWindow(s)
  <2>1. windows' = Open(W, c, [count |-> 1, start |-> at])
    BY <1>2, <1>7 DEF OpenWindow, W
  <2>2. /\ DOMAIN windows' = DOMAIN W \cup {c} /\ windows'[c] = [count |-> 1, start |-> at]
        /\ \A a \in DOMAIN W : a # c => windows'[a] = windows[a]
    BY <1>6, <2>1 DEF Open
  <2>3. [count |-> 1, start |-> at] \in Window /\ 1 \in 1 .. PerMin /\ at <= at + Minute
    BY <1>2, PerMinAssumption DEF Window
  <2>4. \A a \in DOMAIN windows' : windows'[a] \in Window /\ windows'[a].count \in 1 .. PerMin
    BY <1>3, <1>6, <2>2, <2>3
  <2>5. at > last + Minute => \A a \in DOMAIN windows' : at <= windows'[a].start + Minute
    BY <1>6, <2>2, <2>3
  <2> QED
    BY <1>1, <1>4, <1>5, <1>6, <2>2, <2>4, <2>5
<1>8. CASE CountOn(s)
  <2>1. /\ c \in DOMAIN W /\ windows[c].count < PerMin
        /\ windows' = [W EXCEPT ![c].count = @ + 1]
    BY <1>2, <1>8 DEF CountOn, Fresh, W
  <2>2. /\ DOMAIN windows' = DOMAIN W
        /\ windows'[c] = [windows[c] EXCEPT !.count = @ + 1]
        /\ \A a \in DOMAIN W : a # c => windows'[a] = windows[a]
    BY <1>6, <2>1
  <2>3. /\ windows'[c] \in Window /\ windows'[c].start = windows[c].start
        /\ windows'[c].count \in 1 .. PerMin
    BY <1>3, <1>6, <2>1, <2>2, PerMinAssumption DEF Window
  <2>4. \A a \in DOMAIN windows' : windows'[a] \in Window /\ windows'[a].count \in 1 .. PerMin
    BY <1>3, <1>6, <2>2, <2>3
  <2>5. at > last + Minute => \A a \in DOMAIN windows' : at <= windows'[a].start + Minute
    BY <1>6, <2>2, <2>3
  <2> QED
    BY <1>1, <1>4, <1>5, <1>6, <2>1, <2>2, <2>4, <2>5
<1>9. CASE Refuse(s)
  <2>1. windows' = W
    BY <1>9 DEF Refuse, W
  <2> QED
    BY <1>1, <1>3, <1>4, <1>5, <1>6, <2>1
<1> QED
  BY <1>7, <1>8, <1>9 DEF Decision

\* What it does to the record of those who passed: a new entry of the client who
\* asks, or nothing.
LEMMA PassedFacts ==
  ASSUME LimiterInv, NEW s \in Slots, Decision(s)
  PROVE  LET c == request[s].client  at == request[s].at IN
         /\ passed' \in [Clients -> SUBSET ((0 .. now) \X Nat)]
         /\ \A d \in Clients : IsFiniteSet(passed'[d])
         /\ OpenWindow(s) \/ CountOn(s) =>
              \E p : p[1] = at /\ p \notin passed[c] /\ passed'[c] = passed[c] \cup {p}
         /\ Refuse(s) => passed' = passed
<1> DEFINE c == request[s].client
           at == request[s].at
           p == <<at, Number(c, at)>>
<1>1. Waiting(s) /\ c \in Clients /\ at \in Nat /\ at <= now /\ now \in Nat
  BY WaitingFacts DEF Decision, OpenWindow, CountOn, Refuse
<1>2. Number(c, at) \in Nat /\ p \notin passed[c]
  BY <1>1, NumberFresh DEF LimiterInv
<1>3. /\ passed \in [Clients -> SUBSET ((0 .. now) \X Nat)]
      /\ \A d \in Clients : IsFiniteSet(passed[d])
  BY DEF LimiterInv, LimiterTypeOK
<1>4. ASSUME OpenWindow(s) \/ CountOn(s)
      PROVE  /\ passed'[c] = passed[c] \cup {p} /\ p[1] = at
             /\ passed' \in [Clients -> SUBSET ((0 .. now) \X Nat)]
             /\ \A d \in Clients : IsFiniteSet(passed'[d])
  <2>1. passed' = [passed EXCEPT ![c] = @ \cup {p}]
    BY <1>4 DEF OpenWindow, CountOn, Pass
  <2>2. p \in (0 .. now) \X Nat /\ p[1] = at
    BY <1>1, <1>2
  <2>3. IsFiniteSet(passed[c] \cup {p})
    BY <1>1, <1>3, FS_AddElement
  <2> HIDE DEF c, at, p
  <2>4. /\ passed'[c] = passed[c] \cup {p}
        /\ \A d \in Clients : d # c => passed'[d] = passed[d]
        /\ passed' \in [Clients -> SUBSET ((0 .. now) \X Nat)]
    BY <1>1, <1>3, <2>1, <2>2
  <2> QED
    BY <1>3, <2>2, <2>3, <2>4
<1>5. ASSUME Refuse(s) PROVE passed' = passed
  BY <1>5 DEF Refuse
<1> HIDE DEF p
<1> QED
  BY <1>2, <1>3, <1>4, <1>5 DEF Decision

\* How the split of a client's record goes on.  As long as its window stays as it
\* is, so does the split.
LEMMA SplitStays ==
  ASSUME LimiterTypeOK, NEW c \in Clients, now' \in Nat, now <= now', passed'[c] = passed[c],
         NEW current \in SUBSET passed[c], NEW previous \in SUBSET passed[c], NEW floor \in Int,
         Split(c, current, previous, floor),
         \/ c \notin DOMAIN windows /\ c \notin DOMAIN windows'
         \/ c \in DOMAIN windows /\ c \in DOMAIN windows' /\ windows'[c] = windows[c]
  PROVE  Split(c, current, previous, floor)'
<1>1. now \in Nat /\ MaxLate \in Nat
  BY TimeAssumption DEF LimiterTypeOK
<1>2. floor + MaxLate <= now'
  BY <1>1 DEF Split
<1> QED
  BY <1>2 DEF Split, Span

\* When its window is dropped, or replaced by a new one, what the window counted
\* becomes what the window before counted.
LEMMA SplitShifts ==
  ASSUME LimiterTypeOK, NEW c \in Clients, c \in DOMAIN windows,
         NEW at \in Nat, at > windows[c].start + Minute, at <= now,
         NEW current \in SUBSET passed[c], NEW previous \in SUBSET passed[c], NEW floor \in Int,
         Split(c, current, previous, floor)
  PROVE  LET lifted == windows[c].start + Minute + 1 - MaxLate IN
         /\ lifted \in Int /\ lifted <= at /\ floor <= lifted
         /\ Cardinality(current) <= PerMin
         /\ \A p \in current : p[1] <= lifted - 1 + MaxLate
         /\ \A p \in passed[c] \ current : p[1] <= lifted - 1 - Span
         /\ lifted + MaxLate <= now
<1> DEFINE start == windows[c].start
           lifted == start + Minute + 1 - MaxLate
<1>1. /\ now \in Nat /\ start \in Nat /\ windows[c].count \in 1 .. PerMin
      /\ MaxLate \in Nat /\ Minute \in Nat /\ MaxLate <= Minute /\ PerMin \in Nat
  BY TimeAssumption, PerMinAssumption DEF LimiterTypeOK
<1>2. \A p \in passed[c] : p[1] \in Int
  BY DEF LimiterTypeOK
<1>3. floor <= start /\ Cardinality(current) = windows[c].count
  BY DEF Split
<1>4. \A p \in current : p[1] <= start + Minute
  BY DEF Split
<1>5. \A p \in previous : p[1] <= floor - 1 + MaxLate
  BY DEF Split
<1>6. \A p \in passed[c] \ (current \cup previous) : p[1] <= floor - 1 - Span
  BY DEF Split
<1> HIDE DEF start
<1>7. lifted \in Int /\ lifted <= at /\ floor <= lifted /\ lifted + MaxLate <= now
  BY <1>1, <1>3 DEF start
<1>8. \A p \in current : p[1] <= lifted - 1 + MaxLate
  BY <1>1, <1>2, <1>4
<1>9. ASSUME NEW p \in passed[c] \ current PROVE p[1] <= lifted - 1 - Span
  <2>1. floor - 1 + MaxLate <= lifted - 1 - Span /\ floor - 1 - Span <= lifted - 1 - Span
    BY <1>1, <1>3, <1>7 DEF Span
  <2>2. p[1] <= floor - 1 + MaxLate \/ p[1] <= floor - 1 - Span
    BY <1>5, <1>6
  <2>3. floor - 1 + MaxLate \in Int /\ floor - 1 - Span \in Int /\ lifted - 1 - Span \in Int
    BY <1>1, <1>7 DEF Span
  <2> QED
    BY <1>2, <2>1, <2>2, <2>3
<1> QED
  BY <1>1, <1>3, <1>7, <1>8, <1>9 DEF start

\* A decision leaves every client's record split.
LEMMA DecisionSplit ==
  ASSUME LimiterInv, NEW s \in Slots, Decision(s), NEW c, c = request[s].client,
         NEW at, at = request[s].at
  PROVE  SplitInv'
<1>1. /\ Waiting(s) /\ c \in Clients /\ request[s].address = c
      /\ at \in Nat /\ at <= now /\ now <= at + MaxLate /\ now \in Nat /\ now' = now
      /\ MaxLate \in Nat /\ Minute \in Nat /\ PerMin \in Nat \ {0} /\ MaxLate <= Minute
  BY WaitingFacts, DecisionFacts, TimeAssumption, PerMinAssumption
<1>2. LimiterTypeOK
  BY DEF LimiterInv
<1>3. \A d \in Clients : IsFiniteSet(passed[d]) /\ \A p \in passed[d] : p[1] \in Nat
  BY <1>2 DEF LimiterTypeOK
<1>4. \A d \in Clients : \E current, previous \in SUBSET passed[d], floor \in Int :
        Split(d, current, previous, floor)
  BY DEF LimiterInv, SplitInv
<1>5. \A d \in DOMAIN windows : windows[d].start \in Nat /\ windows[d].start <= now
  BY <1>1, <1>2 DEF LimiterTypeOK
<1>6. ASSUME NEW d \in Clients \ {c}
      PROVE  \E current, previous \in SUBSET passed'[d], floor \in Int :
               Split(d, current, previous, floor)'
  <2>1. /\ passed'[d] = passed[d]
        /\ \/ d \notin DOMAIN windows /\ d \notin DOMAIN windows'
           \/ d \in DOMAIN windows /\ d \in DOMAIN windows' /\ windows'[d] = windows[d]
           \/ d \in DOMAIN windows /\ d \notin DOMAIN windows' /\ at > windows[d].start + Minute
    BY DecisionFacts
  <2>2. PICK current \in SUBSET passed[d], previous \in SUBSET passed[d], floor \in Int :
          Split(d, current, previous, floor)
    BY <1>4
  <2>3. CASE \/ d \notin DOMAIN windows /\ d \notin DOMAIN windows'
             \/ d \in DOMAIN windows /\ d \in DOMAIN windows' /\ windows'[d] = windows[d]
    <3>1. Split(d, current, previous, floor)'
      BY <1>1, <1>2, <2>1, <2>2, <2>3, SplitStays
    <3> QED
      BY <2>1, <3>1
  <2>4. CASE d \in DOMAIN windows /\ d \notin DOMAIN windows' /\ at > windows[d].start + Minute
    <3>0. PICK lifted : lifted = windows[d].start + Minute + 1 - MaxLate
      OBVIOUS
    <3>1. /\ lifted \in Int /\ lifted + MaxLate <= now
          /\ Cardinality(current) <= PerMin
          /\ \A p \in current : p[1] <= lifted - 1 + MaxLate
          /\ \A p \in passed[d] \ current : p[1] <= lifted - 1 - Span
      BY <1>1, <1>2, <2>2, <2>4, <3>0, SplitShifts
    <3>2. \A p \in passed'[d] \ ({} \cup current) : p[1] <= lifted - 1 - Span
      BY <2>1, <3>1
    <3>3. Split(d, {}, current, lifted)'
      BY <1>1, <2>4, <3>1, <3>2 DEF Split, Span
    <3>4. {} \in SUBSET passed'[d] /\ current \in SUBSET passed'[d]
      BY <2>1
    <3> QED
      BY <3>1, <3>3, <3>4
  <2> QED
    BY <2>1, <2>3, <2>4
<1>7. ASSUME OpenWindow(s)
      PROVE  \E current, previous \in SUBSET passed'[c], floor \in Int :
               Split(c, current, previous, floor)'
  <2>1. /\ c \in DOMAIN windows' /\ windows'[c] = [count |-> 1, start |-> at]
        /\ c \in DOMAIN windows => at > windows[c].start + Minute
    <3>1. windows' = Open(Swept(at), c, [count |-> 1, start |-> at]) /\ Fresh(c, at)
      BY <1>1, <1>7 DEF OpenWindow
    <3>2. c \in DOMAIN windows => at > windows[c].start + Minute
      BY <1>1, <1>5, <3>1, SweptFacts DEF Fresh
    <3> QED
      BY <3>1, <3>2 DEF Open
  <2>2. PICK p : p[1] = at /\ passed'[c] = passed[c] \cup {p}
    BY <1>7, PassedFacts
  <2>3. PICK current \in SUBSET passed[c], previous \in SUBSET passed[c], floor \in Int :
          Split(c, current, previous, floor)
    BY <1>1, <1>4
  <2>4. Cardinality({p}) = 1
    BY FS_Singleton
  <2>5. CASE c \notin DOMAIN windows
    <3>1. /\ current = {} /\ Cardinality(previous) <= PerMin
          /\ \A q \in previous : q[1] <= floor - 1 + MaxLate
          /\ \A q \in passed[c] \ previous : q[1] <= floor - 1 - Span
          /\ floor + MaxLate <= now
      BY <2>3, <2>5 DEF Split
    <3>2. floor <= at
      BY <1>1, <3>1
    <3>3. \A q \in passed'[c] \ ({p} \cup previous) : q[1] <= floor - 1 - Span
      BY <2>2, <3>1
    <3>4. Split(c, {p}, previous, floor)'
      BY <1>1, <2>1, <2>2, <2>4, <3>1, <3>2, <3>3 DEF Split, Span
    <3> QED
      BY <2>2, <3>4
  <2>6. CASE c \in DOMAIN windows
    <3>0. PICK lifted : lifted = windows[c].start + Minute + 1 - MaxLate
      OBVIOUS
    <3>1. /\ lifted \in Int /\ lifted + MaxLate <= now /\ lifted <= at
          /\ Cardinality(current) <= PerMin
          /\ \A q \in current : q[1] <= lifted - 1 + MaxLate
          /\ \A q \in passed[c] \ current : q[1] <= lifted - 1 - Span
      BY <1>1, <1>2, <2>1, <2>3, <2>6, <3>0, SplitShifts
    <3>2. \A q \in passed'[c] \ ({p} \cup current) : q[1] <= lifted - 1 - Span
      BY <2>2, <3>1
    <3>3. Split(c, {p}, current, lifted)'
      BY <1>1, <2>1, <2>2, <2>4, <3>1, <3>2 DEF Split, Span
    <3> QED
      BY <2>2, <3>1, <3>3
  <2> QED
    BY <2>5, <2>6
<1>8. ASSUME CountOn(s)
      PROVE  \E current, previous \in SUBSET passed'[c], floor \in Int :
               Split(c, current, previous, floor)'
  <2>1. /\ c \in DOMAIN windows /\ c \in DOMAIN windows'
        /\ windows'[c].count = windows[c].count + 1 /\ windows'[c].start = windows[c].start
        /\ at <= windows[c].start + Minute
    <3>1. windows' = [Swept(at) EXCEPT ![c].count = @ + 1] /\ ~ Fresh(c, at)
      BY <1>1, <1>8 DEF CountOn
    <3>2. /\ c \in DOMAIN Swept(at) /\ c \in DOMAIN windows /\ Swept(at)[c] = windows[c]
          /\ at <= windows[c].start + Minute
      BY <1>1, <1>5, <3>1, SweptFacts DEF Fresh
    <3>3. windows[c] \in Window
      BY <3>2 DEF LimiterInv, ClientInv
    <3> QED
      BY <3>1, <3>2, <3>3 DEF Window
  <2>2. PICK p : p[1] = at /\ p \notin passed[c] /\ passed'[c] = passed[c] \cup {p}
    BY <1>8, PassedFacts
  <2>3. PICK current \in SUBSET passed[c], previous \in SUBSET passed[c], floor \in Int :
          Split(c, current, previous, floor)
    BY <1>1, <1>4
  <2> DEFINE counted == current \cup {p}
  <2>4. Cardinality(counted) = windows'[c].count
    <3>1. IsFiniteSet(current) /\ p \notin current
      BY <1>1, <1>3, <2>2, FS_Subset
    <3>2. Cardinality(counted) = Cardinality(current) + 1
      BY <3>1, FS_AddElement
    <3> QED
      BY <2>1, <2>3, <3>2 DEF Split
  <2>5. \A q \in counted : /\ windows'[c].start - MaxLate <= q[1]
                           /\ q[1] <= windows'[c].start + Minute
    <3>1. windows[c].start - MaxLate <= at
      BY <1>1, <1>5, <2>1
    <3> QED
      BY <2>1, <2>2, <2>3, <3>1 DEF Split
  <2>6. \A q \in passed'[c] \ (counted \cup previous) : q[1] <= floor - 1 - Span
    BY <2>2, <2>3 DEF Split
  <2> HIDE DEF counted
  <2>7. Split(c, counted, previous, floor)'
    BY <1>1, <2>1, <2>3, <2>4, <2>5, <2>6 DEF Split, Span
  <2> QED
    BY <2>2, <2>7 DEF counted
<1>9. ASSUME Refuse(s)
      PROVE  \E current, previous \in SUBSET passed'[c], floor \in Int :
               Split(c, current, previous, floor)'
  <2>1. c \in DOMAIN windows /\ c \in DOMAIN windows' /\ windows'[c] = windows[c]
    BY <1>1, <1>9, SweptFacts DEF Refuse, Fresh
  <2>2. passed'[c] = passed[c]
    BY <1>9, PassedFacts
  <2>3. PICK current \in SUBSET passed[c], previous \in SUBSET passed[c], floor \in Int :
          Split(c, current, previous, floor)
    BY <1>1, <1>4
  <2>4. Split(c, current, previous, floor)'
    BY <1>1, <1>2, <2>1, <2>2, <2>3, SplitStays
  <2> QED
    BY <2>2, <2>4
<1> QED
  BY <1>6, <1>7, <1>8, <1>9 DEF SplitInv, Decision

\* A span that holds a request decided now meets the last two windows only.
LEMMA DecisionBurst ==
  ASSUME LimiterInv, NEW s \in Slots, Decision(s), NEW c, c = request[s].client,
         NEW at, at = request[s].at
  PROVE  BurstInv'
<1>1. /\ c \in Clients /\ at \in Nat /\ at <= now /\ now <= at + MaxLate /\ now \in Nat
      /\ now' = now /\ MaxLate \in Nat /\ Minute \in Nat /\ PerMin \in Nat /\ Span \in Int
  BY WaitingFacts, DecisionFacts, TimeAssumption, PerMinAssumption DEF Span
<1>2. SplitInv'
  BY DecisionSplit
<1>3. /\ passed' \in [Clients -> SUBSET ((0 .. now) \X Nat)]
      /\ \A d \in Clients : IsFiniteSet(passed'[d])
  BY PassedFacts
<1>4. \A a \in DOMAIN windows' : windows'[a].count \in 1 .. PerMin
  BY DecisionFacts
<1> SUFFICES ASSUME NEW d \in Clients, NEW t \in Nat
             PROVE  Cardinality({p \in passed'[d] : p[1] \in t .. (t + Span)}) <= 2 * PerMin
  BY DEF BurstInv, Passed, Span
<1>5. Cardinality({p \in passed[d] : p[1] \in t .. (t + Span)}) <= 2 * PerMin
  BY DEF LimiterInv, BurstInv, Passed
<1>6. CASE passed'[d] = passed[d]
  BY <1>5, <1>6
<1>7. CASE passed'[d] # passed[d]
  <2>1. d = c /\ (OpenWindow(s) \/ CountOn(s))
    BY <1>7, DecisionFacts, PassedFacts DEF Decision
  <2>2. PICK p : p[1] = at /\ passed'[d] = passed[d] \cup {p}
    BY <2>1, PassedFacts
  <2>3. CASE at \notin t .. (t + Span)
    <3>1. {q \in passed'[d] : q[1] \in t .. (t + Span)} = {q \in passed[d] : q[1] \in t .. (t + Span)}
      BY <2>2, <2>3
    <3> QED
      BY <1>5, <3>1
  <2>4. CASE at \in t .. (t + Span)
    <3>1. PICK current \in SUBSET passed'[d], previous \in SUBSET passed'[d], floor \in Int :
            Split(d, current, previous, floor)'
      BY <1>2 DEF SplitInv
    <3>2. /\ current = {} \/ (d \in DOMAIN windows' /\ Cardinality(current) = windows'[d].count)
          /\ Cardinality(previous) <= PerMin
          /\ \A q \in passed'[d] \ (current \cup previous) : q[1] <= floor - 1 - Span
          /\ floor + MaxLate <= now
      BY <1>1, <3>1 DEF Split, Span
    <3>3. /\ IsFiniteSet(current) /\ Cardinality(current) <= PerMin
          /\ IsFiniteSet(previous) /\ Cardinality(current) \in Nat /\ Cardinality(previous) \in Nat
      <4>1. IsFiniteSet(current) /\ IsFiniteSet(previous)
        BY <1>3, FS_Subset
      <4> QED
        BY <1>1, <1>4, <3>2, <4>1, FS_EmptySet, FS_CardinalityType
    <3>4. floor <= at
      BY <1>1, <3>2
    <3>5. ASSUME NEW q \in passed'[d], q[1] \in t .. (t + Span) PROVE q \in current \cup previous
      <4>1. q[1] \in Nat
        BY <1>1, <1>3
      <4>2. at - Span <= t /\ t <= q[1]
        BY <1>1, <2>4, <3>5, <4>1
      <4>3. ~ (q[1] <= floor - 1 - Span)
        BY <1>1, <3>4, <4>1, <4>2
      <4> QED
        BY <3>2, <4>3
    <3> DEFINE both == current \cup previous
               some == {q \in passed'[d] : q[1] \in t .. (t + Span)}
    <3>6. IsFiniteSet(both) /\ Cardinality(both) <= 2 * PerMin
      <4>1. IsFiniteSet(current \cap previous) /\ Cardinality(current \cap previous) \in Nat
        BY <3>3, FS_Intersection, FS_CardinalityType
      <4>2. /\ IsFiniteSet(both)
            /\ Cardinality(both) =
                 Cardinality(current) + Cardinality(previous) - Cardinality(current \cap previous)
        BY <3>3, FS_Union
      <4> HIDE DEF both
      <4> QED
        BY <1>1, <3>2, <3>3, <4>1, <4>2
    <3>7. some \in SUBSET both
      BY <3>5
    <3> HIDE DEF both, some
    <3>8. Cardinality(some) <= Cardinality(both) /\ Cardinality(some) \in Nat /\ Cardinality(both) \in Nat
      BY <3>6, <3>7, FS_Subset, FS_CardinalityType
    <3>9. Cardinality(some) <= 2 * PerMin
      BY <1>1, <3>6, <3>8
    <3> QED
      BY <3>9 DEF some
  <2> QED
    BY <2>3, <2>4
<1> QED
  BY <1>6, <1>7

\* A decision keeps the rest of the invariant.
LEMMA DecisionInv ==
  ASSUME LimiterInv, NEW s \in Slots, Decision(s)
  PROVE  LimiterInv'
<1> DEFINE c == request[s].client
           at == request[s].at
<1>1. /\ Waiting(s) /\ c \in Clients
      /\ at \in Nat /\ at <= now /\ now <= at + MaxLate /\ now \in Nat
      /\ last \in Nat /\ last <= now /\ MaxLate \in Nat /\ Minute \in Nat /\ MaxLate <= Minute
  BY WaitingFacts, DecisionFacts, TimeAssumption
<1>2. /\ now' = now /\ behindProxy' = behindProxy /\ request' = [request EXCEPT ![s] = Idle]
      /\ last' = IF at > last + Minute THEN at ELSE last
      /\ DOMAIN windows' \subseteq DOMAIN windows \cup {c}
      /\ at > last + Minute => \A a \in DOMAIN windows' : at <= windows'[a].start + Minute
      /\ \A a \in DOMAIN windows' : windows'[a] \in Window /\ windows'[a].count \in 1 .. PerMin
      /\ \A d \in Clients \ {c} : d \in DOMAIN windows' =>
           d \in DOMAIN windows /\ windows'[d] = windows[d]
  BY DecisionFacts
<1>3. /\ passed' \in [Clients -> SUBSET ((0 .. now) \X Nat)]
      /\ \A d \in Clients : IsFiniteSet(passed'[d])
  BY PassedFacts
<1>4. /\ DOMAIN windows \subseteq Clients
      /\ \A a \in DOMAIN windows : windows[a].start \in 0 .. now /\ last <= windows[a].start + Minute
  BY DEF LimiterInv, LimiterTypeOK, ClientInv, SweepInv
<1>5. c \in DOMAIN windows' =>
        \/ windows'[c].start = at
        \/ c \in DOMAIN windows /\ windows'[c].start = windows[c].start
  <2>1. CASE OpenWindow(s)
    <3>1. windows' = Open(Swept(at), request[s].address, [count |-> 1, start |-> at])
      BY <2>1 DEF OpenWindow
    <3> QED
      BY <1>1, <3>1, WaitingFacts DEF Open
  <2>2. CASE CountOn(s)
    <3>1. windows' = [Swept(at) EXCEPT ![request[s].address].count = @ + 1]
      BY <2>2 DEF CountOn
    <3>2. c \in DOMAIN Swept(at) => Swept(at)[c] = windows[c] /\ c \in DOMAIN windows /\ windows[c] \in Window
      BY SweptFacts DEF LimiterInv, ClientInv
    <3>3. c \in DOMAIN windows' => c \in DOMAIN Swept(at) /\ windows'[c] = [Swept(at)[c] EXCEPT !.count = @ + 1]
      BY <1>1, <3>1, WaitingFacts
    <3> QED
      BY <3>2, <3>3 DEF Window
  <2>3. CASE Refuse(s)
    BY <2>3, SweptFacts DEF Refuse
  <2> QED
    BY <2>1, <2>2, <2>3 DEF Decision
<1>6. \A a \in DOMAIN windows' : windows'[a].start \in 0 .. now
  BY <1>1, <1>2, <1>4, <1>5
<1> HIDE DEF c, at
<1>7. last' \in 0 .. now'
  BY <1>1, <1>2
<1>8. LimiterTypeOK'
  <2>1. request' \in [Slots -> {Idle} \cup Message1]
    BY <1>2 DEF LimiterInv, LimiterTypeOK, Message1
  <2> QED
    BY <1>1, <1>2, <1>3, <1>4, <1>6, <1>7, <2>1 DEF LimiterInv, LimiterTypeOK, Message1
<1>9. ClientInv'
  <2>1. \A r \in Slots : Waiting(r)' => Waiting(r) /\ request'[r] = request[r]
    BY <1>2 DEF Waiting, LimiterInv, LimiterTypeOK
  <2> QED
    BY <1>1, <1>2, <1>4, <2>1 DEF LimiterInv, ClientInv, Message1
<1>10. SweepInv'
  <2> SUFFICES ASSUME NEW a \in DOMAIN windows' PROVE last' <= windows'[a].start + Minute
    BY DEF SweepInv
  <2>1. CASE at > last + Minute
    BY <1>2, <2>1
  <2>2. CASE ~ (at > last + Minute)
    <3>1. last' = last
      BY <1>2, <2>2
    <3>2. CASE a \in DOMAIN windows /\ windows'[a].start = windows[a].start
      BY <1>4, <3>1, <3>2
    <3>3. CASE windows'[a].start = at
      BY <1>1, <3>1, <3>3
    <3> QED
      BY <1>1, <1>2, <1>4, <1>5, <3>2, <3>3
  <2> QED
    BY <2>1, <2>2
<1> QED
  BY <1>8, <1>9, <1>10, DecisionSplit, DecisionBurst DEF LimiterInv

-----------------------------------------------------------------------------
\* A client's request bears its own address, whatever header it sends.
LEMMA ArriveInv ==
  ASSUME LimiterInv, NEW s \in Slots, NEW c \in Clients, NEW m \in Message(c), Arrive(s, c, m)
  PROVE  LimiterInv'
<1>1. ClientIP(m) = c
  <2>1. CASE behindProxy
    <3>1. m.header \in {<<c>>, <<c, Proxy>>}
      BY <2>1 DEF Message
    <3>2. m.header # <<>> /\ m.header[1] = c
      BY <3>1
    <3> QED
      BY <2>1, <3>2, AddressAssumption DEF ClientIP
  <2>2. CASE ~ behindProxy
    BY <2>2 DEF Message, ClientIP
  <2> QED
    BY <2>1, <2>2
<1>2. /\ request' = [request EXCEPT ![s] = [client |-> c, address |-> c, at |-> now]]
      /\ UNCHANGED <<behindProxy, now, windows, last, passed>>
  BY <1>1 DEF Arrive, limiter
<1>3. now \in Nat /\ now \in 0 .. now /\ now <= now + MaxLate
  BY TimeAssumption DEF LimiterInv, LimiterTypeOK
<1>4. [client |-> c, address |-> c, at |-> now] \in Message1
  BY <1>3 DEF Message1
<1>5. LimiterTypeOK'
  <2>1. request' \in [Slots -> {Idle} \cup Message1]
    BY <1>2, <1>4 DEF LimiterInv, LimiterTypeOK, Message1
  <2> QED
    BY <1>2, <2>1 DEF LimiterInv, LimiterTypeOK, Message1
<1>6. ClientInv'
  <2>1. \A r \in Slots \ {s} : (Waiting(r)' <=> Waiting(r)) /\ request'[r] = request[r]
    BY <1>2 DEF Waiting, LimiterInv, LimiterTypeOK
  <2>2. request'[s] = [client |-> c, address |-> c, at |-> now]
    BY <1>2 DEF LimiterInv, LimiterTypeOK
  <2> QED
    BY <1>2, <1>3, <1>4, <2>1, <2>2 DEF LimiterInv, ClientInv, Message1
<1>7. SplitInv'
  <2> SUFFICES ASSUME NEW d \in Clients
               PROVE  \E current, previous \in SUBSET passed'[d], floor \in Int :
                        Split(d, current, previous, floor)'
    BY DEF SplitInv
  <2>1. PICK current \in SUBSET passed[d], previous \in SUBSET passed[d], floor \in Int :
          Split(d, current, previous, floor)
    BY DEF LimiterInv, SplitInv
  <2>2. Split(d, current, previous, floor)'
    BY <1>2, <1>3, <2>1, SplitStays DEF LimiterInv
  <2> QED
    BY <1>2, <2>2
<1>8. SweepInv' /\ BurstInv'
  BY <1>2 DEF LimiterInv, SweepInv, BurstInv, Passed, Span
<1> QED
  BY <1>5, <1>6, <1>7, <1>8 DEF LimiterInv

\* Time goes on only as far as the requests that wait allow.
LEMMA TickInv == LimiterInv /\ Tick => LimiterInv'
<1> SUFFICES ASSUME LimiterInv, Tick PROVE LimiterInv'
  OBVIOUS
<1>1. /\ now \in Nat /\ now' = now + 1 /\ now' \in 0 .. Horizon /\ now <= now'
      /\ UNCHANGED <<behindProxy, windows, last, request, passed>>
      /\ MaxLate \in Nat
  BY TimeAssumption DEF LimiterInv, LimiterTypeOK, Tick, limiter
<1>2. 0 .. now \subseteq 0 .. now'
  BY <1>1
<1>3. LimiterTypeOK'
  <2>1. request' \in [Slots -> {Idle} \cup [client : Clients, address : Clients \cup {Proxy}, at : 0 .. now']]
    BY <1>1, <1>2 DEF LimiterInv, LimiterTypeOK
  <2>2. passed' \in [Clients -> SUBSET ((0 .. now') \X Nat)]
    BY <1>1, <1>2 DEF LimiterInv, LimiterTypeOK
  <2> QED
    BY <1>1, <1>2, <2>1, <2>2 DEF LimiterInv, LimiterTypeOK
<1>4. ClientInv'
  <2> SUFFICES ASSUME NEW s \in Slots, Waiting(s)
               PROVE  request[s] \in Message1' /\ now' <= request[s].at + MaxLate
    BY <1>1 DEF LimiterInv, ClientInv, Waiting
  <2>1. request[s] \in Message1 /\ now < request[s].at + MaxLate /\ request[s].at \in Nat
    BY WaitingFacts DEF LimiterInv, ClientInv, Tick
  <2> QED
    BY <1>1, <1>2, <2>1 DEF Message1
<1>5. SplitInv'
  <2> SUFFICES ASSUME NEW c \in Clients
               PROVE  \E current, previous \in SUBSET passed'[c], floor \in Int :
                        Split(c, current, previous, floor)'
    BY DEF SplitInv
  <2>1. PICK current \in SUBSET passed[c], previous \in SUBSET passed[c], floor \in Int :
          Split(c, current, previous, floor)
    BY DEF LimiterInv, SplitInv
  <2>2. Split(c, current, previous, floor)'
    BY <1>1, <2>1, SplitStays DEF LimiterInv
  <2> QED
    BY <1>1, <2>2
<1>6. SweepInv' /\ BurstInv'
  BY <1>1 DEF LimiterInv, SweepInv, BurstInv, Passed, Span
<1> QED
  BY <1>3, <1>4, <1>5, <1>6 DEF LimiterInv

\* The invariant holds of a limiter nobody has asked.
LEMMA LimiterInitInv == LimiterInit => LimiterInv
<1> SUFFICES ASSUME LimiterInit PROVE LimiterInv
  OBVIOUS
<1>1. MaxLate \in Nat /\ Minute \in Nat /\ PerMin \in Nat /\ Horizon \in Nat
  BY TimeAssumption, PerMinAssumption
<1>2. /\ now = 0 /\ DOMAIN windows = {} /\ last = 0 /\ behindProxy \in Setups
      /\ request = [s \in Slots |-> Idle] /\ passed = [c \in Clients |-> {}]
  BY DEF LimiterInit
<1>3. IsFiniteSet({}) /\ Cardinality({}) = 0
  BY FS_EmptySet
<1>4. LimiterTypeOK
  BY <1>1, <1>2, <1>3 DEF LimiterTypeOK
<1>5. ClientInv /\ SweepInv
  BY <1>2 DEF ClientInv, SweepInv, Waiting
<1>6. SplitInv
  <2> SUFFICES ASSUME NEW c \in Clients
               PROVE  \E current, previous \in SUBSET passed[c], floor \in Int :
                        Split(c, current, previous, floor)
    BY DEF SplitInv
  <2>1. passed[c] = {} /\ c \notin DOMAIN windows
    BY <1>2
  <2>2. Split(c, {}, {}, 0 - MaxLate)
    BY <1>1, <1>2, <1>3, <2>1 DEF Split
  <2>3. 0 - MaxLate \in Int
    BY <1>1
  <2> QED
    BY <2>2, <2>3
<1>7. BurstInv
  <2> SUFFICES ASSUME NEW c \in Clients, NEW t \in Nat
               PROVE  Cardinality({p \in passed[c] : p[1] \in t .. (t + Span)}) <= 2 * PerMin
    BY DEF BurstInv, Passed
  <2>1. {p \in passed[c] : p[1] \in t .. (t + Span)} = {}
    BY <1>2
  <2>2. Cardinality({p \in passed[c] : p[1] \in t .. (t + Span)}) = 0
    BY <1>3, <2>1, Zenon
  <2> QED
    BY <1>1, <2>2
<1> QED
  BY <1>4, <1>5, <1>6, <1>7 DEF LimiterInv

\* The invariant is inductive.
LEMMA LimiterStepInv == LimiterInv /\ [LimiterNext]_limiterVars => LimiterInv'
<1> SUFFICES ASSUME LimiterInv, [LimiterNext]_limiterVars PROVE LimiterInv'
  OBVIOUS
<1>1. ASSUME NEW s \in Slots, NEW c \in Clients, NEW m \in Message(c), Arrive(s, c, m) PROVE LimiterInv'
  BY <1>1, ArriveInv
<1>2. ASSUME NEW s \in Slots, Decision(s) PROVE LimiterInv'
  BY <1>2, DecisionInv
<1>3. CASE UNCHANGED limiterVars
  <2>1. UNCHANGED <<behindProxy, now, windows, last, request, passed>>
    BY <1>3 DEF limiterVars, limiter
  <2>2. LimiterTypeOK' /\ ClientInv' /\ SweepInv'
    BY <2>1 DEF LimiterInv, LimiterTypeOK, ClientInv, SweepInv, Waiting, Message1
  <2>3. SplitInv' /\ BurstInv'
    BY <2>1 DEF LimiterInv, SplitInv, Split, Span, BurstInv, Passed
  <2> QED
    BY <2>2, <2>3 DEF LimiterInv
<1> QED
  BY <1>1, <1>2, <1>3, TickInv DEF LimiterNext, Decision

-----------------------------------------------------------------------------
\* Windows, requests and the record of what has passed keep their types; no
\* window counts more than the limit.
THEOREM LimiterTyped == LimiterSpec => []LimiterTypeOK
<1>1. LimiterInv => LimiterTypeOK
  BY DEF LimiterInv
<1> QED
  BY <1>1, LimiterInitInv, LimiterStepInv, PTL DEF LimiterSpec

\* A client passes at most twice its limit in a minute, less twice the lateness.
THEOREM LimiterBoundedBurst == LimiterSpec => []BoundedBurst
<1>1. LimiterInv => BoundedBurst
  <2> SUFFICES ASSUME LimiterInv, NEW c \in Clients, NEW t \in 0 .. now
               PROVE  Passed(c, t .. (t + Minute + 1 - 2 * MaxLate)) <= 2 * PerMin
    BY DEF BoundedBurst
  <2>1. t \in Nat /\ t + Minute + 1 - 2 * MaxLate = t + Span
    BY TimeAssumption DEF LimiterInv, LimiterTypeOK, Span
  <2> QED
    BY <2>1 DEF LimiterInv, BurstInv
<1> QED
  BY <1>1, LimiterInitInv, LimiterStepInv, PTL DEF LimiterSpec

\* Whoever is refused has passed the limit with requests that arrived within a
\* minute of the one refused, or were late by no more than requests can be.
THEOREM LimiterRefusedAtLimit == LimiterSpec => RefusedAtLimit
<1>1. ASSUME LimiterInv, NEW s \in Slots, Refuse(s)
      PROVE  Passed(request[s].client, {t \in 0 .. now : t + MaxLate + Minute >= request[s].at}) >= PerMin
  <2>1. PICK c, at : c = request[s].client /\ at = request[s].at
    OBVIOUS
  <2>2. /\ Waiting(s) /\ c \in Clients /\ request[s].address = c /\ at \in Nat /\ now \in Nat
        /\ MaxLate \in Nat /\ Minute \in Nat /\ PerMin \in Nat
    BY <1>1, <2>1, WaitingFacts, TimeAssumption, PerMinAssumption DEF Refuse
  <2>3. /\ c \in DOMAIN windows /\ windows[c].count >= PerMin
        /\ ~ (at > windows[c].start + Minute)
    BY <1>1, <2>1, <2>2, SweptFacts DEF Refuse, Fresh
  <2>4. PICK current \in SUBSET passed[c], previous \in SUBSET passed[c], floor \in Int :
          Split(c, current, previous, floor)
    BY <1>1, <2>2 DEF LimiterInv, SplitInv
  <2>5. windows[c].start \in Nat /\ windows[c].count \in Nat
    BY <1>1, <2>3 DEF LimiterInv, LimiterTypeOK
  <2>6. /\ passed[c] \subseteq (0 .. now) \X Nat /\ IsFiniteSet(passed[c])
    BY <1>1, <2>2 DEF LimiterInv, LimiterTypeOK
  <2> DEFINE recent == {t \in 0 .. now : t + MaxLate + Minute >= at}
             those == {p \in passed[c] : p[1] \in recent}
  <2>7. ASSUME NEW p \in current PROVE p \in those
    <3>1. p[1] \in 0 .. now /\ windows[c].start - MaxLate <= p[1]
      BY <2>3, <2>4, <2>6 DEF Split
    <3>2. p[1] + MaxLate + Minute >= at
      BY <2>2, <2>3, <2>5, <3>1
    <3> QED
      BY <3>1, <3>2
  <2>8. IsFiniteSet(those)
    BY <2>6, FS_Subset
  <2>9. Cardinality(current) <= Cardinality(those) /\ Cardinality(those) \in Nat
    <3> HIDE DEF those
    <3> QED
      BY <2>7, <2>8, FS_Subset, FS_CardinalityType
  <2>10. Cardinality(current) >= PerMin /\ Cardinality(current) \in Nat
    BY <2>3, <2>4, <2>5 DEF Split
  <2>11. Cardinality(those) >= PerMin
    BY <2>2, <2>9, <2>10
  <2> QED
    BY <2>1, <2>11 DEF Passed
<1>2. LimiterInv /\ [LimiterNext]_limiterVars =>
        [\A s \in Slots : Refuse(s) =>
           LET r == request[s] IN
           Passed(r.client, {t \in 0 .. now : t + MaxLate + Minute >= r.at}) >= PerMin]_limiterVars
  BY <1>1
<1> QED
  BY <1>2, LimiterInitInv, LimiterStepInv, PTL DEF LimiterSpec, RefusedAtLimit

\* After a decision no window is kept that began more than two minutes before the
\* request, so the map does not keep who has gone.
THEOREM LimiterForgotten == LimiterSpec => Forgotten
<1>1. ASSUME LimiterInv, LimiterNext, NEW s \in Slots, Waiting(s), request'[s] = Idle, NEW a \in DOMAIN windows'
      PROVE  request[s].at <= windows'[a].start + 2 * Minute
  <2>1. Decision(s)
    <3>1. request \in [Slots -> {Idle} \cup Message1]
      BY <1>1 DEF LimiterInv, LimiterTypeOK, Message1
    <3>2. request'[s] # request[s]
      BY <1>1 DEF Waiting
    <3>3. ASSUME NEW r \in Slots, Decision(r) PROVE r = s
      BY <3>1, <3>2, <3>3, <1>1, DecisionFacts
    <3>4. ASSUME NEW r \in Slots, NEW c \in Clients, NEW m \in Message(c), Arrive(r, c, m)
          PROVE  FALSE
      BY <1>1, <3>1, <3>2, <3>4 DEF Arrive
    <3>5. ~ Tick
      BY <3>2 DEF Tick
    <3> QED
      BY <1>1, <3>3, <3>4, <3>5 DEF LimiterNext, Decision
  <2>2. LimiterInv'
    BY <1>1, <2>1, DecisionInv
  <2>3. /\ request[s].at \in Nat /\ last \in Nat /\ Minute \in Nat
        /\ last' = IF request[s].at > last + Minute THEN request[s].at ELSE last
    BY <1>1, <2>1, WaitingFacts, DecisionFacts, TimeAssumption
  <2>4. last' <= windows'[a].start + Minute
    BY <1>1, <2>2 DEF LimiterInv, SweepInv
  <2>5. windows'[a].start \in Nat
    BY <1>1, <2>2 DEF LimiterInv, LimiterTypeOK
  <2> QED
    BY <2>3, <2>4, <2>5
<1>2. LimiterInv /\ [LimiterNext]_limiterVars =>
        [\A s \in Slots : Waiting(s) /\ request'[s] = Idle =>
           \A a \in DOMAIN windows' : request[s].at <= windows'[a].start + 2 * Minute]_limiterVars
  BY <1>1
<1> QED
  BY <1>2, LimiterInitInv, LimiterStepInv, PTL DEF LimiterSpec, Forgotten
=============================================================================
