----------------------------- MODULE Validation -----------------------------
(***************************************************************************)
(* internal/api/v2.go and v1.go: the answer to one IBAN, put together from *)
(* several reads of a store that loaders change in between and that can    *)
(* fail.  The store is a BankStore, which both backends implement.  A      *)
(* batch request is the same work on one IBAN after another.               *)
(*                                                                         *)
(* An IBAN is what the checks see of it: whether it parses, whether its    *)
(* checksum and its account number are right, and the key of its bank.     *)
(* moments is a history variable: what the store held since a request came.*)
(***************************************************************************)
EXTENDS BankData

CONSTANTS
  Requests,     \* the requests in service
  Ibans,        \* the inputs
  NoKey,        \* the key of an IBAN whose bank code the registry cannot place
  Germany,      \* the country whose account numbers have check digits
  Verified,     \* the editions whose check digit method is implemented
  V1Countries,  \* the countries v1 knows the length of a bank code of
  MaxLoads      \* bound: how many loads a behaviour contains

Iban == [parses : BOOLEAN, checksum : BOOLEAN, account : BOOLEAN, key : Keys \cup {NoKey}]

ASSUME IbansAssumption == Ibans \subseteq Iban /\ NoKey \notin Keys
ASSUME BoundAssumption == MaxLoads \in Nat

VARIABLES
  bank, sources,  \* the store
  loads,          \* how many loads there have been
  call,           \* what each request has put together so far
  moments         \* the pairs of table and catalogue each request lived through

vars == <<bank, sources, loads, call, moments>>

Store == INSTANCE BankStore WITH
  answer <- call, Readers <- Requests, Asked <- Queries

Outcomes == {"passed", "failed", "unchecked"}
Free == [stage |-> "free"]

Init ==
  /\ bank = Empty
  /\ sources = Empty
  /\ loads = 0
  /\ call = [r \in Requests |-> Free]
  /\ moments = [r \in Requests |-> {}]

\* Another process replaces a source in the database.
Load(batch) ==
  /\ loads < MaxLoads
  /\ loads' = loads + 1
  /\ Store!Replace(batch)
  /\ moments' = [r \in Requests |->
                   IF call[r] = Free THEN {} ELSE moments[r] \cup {<<bank', sources'>>}]

-----------------------------------------------------------------------------
\* A request and its answer.
AtStage(r, stage) == call[r].stage = stage
Update(r, c) == call' = [call EXCEPT ![r] = c]
Reading == UNCHANGED <<bank, sources, loads, moments>>

Begin(r, api, i, stage, code, ok, wants) ==
  /\ AtStage(r, "free")
  /\ Update(r, [stage |-> stage, api |-> api, iban |-> i, bankCode |-> code,
                shown |-> Empty, account |-> "unchecked", valid |-> ok, asOf |-> Empty,
                wants |-> wants, down |-> FALSE])
  /\ moments' = [moments EXCEPT ![r] = {<<bank, sources>>}]
  /\ UNCHANGED <<bank, sources, loads>>

\* validateV2: what does not parse is answered at once; an IBAN without a bank
\* code is not looked up.
ReceiveV2(r, i) ==
  Begin(r, "v2", i,
        IF ~ i.parses THEN "done" ELSE IF i.key = NoKey THEN "asOf" ELSE "find",
        "unchecked", i.parses /\ i.checksum, {})

\* accountCheck: no statement without a verified method.
AccountCheck(c, record) ==
  IF c.iban.key[1] = Germany /\ record.edition \in Verified
    THEN IF c.iban.account THEN "passed" ELSE "failed"
    ELSE "unchecked"

\* Faulty: takes a bank of any country with the code.
FindByCode(r) ==
  /\ AtStage(r, "find")
  /\ \E k \in DOMAIN bank :
       /\ k[2] = call[r].iban.key[2]
       /\ Update(r, [call[r] EXCEPT !.stage = "asOf", !.bankCode = "passed",
                                     !.shown = Restrict(bank, {k})])
  /\ Reading

FindOK(r) ==
  /\ AtStage(r, "find")
  /\ LET c == call[r] IN
       /\ c.iban.key \in DOMAIN bank
       /\ LET verdict == AccountCheck(c, bank[c.iban.key]) IN
            Update(r, [c EXCEPT !.stage = "asOf", !.bankCode = "passed",
                                !.shown = Restrict(bank, {c.iban.key}), !.account = verdict,
                                !.valid = @ /\ verdict # "failed"])
  /\ Reading

NotFound(r) ==
  /\ AtStage(r, "find")
  /\ call[r].iban.key \notin DOMAIN bank
  /\ Update(r, [call[r] EXCEPT !.stage = "covered"])
  /\ Reading

\* Faulty: a failed lookup is a failed check.
FindFailsCheck(r) ==
  /\ AtStage(r, "find")
  /\ Update(r, [call[r] EXCEPT !.stage = "asOf", !.bankCode = "failed", !.valid = FALSE, !.down = TRUE])
  /\ Reading

FindFails(r) ==
  /\ AtStage(r, "find")
  /\ Update(r, [call[r] EXCEPT !.stage = "asOf", !.down = TRUE])
  /\ Reading

\* haveCountry, over the catalogue.
Covers(catalogue, country) == \E n \in DOMAIN catalogue : catalogue[n].country = country

Unknown(r) ==
  /\ AtStage(r, "covered")
  /\ Covers(sources, call[r].iban.key[1])
  /\ Update(r, [call[r] EXCEPT !.stage = "asOf", !.bankCode = "failed", !.valid = FALSE])
  /\ Reading

Uncovered(r) ==
  /\ AtStage(r, "covered")
  /\ ~ Covers(sources, call[r].iban.key[1])
  /\ Update(r, [call[r] EXCEPT !.stage = "asOf"])
  /\ Reading

CoveredFails(r) ==
  /\ AtStage(r, "covered")
  /\ Update(r, [call[r] EXCEPT !.stage = "asOf", !.down = TRUE])
  /\ Reading

\* dataAsOf: one date per country; of two sources of a country the last in an
\* order the stores do not define.
Dates(catalogue) ==
  {d \in [{catalogue[n].country : n \in DOMAIN catalogue} ->
            {catalogue[n].edition : n \in DOMAIN catalogue}] :
     \A c \in DOMAIN d : \E n \in DOMAIN catalogue :
       catalogue[n].country = c /\ catalogue[n].edition = d[c]}

AsOf(r) ==
  /\ AtStage(r, "asOf")
  /\ \E d \in Dates(sources) : Update(r, [call[r] EXCEPT !.stage = "done", !.asOf = d])
  /\ Reading

AsOfFails(r) ==
  /\ AtStage(r, "asOf")
  /\ Update(r, [call[r] EXCEPT !.stage = "done", !.down = TRUE])
  /\ Reading

-----------------------------------------------------------------------------
\* validateV1: the bank code check and the BIC are two lookups, each on request.
\* The BIC v1 shows for the branches of one bank, whatever the store has, is left out.
Extras == {"bankCode", "bic"}
PlacedV1(i) == i.key # NoKey /\ i.key[1] \in V1Countries
AfterV1(i, wants) ==
  IF ~ i.parses \/ ~ PlacedV1(i) THEN "done"
  ELSE IF "bankCode" \in wants THEN "find1"
  ELSE IF "bic" \in wants THEN "bic1" ELSE "done"

\* A country v1 has no bank code length for fails the check, not the IBAN.
ReceiveV1(r, i, wants) ==
  Begin(r, "v1", i, AfterV1(i, wants),
        IF i.parses /\ ~ PlacedV1(i) /\ "bankCode" \in wants THEN "failed" ELSE "unchecked",
        i.parses /\ i.checksum, wants)

CodeV1(r) ==
  /\ AtStage(r, "find1")
  /\ LET c == call[r]
         next == IF "bic" \in c.wants THEN "bic1" ELSE "done"
     IN  \/ /\ c.iban.key \in DOMAIN bank
            /\ Update(r, [c EXCEPT !.stage = next, !.bankCode = "passed"])
         \/ /\ c.iban.key \notin DOMAIN bank
            /\ Update(r, [c EXCEPT !.stage = next, !.bankCode = "failed", !.valid = FALSE])
         \/ Update(r, [c EXCEPT !.stage = next, !.bankCode = "failed", !.valid = FALSE, !.down = TRUE])
  /\ Reading

BicV1(r) ==
  /\ AtStage(r, "bic1")
  /\ LET c == call[r] IN
       \/ Update(r, [c EXCEPT !.stage = "done",
                              !.shown = Restrict(bank, {c.iban.key} \cap DOMAIN bank)])
       \/ Update(r, [c EXCEPT !.stage = "done", !.down = TRUE])
  /\ Reading

\* The answer is sent.
Respond(r) ==
  /\ AtStage(r, "done")
  /\ Update(r, Free)
  /\ moments' = [moments EXCEPT ![r] = {}]
  /\ UNCHANGED <<bank, sources, loads>>

Serve(r) ==
  \/ \E i \in Ibans : ReceiveV2(r, i) \/ \E wants \in SUBSET Extras : ReceiveV1(r, i, wants)
  \/ FindOK(r) \/ NotFound(r) \/ FindFails(r)
  \/ Unknown(r) \/ Uncovered(r) \/ CoveredFails(r)
  \/ AsOf(r) \/ AsOfFails(r)
  \/ CodeV1(r) \/ BicV1(r) \/ Respond(r)

Next == (\E batch \in Batches : Load(batch)) \/ \E r \in Requests : Serve(r)

Spec == Init /\ [][Next]_vars

-----------------------------------------------------------------------------
TypeOK ==
  /\ IsTable(bank) /\ IsCatalogue(sources)
  /\ loads \in 0 .. MaxLoads
  /\ \A r \in Requests : call[r] # Free =>
       /\ call[r].iban \in Ibans
       /\ call[r].stage \in {"find", "covered", "asOf", "done", "find1", "bic1"}
       /\ {call[r].bankCode, call[r].account} \subseteq Outcomes
       /\ IsTable(call[r].shown)
       /\ DOMAIN call[r].shown \subseteq {call[r].iban.key}
       /\ moments[r] # {}

Answered(r) == AtStage(r, "done") /\ call[r].iban.parses
Lived(r, Holds(_, _)) == \E m \in moments[r] : Holds(m[1], m[2])

\* Every statement of an answer was true at some moment since the request came,
\* whatever was loaded while it was put together: the bank shown was stored, a bank
\* code called valid was known and one called unknown was unknown, the dates were
\* the sources' dates, and "no directory is loaded" was true unless the store was
\* down.
StatementsHeld ==
  \A r \in Requests : Answered(r) =>
    LET c == call[r]  k == c.iban.key IN
    /\ Lived(r, LAMBDA t, s : c.shown = Empty \/ Restrict(t, {k} \cap DOMAIN t) = c.shown)
    /\ Lived(r, LAMBDA t, s : c.asOf = Empty \/ c.asOf \in Dates(s))
    /\ c.bankCode = "passed" => Lived(r, LAMBDA t, s : k \in DOMAIN t)
    /\ c.bankCode = "failed" /\ ~ c.down /\ (c.api = "v1" => PlacedV1(c.iban))
         => Lived(r, LAMBDA t, s : k \notin DOMAIN t)
    /\ c.api = "v2" /\ c.bankCode = "unchecked" /\ k # NoKey /\ ~ c.down
         => Lived(r, LAMBDA t, s : ~ Covers(s, k[1]))

\* A v2 answer never calls an IBAN invalid for what the service lacks: if the
\* checksum and the account number are right, and the bank was stored all the
\* while or its country was never covered, the answer is valid even if the store
\* fails at every read ("A missing check must never read as a failure", v2.go:24-25).
MissingNeverFails ==
  \A r \in Requests : Answered(r) /\ call[r].api = "v2" =>
    LET c == call[r] IN
    /\ c.iban.checksum /\ c.iban.account
    /\ \/ c.iban.key = NoKey
       \/ \A m \in moments[r] : c.iban.key \in DOMAIN m[1]
       \/ \A m \in moments[r] : ~ Covers(m[2], c.iban.key[1])
    => c.valid

\* The bank code is called unknown only if, at one moment, the country was
\* covered and the bank was not in it ("No data for the country at all is a
\* different statement from a bank code that is genuinely unknown within a
\* country that is covered", v2.go:193-194).
UnknownIsGenuine ==
  \A r \in Requests :
    Answered(r) /\ call[r].api = "v2" /\ call[r].bankCode = "failed" =>
      Lived(r, LAMBDA t, s : Covers(s, call[r].iban.key[1]) /\ call[r].iban.key \notin DOMAIN t)
=============================================================================
