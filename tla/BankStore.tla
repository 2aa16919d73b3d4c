----------------------------- MODULE BankStore ------------------------------
(***************************************************************************)
(* What bankdata.Repository and bankdata.Writer promise their callers,     *)
(* whichever backend is behind them: Replace swaps all records of one      *)
(* source in one step or changes nothing, and every read sees the records  *)
(* of one moment.  MemoryStore and PgStore implement this specification.   *)
(***************************************************************************)
EXTENDS BankData

CONSTANTS
  Readers,    \* the goroutines that read
  Asked       \* the queries whose answers are promised to be of one moment

VARIABLES
  bank,       \* the records, a partial function from keys
  sources,    \* the catalogue, a partial function from source names
  answer      \* the last answer each reader got

vars == <<bank, sources, answer>>

Init ==
  /\ bank = Empty
  /\ sources = Empty
  /\ answer = [r \in Readers |-> NoAnswer]

Swap(batch) == Overlay(Clear(bank, batch.name), batch, 1)

Replace(batch) ==
  /\ bank' = Swap(batch)
  /\ sources' = Assign(sources, batch.name,
                       InfoOf(batch, Cardinality(Owned(bank', batch.name))))
  /\ UNCHANGED answer

Answer(q) ==
  CASE q.op = "Find" -> ByKey(bank, q.key)
    [] q.op = "FindByBIC" -> ByBIC(bank, q.bic)
    [] q.op = "Search" -> ByCountry(bank, q.country)
    [] q.op = "Stats" -> StatsOf(bank, sources)

Ask(r, q) ==
  /\ answer' = [answer EXCEPT ![r] = Answer(q)]
  /\ UNCHANGED <<bank, sources>>

Next ==
  \/ \E batch \in Batches : Replace(batch)
  \/ \E r \in Readers, q \in Asked : Ask(r, q)

Spec == Init /\ [][Next]_vars

TypeOK == IsTable(bank) /\ IsCatalogue(sources)

\* What holds of table and catalogue at every moment: records of a listed
\* source only, one edition per source, no more of them than counted.
Consistent ==
  /\ Catalogued(bank, sources)
  /\ OneEditionEach(bank, sources)
  /\ Counted(bank, sources)
=============================================================================
