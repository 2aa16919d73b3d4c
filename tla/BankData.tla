------------------------------ MODULE BankData ------------------------------
(***************************************************************************)
(* The vocabulary of bankdata/bankdata.go: the records, keys and batches   *)
(* every store works on, and what the read methods of Repository return.   *)
(*                                                                         *)
(* A key is a pair <<country, code>> of numbers that stand for the upper   *)
(* case country and the trimmed bank code (Key.Normalize); only equality   *)
(* and sort order matter.  A record is reduced to the fields the stores    *)
(* read: its source, its BIC and the edition of the registry it was parsed *)
(* from, which stands for the name, the address and everything else that   *)
(* changes from one edition to the next.  The code parses a registry file  *)
(* into []Bank and a SourceInfo; both together are a batch.                *)
(***************************************************************************)
EXTENDS Naturals, Sequences, FiniteSets, Functions

CONSTANTS
  Keys,       \* the normalised keys, a set of pairs <<country, code>>
  Names,      \* the names a source can be recorded under
  BICs,       \* the bank identifier codes
  NoBIC,      \* the empty BIC of a record that has none
  Batches,    \* the batches Replace can be called with
  MaxLimit    \* the largest number of records a search returns

Banks == [key : Keys, bic : BICs \cup {NoBIC}]
Record == [source : Names, bic : BICs \cup {NoBIC}, edition : Nat]
SourceInfo == [country : Nat, edition : Nat, count : Nat]

ASSUME KeysAssumption == Keys \subseteq Nat \X Nat /\ IsFiniteSet(Keys)
ASSUME BICAssumption == NoBIC \notin BICs
ASSUME LimitAssumption == MaxLimit \in Nat
ASSUME BatchesAssumption ==
  Batches \subseteq [name : Names, country : Nat, edition : Nat, banks : Seq(Banks)]

\* Partial functions from keys to records, and from names to source infos.
IsTable(t) == \E K \in SUBSET Keys : t \in [K -> Record]
IsCatalogue(c) == \E N \in SUBSET Names : c \in [N -> SourceInfo]
Empty == [k \in {} |-> k]
NoBatch == [none |-> TRUE]
NoAnswer == [none |-> TRUE]

-----------------------------------------------------------------------------
\* The keys a batch brings, and the record it leaves under each of them: the
\* last one, where a registry file lists a key twice.
IncomingFrom(batch, i) == {batch.banks[j].key : j \in i .. Len(batch.banks)}
Incoming(batch) == IncomingFrom(batch, 1)
LastAt(batch, k) ==
  CHOOSE i \in DOMAIN batch.banks :
    /\ batch.banks[i].key = k
    /\ \A j \in DOMAIN batch.banks : batch.banks[j].key = k => j <= i
RecordOf(batch, i) ==
  [source |-> batch.name, bic |-> batch.banks[i].bic, edition |-> batch.edition]

Repeats(batch) == Cardinality(Incoming(batch)) # Len(batch.banks)

Owned(table, name) == {k \in DOMAIN table : table[k].source = name}
InfoOf(batch, count) ==
  [country |-> batch.country, edition |-> batch.edition, count |-> count]

\* f with the entry under x set to v, whether or not it had one.
Assign(f, x, v) == [y \in DOMAIN f \cup {x} |-> IF y = x THEN v ELSE f[y]]

\* Faulty: drops the records of every source, or of none.
ClearAll(table, name) == Empty
ClearNone(table, name) == table

\* The records of a source dropped, and the banks of a batch from the i-th on
\* put over what is left.
Clear(table, name) == Restrict(table, DOMAIN table \ Owned(table, name))
Overlay(table, batch, i) ==
  [k \in DOMAIN table \cup IncomingFrom(batch, i) |->
     IF k \in IncomingFrom(batch, i) THEN RecordOf(batch, LastAt(batch, k)) ELSE table[k]]

-----------------------------------------------------------------------------
\* What the read methods return.  Every answer but the statistics is a part of
\* the table; ErrNotFound is the empty part.
Before(k, l) == k[1] < l[1] \/ (k[1] = l[1] /\ k[2] < l[2])
FirstKeys(K, n) == {k \in K : Cardinality({l \in K : Before(l, k)}) < n}

WithBIC(table, bic) == Restrict(table, {k \in DOMAIN table : table[k].bic = bic})

Found(part) == [banks |-> part]
ByKey(table, k) == Found(Restrict(table, DOMAIN table \cap {k}))
ByBIC(table, bic) == Found(WithBIC(table, bic))
ByCountry(table, c) ==
  Found(Restrict(table, FirstKeys({k \in DOMAIN table : k[1] = c}, MaxLimit)))
StatsOf(table, catalogue) == [total |-> Cardinality(DOMAIN table), sources |-> catalogue]

Queries ==
  [op : {"Find"}, key : Keys] \cup [op : {"FindByBIC"}, bic : BICs]
    \cup [op : {"Search"}, country : {k[1] : k \in Keys}] \cup [op : {"Stats"}]

-----------------------------------------------------------------------------
\* What a table and a source catalogue that belong together satisfy.

\* A record belongs to a source the catalogue lists.
Catalogued(table, catalogue) ==
  \A k \in DOMAIN table : table[k].source \in DOMAIN catalogue

\* The records of a source come from one edition of its registry, the one the
\* catalogue gives the date of.
OneEditionEach(table, catalogue) ==
  \A k \in DOMAIN table :
    table[k].source \in DOMAIN catalogue => table[k].edition = catalogue[table[k].source].edition

\* No source holds more records than the catalogue counts for it.
Counted(table, catalogue) ==
  \A n \in DOMAIN catalogue : Cardinality(Owned(table, n)) <= catalogue[n].count
=============================================================================
