----------------------------- MODULE MCPgStore ------------------------------
(***************************************************************************)
(* Small instances of PgStore: one country under two source names, as      *)
(* after a rename or an import with -source, a file that repeats a row and *)
(* an empty one.                                                           *)
(***************************************************************************)
EXTENDS PgStore

CONSTANTS B1, B2

MCKeys == {<<1, 1>>, <<1, 2>>}
MCNames == {"registry", "other"}

Bank(k, b) == [key |-> k, bic |-> b]
Batch(n, c, e, s) == [name |-> n, country |-> c, edition |-> e, banks |-> s]

First == Batch("registry", 1, 1, <<Bank(<<1, 1>>, B1), Bank(<<1, 2>>, NoBIC)>>)
Second == Batch("registry", 1, 2, <<Bank(<<1, 2>>, B1)>>)
Renamed == Batch("other", 1, 3, <<Bank(<<1, 2>>, B2), Bank(<<1, 1>>, B1)>>)
Repeating == Batch("registry", 1, 4, <<Bank(<<1, 1>>, B1), Bank(<<1, 1>>, B2)>>)
Nothing == Batch("registry", 1, 5, <<>>)

MCBatches == {First, Second, Renamed, Repeating, Nothing}
=============================================================================
