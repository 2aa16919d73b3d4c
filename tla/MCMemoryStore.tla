--------------------------- MODULE MCMemoryStore ----------------------------
(***************************************************************************)
(* Small instances of MemoryStore.  Country 1 is published under two       *)
(* names, as after a rename or an import with -source, and "generic" is    *)
(* the name ParseGeneric gives every file it is not told another for.      *)
(***************************************************************************)
EXTENDS MemoryStore

MCKeys == {<<1, 1>>, <<1, 2>>, <<2, 1>>}

Bank(k, b) == [key |-> k, bic |-> b]
Batch(n, c, e, s) == [name |-> n, country |-> c, edition |-> e, banks |-> s]

\* A first edition; the next one, which drops a bank and repeats a row; the
\* same bank under another name; an empty file; two countries under one name.
CONSTANTS B1, B2
MCBatches ==
  { Batch("registry", 1, 1, <<Bank(<<1, 1>>, B1), Bank(<<1, 2>>, NoBIC)>>),
    Batch("registry", 1, 2, <<Bank(<<1, 2>>, B1), Bank(<<1, 2>>, B2)>>),
    Batch("generic", 1, 3, <<Bank(<<1, 1>>, B2)>>),
    Batch("registry", 1, 5, <<>>),
    Batch("generic", 2, 4, <<Bank(<<2, 1>>, B1)>>) }
MCNames == {"registry", "generic"}
=============================================================================
