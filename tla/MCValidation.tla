---------------------------- MODULE MCValidation ----------------------------
(***************************************************************************)
(* Small instances of Validation: country 1 is Germany, with a first and a *)
(* second edition that drops a bank and adds one, and a country 2.         *)
(***************************************************************************)
EXTENDS Validation

CONSTANTS B1

MCKeys == {<<1, 1>>, <<1, 2>>, <<2, 1>>}
MCNames == {"registry", "abroad"}
Bank(k) == [key |-> k, bic |-> B1]
Batch(n, c, e, s) == [name |-> n, country |-> c, edition |-> e, banks |-> s]

MCBatches ==
  { Batch("registry", 1, 1, <<Bank(<<1, 1>>)>>),
    Batch("registry", 1, 2, <<Bank(<<1, 1>>), Bank(<<1, 2>>)>>),
    Batch("abroad", 2, 3, <<Bank(<<2, 1>>)>>) }

Input(p, s, a, k) == [parses |-> p, checksum |-> s, account |-> a, key |-> k]
MCIbans ==
  { Input(TRUE, TRUE, TRUE, <<1, 1>>), Input(TRUE, TRUE, FALSE, <<1, 2>>),
    Input(TRUE, FALSE, TRUE, <<2, 1>>), Input(TRUE, TRUE, TRUE, NoKey),
    Input(FALSE, FALSE, FALSE, NoKey) }
=============================================================================
