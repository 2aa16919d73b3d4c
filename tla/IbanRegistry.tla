---------------------------- MODULE IbanRegistry ----------------------------
(***************************************************************************)
(* iban/registry.go and registry_data.go: the characters of an IBAN, the   *)
(* fields of its national part (the BBAN) and the table of countries.      *)
(* A text is a sequence of characters.  Names and example IBANs are left   *)
(* out; offsets count from zero as in the code.                            *)
(***************************************************************************)
EXTENDS Integers, Sequences, FiniteSets, Functions
SequencesExt == INSTANCE SequencesExt

Digits == <<"0", "1", "2", "3", "4", "5", "6", "7", "8", "9">>
Uppers == <<"A", "B", "C", "D", "E", "F", "G", "H", "I", "J", "K", "L", "M",
            "N", "O", "P", "Q", "R", "S", "T", "U", "V", "W", "X", "Y", "Z">>
Lowers == <<"a", "b", "c", "d", "e", "f", "g", "h", "i", "j", "k", "l", "m",
            "n", "o", "p", "q", "r", "s", "t", "u", "v", "w", "x", "y", "z">>
Separators == {" ", "\t", "-"}

isDigit(ch) == ch \in Range(Digits)
isUpper(ch) == ch \in Range(Uppers)
Place(ch, S) == CHOOSE i \in DOMAIN S : S[i] = ch

\* The value of a digit, and of a letter: A = 10 ... Z = 35.
DigitValue == [ch \in Range(Digits) |-> Place(ch, Digits) - 1]
LetterValue == [ch \in Range(Uppers) |-> Place(ch, Uppers) + 9]

accepts(class, ch) ==
  \/ class \in {"n", "c"} /\ isDigit(ch)
  \/ class \in {"a", "c"} /\ isUpper(ch)

\* A field of the BBAN is a half-open range of offsets.
None == <<0, 0>>
known(f) == f[2] > f[1]
Width(f) == f[2] - f[1]
extract(f, bban) ==
  IF known(f) /\ f[2] <= Len(bban) THEN SubSeq(bban, f[1] + 1, f[2]) ELSE <<>>

\* One class per character, from runs such as <<8, "n">>.
expandStructure(runs) ==
  SequencesExt!FlattenSeq([i \in DOMAIN runs |-> [n \in 1..runs[i][1] |-> runs[i][2]]])

Row(first, second, length, runs, bankCode, branchCode, account) ==
  [Code |-> <<first, second>>, Length |-> length, BBAN |-> expandStructure(runs),
   BankCode |-> bankCode, BranchCode |-> branchCode, Account |-> account]

BBANLength(country) == country.Length - 4

registry ==
  { Row("D","E", 22, <<<<8,"n">>, <<10,"n">>>>, <<0,8>>, None, <<8,18>>),
    Row("A","T", 20, <<<<5,"n">>, <<11,"n">>>>, <<0,5>>, None, <<5,16>>),
    Row("B","E", 16, <<<<3,"n">>, <<7,"n">>, <<2,"n">>>>, <<0,3>>, None, <<3,10>>),
    Row("C","H", 21, <<<<5,"n">>, <<12,"c">>>>, <<0,5>>, None, <<5,17>>),
    Row("L","I", 21, <<<<5,"n">>, <<12,"c">>>>, <<0,5>>, None, <<5,17>>),
    Row("L","U", 20, <<<<3,"n">>, <<13,"c">>>>, <<0,3>>, None, <<3,16>>),
    Row("N","L", 18, <<<<4,"a">>, <<10,"n">>>>, <<0,4>>, None, <<4,14>>),
    Row("B","G", 22, <<<<4,"a">>, <<4,"n">>, <<2,"n">>, <<8,"c">>>>, <<0,4>>, <<4,8>>, <<10,18>>),
    Row("C","Y", 28, <<<<3,"n">>, <<5,"n">>, <<16,"c">>>>, <<0,3>>, <<3,8>>, <<8,24>>),
    Row("C","Z", 24, <<<<4,"n">>, <<6,"n">>, <<10,"n">>>>, <<0,4>>, None, <<4,20>>),
    Row("D","K", 18, <<<<4,"n">>, <<9,"n">>, <<1,"n">>>>, <<0,4>>, None, <<4,14>>),
    Row("E","E", 20, <<<<2,"n">>, <<2,"n">>, <<11,"n">>, <<1,"n">>>>, <<0,2>>, None, <<4,16>>),
    Row("E","S", 24, <<<<4,"n">>, <<4,"n">>, <<1,"n">>, <<1,"n">>, <<10,"n">>>>, <<0,4>>, <<4,8>>, <<10,20>>),
    Row("F","I", 18, <<<<3,"n">>, <<11,"n">>>>, <<0,3>>, None, <<3,14>>),
    Row("F","O", 18, <<<<4,"n">>, <<9,"n">>, <<1,"n">>>>, <<0,4>>, None, <<4,14>>),
    Row("F","R", 27, <<<<5,"n">>, <<5,"n">>, <<11,"c">>, <<2,"n">>>>, <<0,5>>, <<5,10>>, <<10,21>>),
    Row("G","B", 22, <<<<4,"a">>, <<6,"n">>, <<8,"n">>>>, <<0,4>>, <<4,10>>, <<10,18>>),
    Row("G","I", 23, <<<<4,"a">>, <<15,"c">>>>, <<0,4>>, None, <<4,19>>),
    Row("G","L", 18, <<<<4,"n">>, <<9,"n">>, <<1,"n">>>>, <<0,4>>, None, <<4,14>>),
    Row("G","R", 27, <<<<3,"n">>, <<4,"n">>, <<16,"c">>>>, <<0,3>>, <<3,7>>, <<7,23>>),
    Row("H","R", 21, <<<<7,"n">>, <<10,"n">>>>, <<0,7>>, None, <<7,17>>),
    Row("H","U", 28, <<<<3,"n">>, <<4,"n">>, <<1,"n">>, <<15,"n">>, <<1,"n">>>>, <<0,3>>, <<3,7>>, <<8,23>>),
    Row("I","E", 22, <<<<4,"a">>, <<6,"n">>, <<8,"n">>>>, <<0,4>>, <<4,10>>, <<10,18>>),
    Row("I","S", 26, <<<<4,"n">>, <<2,"n">>, <<6,"n">>, <<10,"n">>>>, <<0,4>>, None, <<6,12>>),
    Row("I","T", 27, <<<<1,"a">>, <<5,"n">>, <<5,"n">>, <<12,"c">>>>, <<1,6>>, <<6,11>>, <<11,23>>),
    Row("L","T", 20, <<<<5,"n">>, <<11,"n">>>>, <<0,5>>, None, <<5,16>>),
    Row("L","V", 21, <<<<4,"a">>, <<13,"c">>>>, <<0,4>>, None, <<4,17>>),
    Row("M","C", 27, <<<<5,"n">>, <<5,"n">>, <<11,"c">>, <<2,"n">>>>, <<0,5>>, <<5,10>>, <<10,21>>),
    Row("M","T", 31, <<<<4,"a">>, <<5,"n">>, <<18,"c">>>>, <<0,4>>, <<4,9>>, <<9,27>>),
    Row("N","O", 15, <<<<4,"n">>, <<6,"n">>, <<1,"n">>>>, <<0,4>>, None, <<4,10>>),
    Row("P","L", 28, <<<<8,"n">>, <<16,"n">>>>, <<0,8>>, None, <<8,24>>),
    Row("P","T", 25, <<<<4,"n">>, <<4,"n">>, <<11,"n">>, <<2,"n">>>>, <<0,4>>, <<4,8>>, <<8,19>>),
    Row("R","O", 24, <<<<4,"a">>, <<16,"c">>>>, <<0,4>>, None, <<4,20>>),
    Row("S","E", 24, <<<<3,"n">>, <<16,"n">>, <<1,"n">>>>, <<0,3>>, None, <<3,19>>),
    Row("S","I", 19, <<<<5,"n">>, <<8,"n">>, <<2,"n">>>>, <<0,5>>, None, <<5,13>>),
    Row("S","K", 24, <<<<4,"n">>, <<6,"n">>, <<10,"n">>>>, <<0,4>>, None, <<4,20>>),
    Row("S","M", 27, <<<<1,"a">>, <<5,"n">>, <<5,"n">>, <<12,"c">>>>, <<1,6>>, <<6,11>>, <<11,23>>),
    Row("A","D", 24, <<<<4,"n">>, <<4,"n">>, <<12,"c">>>>, <<0,4>>, <<4,8>>, <<8,20>>),
    Row("A","E", 23, <<<<3,"n">>, <<16,"n">>>>, <<0,3>>, None, <<3,19>>),
    Row("A","L", 28, <<<<8,"n">>, <<16,"c">>>>, <<0,3>>, <<3,7>>, <<8,24>>),
    Row("A","Z", 28, <<<<4,"a">>, <<20,"c">>>>, <<0,4>>, None, <<4,24>>),
    Row("B","A", 20, <<<<3,"n">>, <<3,"n">>, <<8,"n">>, <<2,"n">>>>, <<0,3>>, <<3,6>>, <<6,14>>),
    Row("B","H", 22, <<<<4,"a">>, <<14,"c">>>>, <<0,4>>, None, <<4,18>>),
    Row("B","R", 29, <<<<8,"n">>, <<5,"n">>, <<10,"n">>, <<1,"a">>, <<1,"c">>>>, <<0,8>>, <<8,13>>, <<13,23>>),
    Row("C","R", 22, <<<<4,"n">>, <<14,"n">>>>, <<0,4>>, None, <<4,18>>),
    Row("D","O", 28, <<<<4,"c">>, <<20,"n">>>>, <<0,4>>, None, <<4,24>>),
    Row("G","E", 22, <<<<2,"a">>, <<16,"n">>>>, <<0,2>>, None, <<2,18>>),
    Row("G","T", 28, <<<<4,"c">>, <<20,"c">>>>, <<0,4>>, None, <<8,24>>),
    Row("I","L", 23, <<<<3,"n">>, <<3,"n">>, <<13,"n">>>>, <<0,3>>, <<3,6>>, <<6,19>>),
    Row("I","Q", 23, <<<<4,"a">>, <<3,"n">>, <<12,"n">>>>, <<0,4>>, <<4,7>>, <<7,19>>),
    Row("J","O", 30, <<<<4,"a">>, <<4,"n">>, <<18,"c">>>>, <<0,4>>, <<4,8>>, <<8,26>>),
    Row("K","W", 30, <<<<4,"a">>, <<22,"c">>>>, <<0,4>>, None, <<4,26>>),
    Row("K","Z", 20, <<<<3,"n">>, <<13,"c">>>>, <<0,3>>, None, <<3,16>>),
    Row("L","B", 28, <<<<4,"n">>, <<20,"c">>>>, <<0,4>>, None, <<4,24>>),
    Row("M","D", 24, <<<<2,"c">>, <<18,"c">>>>, <<0,2>>, None, <<2,20>>),
    Row("M","E", 22, <<<<3,"n">>, <<13,"n">>, <<2,"n">>>>, <<0,3>>, None, <<3,16>>),
    Row("M","K", 19, <<<<3,"n">>, <<10,"c">>, <<2,"n">>>>, <<0,3>>, None, <<3,13>>),
    Row("M","R", 27, <<<<5,"n">>, <<5,"n">>, <<11,"n">>, <<2,"n">>>>, <<0,5>>, <<5,10>>, <<10,21>>),
    Row("M","U", 30, <<<<4,"a">>, <<2,"n">>, <<2,"n">>, <<12,"n">>, <<3,"n">>, <<3,"a">>>>, <<0,4>>, <<6,8>>, <<8,20>>),
    Row("P","K", 24, <<<<4,"a">>, <<16,"c">>>>, <<0,4>>, None, <<4,20>>),
    Row("P","S", 29, <<<<4,"a">>, <<21,"c">>>>, <<0,4>>, None, <<4,25>>),
    Row("Q","A", 29, <<<<4,"a">>, <<21,"c">>>>, <<0,4>>, None, <<4,25>>),
    Row("R","S", 22, <<<<3,"n">>, <<13,"n">>, <<2,"n">>>>, <<0,3>>, None, <<3,16>>),
    Row("S","A", 24, <<<<2,"n">>, <<18,"c">>>>, <<0,2>>, None, <<2,20>>),
    Row("T","N", 24, <<<<2,"n">>, <<3,"n">>, <<13,"n">>, <<2,"n">>>>, <<0,2>>, <<2,5>>, <<5,18>>),
    Row("T","R", 26, <<<<5,"n">>, <<1,"c">>, <<16,"c">>>>, <<0,5>>, None, <<6,22>>),
    Row("U","A", 29, <<<<6,"n">>, <<19,"c">>>>, <<0,6>>, None, <<6,25>>),
    Row("V","G", 24, <<<<4,"a">>, <<16,"n">>>>, <<0,4>>, None, <<4,20>>) }

\* The rows of a code: one or none.
Lookup(code) == {c \in registry : c.Code = code}
=============================================================================
