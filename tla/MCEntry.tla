------------------------------ MODULE MCEntry ------------------------------
(* Every row of the registry, with bank codes and account numbers that fill *)
(* their field and short ones, one IBAN a bank issued per row, and for      *)
(* Germany the Bundesbank's test numbers with their methods.                *)
EXTENDS Entry

\* A text that fits the classes of a piece of a BBAN.
Fit(class, i) ==
  IF class = "a" \/ (class = "c" /\ i % 5 = 0) THEN Uppers[((i * 7) % 26) + 1]
  ELSE Digits[((i * 7) % 10) + 1]

Sample(c) == [i \in DOMAIN c.BBAN |-> Fit(c.BBAN[i], i)]

OrdinaryForms ==
  UNION { {[country |-> c.Code, bank |-> bank, account |-> account, method |-> "none"] :
             bank \in {extract(c.BankCode, Sample(c)), <<"7">>},
             account \in {extract(c.Account, Sample(c)), <<"0", "5">>}} :
          c \in registry }

TestNumbers ==
  { <<"00", <<"9","2","9","0","7","0","1">>>>,
    <<"06", <<"9","4","0","1","2","3","4","1">>>>,
    <<"09", <<"9","4","0","1","2","3","4","1">>>>,
    <<"10", <<"1","2","3","4","5","0","0","8">>>>,
    <<"13", <<"1","2","3","4","5","6","7","8">>>>,
    <<"28", <<"1","9","9","9","9","0","0","0">>>>,
    <<"32", <<"9","1","4","1","4","0","5">>>>,
    <<"34", <<"9","9","1","3","0","0","0","7","0","0">>>>,
    <<"88", <<"2","5","2","5","2","5","9">>>>,
    <<"99", <<"0","0","6","8","0","0","7","0","0","3">>>>,
    <<"99", <<"0","3","9","6","0","0","0","0","0","0">>>>,
    <<"99", <<"0","3","9","5","9","9","9","9","9","9">>>>,
    <<"99", <<"0","5","0","0","0","0","0","0","0","0">>>>,
    <<"17", <<"0","4","4","6","7","8","6","0","4","0">>>>,
    <<"C1", <<"0","4","4","6","7","8","6","0","4","0">>>>,
    <<"C1", <<"5","4","3","2","1","1","2","3","4","9">>>>,
    <<"B9", <<"0","0","6","8","0","0","7","0","0","3">>>> }

GermanForms ==
  { [country |-> Germany, bank |-> <<"3","7","0"," ","4","0","0","4","4">>,
     account |-> t[2], method |-> t[1]] : t \in TestNumbers }

MCForms == OrdinaryForms \cup GermanForms
MCElsewhere == { [country |-> c.Code, bban |-> Sample(c)] : c \in registry }
=============================================================================
