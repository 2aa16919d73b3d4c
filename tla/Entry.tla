-------------------------------- MODULE Entry --------------------------------
(***************************************************************************)
(* An IBAN from the form to its check: a customer writes down a bank code  *)
(* and an account number, v1's calculate makes the IBAN of them, or a bank *)
(* issued it, and it is copied by hand before v2 validates it.  Slips are  *)
(* what check digits are there for: they happen to the account number on   *)
(* the form and to the finished IBAN.                                      *)
(***************************************************************************)
EXTENDS Iban

CONSTANTS
  Forms,      \* what customers ask an IBAN for: country, bank, account, method
  Elsewhere,  \* the BBANs of IBANs that banks issued: country, bban
  NoForm,     \* the form of an IBAN that was issued elsewhere
  MaxEdits    \* bound: slips and changes of format in a behaviour

Codes == {c.Code : c \in registry}

\* What can be written into the form; the account number is written in digits
\* and capitals, without separators.
FormTexts == [country : Codes, bank : Seq(Characters),
              account : Seq(Range(Digits) \cup Range(Uppers)), method : STRING]

ASSUME FormsAssumption == Forms \subseteq FormTexts

\* Banks keep to their country's row.
ASSUME ElsewhereAssumption ==
  /\ Elsewhere \subseteq [country : Codes, bban : Seq(Characters)]
  /\ \A e \in Elsewhere : \A c \in Lookup(e.country) :
       Len(e.bban) = BBANLength(c) /\ checkStructure(c, e.bban)

ASSUME MaxEditsAssumption == MaxEdits \in Nat

CheckDigit == INSTANCE CheckDigit

VARIABLES
  form,  \* the form as it stands
  text,  \* the IBAN as it stands, <<>> before there is one
  edits  \* how often form or text were changed by hand

vars == <<form, text, edits>>

Germany == <<"D", "E">>

\* ISO 7064: the remainder of the number that the characters of s spell, the
\* first four at its end, as the sum of its digits' powers of ten.
PowerOfTen[n \in 0..(2 * MaxLength)] ==
  IF n = 0 THEN 1 ELSE (PowerOfTen[n - 1] * 10) % 97
Narrow(ch) == IF isDigit(ch) THEN 1 ELSE 2

Spelt(ch) == IF isDigit(ch) THEN DigitValue[ch] ELSE LetterValue[ch]

Remainder(s) ==
  LET turned == SubSeq(s, 5, Len(s)) \o SubSeq(s, 1, 4)
      After(n) == SumFunction([m \in (n + 1)..Len(s) |-> Narrow(turned[m])])
  IN  SumFunction([n \in 1..Len(s) |-> Spelt(turned[n]) * PowerOfTen[After(n)]]) % 97

-----------------------------------------------------------------------------
Init ==
  /\ form \in Forms \cup {NoForm}
  /\ text = <<>>
  /\ edits = 0

HasForm == form # NoForm /\ text = <<>>
Built(f) == Calculate(f.country, f.bank, f.account)

Edit == edits < MaxEdits /\ edits' = edits + 1

\* A digit of the account number is written down wrong.
MistypeAccount(i, digit) ==
  /\ HasForm /\ i \in DOMAIN form.account /\ form.method # "none"
  /\ isDigit(form.account[i]) /\ digit # form.account[i]
  /\ Edit
  /\ form' = [form EXCEPT !.account[i] = digit]
  /\ UNCHANGED text

\* Leading zeros are left out of the short form.
OmitZero ==
  /\ HasForm /\ Len(form.account) > 1 /\ form.account[1] = "0"
  /\ form' = [form EXCEPT !.account = Tail(@)]
  /\ UNCHANGED <<text, edits>>

\* Faulty: returns what was assembled, refused or not.
CalculateAnyway ==
  /\ HasForm
  /\ text' = form.country \o form.bank \o form.account
  /\ UNCHANGED <<form, edits>>

handleV1Calculate ==
  /\ HasForm
  /\ Built(form).error = "none"
  /\ text' = Built(form).raw
  /\ UNCHANGED <<form, edits>>

\* A bank issues an IBAN with the check digits of the standard.
Issue(e) ==
  /\ form = NoForm /\ text = <<>>
  /\ text' = e.country \o TwoDigits(98 - Remainder(e.country \o Zeros(2) \o e.bban)) \o e.bban
  /\ UNCHANGED <<form, edits>>

Copying == text # <<>> /\ Edit /\ UNCHANGED form
KindOf(ch) == IF isDigit(ch) THEN Range(Digits) ELSE Range(Uppers)

\* A character is misread as another of its kind.
Misread(i, ch) ==
  /\ Copying
  /\ isDigit(text[i]) \/ isUpper(text[i])
  /\ ch \in KindOf(text[i]) \ {text[i]}
  /\ text' = [text EXCEPT ![i] = ch]

\* Two neighbours of a kind change places.
Swap(i) ==
  /\ Copying
  /\ i + 1 \in DOMAIN text /\ KindOf(text[i]) = KindOf(text[i + 1])
  /\ text[i] # text[i + 1]
  /\ text' = [text EXCEPT ![i] = text[i + 1], ![i + 1] = text[i]]

\* The text is grouped, or written in small letters.
Separate(i, ch) ==
  /\ Copying
  /\ text' = SubSeq(text, 1, i - 1) \o <<ch>> \o SubSeq(text, i, Len(text))

lower(ch) == IF isUpper(ch) THEN Lowers[Place(ch, Uppers)] ELSE ch
WriteSmall == Copying /\ text' = [i \in DOMAIN text |-> lower(text[i])]

Next ==
  \/ \E i \in 1..10, digit \in Range(Digits) : MistypeAccount(i, digit)
  \/ OmitZero
  \/ handleV1Calculate
  \/ \E e \in Elsewhere : Issue(e)
  \/ \E i \in DOMAIN text, ch \in Range(Digits) \cup Range(Uppers) : Misread(i, ch)
  \/ \E i \in DOMAIN text : Swap(i)
  \/ \E i \in DOMAIN text, ch \in Separators : Separate(i, ch)
  \/ WriteSmall

Spec == Init /\ [][Next]_vars

-----------------------------------------------------------------------------
\* validateV2 and accountCheck, for a bank with the method.
Accepted(s) == Parses(s) /\ Validate(s)

accountCheck(method, s) ==
  LET raw == Parse(s).raw
      account == AccountNumber(raw)
  IN  IF SubSeq(raw, 1, 2) # Germany \/ method = "none" \/ ~ CheckDigit!WellFormed(account)
        THEN "unchecked"
        ELSE CheckDigit!Validate(method, account)

Judged(f) == CheckDigit!Validate(f.method, f.account)

\* The form and the text are made of characters, and there is a text only
\* once calculate accepted the form or a bank issued it: a refusal leaves
\* none (calculateV1's error answer).
TypeOK ==
  /\ form = NoForm \/ form \in FormTexts
  /\ text \in Seq(Characters) /\ edits \in 0..MaxEdits
  /\ (text # <<>> /\ form # NoForm) => Built(form).error = "none"

\* An IBAN no one has changed is accepted: with the check digits calculate
\* gave it, and with those a bank gave it by the standard's own arithmetic,
\* for every row of the registry.
AcceptedAsIssued == (text # <<>> /\ edits = 0) => Accepted(text)

\* The IBAN calculate returns carries the bank code and the account number of
\* the form, filled up with zeros, where Parse looks for them; so the account
\* check of the IBAN is the one of the account number as it was written down.
FormRecovered ==
  (text # <<>> /\ edits = 0 /\ form # NoForm) =>
     LET bank == Normalize(form.bank)
         country == CountryOf(text)
     IN  /\ country.Code = form.country
         /\ BankCode(text) = Zeros(Width(country.BankCode) - Len(bank)) \o bank
         /\ AccountNumber(text) =
              Zeros(Width(country.Account) - Len(form.account)) \o form.account
         /\ form.country = Germany =>
              accountCheck(form.method, text) = Judged(form)

\* An account number of up to ten digits is refused only for its check digit:
\* of the ten numbers that differ in the method's check digit alone exactly one
\* is valid and nine are not, or the method says nothing of any of the ten.  The
\* package's rule that a valid account is never called invalid rests on this
\* for remainders without a digit, exempt ranges, and methods that are not
\* verified.
OneDigitFits ==
  HasForm /\ CheckDigit!WellFormed(form.account) =>
    LET account == Pad(form.account, CheckDigit!accountLength)
        pos == IF form.method \in {"28", "34", "17"} \/ (form.method = "C1" /\ account[1] # "5")
                 THEN 8 ELSE 10
        Says(verdict) == {digit \in Range(Digits) :
            CheckDigit!Validate(form.method, [account EXCEPT ![pos] = digit]) = verdict}
    IN  \/ Cardinality(Says("valid")) = 1 /\ Cardinality(Says("invalid")) = 9
        \/ Says("unchecked") = Range(Digits)

\* The positions a method reads, for the methods that read the same ones of
\* every account.
Counted(id) ==
  CASE id \in {"00", "06", "10"} -> 1..10
    [] id \in {"28", "34"} -> 1..8
    [] id = "32" -> 4..10
    [] id = "17" -> 2..8
    [] OTHER -> {}

\* A wrong digit in a valid account number is noticed, always by method 00 and
\* by the modulus 11 methods unless both numbers have check digit 0, which
\* stands for two remainders.
WrongDigitNoticed ==
  [][LET d == CheckDigit!toDigits(form.account)
         e == CheckDigit!toDigits(form'.account)
     IN  (/\ text' = <<>> /\ form # form' /\ form.method \in CheckDigit!verified
          /\ Judged(form) = "valid" /\ Judged(form') = "valid"
          /\ Len(form.account) = Len(form'.account)
          /\ \E i \in Counted(form.method) : e = [d EXCEPT ![i] = e[i]])
         => /\ form.method # "00"
            /\ CheckDigit!Method(form.method, d).expected = 0]_vars

\* One misread character, or two neighbours exchanged, makes an accepted IBAN
\* one that is not accepted (of the same kind: 1B and B1 can agree modulo 97).
SlipNoticed ==
  [][(/\ text # <<>> /\ text # text' /\ Len(text) = Len(text')
      /\ Normalize(text) # Normalize(text')
      /\ Accepted(text)) => ~ Accepted(text')]_vars

\* How the same thing is written down means nothing: leading zeros of an account
\* number that fits its field, to calculate or to the check digit methods, and
\* grouping and case of an IBAN, to the validation.
SpellingIgnored ==
  [][/\ (form # form' /\ form'.account = Tail(form.account)) =>
          /\ Built(form).error # "account number" => Built(form) = Built(form')
          /\ Len(form.account) <= CheckDigit!accountLength => Judged(form) = Judged(form')
     /\ (text # <<>> /\ (Len(text) # Len(text') \/ text' = [i \in DOMAIN text |-> lower(text[i])])) =>
          Parse(text) = Parse(text')]_vars
=============================================================================
