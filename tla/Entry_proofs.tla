---------------------------- MODULE Entry_proofs -----------------------------
(***************************************************************************)
(* Proofs about Entry, for any forms, any BBANs that banks issue and any   *)
(* number of slips: an IBAN no one changed is accepted and carries what    *)
(* the form said, a slip in it is noticed, spelling means nothing, and of  *)
(* ten account numbers that differ in the check digit one is valid.        *)
(***************************************************************************)
EXTENDS Iban_proofs

-----------------------------------------------------------------------------
\* The type invariant.

LEMMA AlphabetIs ==
  /\ \A s \in Seq(AlNum) : s \in Seq(Characters)
  /\ \A ch \in Characters : KindOf(ch) \subseteq Characters
  /\ Separators \subseteq Characters
<1>1. AlNum \subseteq Characters
  BY DEF AlNum, Characters
<1>2. \A s \in Seq(AlNum) : s \in Seq(Characters)
  BY <1>1
<1> QED  BY <1>2 DEF Characters, KindOf

\* A text in which a character stands before the i-th.
LEMMA SeparateType ==
  ASSUME NEW s \in Seq(Characters), NEW i \in DOMAIN s, NEW ch \in Characters
  PROVE  SubSeq(s, 1, i - 1) \o <<ch>> \o SubSeq(s, i, Len(s)) \in Seq(Characters)
<1> DEFINE a == SubSeq(s, 1, i - 1)
           b == SubSeq(s, i, Len(s))
<1>1. a \in Seq(Characters) /\ b \in Seq(Characters) /\ <<ch>> \in Seq(Characters)
  OBVIOUS
<1> HIDE DEF a, b
<1>2. a \o <<ch>> \in Seq(Characters)
  BY <1>1
<1>3. (a \o <<ch>>) \o b \in Seq(Characters)
  BY <1>1, <1>2
<1> QED  BY <1>3 DEF a, b

\* The type invariant, action by action.
LEMMA TypeInit == Init => TypeOK
<1> SUFFICES ASSUME Init PROVE TypeOK
  OBVIOUS
<1>1. form = NoForm \/ form \in FormTexts
  BY FormsAssumption DEF Init
<1>2. text = <<>> /\ text \in Seq(Characters)
  BY DEF Init
<1>3. edits \in 0..MaxEdits
  BY MaxEditsAssumption DEF Init
<1> QED  BY <1>1, <1>2, <1>3 DEF TypeOK

LEMMA EditType ==
  ASSUME edits \in 0..MaxEdits, Edit
  PROVE  edits' \in 0..MaxEdits /\ edits' # 0
BY MaxEditsAssumption DEF Edit

\* A slip in the text changes nothing else.
LEMMA CopyType ==
  ASSUME TypeOK, Copying, text' \in Seq(Characters)
  PROVE  TypeOK' /\ edits' # 0
<1>1. edits' \in 0..MaxEdits /\ edits' # 0
  BY EditType DEF TypeOK, Copying
<1>2. form' = form /\ text # <<>>
  BY DEF Copying
<1>3. Built(form)' = Built(form)
  BY <1>2 DEF Built
<1> QED  BY <1>1, <1>2, <1>3 DEF TypeOK

LEMMA MisreadType ==
  ASSUME TypeOK, NEW i \in DOMAIN text, NEW ch, Misread(i, ch)
  PROVE  TypeOK' /\ edits' # 0
<1>1. text \in Seq(Characters)
  BY DEF TypeOK
<1>2. text[i] \in Characters
  BY <1>1
<1>3. ch \in Characters
  BY <1>2, AlphabetIs DEF Misread
<1>4. text' = [text EXCEPT ![i] = ch]
  BY DEF Misread
<1>5. text' \in Seq(Characters)
  BY <1>1, <1>3, <1>4
<1>6. Copying
  BY DEF Misread
<1> QED  BY <1>5, <1>6, CopyType

LEMMA SwapType ==
  ASSUME TypeOK, NEW i \in DOMAIN text, Swap(i)
  PROVE  TypeOK' /\ edits' # 0
<1>1. text \in Seq(Characters)
  BY DEF TypeOK
<1>2. i + 1 \in DOMAIN text
  BY DEF Swap
<1>3. text[i] \in Characters /\ text[i + 1] \in Characters
  BY <1>1, <1>2
<1>4. text' = [text EXCEPT ![i] = text[i + 1], ![i + 1] = text[i]]
  BY DEF Swap
<1>5. text' \in Seq(Characters)
  <2>1. PICK j \in DOMAIN text : j = i + 1
    BY <1>2
  <2>2. PICK x \in Characters, y \in Characters : x = text[i] /\ y = text[j]
    BY <1>3, <2>1
  <2>3. PICK u : u = [text EXCEPT ![i] = y]
    OBVIOUS
  <2>4. u \in Seq(Characters) /\ DOMAIN u = DOMAIN text
    BY <1>1, <2>3
  <2>5. [u EXCEPT ![j] = x] \in Seq(Characters)
    BY <2>1, <2>4
  <2>6. text' = [u EXCEPT ![j] = x]
    BY <1>4, <2>1, <2>2, <2>3
  <2> QED  BY <2>5, <2>6
<1>6. Copying
  BY DEF Swap
<1> QED  BY <1>5, <1>6, CopyType

LEMMA SpellingType ==
  ASSUME TypeOK, (\E i \in DOMAIN text, ch \in Separators : Separate(i, ch)) \/ WriteSmall
  PROVE  TypeOK' /\ edits' # 0
<1>1. text \in Seq(Characters)
  BY DEF TypeOK
<1>2. ASSUME NEW i \in DOMAIN text, NEW ch \in Separators, Separate(i, ch)
      PROVE  TypeOK' /\ edits' # 0
  <2>1. ch \in Characters
    BY AlphabetIs
  <2>2. text' = SubSeq(text, 1, i - 1) \o <<ch>> \o SubSeq(text, i, Len(text)) /\ Copying
    BY <1>2, Zenon DEF Separate
  <2>3. text' \in Seq(Characters)
    BY <1>1, <2>1, <2>2, SeparateType
  <2> QED  BY <2>2, <2>3, CopyType
<1>3. ASSUME WriteSmall  PROVE TypeOK' /\ edits' # 0
  <2>1. text' = [i \in DOMAIN text |-> lower(text[i])] /\ Copying
    BY <1>3, Zenon DEF WriteSmall
  <2>2. text' \in Seq(Characters)
    BY <1>1, <2>1, NormalizeSmall
  <2> QED  BY <2>1, <2>2, CopyType
<1> QED  BY <1>2, <1>3

\* The form stays one.
LEMMA MistypeType ==
  ASSUME TypeOK, NEW i, NEW digit \in Range(Digits), MistypeAccount(i, digit)
  PROVE  TypeOK' /\ text' = <<>>
<1>1. form \in FormTexts /\ text = <<>> /\ i \in DOMAIN form.account
  BY DEF TypeOK, MistypeAccount, HasForm
<1>2. form' = [form EXCEPT !.account = [form.account EXCEPT ![i] = digit]]
  BY <1>1 DEF MistypeAccount, FormTexts
<1>3. [form.account EXCEPT ![i] = digit] \in Seq(AlNum)
  <2>1. form.account \in Seq(AlNum) /\ digit \in AlNum
    BY <1>1 DEF FormTexts, AlNum
  <2> QED  BY <1>1, <2>1
<1>4. form' \in FormTexts
  BY <1>1, <1>2, <1>3 DEF FormTexts, AlNum
<1>5. text' = <<>> /\ edits' \in 0..MaxEdits
  BY <1>1, EditType DEF MistypeAccount, TypeOK
<1> QED  BY <1>1, <1>4, <1>5 DEF TypeOK

LEMMA OmitType ==
  ASSUME TypeOK, OmitZero
  PROVE  TypeOK' /\ text' = <<>>
<1>1. form \in FormTexts /\ text = <<>>
  BY DEF TypeOK, OmitZero, HasForm
<1>2. form' = [form EXCEPT !.account = Tail(form.account)] /\ Len(form.account) > 1
  BY DEF OmitZero
<1>3. Tail(form.account) \in Seq(AlNum)
  <2>1. form.account \in Seq(AlNum)
    BY <1>1 DEF FormTexts, AlNum
  <2> QED  BY <1>2, <2>1
<1>4. form' \in FormTexts
  BY <1>1, <1>2, <1>3 DEF FormTexts, AlNum
<1>5. text' = <<>> /\ edits' \in 0..MaxEdits
  BY <1>1 DEF OmitZero, TypeOK
<1> QED  BY <1>1, <1>4, <1>5 DEF TypeOK

\* The text is what FormText says, and calculate refused nothing.
LEMMA CalculateType ==
  ASSUME TypeOK, handleV1Calculate
  PROVE  /\ TypeOK' /\ form' = form /\ form \in FormTexts
         /\ Built(form).error = "none" /\ text' = FormText(form)
<1>1. form \in FormTexts /\ Built(form).error = "none" /\ text' = Built(form).raw
      /\ form' = form /\ edits' = edits
  BY DEF TypeOK, handleV1Calculate, HasForm
<1>2. text' = FormText(form) /\ text' \in Seq(Characters)
  BY <1>1, FormTextIs, AlphabetIs
<1>3. Built(form)' = Built(form)
  BY <1>1 DEF Built
<1> QED  BY <1>1, <1>2, <1>3 DEF TypeOK

LEMMA IssueType ==
  ASSUME TypeOK, NEW e \in Elsewhere, Issue(e)
  PROVE  TypeOK' /\ form' = NoForm /\ text' = Issued(e)
<1>1. form = NoForm /\ form' = form /\ edits' = edits
  BY DEF Issue
<1>2. text' = Issued(e)
  BY Zenon DEF Issue, Issued, Numbered
<1>3. text' \in Seq(Characters)
  BY <1>2, IssuedIs, AlphabetIs
<1> QED  BY <1>1, <1>2, <1>3 DEF TypeOK

\* Every step keeps the type invariant.
LEMMA TypeStep == TypeOK /\ [Next]_vars => TypeOK'
<1> SUFFICES ASSUME TypeOK, [Next]_vars PROVE TypeOK'
  OBVIOUS
<1>1. ASSUME NEW i \in 1..10, NEW digit \in Range(Digits), MistypeAccount(i, digit)  PROVE TypeOK'
  BY <1>1, MistypeType
<1>2. CASE OmitZero
  BY <1>2, OmitType
<1>3. CASE handleV1Calculate
  BY <1>3, CalculateType
<1>4. ASSUME NEW e \in Elsewhere, Issue(e)  PROVE TypeOK'
  BY <1>4, IssueType
<1>5. ASSUME NEW i \in DOMAIN text, NEW ch, Misread(i, ch)  PROVE TypeOK'
  BY <1>5, MisreadType
<1>6. ASSUME NEW i \in DOMAIN text, Swap(i)  PROVE TypeOK'
  BY <1>6, SwapType
<1>7. CASE (\E i \in DOMAIN text, ch \in Separators : Separate(i, ch)) \/ WriteSmall
  BY <1>7, SpellingType
<1>8. CASE UNCHANGED vars
  BY <1>8 DEF vars, TypeOK, Built
<1> QED  BY <1>1, <1>2, <1>3, <1>4, <1>5, <1>6, <1>7, <1>8, Zenon DEF Next

\* The form and the text are made of characters, and there is a text only once
\* calculate accepted the form or a bank issued it (calculateV1's error answer).
THEOREM EntryTyped == Spec => []TypeOK
BY TypeInit, TypeStep, PTL DEF Spec

-----------------------------------------------------------------------------
\* Texts as issued, and slips in them.

\* A text no one has changed is what calculate made of the form, or what a bank
\* issued.
AsIssued ==
  (text # <<>> /\ edits = 0) =>
    /\ form = NoForm => \E e \in Elsewhere : text = Issued(e)
    /\ form # NoForm => text = FormText(form)

\* Every step keeps it: a slip counts as an edit.
LEMMA IssuedStep == TypeOK /\ AsIssued /\ [Next]_vars => AsIssued'
<1> SUFFICES ASSUME TypeOK, AsIssued, [Next]_vars PROVE AsIssued'
  OBVIOUS
<1>1. ASSUME NEW i \in 1..10, NEW digit \in Range(Digits), MistypeAccount(i, digit)  PROVE AsIssued'
  BY <1>1, MistypeType DEF AsIssued
<1>2. CASE OmitZero
  BY <1>2, OmitType DEF AsIssued
<1>3. CASE handleV1Calculate
  <2>1. form' = form /\ text' = FormText(form) /\ form # NoForm
    BY <1>3, CalculateType DEF handleV1Calculate, HasForm
  <2>2. FormText(form') = FormText(form)
    BY <2>1
  <2> QED  BY <2>1, <2>2 DEF AsIssued
<1>4. ASSUME NEW e \in Elsewhere, Issue(e)  PROVE AsIssued'
  <2>1. form' = NoForm /\ text' = Issued(e)
    BY <1>4, IssueType
  <2> QED  BY <2>1 DEF AsIssued
<1>5. ASSUME NEW i \in DOMAIN text, NEW ch, Misread(i, ch)  PROVE AsIssued'
  BY <1>5, MisreadType DEF AsIssued
<1>6. ASSUME NEW i \in DOMAIN text, Swap(i)  PROVE AsIssued'
  BY <1>6, SwapType DEF AsIssued
<1>7. CASE (\E i \in DOMAIN text, ch \in Separators : Separate(i, ch)) \/ WriteSmall
  BY <1>7, SpellingType DEF AsIssued
<1>8. CASE UNCHANGED vars
  BY <1>8 DEF vars, AsIssued
<1> QED  BY <1>1, <1>2, <1>3, <1>4, <1>5, <1>6, <1>7, <1>8, Zenon DEF Next

\* A normalized text of remainder 1 is accepted.
LEMMA AcceptedIf ==
  ASSUME NEW t \in Seq(AlNum), ParseError(t) = "none", mod97(t) = 1
  PROVE  Accepted(t)
<1>1. Normalize(t) = t
  BY NormalizeSame
<1>2. Parse(t).raw = t /\ Parse(t).error = "none"
  BY <1>1 DEF Parse
<1> QED  BY <1>2 DEF Accepted, Parses, Validate

\* An IBAN no one has changed is accepted, for every form and every BBAN that fits
\* its country's row: calculate's check digits, and those of the standard's own
\* arithmetic, are the ones the validation counts.
THEOREM EntryAccepted == Spec => []AcceptedAsIssued
<1>1. Init => AsIssued
  BY DEF Init, AsIssued
<1>2. TypeOK /\ AsIssued => AcceptedAsIssued
  <2> SUFFICES ASSUME TypeOK, AsIssued, text # <<>>, edits = 0  PROVE Accepted(text)
    BY DEF AcceptedAsIssued
  <2>1. CASE form = NoForm
    <3>1. PICK e \in Elsewhere : text = Issued(e)
      BY <2>1 DEF AsIssued
    <3> QED  BY <3>1, IssuedIs, AcceptedIf
  <2>2. CASE form # NoForm
    <3>1. form \in FormTexts /\ Built(form).error = "none" /\ text = FormText(form)
      BY <2>2 DEF AsIssued, TypeOK
    <3> QED  BY <3>1, FormTextIs, AcceptedIf
  <2> QED  BY <2>1, <2>2
<1> QED  BY <1>1, <1>2, IssuedStep, TypeInit, TypeStep, PTL DEF Spec

\* A step that changes what the text says, and not its length, is a slip.
LEMMA SlipStep ==
  ASSUME TypeOK, [Next]_vars, text # <<>>, text # text', Len(text) = Len(text'),
         Normalize(text) # Normalize(text'), Accepted(text)
  PROVE  ~ Accepted(text')
<1>0. text \in Seq(Characters)
  BY DEF TypeOK
<1>1. ASSUME NEW i \in 1..10, NEW digit \in Range(Digits), MistypeAccount(i, digit)  PROVE FALSE
  BY <1>1 DEF MistypeAccount, HasForm
<1>2. CASE OmitZero
  BY <1>2 DEF OmitZero, HasForm
<1>3. CASE handleV1Calculate
  BY <1>3 DEF handleV1Calculate, HasForm
<1>4. ASSUME NEW e \in Elsewhere, Issue(e)  PROVE FALSE
  BY <1>4 DEF Issue
<1>5. ASSUME NEW i \in DOMAIN text, NEW ch, Misread(i, ch)  PROVE ~ Accepted(text')
  <2>1. text' = [text EXCEPT ![i] = ch] /\ (isDigit(text[i]) \/ isUpper(text[i]))
        /\ ch \in KindOf(text[i]) \ {text[i]}
    BY <1>5 DEF Misread
  <2>2. ~ Accepted([text EXCEPT ![i] = ch])
    BY <1>0, <2>1, MisreadIs
  <2> QED  BY <2>1, <2>2
<1>6. ASSUME NEW i \in DOMAIN text, Swap(i)  PROVE ~ Accepted(text')
  <2>1. i + 1 \in DOMAIN text /\ KindOf(text[i]) = KindOf(text[i + 1]) /\ text[i] # text[i + 1]
        /\ text' = [text EXCEPT ![i] = text[i + 1], ![i + 1] = text[i]]
    BY <1>6 DEF Swap
  <2>2. Normalize(text) # Normalize([text EXCEPT ![i] = text[i + 1], ![i + 1] = text[i]])
    BY <2>1
  <2>3. ~ Accepted([text EXCEPT ![i] = text[i + 1], ![i + 1] = text[i]])
    BY <1>0, <2>1, <2>2, SwapIs
  <2> QED  BY <2>1, <2>3
<1>7. ASSUME NEW i \in DOMAIN text, NEW ch \in Separators, Separate(i, ch)  PROVE FALSE
  <2>1. PICK a, b : a = SubSeq(text, 1, i - 1) /\ b = SubSeq(text, i, Len(text))
    OBVIOUS
  <2>2. PICK n \in Nat : n = Len(text)
    BY <1>0
  <2>3. i \in 1..n
    BY <1>0, <2>2
  <2>4. a \in Seq(Characters) /\ b \in Seq(Characters) /\ Len(a) = i - 1 /\ Len(b) = n - i + 1
    BY <1>0, <2>1, <2>2, <2>3
  <2>5. PICK x : x = <<ch>>
    OBVIOUS
  <2>6. x \in Seq(Characters) /\ Len(x) = 1
    BY <2>5, AlphabetIs
  <2>7. PICK u : u = a \o x
    OBVIOUS
  <2>8. u \in Seq(Characters) /\ Len(u) = Len(a) + Len(x)
    BY <2>4, <2>6, <2>7, JoinIs DEF JoinAs
  <2>9. Len(u \o b) = Len(u) + Len(b)
    BY <2>4, <2>8, JoinIs DEF JoinAs
  <2>10. text' = u \o b
    BY <1>7, <2>1, <2>5, <2>7, Zenon DEF Separate
  <2>11. \A k \in 1..n : ((k - 1) + 1) + (n - k + 1) # n
    OBVIOUS
  <2>12. Len(text') = ((i - 1) + 1) + (n - i + 1)
    BY <2>4, <2>6, <2>8, <2>9, <2>10, Zenon
  <2> QED  BY <2>2, <2>3, <2>11, <2>12, Zenon
<1>8. CASE WriteSmall
  <2>1. text' = [i \in DOMAIN text |-> lower(text[i])]
    BY <1>8 DEF WriteSmall
  <2> QED  BY <1>0, <2>1, NormalizeSmall
<1>9. CASE UNCHANGED vars
  BY <1>9 DEF vars
<1> QED  BY <1>1, <1>2, <1>3, <1>4, <1>5, <1>6, <1>7, <1>8, <1>9, Zenon DEF Next

\* One misread character, or two neighbours of a kind exchanged, makes an accepted
\* IBAN one that is not: for every text, however it is spelled, and every row.
THEOREM EntrySlips == Spec => SlipNoticed
<1>1. TypeOK /\ [Next]_vars =>
        [(/\ text # <<>> /\ text # text' /\ Len(text) = Len(text')
          /\ Normalize(text) # Normalize(text')
          /\ Accepted(text)) => ~ Accepted(text')]_vars
  BY SlipStep
<1> QED  BY <1>1, EntryTyped, PTL DEF Spec, SlipNoticed

-----------------------------------------------------------------------------
\* The account number in an IBAN, and its check digit.

\* The account check reads digits as Parse does.
LEMMA SameAlphabet ==
  /\ CheckDigit!Digits = Digits /\ CheckDigit!DigitValue = DigitValue
  /\ \A ch : CheckDigit!isDigit(ch) <=> ch \in Range(Digits)
<1>1. CheckDigit!Digits = Digits
  BY DEF CheckDigit!Digits, Digits
<1>2. CheckDigit!Range(Digits) = Range(Digits)
  BY DEF CheckDigit!Range, Range
<1>3. \A ch : CheckDigit!Place(ch, Digits) = Place(ch, Digits)
  BY DEF CheckDigit!Place, Place
<1>4. CheckDigit!DigitValue = DigitValue
  BY <1>1, <1>2, <1>3 DEF CheckDigit!DigitValue, DigitValue
<1>5. \A ch : CheckDigit!isDigit(ch) <=> ch \in Range(Digits)
  BY <1>1, <1>2 DEF CheckDigit!isDigit
<1> QED  BY <1>1, <1>4, <1>5

\* Texts as functions.
LEMMA TextIs ==
  ASSUME NEW S, NEW a \in Seq(S), NEW n \in Nat, Len(a) = n
  PROVE  DOMAIN a = 1..n /\ a = [i \in 1..n |-> a[i]] /\ \A i \in 1..n : a[i] \in S
OBVIOUS

LEMMA TextOf ==
  ASSUME NEW S, NEW n \in Nat, NEW a, a = [i \in 1..n |-> a[i]], \A i \in 1..n : a[i] \in S
  PROVE  a \in Seq(S) /\ Len(a) = n
OBVIOUS

\* Texts of digits only.
AllDigits(a) == \A i \in DOMAIN a : a[i] \in Range(Digits)

LEMMA DigitsOnly ==
  ASSUME NEW a \in Seq(AlNum), AllDigits(a)
  PROVE  a \in Seq(Range(Digits))
<1>1. PICK n \in Nat : n = Len(a)
  OBVIOUS
<1>2. DOMAIN a = 1..n /\ a = [i \in 1..n |-> a[i]]
  BY <1>1, TextIs
<1>3. \A i \in 1..n : a[i] \in Range(Digits)
  BY <1>2 DEF AllDigits
<1> QED  BY <1>2, <1>3, TextOf

LEMMA DigitsAre ==
  ASSUME NEW a \in Seq(Range(Digits))
  PROVE  a \in Seq(AlNum) /\ AllDigits(a)
<1>1. a \in Seq(AlNum)
  BY DEF AlNum
<1>2. PICK n \in Nat : n = Len(a)
  OBVIOUS
<1>3. DOMAIN a = 1..n /\ \A i \in 1..n : a[i] \in Range(Digits)
  BY <1>2, TextIs
<1> QED  BY <1>1, <1>3 DEF AllDigits

\* u is a behind k zeros.
Behind(u, a, k) ==
  /\ u \in Seq(AlNum) /\ a \in Seq(AlNum) /\ k \in Nat
  /\ Len(u) = Len(a) + k
  /\ \A i \in 1..k : u[i] = "0"
  /\ \A i \in 1..Len(a) : u[i + k] = a[i]

LEMMA ZeroIs == "0" \in Range(Digits) /\ DigitValue["0"] = 0
<1>1. Digits[1] = "0"
  BY DEF Digits
<1>2. 0 \in 0..9 /\ 0 + 1 = 1
  OBVIOUS
<1> QED  BY <1>1, <1>2, DigitValues

\* Zeros in front make no difference to being a number.
LEMMA BehindDigits ==
  ASSUME NEW u, NEW a, NEW k, Behind(u, a, k)
  PROVE  AllDigits(u) <=> AllDigits(a)
<1>1. PICK n \in Nat : n = Len(a)
  BY DEF Behind
<1>2. u \in Seq(AlNum) /\ a \in Seq(AlNum) /\ k \in Nat /\ Len(u) = n + k
      /\ (\A i \in 1..k : u[i] = "0") /\ (\A i \in 1..n : u[i + k] = a[i])
  BY <1>1 DEF Behind
<1>3. DOMAIN a = 1..n /\ DOMAIN u = 1..(n + k)
  BY <1>1, <1>2
<1>4. ASSUME AllDigits(u), NEW i \in 1..n  PROVE a[i] \in Range(Digits)
  <2>1. i + k \in 1..(n + k)
    BY <1>2
  <2>2. u[i + k] \in Range(Digits)
    BY <1>3, <1>4, <2>1 DEF AllDigits
  <2> QED  BY <1>2, <2>2
<1>5. ASSUME AllDigits(a), NEW i \in 1..(n + k)  PROVE u[i] \in Range(Digits)
  <2>1. CASE i <= k
    <3>1. i \in 1..k
      BY <2>1
    <3> QED  BY <1>2, <3>1, ZeroIs
  <2>2. CASE i > k
    <3>1. PICK j \in 1..n : i = j + k
      <4>1. i - k \in 1..n /\ i = (i - k) + k
        BY <1>2, <2>2
      <4> QED  BY <4>1
    <3>2. a[j] \in Range(Digits)
      BY <1>3, <1>5 DEF AllDigits
    <3> QED  BY <1>2, <3>1, <3>2
  <2> QED  BY <1>2, <2>1, <2>2
<1> QED  BY <1>3, <1>4, <1>5 DEF AllDigits

\* Leading zeros mean nothing to a method.
LEMMA SameDigits ==
  ASSUME NEW u, NEW a, NEW k, Behind(u, a, k), Len(u) <= 10
  PROVE  CheckDigit!toDigits(u) = CheckDigit!toDigits(a)
<1>1. PICK n \in Nat : n = Len(a)
  BY DEF Behind
<1>2. k \in Nat /\ Len(u) = n + k /\ n + k <= 10
  BY <1>1 DEF Behind
<1> DEFINE d(s, L) == [i \in 1..10 |-> LET j == i - (10 - L) IN IF j < 1 THEN 0 ELSE DigitValue[s[j]]]
<1>3. CheckDigit!toDigits(u) = d(u, n + k) /\ CheckDigit!toDigits(a) = d(a, n)
  BY <1>1, <1>2, SameAlphabet DEF CheckDigit!toDigits, CheckDigit!accountLength
<1>4. ASSUME NEW i \in 1..10  PROVE d(u, n + k)[i] = d(a, n)[i]
  <2>1. PICK j \in Int : j = i - (10 - n)
    OBVIOUS
  <2>2. PICK h \in Int : h = i - (10 - (n + k)) /\ h = j + k
    BY <1>2, <2>1
  <2>3. d(u, n + k)[i] = IF h < 1 THEN 0 ELSE DigitValue[u[h]]
    BY <2>2
  <2>4. d(a, n)[i] = IF j < 1 THEN 0 ELSE DigitValue[a[j]]
    BY <2>1
  <2> HIDE DEF d
  <2>5. CASE j >= 1
    <3>1. j \in 1..n
      BY <1>2, <2>1, <2>5
    <3>2. u[h] = a[j]
      BY <1>1, <2>2, <3>1 DEF Behind
    <3>3. ~ (h < 1) /\ ~ (j < 1)
      BY <1>2, <2>2, <2>5
    <3> QED  BY <2>3, <2>4, <3>2, <3>3
  <2>6. CASE j < 1 /\ h >= 1
    <3>1. h \in 1..k
      BY <1>2, <2>2, <2>6
    <3>2. u[h] = "0"
      BY <3>1 DEF Behind
    <3> QED  BY <2>3, <2>4, <2>6, <3>2, ZeroIs
  <2>7. CASE h < 1
    <3>1. j < 1
      BY <1>2, <2>2, <2>7
    <3> QED  BY <2>3, <2>4, <2>7, <3>1
  <2> QED  BY <2>5, <2>6, <2>7
<1>5. d(u, n + k) = d(a, n)
  BY <1>4
<1> QED  BY <1>3, <1>5

LEMMA WellFormedIs ==
  \A a : CheckDigit!WellFormed(a) <=> Len(a) \in 1..10 /\ AllDigits(a)
BY SameAlphabet DEF CheckDigit!WellFormed, CheckDigit!accountLength, AllDigits

\* Leading zeros do not change what a method says.
LEMMA SameVerdict ==
  ASSUME NEW u, NEW a, NEW k, Behind(u, a, k), Len(a) >= 1, Len(u) <= 10, NEW id
  PROVE  CheckDigit!Validate(id, u) = CheckDigit!Validate(id, a)
<1>1. PICK n \in Nat : n = Len(a)
  BY DEF Behind
<1>2. k \in Nat /\ Len(u) = n + k /\ n + k <= 10 /\ n >= 1
  BY <1>1 DEF Behind
<1>3. Len(a) \in 1..10 /\ Len(u) \in 1..10
  <2>1. \A m \in Nat : \A j \in Nat : m + j <= 10 /\ m >= 1 => m \in 1..10 /\ m + j \in 1..10
    OBVIOUS
  <2>2. n \in 1..10 /\ n + k \in 1..10
    BY <1>2, <2>1
  <2> QED  BY <1>1, <1>2, <2>2, Zenon
<1>4. CheckDigit!WellFormed(u) <=> CheckDigit!WellFormed(a)
  BY <1>3, WellFormedIs, BehindDigits
<1>5. CheckDigit!toDigits(u) = CheckDigit!toDigits(a)
  BY SameDigits
<1> QED  BY <1>4, <1>5, Zenon DEF CheckDigit!Validate

\* The two parts of a joined text.
LEMMA PartsOfJoin ==
  ASSUME NEW p \in Seq(AlNum), NEW q \in Seq(AlNum), NEW n \in Nat, NEW m \in Nat,
         Len(p) = n, Len(q) = m
  PROVE  SubSeq(p \o q, 1, n) = p /\ SubSeq(p \o q, n + 1, n + m) = q
<1>1. PICK u : u = p \o q
  OBVIOUS
<1>2. u \in Seq(AlNum) /\ Len(u) = n + m
      /\ (\A i \in 1..n : u[i] = p[i]) /\ (\A i \in 1..m : u[i + n] = q[i])
  <2>1. u \in Seq(AlNum) /\ JoinAs(u, p, q)
    BY <1>1, JoinIs
  <2> QED  BY <2>1 DEF JoinAs
<1>3. SubSeq(u, 1, n) = p
  <2> DEFINE a == SubSeq(u, 1, n)
  <2>1. a \in Seq(AlNum) /\ Len(a) = n /\ \A i \in 1..n : a[i] = u[i]
    BY <1>2
  <2> HIDE DEF a
  <2>2. \A i \in 1..n : a[i] = p[i]
    BY <1>2, <2>1
  <2>3. a = p
    BY <2>1, <2>2, SameText
  <2> QED  BY <2>3 DEF a
<1>4. SubSeq(u, n + 1, n + m) = q
  <2> DEFINE b == SubSeq(u, n + 1, n + m)
  <2>1. b \in Seq(AlNum) /\ Len(b) = m /\ \A i \in 1..m : b[i] = u[i + n]
    <3>1. b \in Seq(AlNum) /\ Len(b) = m
      BY <1>2
    <3>2. ASSUME NEW i \in 1..m  PROVE b[i] = u[i + n]
      BY <1>2
    <3> HIDE DEF b
    <3> QED  BY <3>1, <3>2
  <2> HIDE DEF b
  <2>2. \A i \in 1..m : b[i] = q[i]
    BY <1>2, <2>1
  <2>3. b = q
    BY <2>1, <2>2, SameText
  <2> QED  BY <2>3 DEF b
<1> QED  BY <1>1, <1>3, <1>4

\* The national part of a text that calculate made, taken apart again.
LEMMA PartsFound ==
  ASSUME NEW f \in FormTexts, Built(f).error = "none"
  PROVE  /\ CountryOf(FormText(f)) = Home(f.country)
         /\ BankCode(FormText(f)) = FormBank(f) /\ AccountNumber(FormText(f)) = FormAccount(f)
<1>1. SubSeq(FormText(f), 1, 2) = f.country /\ BBAN(FormText(f)) = FormBBAN(f)
  BY FormTextIs
<1>2. CountryOf(FormText(f)) = Home(f.country)
  BY <1>1, Zenon DEF CountryOf, Home
<1>3. PICK c : c = Home(f.country) /\ RowIs(c)
  <2>1. f.country \in Codes
    BY FormTextsAre
  <2> QED  BY <2>1, HomeIs
<1>4. BuiltFrom(f)
  BY BuiltIs
<1>5. PICK b1 \in 0..27, b2 \in 0..27, a1 \in 0..27, a2 \in 0..27, N \in 11..27 :
        /\ c.BankCode[1] = b1 /\ c.BankCode[2] = b2 /\ c.Account[1] = a1 /\ c.Account[2] = a2
        /\ c.Length - 4 = N /\ b1 < b2 /\ b2 <= a1 /\ a1 < a2 /\ a2 <= N
  <2>1. PICK n \in 15..31 : n = c.Length
    BY <1>3 DEF RowIs
  <2>2. n - 4 \in 11..27
    OBVIOUS
  <2> QED  BY <1>3, <2>1, <2>2 DEF RowIs
<1>6. PICK p \in Seq(AlNum), q \in Seq(AlNum) :
        /\ p = FormBank(f) /\ q = FormAccount(f)
        /\ Len(p) = b2 - b1 /\ Len(q) = a2 - a1 /\ (b2 - b1) + (a2 - a1) = N
  BY <1>3, <1>4, <1>5 DEF BuiltFrom, Width
<1>7. b1 = 0 /\ a1 = b2 /\ a2 = N
  <2>1. (b2 - b1) + (a2 - a1) = N
    BY <1>6
  <2>2. b1 < b2 /\ b2 <= a1 /\ a1 < a2 /\ a2 <= N
    BY <1>5
  <2> QED  BY <2>1, <2>2
<1>8. Len(p) = b2 /\ Len(q) = N - b2
  BY <1>6, <1>7
<1>9. PICK u : u = p \o q /\ u = BBAN(FormText(f))
  BY <1>1, <1>6 DEF FormBBAN
<1>10. Len(u) = N
  <2>1. Len(u) = Len(p) + Len(q)
    BY <1>9, JoinIs DEF JoinAs
  <2> QED  BY <1>8, <2>1
<1>11. PICK m \in Nat : m = N - b2 /\ b2 + m = N
  BY <1>5
<1>12. SubSeq(u, 1, b2) = p /\ SubSeq(u, b2 + 1, b2 + m) = q
  <2>1. Len(p) = b2 /\ Len(q) = m /\ b2 \in Nat
    BY <1>8, <1>11
  <2>2. SubSeq(p \o q, 1, b2) = p /\ SubSeq(p \o q, b2 + 1, b2 + m) = q
    BY <2>1, PartsOfJoin
  <2> QED  BY <1>9, <2>2, Zenon
<1>13. BankCode(FormText(f)) = extract(c.BankCode, u) /\ AccountNumber(FormText(f)) = extract(c.Account, u)
  BY <1>2, <1>3, <1>9, Zenon DEF BankCode, AccountNumber
<1>14. extract(c.BankCode, u) = SubSeq(u, 1, b2)
  <2>1. c.BankCode[2] > c.BankCode[1] /\ c.BankCode[2] <= Len(u) /\ c.BankCode[1] + 1 = 1
    BY <1>5, <1>7, <1>10
  <2> QED  BY <1>5, <2>1, Zenon DEF extract, known
<1>15. extract(c.Account, u) = SubSeq(u, b2 + 1, b2 + m)
  <2>1. c.Account[2] > c.Account[1] /\ c.Account[2] <= Len(u) /\ c.Account[1] = b2 /\ c.Account[2] = b2 + m
    BY <1>5, <1>7, <1>10, <1>11
  <2> QED  BY <2>1, Zenon DEF extract, known
<1> QED  BY <1>2, <1>6, <1>12, <1>13, <1>14, <1>15

\* Germany has one row, with ten characters of account number, and only digits.
LEMMA GermanRow ==
  \A c \in registry : c.Code = Germany =>
    c.Account = <<8, 18>> /\ c.BBAN = expandStructure(<<<<8, "n">>, <<10, "n">>>>)
BY SMTT(100) DEF registry, Row, Germany

LEMMA GermanBBAN ==
  LET b == expandStructure(<<<<8, "n">>, <<10, "n">>>>)
  IN  Len(b) = 18 /\ \A i \in 1..18 : b[i] = "n"
<1>1. PICK p, q : p = [i \in 1..8 |-> "n"] /\ q = [i \in 1..10 |-> "n"]
  OBVIOUS
<1>2. PICK s : s = <<p, q>>
  OBVIOUS
<1>3. Len(s) = 2 /\ s[1] = p /\ s[2] = q
  BY <1>2
<1>4. DOMAIN s = 1..2 /\ s = [i \in 1..2 |-> s[i]]
  BY <1>2
<1> DEFINE Joined(r) == [i \in 1..Len(s) |-> IF i = 1 THEN s[i] ELSE r[i - 1] \o s[i]]
           f == CHOOSE r : r = Joined(r)
<1>5. f[2] = p \o q
  <2> DEFINE r == [i \in 1..2 |-> IF i = 1 THEN p ELSE p \o q]
  <2>1. r = Joined(r)
    BY <1>3
  <2>2. f = Joined(f)
    BY <2>1
  <2> HIDE DEF f
  <2>3. f = [i \in 1..2 |-> IF i = 1 THEN s[i] ELSE f[i - 1] \o s[i]]
    BY <1>3, <2>2
  <2>4. f[1] = p /\ f[2] = f[1] \o q
    BY <1>3, <2>3
  <2> QED  BY <2>4
<1>6. SequencesExt!FlattenSeq(s) = f[2]
  BY <1>3 DEF SequencesExt!FlattenSeq
<1> HIDE DEF f
<1> DEFINE runs == <<<<8, "n">>, <<10, "n">>>>
<1>7. [i \in DOMAIN runs |-> [j \in 1..runs[i][1] |-> runs[i][2]]] = s
  <2>1. DOMAIN runs = 1..2 /\ runs[1] = <<8, "n">> /\ runs[2] = <<10, "n">>
    OBVIOUS
  <2>2. \A i \in 1..2 : [j \in 1..runs[i][1] |-> runs[i][2]] = s[i]
    <3>1. [j \in 1..runs[1][1] |-> runs[1][2]] = s[1]
      BY <1>1, <1>3, <2>1
    <3>2. [j \in 1..runs[2][1] |-> runs[2][2]] = s[2]
      BY <1>1, <1>3, <2>1
    <3>3. \A i \in 1..2 : i = 1 \/ i = 2
      OBVIOUS
    <3> QED  BY <3>1, <3>2, <3>3, Zenon
  <2> HIDE DEF runs
  <2> QED  BY <1>4, <2>1, <2>2
<1>8. expandStructure(runs) = p \o q
  BY <1>5, <1>6, <1>7, Zenon DEF expandStructure
<1>9. PICK u : u = p \o q
  OBVIOUS
<1>10. u \in Seq({"n"}) /\ Len(u) = 18
  <2>1. 8 \in Nat /\ 10 \in Nat
    OBVIOUS
  <2>2. p = [i \in 1..8 |-> p[i]] /\ \A i \in 1..8 : p[i] \in {"n"}
    BY <1>1
  <2>3. q = [i \in 1..10 |-> q[i]] /\ \A i \in 1..10 : q[i] \in {"n"}
    BY <1>1
  <2>4. p \in Seq({"n"}) /\ q \in Seq({"n"}) /\ Len(p) = 8 /\ Len(q) = 10
    BY <2>1, <2>2, <2>3, TextOf
  <2>5. u \in Seq({"n"}) /\ JoinAs(u, p, q)
    BY <1>9, <2>4, JoinIs
  <2> QED  BY <2>4, <2>5 DEF JoinAs
<1>11. \A i \in 1..18 : u[i] = "n"
  <2> TAKE i \in 1..18
  <2>1. 18 \in Nat
    OBVIOUS
  <2>2. u[i] \in {"n"}
    BY <1>10, <2>1, TextIs
  <2> QED  BY <2>2
<1> QED  BY <1>8, <1>9, <1>10, <1>11

\* A text without an error has its country's structure.
LEMMA StructureIs ==
  ASSUME NEW s, ParseError(s) = "none", NEW c \in Lookup(SubSeq(s, 1, 2))
  PROVE  checkStructure(c, BBAN(s))
<1>1. /\ "too short" # "none" /\ "too long" # "none" /\ "country code" # "none"
      /\ "check digits" # "none" /\ "unknown country" # "none" /\ "length" # "none"
      /\ "structure" # "none"
  OBVIOUS
<1>2. ~ (Len(s) < 4) /\ ~ (Len(s) > MaxLength) /\ isUpper(s[1]) /\ isUpper(s[2])
      /\ isDigit(s[3]) /\ isDigit(s[4])
  BY <1>1, Zenon DEF ParseError
<1> DEFINE rows == Lookup(SubSeq(s, 1, 2))
<1>3. rows # {} /\ ~ (\E b \in rows : Len(s) # b.Length)
      /\ ~ (\E b \in rows : ~ checkStructure(b, BBAN(s)))
  BY <1>1, <1>2, Zenon DEF ParseError
<1> QED  BY <1>3

\* calculate asks for an account number.
LEMMA BuiltNeeds ==
  ASSUME NEW f \in FormTexts, Built(f).error = "none"
  PROVE  f.account # <<>>
<1>1. Normalize(f.account) = f.account
  BY FormTextsAre
<1>2. Lookup(f.country) # {}
  BY FormTextsAre, HomeIs
<1>3. ASSUME f.account = <<>>  PROVE Built(f) = Refused("required")
  BY <1>1, <1>2, <1>3, Zenon DEF Built, Calculate
<1>4. Refused("required").error # "none"
  BY DEF Refused
<1> QED  BY <1>3, <1>4

\* In Germany the account number found is the one on the form behind zeros.
LEMMA GermanAccount ==
  ASSUME NEW f \in FormTexts, Built(f).error = "none", f.country = Germany
  PROVE  \E k : Behind(FormAccount(f), f.account, k) /\ Len(FormAccount(f)) = 10 /\ Len(f.account) >= 1
<1>1. PICK c : c = Home(f.country) /\ c \in registry /\ c.Code = f.country
  BY FormTextsAre, HomeIs
<1>2. c.Account = <<8, 18>>
  BY <1>1, GermanRow
<1>3. Width(c.Account) = 10
  BY <1>2 DEF Width
<1>4. f.account \in Seq(AlNum) /\ f.account # <<>>
  BY BuiltNeeds DEF FormTexts, AlNum
<1>5. PICK n \in Nat : n = Len(f.account) /\ n >= 1
  BY <1>4
<1>6. n <= 10
  BY <1>1, <1>3, <1>5, BuiltIs DEF BuiltFrom
<1>7. PICK k \in Nat : k = 10 - n
  BY <1>6
<1>8. PICK z : z = Zeros(k) /\ z \in Seq(AlNum) /\ Len(z) = k /\ \A i \in 1..k : z[i] = "0"
  <2>1. Len(Zeros(k)) = IF k > 0 THEN k ELSE 0
    BY ZerosIs
  <2>2. Len(Zeros(k)) = k
    BY <2>1
  <2> QED  BY <2>2, ZerosIs
<1>9. PICK u : u = z \o f.account
  OBVIOUS
<1>10. u \in Seq(AlNum) /\ JoinAs(u, z, f.account)
  BY <1>4, <1>8, <1>9, JoinIs
<1>11. FormAccount(f) = u
  BY <1>1, <1>3, <1>5, <1>7, <1>8, <1>9 DEF FormAccount
<1>12. Behind(u, f.account, k)
  <2>1. Len(u) = Len(f.account) + k
    BY <1>5, <1>8, <1>10 DEF JoinAs
  <2>2. \A i \in 1..k : u[i] = "0"
    BY <1>8, <1>10 DEF JoinAs
  <2>3. \A i \in 1..Len(f.account) : u[i + k] = f.account[i]
    BY <1>8, <1>10 DEF JoinAs
  <2> QED  BY <1>4, <1>10, <2>1, <2>2, <2>3 DEF Behind
<1>13. Len(u) = 10
  BY <1>5, <1>6, <1>7, <1>12 DEF Behind
<1> QED  BY <1>5, <1>11, <1>12, <1>13

\* Only digits pass the structure.
LEMMA GermanDigits ==
  ASSUME NEW f \in FormTexts, Built(f).error = "none", f.country = Germany
  PROVE  AllDigits(FormAccount(f))
<1>1. PICK c : c = Home(f.country) /\ c \in registry /\ c \in Lookup(f.country) /\ c.Code = f.country
  BY FormTextsAre, HomeIs
<1>2. PICK b : b = c.BBAN /\ Len(b) = 18 /\ \A i \in 1..18 : b[i] = "n"
  BY <1>1, GermanRow, GermanBBAN
<1>3. checkStructure(c, FormBBAN(f))
  <2>1. /\ ParseError(FormText(f)) = "none" /\ SubSeq(FormText(f), 1, 2) = f.country
        /\ BBAN(FormText(f)) = FormBBAN(f)
    BY FormTextIs
  <2>2. checkStructure(c, BBAN(FormText(f)))
    BY <1>1, <2>1, StructureIs
  <2> QED  BY <2>1, <2>2
<1>4. PICK p \in Seq(AlNum), q \in Seq(AlNum), u \in Seq(AlNum) :
        p = FormBank(f) /\ q = FormAccount(f) /\ u = FormBBAN(f) /\ JoinAs(u, p, q)
  <2>1. FormBank(f) \in Seq(AlNum) /\ FormAccount(f) \in Seq(AlNum)
    BY BuiltIs DEF BuiltFrom
  <2> QED  BY <2>1, JoinIs DEF FormBBAN
<1>5. b # <<>>
  BY <1>2
<1>6. Len(u) = 18 /\ \A i \in 1..18 : accepts("n", u[i])
  <2>1. Len(u) = 18 /\ \A i \in DOMAIN u : accepts(b[i], u[i])
    BY <1>2, <1>3, <1>4, <1>5 DEF checkStructure
  <2>2. DOMAIN u = 1..18
    BY <2>1
  <2> QED  BY <1>2, <2>1, <2>2
<1>7. \A i \in 1..18 : u[i] \in Range(Digits)
  BY <1>6 DEF accepts, isDigit
<1>8. PICK n \in Nat : n = Len(p)
  OBVIOUS
<1>9. PICK m \in Nat : m = Len(q) /\ n + m = 18
  <2>1. Len(u) = Len(p) + Len(q) /\ Len(q) \in Nat
    BY <1>4 DEF JoinAs
  <2> QED  BY <1>6, <1>8, <2>1
<1>10. ASSUME NEW i \in 1..m  PROVE q[i] \in Range(Digits)
  <2>1. i + n \in 1..18
    BY <1>9
  <2>2. u[i + n] = q[i]
    BY <1>4, <1>8, <1>9 DEF JoinAs
  <2> QED  BY <1>7, <2>1, <2>2
<1>11. DOMAIN q = 1..m
  BY <1>9
<1> QED  BY <1>4, <1>10, <1>11 DEF AllDigits

\* A German account number in an IBAN is judged as it was written down.
LEMMA GermanCheck ==
  ASSUME NEW f \in FormTexts, Built(f).error = "none", f.country = Germany
  PROVE  accountCheck(f.method, FormText(f)) = Judged(f)
<1>1. PICK k : Behind(FormAccount(f), f.account, k) /\ Len(FormAccount(f)) = 10 /\ Len(f.account) >= 1
  BY GermanAccount
<1>2. Len(FormAccount(f)) <= 10
  BY <1>1
<1>3. /\ CheckDigit!Validate(f.method, FormAccount(f)) = CheckDigit!Validate(f.method, f.account)
      /\ CheckDigit!WellFormed(FormAccount(f))
  <2>1. Len(FormAccount(f)) \in 1..10
    BY <1>1
  <2>2. CheckDigit!WellFormed(FormAccount(f))
    BY <2>1, GermanDigits, WellFormedIs
  <2> QED  BY <1>1, <1>2, <2>2, SameVerdict
<1>4. /\ FormText(f) \in Seq(AlNum) /\ SubSeq(FormText(f), 1, 2) = Germany
      /\ AccountNumber(FormText(f)) = FormAccount(f)
  BY FormTextIs, PartsFound
<1>5. Parse(FormText(f)).raw = FormText(f)
  BY <1>4, NormalizeSame DEF Parse
<1>6. CheckDigit!Validate("none", f.account) = "unchecked"
  BY DEF CheckDigit!Validate, CheckDigit!implemented, CheckDigit!verified
<1> QED  BY <1>3, <1>4, <1>5, <1>6, Zenon DEF accountCheck, Judged

\* Calculate's IBAN holds bank code and account number where Parse looks for them,
\* for every form; in Germany it is judged as the account number is.
THEOREM EntryRecovered == Spec => []FormRecovered
<1>1. Init => AsIssued
  BY DEF Init, AsIssued
<1>2. TypeOK /\ AsIssued => FormRecovered
  <2> SUFFICES ASSUME TypeOK, AsIssued, text # <<>>, edits = 0, form # NoForm
               PROVE  LET bank == Normalize(form.bank)
                          country == CountryOf(text)
                      IN  /\ country.Code = form.country
                          /\ BankCode(text) = Zeros(Width(country.BankCode) - Len(bank)) \o bank
                          /\ AccountNumber(text) =
                               Zeros(Width(country.Account) - Len(form.account)) \o form.account
                          /\ form.country = Germany => accountCheck(form.method, text) = Judged(form)
    BY Zenon DEF FormRecovered
  <2>1. form \in FormTexts /\ Built(form).error = "none" /\ text = FormText(form)
    BY DEF AsIssued, TypeOK
  <2>2. CountryOf(text) = Home(form.country) /\ BankCode(text) = FormBank(form)
        /\ AccountNumber(text) = FormAccount(form)
    BY <2>1, PartsFound
  <2>3. Home(form.country).Code = form.country
    BY <2>1, FormTextsAre, HomeIs
  <2>4. form.country = Germany => accountCheck(form.method, text) = Judged(form)
    BY <2>1, GermanCheck
  <2> QED  BY <2>2, <2>3, <2>4, Zenon DEF FormBank, FormAccount
<1> QED  BY <1>1, <1>2, IssuedStep, TypeInit, TypeStep, PTL DEF Spec

-----------------------------------------------------------------------------
\* Grouping, case and leading zeros.

\* A text is what comes before its i-th character and what comes from there.
LEMMA Divided ==
  ASSUME NEW s \in Seq(Characters), NEW i \in DOMAIN s
  PROVE  \E a \in Seq(Characters), b \in Seq(Characters) :
           a = SubSeq(s, 1, i - 1) /\ b = SubSeq(s, i, Len(s)) /\ a \o b = s
<1>1. PICK k \in Nat : i = k + 1
  <2>1. i \in 1..Len(s)
    OBVIOUS
  <2>2. i - 1 \in Nat /\ i = (i - 1) + 1
    BY <2>1
  <2> QED  BY <2>2
<1>2. PICK m \in Nat : Len(s) = k + m
  <2>1. PICK n \in Nat : n = Len(s)
    OBVIOUS
  <2>2. k + 1 \in 1..n
    BY <1>1, <2>1
  <2>3. n - k \in Nat /\ n = k + (n - k)
    BY <2>2
  <2> QED  BY <2>1, <2>3
<1> DEFINE a == SubSeq(s, 1, k)
           b == SubSeq(s, k + 1, k + m)
<1>3. a \in Seq(Characters) /\ Len(a) = k /\ \A j \in 1..k : a[j] = s[j]
  BY <1>2
<1>4. b \in Seq(Characters) /\ Len(b) = m /\ \A j \in 1..m : b[j] = s[j + k]
  <2>1. b \in Seq(Characters) /\ Len(b) = m
    BY <1>2
  <2>2. ASSUME NEW j \in 1..m  PROVE b[j] = s[j + k]
    BY <1>2
  <2> HIDE DEF b
  <2> QED  BY <2>1, <2>2
<1>5. a = SubSeq(s, 1, i - 1) /\ b = SubSeq(s, i, Len(s))
  <2>1. i - 1 = k
    BY <1>1
  <2> QED  BY <1>1, <1>2, <2>1
<1> HIDE DEF a, b
<1>6. PICK u : u = a \o b
  OBVIOUS
<1>7. u \in Seq(Characters) /\ JoinAs(u, a, b)
  BY <1>3, <1>4, <1>6, JoinIs
<1>8. Len(u) = k + m /\ (\A j \in 1..k : u[j] = a[j]) /\ (\A j \in 1..m : u[j + k] = b[j])
  BY <1>3, <1>4, <1>7 DEF JoinAs
<1>9. \A j \in 1..(k + m) : u[j] = s[j]
  <2> TAKE j \in 1..(k + m)
  <2>1. CASE j <= k
    <3>1. j \in 1..k
      BY <2>1
    <3> QED  BY <1>3, <1>8, <3>1
  <2>2. CASE ~ (j <= k)
    <3>1. PICK h \in 1..m : h + k = j
      <4>1. j - k \in 1..m /\ (j - k) + k = j
        BY <2>2
      <4> QED  BY <4>1
    <3>2. u[h + k] = b[h] /\ b[h] = s[h + k]
      BY <1>4, <1>8
    <3> QED  BY <3>1, <3>2
  <2> QED  BY <2>1, <2>2
<1>10. u = s
  BY <1>2, <1>7, <1>8, <1>9, SameText
<1> QED  BY <1>3, <1>4, <1>5, <1>6, <1>10

\* Normalize drops a separator wherever it stands.
LEMMA SeparateIs ==
  ASSUME NEW s \in Seq(Characters), NEW i \in DOMAIN s, NEW ch \in Separators
  PROVE  Normalize(SubSeq(s, 1, i - 1) \o <<ch>> \o SubSeq(s, i, Len(s))) = Normalize(s)
<1>1. PICK a \in Seq(Characters), b \in Seq(Characters) :
        a = SubSeq(s, 1, i - 1) /\ b = SubSeq(s, i, Len(s)) /\ a \o b = s
  BY Divided
<1>2. PICK x \in Seq(Characters) : x = <<ch>> /\ Normalize(x) = <<>>
  <2>1. ch \in Characters
    BY AlphabetIs
  <2>2. <<ch>> \in Seq(Characters)
    BY <2>1
  <2>3. Normalize(<<ch>>) = <<>>
    BY <2>1, NormalizeOne
  <2> QED  BY <2>2, <2>3
<1>3. PICK y \in Seq(Characters) : y = a \o x
  BY <1>1, <1>2, JoinIs
<1>4. PICK p \in Seq(AlNum), q \in Seq(AlNum) : p = Normalize(a) /\ q = Normalize(b)
  BY NormalizeType
<1>5. Normalize(y) = p \o <<>>
  BY <1>2, <1>3, <1>4, NormalizeParts, ZenonT(60)
<1>6. p \o <<>> = p
  OBVIOUS
<1>7. Normalize(y \o b) = p \o q
  BY <1>4, <1>5, <1>6, NormalizeParts, ZenonT(60)
<1>8. Normalize(a \o b) = p \o q
  BY <1>4, NormalizeParts, ZenonT(60)
<1> QED  BY <1>1, <1>2, <1>3, <1>7, <1>8, Zenon

\* A text of another length, or in small letters, was only spelled differently.
LEMMA TextSpelled ==
  ASSUME TypeOK, [Next]_vars, text # <<>>,
         Len(text) # Len(text') \/ text' = [i \in DOMAIN text |-> lower(text[i])]
  PROVE  Parse(text) = Parse(text')
<1>0. text \in Seq(Characters)
  BY DEF TypeOK
<1>1. SUFFICES Normalize(text) = Normalize(text')
  BY <1>1 DEF Parse
<1>2. CASE text' = [i \in DOMAIN text |-> lower(text[i])]
  BY <1>0, <1>2, NormalizeSmall
<1>3. CASE Len(text) # Len(text')
  <2>1. ASSUME NEW i \in 1..10, NEW digit \in Range(Digits), MistypeAccount(i, digit)  PROVE FALSE
    BY <2>1 DEF MistypeAccount, HasForm
  <2>2. CASE OmitZero
    BY <2>2 DEF OmitZero, HasForm
  <2>3. CASE handleV1Calculate
    BY <2>3 DEF handleV1Calculate, HasForm
  <2>4. ASSUME NEW e \in Elsewhere, Issue(e)  PROVE FALSE
    BY <2>4 DEF Issue
  <2>5. ASSUME NEW i \in DOMAIN text, NEW ch, Misread(i, ch)  PROVE FALSE
    <3>1. text' = [text EXCEPT ![i] = ch]
      BY <2>5 DEF Misread
    <3>2. DOMAIN text' = DOMAIN text /\ text' \in Seq(Characters)
      BY <2>5, <3>1, MisreadType DEF TypeOK
    <3> QED  BY <1>0, <1>3, <3>2
  <2>6. ASSUME NEW i \in DOMAIN text, Swap(i)  PROVE FALSE
    <3>1. text' = [text EXCEPT ![i] = text[i + 1], ![i + 1] = text[i]]
      BY <2>6 DEF Swap
    <3>2. DOMAIN text' = DOMAIN text /\ text' \in Seq(Characters)
      BY <2>6, <3>1, SwapType DEF TypeOK
    <3> QED  BY <1>0, <1>3, <3>2
  <2>7. ASSUME NEW i \in DOMAIN text, NEW ch \in Separators, Separate(i, ch)
        PROVE  Normalize(text) = Normalize(text')
    <3>1. text' = SubSeq(text, 1, i - 1) \o <<ch>> \o SubSeq(text, i, Len(text))
      BY <2>7, Zenon DEF Separate
    <3>2. Normalize(SubSeq(text, 1, i - 1) \o <<ch>> \o SubSeq(text, i, Len(text))) = Normalize(text)
      BY <1>0, SeparateIs
    <3> QED  BY <3>1, <3>2, Zenon
  <2>8. CASE WriteSmall
    <3>1. text' = [i \in DOMAIN text |-> lower(text[i])]
      BY <2>8 DEF WriteSmall
    <3> QED  BY <1>0, <3>1, NormalizeSmall
  <2>9. CASE UNCHANGED vars
    BY <1>3, <2>9 DEF vars
  <2> QED  BY <2>1, <2>2, <2>3, <2>4, <2>5, <2>6, <2>7, <2>8, <2>9, Zenon DEF Next
<1> QED  BY <1>2, <1>3

\* Calculate reads the account number only to fill it up with zeros.
LEMMA BuiltBy ==
  ASSUME NEW f \in FormTexts
  PROVE  LET c == Home(f.country)
             bank == Normalize(f.bank)
         IN  Built(f) = IF bank = <<>> \/ f.account = <<>> THEN Refused("required")
                        ELSE IF Len(bank) > Width(c.BankCode) THEN Refused("bank code")
                        ELSE IF Width(c.Account) < Len(f.account) THEN Refused("account number")
                        ELSE Assemble(c, bank, f.account)
<1> DEFINE c == Home(f.country)
           bank == Normalize(f.bank)
<1>1. Normalize(f.account) = f.account /\ f.country \in Codes
  BY FormTextsAre
<1>2. Lookup(f.country) # {} /\ RowIs(c)
  BY <1>1, HomeIs
<1>3. known(c.BankCode) /\ known(c.Account)
  BY <1>2 DEF RowIs, known
<1>4. \A b : AccountLen(c, b) = Width(c.Account)
  BY <1>3 DEF AccountLen
<1>5. ~ (Width(c.Account) < 1)
  BY <1>2 DEF RowIs, Width
<1> QED  BY <1>1, <1>2, <1>3, <1>4, <1>5, Zenon DEF Built, Calculate, Home

\* What is assembled depends on the filled up account number only.
LEMMA AssembleBy ==
  ASSUME NEW c, RowIs(c), NEW bank, NEW x, NEW y, Pad(x, Width(c.Account)) = Pad(y, Width(c.Account))
  PROVE  Assemble(c, bank, x) = Assemble(c, bank, y)
<1>1. known(c.Account)
  BY DEF RowIs, known
<1>2. \A b : AccountLen(c, b) = Width(c.Account)
  BY <1>1 DEF AccountLen
<1> DEFINE b == padTo(bank, c.BankCode)
           A(bban) == IF Len(bban) # BBANLength(c) THEN Refused("length")
                      ELSE Parse(c.Code \o TwoDigits(98 - mod97(c.Code \o Zeros(2) \o bban)) \o bban)
<1>3. \A v : Assemble(c, bank, v) = A(b \o Pad(v, AccountLen(c, b)))
  BY Zenon DEF Assemble
<1> HIDE DEF A, b
<1>4. b \o Pad(x, AccountLen(c, b)) = b \o Pad(y, AccountLen(c, b))
  <2>1. PICK w : w = AccountLen(c, b) /\ w = Width(c.Account)
    BY <1>2
  <2>2. Pad(x, w) = Pad(y, w)
    BY <2>1
  <2> QED  BY <2>1, <2>2
<1> QED  BY <1>3, <1>4, Zenon

\* A number without its leading zero.
LEMMA TailIs ==
  ASSUME NEW s \in Seq(AlNum), Len(s) > 1, s[1] = "0"
  PROVE  Behind(s, Tail(s), 1) /\ Len(Tail(s)) >= 1
<1>1. PICK n \in Nat : Len(s) = n + 1 /\ n >= 1
  <2>1. PICK m \in Nat : m = Len(s) /\ m > 1
    OBVIOUS
  <2>2. m - 1 \in Nat /\ m = (m - 1) + 1 /\ m - 1 >= 1
    BY <2>1
  <2> QED  BY <2>1, <2>2
<1>2. Tail(s) \in Seq(AlNum) /\ Len(Tail(s)) = n /\ \A i \in 1..n : Tail(s)[i] = s[i + 1]
  BY <1>1
<1>3. \A i \in 1..1 : s[i] = "0"
  <2>1. \A i \in 1..1 : i = 1
    OBVIOUS
  <2> QED  BY <2>1, Zenon
<1> QED  BY <1>1, <1>2, <1>3 DEF Behind

\* Filled up, they are the same.
LEMMA SamePad ==
  ASSUME NEW u, NEW a, Behind(u, a, 1), NEW w \in Nat, Len(u) <= w
  PROVE  Pad(u, w) = Pad(a, w)
<1>1. PICK n \in Nat : n = Len(a) /\ Len(u) = n + 1
  BY DEF Behind
<1>2. u \in Seq(AlNum) /\ a \in Seq(AlNum)
  BY DEF Behind
<1>3. PICK k \in Nat : w = k + (n + 1)
  <2>1. w - (n + 1) \in Nat /\ w = (w - (n + 1)) + (n + 1)
    BY <1>1
  <2> QED  BY <2>1
<1>4. PICK p, q : p = Zeros(k) \o u /\ q = Zeros(k + 1) \o a
  OBVIOUS
<1>5. Pad(u, w) = p /\ Pad(a, w) = q
  <2>1. w - (n + 1) = k /\ w - n = k + 1
    BY <1>3
  <2> QED  BY <1>1, <1>4, <2>1 DEF Pad
<1>6. PICK z, y : z = Zeros(k) /\ y = Zeros(k + 1)
  OBVIOUS
<1>7. z \in Seq(AlNum) /\ Len(z) = k /\ \A i \in 1..k : z[i] = "0"
  <2>1. Len(Zeros(k)) = IF k > 0 THEN k ELSE 0
    BY ZerosIs
  <2>2. Len(Zeros(k)) = k
    BY <2>1
  <2>3. Zeros(k) \in Seq(AlNum) /\ \A i \in 1..k : Zeros(k)[i] = "0"
    BY <2>2, ZerosIs
  <2> QED  BY <1>6, <2>2, <2>3, Zenon
<1>8. y \in Seq(AlNum) /\ Len(y) = k + 1 /\ \A i \in 1..(k + 1) : y[i] = "0"
  <2>1. PICK h \in Nat : h = k + 1
    OBVIOUS
  <2>2. Len(Zeros(h)) = IF h > 0 THEN h ELSE 0
    BY ZerosIs
  <2>3. Len(Zeros(h)) = h
    BY <2>2
  <2>4. Zeros(h) \in Seq(AlNum) /\ \A i \in 1..h : Zeros(h)[i] = "0"
    BY <2>3, ZerosIs
  <2> QED  BY <1>6, <2>1, <2>3, <2>4
<1>9. p \in Seq(AlNum) /\ q \in Seq(AlNum) /\ JoinAs(p, z, u) /\ JoinAs(q, y, a)
  BY <1>2, <1>4, <1>6, <1>7, <1>8, JoinIs
<1>10. Len(p) = k + (n + 1) /\ (\A i \in 1..k : p[i] = "0") /\ (\A i \in 1..(n + 1) : p[i + k] = u[i])
  BY <1>1, <1>7, <1>9 DEF JoinAs
<1>11. Len(q) = (k + 1) + n /\ (\A i \in 1..(k + 1) : q[i] = "0")
       /\ (\A i \in 1..n : q[i + (k + 1)] = a[i])
  BY <1>1, <1>8, <1>9 DEF JoinAs
<1>12. u[1] = "0" /\ \A i \in 1..n : u[i + 1] = a[i]
  <2>1. 1 \in 1..1
    OBVIOUS
  <2> QED  BY <1>1, <2>1 DEF Behind
<1>13. \A i \in 1..(k + (n + 1)) : p[i] = q[i]
  <2> TAKE i \in 1..(k + (n + 1))
  <2>1. CASE i <= k
    <3>1. i \in 1..k /\ i \in 1..(k + 1)
      BY <2>1
    <3> QED  BY <1>10, <1>11, <3>1
  <2>2. CASE i = k + 1
    <3>1. 1 \in 1..(n + 1) /\ i = 1 + k /\ i \in 1..(k + 1)
      BY <2>2
    <3>2. p[1 + k] = u[1]
      BY <1>10, <3>1
    <3> QED  BY <1>11, <1>12, <3>1, <3>2
  <2>3. CASE i > k + 1
    <3>1. PICK j \in 1..n : i = j + (k + 1)
      <4>1. i - (k + 1) \in 1..n /\ i = (i - (k + 1)) + (k + 1)
        BY <2>3
      <4> QED  BY <4>1
    <3>2. PICK h \in 1..(n + 1) : h = j + 1 /\ i = h + k
      BY <3>1
    <3>3. p[h + k] = u[h] /\ u[h] = a[j] /\ q[j + (k + 1)] = a[j]
      BY <1>10, <1>11, <1>12, <3>2
    <3> QED  BY <3>1, <3>2, <3>3
  <2> QED  BY <2>1, <2>2, <2>3
<1>14. Len(p) = Len(q)
  BY <1>10, <1>11
<1>15. p = q
  BY <1>9, <1>10, <1>13, <1>14, SameText
<1> QED  BY <1>5, <1>15

\* A leading zero that fits the field, left out of the form, changes nothing.
LEMMA FormSpelled ==
  ASSUME TypeOK, [Next]_vars, form # form', form'.account = Tail(form.account)
  PROVE  /\ Built(form).error # "account number" => Built(form) = Built(form')
         /\ Len(form.account) <= CheckDigit!accountLength => Judged(form) = Judged(form')
<1>1. ASSUME NEW i \in 1..10, NEW digit \in Range(Digits), MistypeAccount(i, digit)  PROVE FALSE
  <2>1. form \in FormTexts /\ i \in DOMAIN form.account
        /\ form' = [form EXCEPT !.account = [form.account EXCEPT ![i] = digit]]
    BY <1>1 DEF MistypeAccount, HasForm, TypeOK, FormTexts
  <2>2. form.account \in Seq(AlNum)
    BY <2>1 DEF FormTexts, AlNum
  <2>3. form'.account = [form.account EXCEPT ![i] = digit]
    BY <2>1 DEF FormTexts
  <2>4. DOMAIN form'.account = DOMAIN form.account
    BY <2>2, <2>3
  <2>5. PICK n \in Nat : n = Len(form.account) /\ n >= 1
    BY <2>1, <2>2
  <2>6. DOMAIN Tail(form.account) = 1..(n - 1) /\ DOMAIN form.account = 1..n
    BY <2>2, <2>5
  <2>7. n \in 1..n /\ n \notin 1..(n - 1)
    BY <2>5
  <2> QED  BY <2>4, <2>6, <2>7
<1>2. CASE OmitZero
  <2>1. form \in FormTexts /\ Len(form.account) > 1 /\ form.account[1] = "0"
        /\ form' = [form EXCEPT !.account = Tail(form.account)]
    BY <1>2 DEF OmitZero, HasForm, TypeOK
  <2>2. form.account \in Seq(AlNum)
    BY <2>1 DEF FormTexts, AlNum
  <2>3. PICK f, g : f = form /\ g = form'
    OBVIOUS
  <2>4. f \in FormTexts /\ g \in FormTexts /\ g.account = Tail(f.account) /\ g.country = f.country
        /\ g.bank = f.bank /\ g.method = f.method
    <3>1. form' \in FormTexts
      <4>1. Tail(form.account) \in Seq(AlNum)
        BY <2>1, <2>2
      <4> QED  BY <2>1, <4>1 DEF FormTexts, AlNum
    <3> QED  BY <2>1, <2>3, <3>1 DEF FormTexts
  <2>5. Behind(f.account, g.account, 1) /\ Len(g.account) >= 1
    BY <2>1, <2>2, <2>3, <2>4, TailIs
  <2>6. PICK n \in Nat : n = Len(g.account) /\ Len(f.account) = n + 1 /\ n >= 1
    BY <2>5 DEF Behind
  <2>7. ASSUME Built(f).error # "account number"  PROVE Built(f) = Built(g)
    <3> DEFINE c == Home(f.country)
               bank == Normalize(f.bank)
    <3>1. RowIs(c)
      BY <2>4, FormTextsAre, HomeIs
    <3>2. PICK w \in Nat : w = Width(c.Account)
      BY <3>1 DEF RowIs, Width
    <3>3. f.account # <<>> /\ g.account # <<>>
      BY <2>6
    <3>4. Built(f) = IF bank = <<>> \/ f.account = <<>> THEN Refused("required")
                     ELSE IF Len(bank) > Width(c.BankCode) THEN Refused("bank code")
                     ELSE IF Width(c.Account) < Len(f.account) THEN Refused("account number")
                     ELSE Assemble(c, bank, f.account)
      BY <2>4, BuiltBy
    <3>5. Built(g) = IF bank = <<>> \/ g.account = <<>> THEN Refused("required")
                     ELSE IF Len(bank) > Width(c.BankCode) THEN Refused("bank code")
                     ELSE IF Width(c.Account) < Len(g.account) THEN Refused("account number")
                     ELSE Assemble(c, bank, g.account)
      BY <2>4, BuiltBy, Zenon
    <3> HIDE DEF c, bank
    <3>6. CASE bank = <<>> \/ Len(bank) > Width(c.BankCode)
      <4>1. CASE bank = <<>>
        BY <3>4, <3>5, <4>1, Zenon
      <4>2. CASE bank # <<>> /\ Len(bank) > Width(c.BankCode)
        <5>1. Built(f) = Refused("bank code")
          BY <3>3, <3>4, <4>2
        <5>2. Built(g) = Refused("bank code")
          BY <3>3, <3>5, <4>2
        <5> QED  BY <5>1, <5>2, Zenon
      <4> QED  BY <3>6, <4>1, <4>2
    <3>7. CASE ~ (bank = <<>> \/ Len(bank) > Width(c.BankCode))
      <4>1. Refused("account number").error = "account number"
        BY DEF Refused
      <4>2. ~ (Width(c.Account) < Len(f.account))
        BY <2>7, <3>3, <3>4, <3>7, <4>1, Zenon
      <4>3. Len(f.account) <= w
        BY <2>6, <3>2, <4>2
      <4>4. ~ (Width(c.Account) < Len(g.account))
        BY <2>6, <3>2, <4>3
      <4>5. Pad(f.account, w) = Pad(g.account, w)
        BY <2>5, <4>3, SamePad
      <4>6. Assemble(c, bank, f.account) = Assemble(c, bank, g.account)
        BY <3>1, <3>2, <4>5, AssembleBy
      <4> QED  BY <3>3, <3>4, <3>5, <3>7, <4>2, <4>4, <4>6, Zenon
    <3> QED  BY <3>6, <3>7
  <2>8. ASSUME Len(f.account) <= 10  PROVE Judged(f) = Judged(g)
    <3>1. Len(f.account) <= 10 /\ Len(g.account) >= 1
      BY <2>5, <2>8
    <3>2. CheckDigit!Validate(f.method, f.account) = CheckDigit!Validate(f.method, g.account)
      BY <2>5, <3>1, SameVerdict
    <3> QED  BY <2>4, <3>2, Zenon DEF Judged
  <2> QED  BY <2>3, <2>7, <2>8 DEF CheckDigit!accountLength
<1>3. CASE handleV1Calculate
  BY <1>3 DEF handleV1Calculate
<1>4. ASSUME NEW e \in Elsewhere, Issue(e)  PROVE FALSE
  BY <1>4 DEF Issue
<1>5. ASSUME NEW i \in DOMAIN text, NEW ch, Misread(i, ch)  PROVE FALSE
  BY <1>5 DEF Misread, Copying
<1>6. ASSUME NEW i \in DOMAIN text, Swap(i)  PROVE FALSE
  BY <1>6 DEF Swap, Copying
<1>7. ASSUME NEW i \in DOMAIN text, NEW ch, Separate(i, ch)  PROVE FALSE
  BY <1>7 DEF Separate, Copying
<1>8. CASE WriteSmall
  BY <1>8 DEF WriteSmall, Copying
<1>9. CASE UNCHANGED vars
  BY <1>9 DEF vars
<1> QED  BY <1>1, <1>2, <1>3, <1>4, <1>5, <1>6, <1>7, <1>8, <1>9, Zenon DEF Next

\* How the same thing is written means nothing: a leading zero on the form, to
\* calculate and to the methods, and grouping and case of an IBAN, to Parse.
THEOREM EntrySpelling == Spec => SpellingIgnored
<1>1. TypeOK /\ [Next]_vars =>
        [/\ (form # form' /\ form'.account = Tail(form.account)) =>
              /\ Built(form).error # "account number" => Built(form) = Built(form')
              /\ Len(form.account) <= CheckDigit!accountLength => Judged(form) = Judged(form')
         /\ (text # <<>> /\ (Len(text) # Len(text') \/ text' = [i \in DOMAIN text |-> lower(text[i])])) =>
              Parse(text) = Parse(text')]_vars
  BY FormSpelled, TextSpelled
<1> QED  BY <1>1, EntryTyped, PTL DEF Spec, SpellingIgnored

-----------------------------------------------------------------------------
\* The weighted sums of the check digit methods.

\* The sums of the code are sums over the set of positions.
LEMMA SameSum == \A F : CheckDigit!SumFunction(F) = SumFunctionOnSet(F, DOMAIN F)
<1>1. \A F, S : CheckDigit!SumFunctionOnSet(F, S) = SumFunctionOnSet(F, S)
  BY Zenon DEF CheckDigit!SumFunctionOnSet, SumFunctionOnSet, CheckDigit!FoldFunctionOnSet,
    FoldFunctionOnSet, CheckDigit!MapThenFoldSet, MapThenFoldSet
<1> QED  BY <1>1 DEF CheckDigit!SumFunction

\* Sums that differ in one term.
LEMMA SumsDiffer ==
  ASSUME NEW S, IsFiniteSet(S), NEW F, NEW G, NEW x \in S,
         \A y \in S : F[y] \in Int /\ G[y] \in Int, \A y \in S : y # x => F[y] = G[y]
  PROVE  /\ SumFunctionOnSet(F, S) \in Int /\ SumFunctionOnSet(G, S) \in Int
         /\ SumFunctionOnSet(F, S) - SumFunctionOnSet(G, S) = F[x] - G[x]
<1>1. SumFunctionOnSet(F, S) = F[x] + SumFunctionOnSet(F, S \ {x}) /\ SumFunctionOnSet(F, S) \in Int
  BY SumOut
<1>2. SumFunctionOnSet(G, S) = G[x] + SumFunctionOnSet(G, S \ {x}) /\ SumFunctionOnSet(G, S) \in Int
  BY SumOut
<1>3. IsFiniteSet(S \ {x}) /\ \A y \in S \ {x} : F[y] \in Int /\ F[y] = G[y]
  BY FS_Subset
<1>4. SumFunctionOnSet(F, S \ {x}) = SumFunctionOnSet(G, S \ {x})
  BY <1>3, SumSame
<1>5. SumFunctionOnSet(F, S \ {x}) \in Int
  BY <1>3, SumType
<1> QED  BY <1>1, <1>2, <1>4, <1>5

\* What a method adds up.
TenDigits == [1..10 -> 0..9]
Plain(weights, from, to) == [d \in TenDigits |-> [i \in from..to |-> d[i] * CheckDigit!Weight(weights, to - i)]]
Cross(weights, from, to) ==
  [d \in TenDigits |-> [i \in from..to |-> CheckDigit!CrossSum(d[i] * CheckDigit!Weight(weights, to - i))]]
CrossLTR(weights, from, to) ==
  [d \in TenDigits |-> [i \in from..to |-> CheckDigit!CrossSum(d[i] * CheckDigit!Weight(weights, i - from))]]

\* The three sums, term by term.
LEMMA SumsAre ==
  ASSUME NEW d \in TenDigits, NEW weights, NEW from, NEW to
  PROVE  /\ CheckDigit!weightedSum(d, from, to, weights) = SumFunctionOnSet(Plain(weights, from, to)[d], from..to)
         /\ CheckDigit!weightedCrossSum(d, from, to, weights) = SumFunctionOnSet(Cross(weights, from, to)[d], from..to)
         /\ CheckDigit!weightedSumLTR(d, from, to, weights) = SumFunctionOnSet(CrossLTR(weights, from, to)[d], from..to)
<1>1. CheckDigit!weightedSum(d, from, to, weights) = CheckDigit!SumFunction(Plain(weights, from, to)[d])
      /\ DOMAIN Plain(weights, from, to)[d] = from..to
  BY DEF CheckDigit!weightedSum, Plain
<1>2. CheckDigit!weightedCrossSum(d, from, to, weights) = CheckDigit!SumFunction(Cross(weights, from, to)[d])
      /\ DOMAIN Cross(weights, from, to)[d] = from..to
  BY DEF CheckDigit!weightedCrossSum, Cross
<1>3. CheckDigit!weightedSumLTR(d, from, to, weights) = CheckDigit!SumFunction(CrossLTR(weights, from, to)[d])
      /\ DOMAIN CrossLTR(weights, from, to)[d] = from..to
  BY DEF CheckDigit!weightedSumLTR, CrossLTR
<1> QED  BY <1>1, <1>2, <1>3, SameSum, Zenon

LEMMA WeightType ==
  ASSUME NEW T, NEW weights \in Seq(T), NEW n \in Nat \ {0}, Len(weights) = n, NEW w \in Nat
  PROVE  CheckDigit!Weight(weights, w) \in T
<1>1. (w % n) + 1 \in 1..n
  OBVIOUS
<1> QED  BY <1>1 DEF CheckDigit!Weight

\* Doubled and reduced, ten digits stay ten digits.
LEMMA CrossIs ==
  /\ \A x \in 0..9 : CheckDigit!CrossSum(x * 1) = x
  /\ \A x \in 0..9 : CheckDigit!CrossSum(x * 2) = IF x < 5 THEN 2 * x ELSE 2 * x - 9
BY DEF CheckDigit!CrossSum

\* The terms of the sums, and that different digits give different ones.
Modulus(m, S, F) ==
  /\ \A d \in TenDigits : \A i \in S : F[d][i] \in Int
  /\ \A d, e \in TenDigits : \A i \in S : d[i] = e[i] => F[d][i] = F[e][i]
  /\ \A d, e \in TenDigits : \A i \in S : d[i] # e[i] => (F[d][i] - F[e][i]) % m # 0

\* No weight from 2 to 10 makes two digits alike modulo 11.
LEMMA TimesWeight ==
  \A x, y \in 0..9 : \A w \in 2..10 : x # y => (x * w - y * w) % 11 # 0
<1> TAKE x, y \in 0..9
<1>1. PICK z \in (-9)..9 : z = x - y
  OBVIOUS
<1>2. \A w \in 2..10 : x * w - y * w = z * w
  BY <1>1
<1>3. z # 0 => /\ (z * 2) % 11 # 0 /\ (z * 3) % 11 # 0 /\ (z * 4) % 11 # 0
               /\ (z * 5) % 11 # 0 /\ (z * 6) % 11 # 0 /\ (z * 7) % 11 # 0
               /\ (z * 8) % 11 # 0 /\ (z * 9) % 11 # 0 /\ (z * 10) % 11 # 0
  OBVIOUS
<1>4. \A w \in 2..10 : w = 2 \/ w = 3 \/ w = 4 \/ w = 5 \/ w = 6 \/ w = 7 \/ w = 8 \/ w = 9 \/ w = 10
  OBVIOUS
<1>5. x # y => z # 0
  BY <1>1
<1> TAKE w \in 2..10
<1>6. z # 0 => (z * w) % 11 # 0
  BY <1>3, <1>4
<1> QED  BY <1>2, <1>5, <1>6

LEMMA PlainTerms ==
  ASSUME NEW weights \in Seq(2..10), NEW n \in Nat \ {0}, Len(weights) = n,
         NEW from \in 1..10, NEW to \in 1..10
  PROVE  Modulus(11, from..to, Plain(weights, from, to))
<1> DEFINE F == Plain(weights, from, to)
<1>1. ASSUME NEW i \in from..to
      PROVE  \E w \in 2..10 : \A d \in TenDigits : d[i] \in 0..9 /\ F[d][i] = d[i] * w
  <2>1. to - i \in Nat /\ i \in 1..10
    OBVIOUS
  <2>2. PICK w \in 2..10 : w = CheckDigit!Weight(weights, to - i)
    BY <2>1, WeightType
  <2>3. \A d \in TenDigits : d[i] \in 0..9 /\ F[d][i] = d[i] * w
    BY <2>1, <2>2 DEF Plain, TenDigits
  <2> QED  BY <2>3
<1> HIDE DEF F
<1>2. ASSUME NEW d \in TenDigits, NEW e \in TenDigits, NEW i \in from..to
      PROVE  /\ F[d][i] \in Int /\ (d[i] = e[i] => F[d][i] = F[e][i])
             /\ d[i] # e[i] => (F[d][i] - F[e][i]) % 11 # 0
  <2>1. PICK w \in 2..10 : \A a \in TenDigits : a[i] \in 0..9 /\ F[a][i] = a[i] * w
    BY <1>1
  <2>2. PICK x \in 0..9, y \in 0..9 : x = d[i] /\ y = e[i] /\ F[d][i] = x * w /\ F[e][i] = y * w
    BY <2>1
  <2>3. x * w \in Int /\ (x # y => (x * w - y * w) % 11 # 0)
    BY TimesWeight
  <2> QED  BY <2>2, <2>3
<1>3. Modulus(11, from..to, F)
  BY <1>2, ZenonT(60) DEF Modulus
<1> QED  BY <1>3 DEF F

LEMMA CrossTimes ==
  ASSUME NEW w \in 1..2, NEW x \in 0..9, NEW y \in 0..9
  PROVE  /\ CheckDigit!CrossSum(x * w) \in Int
         /\ x # y => /\ (CheckDigit!CrossSum(x * w) - CheckDigit!CrossSum(y * w)) % 10 # 0
                     /\ (CheckDigit!CrossSum(x * w) - CheckDigit!CrossSum(y * w)) % 11 # 0
<1>1. CASE w = 1
  BY <1>1, CrossIs
<1>2. CASE w = 2
  BY <1>2, CrossIs
<1> QED  BY <1>1, <1>2

\* The reduced products differ modulo 10, right to left, and modulo 11.
LEMMA CrossTerms ==
  ASSUME NEW weights \in Seq(1..2), NEW n \in Nat \ {0}, Len(weights) = n,
         NEW from \in 1..10, NEW to \in 1..10
  PROVE  /\ Modulus(10, from..to, Cross(weights, from, to))
         /\ Modulus(11, from..to, CrossLTR(weights, from, to))
<1> DEFINE F == Cross(weights, from, to)
           G == CrossLTR(weights, from, to)
<1>1. ASSUME NEW i \in from..to
      PROVE  /\ \E w \in 1..2 : \A d \in TenDigits : d[i] \in 0..9 /\ F[d][i] = CheckDigit!CrossSum(d[i] * w)
             /\ \E w \in 1..2 : \A d \in TenDigits : d[i] \in 0..9 /\ G[d][i] = CheckDigit!CrossSum(d[i] * w)
  <2>1. to - i \in Nat /\ i - from \in Nat /\ i \in 1..10
    OBVIOUS
  <2>2. PICK w \in 1..2 : w = CheckDigit!Weight(weights, to - i)
    BY <2>1, WeightType
  <2>3. PICK v \in 1..2 : v = CheckDigit!Weight(weights, i - from)
    BY <2>1, WeightType
  <2>4. \A d \in TenDigits : d[i] \in 0..9 /\ F[d][i] = CheckDigit!CrossSum(d[i] * w)
    BY <2>1, <2>2 DEF Cross, TenDigits
  <2>5. \A d \in TenDigits : d[i] \in 0..9 /\ G[d][i] = CheckDigit!CrossSum(d[i] * v)
    BY <2>1, <2>3 DEF CrossLTR, TenDigits
  <2> QED  BY <2>4, <2>5
<1> HIDE DEF F, G
<1>2. ASSUME NEW d \in TenDigits, NEW e \in TenDigits, NEW i \in from..to
      PROVE  /\ F[d][i] \in Int /\ (d[i] = e[i] => F[d][i] = F[e][i])
             /\ d[i] # e[i] => (F[d][i] - F[e][i]) % 10 # 0
  <2>1. PICK w \in 1..2 : \A a \in TenDigits : a[i] \in 0..9 /\ F[a][i] = CheckDigit!CrossSum(a[i] * w)
    BY <1>1
  <2>2. PICK x \in 0..9, y \in 0..9 : x = d[i] /\ y = e[i]
          /\ F[d][i] = CheckDigit!CrossSum(x * w) /\ F[e][i] = CheckDigit!CrossSum(y * w)
    BY <2>1
  <2> QED  BY <2>2, CrossTimes
<1>3. ASSUME NEW d \in TenDigits, NEW e \in TenDigits, NEW i \in from..to
      PROVE  /\ G[d][i] \in Int /\ (d[i] = e[i] => G[d][i] = G[e][i])
             /\ d[i] # e[i] => (G[d][i] - G[e][i]) % 11 # 0
  <2>1. PICK w \in 1..2 : \A a \in TenDigits : a[i] \in 0..9 /\ G[a][i] = CheckDigit!CrossSum(a[i] * w)
    BY <1>1
  <2>2. PICK x \in 0..9, y \in 0..9 : x = d[i] /\ y = e[i]
          /\ G[d][i] = CheckDigit!CrossSum(x * w) /\ G[e][i] = CheckDigit!CrossSum(y * w)
    BY <2>1
  <2> QED  BY <2>2, CrossTimes
<1>4. Modulus(10, from..to, F) /\ Modulus(11, from..to, G)
  BY <1>2, <1>3 DEF Modulus
<1> QED  BY <1>4 DEF F, G

Agree(d, e, S) == \A i \in S : d[i] = e[i]
DifferAt(d, e, p, S) == p \in S /\ d[p] # e[p] /\ \A i \in S : i # p => d[i] = e[i]

\* A sum of the digits of S that tells any two numbers apart that differ in one.
Summing(m, S, A) ==
  /\ \A d \in TenDigits : A[d] \in Int
  /\ \A d, e \in TenDigits : Agree(d, e, S) => A[d] = A[e]
  /\ \A d, e \in TenDigits : \A p : DifferAt(d, e, p, S) => A[d] % m # A[e] % m

LEMMA Congruent ==
  /\ \A a, b \in Int : a % 10 = b % 10 => (a - b) % 10 = 0
  /\ \A a, b \in Int : a % 11 = b % 11 => (a - b) % 11 = 0
OBVIOUS

\* So a sum tells one wrong digit from another, modulo m.
LEMMA SummingIs ==
  ASSUME NEW m \in {10, 11}, NEW S, IsFiniteSet(S), NEW F, Modulus(m, S, F),
         NEW A, \A d \in TenDigits : A[d] = SumFunctionOnSet(F[d], S)
  PROVE  Summing(m, S, A)
<1>1. \A d \in TenDigits : \A i \in S : F[d][i] \in Int
  BY DEF Modulus
<1>2. ASSUME NEW d \in TenDigits  PROVE A[d] \in Int
  <2>1. SumFunctionOnSet(F[d], S) \in Int
    BY <1>1, SumType
  <2> QED  BY <2>1
<1>3. ASSUME NEW d \in TenDigits, NEW e \in TenDigits, Agree(d, e, S)  PROVE A[d] = A[e]
  <2>1. \A i \in S : F[d][i] \in Int /\ F[d][i] = F[e][i]
    BY <1>1, <1>3 DEF Modulus, Agree
  <2>2. SumFunctionOnSet(F[d], S) = SumFunctionOnSet(F[e], S)
    BY <2>1, SumSame
  <2> QED  BY <2>2
<1>4. ASSUME NEW d \in TenDigits, NEW e \in TenDigits, NEW p, DifferAt(d, e, p, S)
      PROVE  A[d] % m # A[e] % m
  <2>1. p \in S /\ \A i \in S : i # p => F[d][i] = F[e][i]
    BY <1>4 DEF Modulus, DifferAt
  <2>2. \A i \in S : F[d][i] \in Int /\ F[e][i] \in Int
    BY <1>1
  <2>3. SumFunctionOnSet(F[d], S) - SumFunctionOnSet(F[e], S) = F[d][p] - F[e][p]
    <3>1. PICK f, g : f = F[d] /\ g = F[e]
      OBVIOUS
    <3>2. p \in S /\ (\A i \in S : f[i] \in Int /\ g[i] \in Int) /\ (\A i \in S : i # p => f[i] = g[i])
      BY <2>1, <2>2, <3>1
    <3>3. SumFunctionOnSet(f, S) - SumFunctionOnSet(g, S) = f[p] - g[p]
      BY <3>2, SumsDiffer
    <3> QED  BY <3>1, <3>3
  <2>4. (F[d][p] - F[e][p]) % m # 0
    BY <1>4, <2>1 DEF Modulus, DifferAt
  <2>5. PICK a \in Int, b \in Int : a = A[d] /\ b = A[e]
    BY <1>2
  <2>6. (a - b) % m # 0
    BY <2>3, <2>4, <2>5
  <2>7. m = 10 \/ m = 11
    OBVIOUS
  <2> QED  BY <2>5, <2>6, <2>7, Congruent
<1> QED  BY <1>2, <1>3, <1>4 DEF Summing

PlainSum(weights, from, to) == [d \in TenDigits |-> CheckDigit!weightedSum(d, from, to, weights)]
CrossSums(weights, from, to) == [d \in TenDigits |-> CheckDigit!weightedCrossSum(d, from, to, weights)]
SumLTR(weights, from, to) == [d \in TenDigits |-> CheckDigit!weightedSumLTR(d, from, to, weights)]

\* Of which the code has three kinds.
LEMMA PlainSums ==
  ASSUME NEW weights \in Seq(2..10), NEW n \in Nat \ {0}, Len(weights) = n,
         NEW from \in 1..10, NEW to \in 1..10
  PROVE  Summing(11, from..to, PlainSum(weights, from, to))
<1>1. Modulus(11, from..to, Plain(weights, from, to))
  BY PlainTerms
<1>2. IsFiniteSet(from..to)
  BY FS_Interval
<1>3. \A d \in TenDigits :
        PlainSum(weights, from, to)[d] = SumFunctionOnSet(Plain(weights, from, to)[d], from..to)
  BY SumsAre DEF PlainSum
<1>4. 11 \in {10, 11}
  OBVIOUS
<1> QED  BY <1>1, <1>2, <1>3, <1>4, SummingIs

LEMMA CrossesSum ==
  ASSUME NEW weights \in Seq(1..2), NEW n \in Nat \ {0}, Len(weights) = n,
         NEW from \in 1..10, NEW to \in 1..10
  PROVE  /\ Summing(10, from..to, CrossSums(weights, from, to))
         /\ Summing(11, from..to, SumLTR(weights, from, to))
<1>1. Modulus(10, from..to, Cross(weights, from, to)) /\ Modulus(11, from..to, CrossLTR(weights, from, to))
  BY CrossTerms
<1>2. IsFiniteSet(from..to)
  BY FS_Interval
<1>3. \A d \in TenDigits :
        CrossSums(weights, from, to)[d] = SumFunctionOnSet(Cross(weights, from, to)[d], from..to)
  BY SumsAre DEF CrossSums
<1>4. \A d \in TenDigits :
        SumLTR(weights, from, to)[d] = SumFunctionOnSet(CrossLTR(weights, from, to)[d], from..to)
  BY SumsAre DEF SumLTR
<1>5. 10 \in {10, 11} /\ 11 \in {10, 11}
  OBVIOUS
<1>6. Summing(10, from..to, CrossSums(weights, from, to))
  BY <1>1, <1>2, <1>3, <1>5, SummingIs
<1>7. Summing(11, from..to, SumLTR(weights, from, to))
  BY <1>1, <1>2, <1>4, <1>5, SummingIs
<1> QED  BY <1>6, <1>7

\* The check digits of the three rules, and which of them tell remainders apart.
LEMMA Remainders ==
  /\ \A a \in Int : CheckDigit!mod10(a) \in 0..9
  /\ \A a \in Int : CheckDigit!mod11Standard(a) \in 0..9
  /\ \A a \in Int : CheckDigit!mod11MinusOne(a) \in 0..9
  /\ \A a, b \in Int : CheckDigit!mod10(a) = CheckDigit!mod10(b) => a % 10 = b % 10
  /\ \A a, b \in Int : CheckDigit!mod11Standard(a) = CheckDigit!mod11Standard(b)
       => a % 11 = b % 11 \/ CheckDigit!mod11Standard(a) = 0
  /\ \A a, b \in Int : CheckDigit!mod11MinusOne(a) = CheckDigit!mod11MinusOne(b)
       => a % 11 = b % 11 \/ CheckDigit!mod11MinusOne(a) = 0
<1>1. \A a \in Int : CheckDigit!mod10(a) \in 0..9
  BY DEF CheckDigit!mod10
<1>2. \A a \in Int : CheckDigit!mod11Standard(a) \in 0..9
  BY DEF CheckDigit!mod11Standard
<1>3. \A a \in Int : CheckDigit!mod11MinusOne(a) \in 0..9
  BY DEF CheckDigit!mod11MinusOne
<1>4. \A a, b \in Int : CheckDigit!mod10(a) = CheckDigit!mod10(b) => a % 10 = b % 10
  BY DEF CheckDigit!mod10
<1>5. \A a, b \in Int : CheckDigit!mod11Standard(a) = CheckDigit!mod11Standard(b)
        => a % 11 = b % 11 \/ CheckDigit!mod11Standard(a) = 0
  BY DEF CheckDigit!mod11Standard
<1>6. \A a, b \in Int : CheckDigit!mod11MinusOne(a) = CheckDigit!mod11MinusOne(b)
        => a % 11 = b % 11 \/ CheckDigit!mod11MinusOne(a) = 0
  <2> TAKE a, b \in Int
  <2>1. PICK x \in 0..10, y \in 0..10 : x = (a - 1) % 11 /\ y = (b - 1) % 11
    OBVIOUS
  <2>2. x = y => a % 11 = b % 11
    BY <2>1
  <2>3. CheckDigit!mod11MinusOne(a) = (IF x = 0 THEN 0 ELSE 10 - x)
        /\ CheckDigit!mod11MinusOne(b) = (IF y = 0 THEN 0 ELSE 10 - y)
    BY <2>1 DEF CheckDigit!mod11MinusOne
  <2>4. (IF x = 0 THEN 0 ELSE 10 - x) = (IF y = 0 THEN 0 ELSE 10 - y)
        => x = y \/ (IF x = 0 THEN 0 ELSE 10 - x) = 0
    OBVIOUS
  <2> QED  BY <2>2, <2>3, <2>4
<1> QED  BY <1>1, <1>2, <1>3, <1>4, <1>5, <1>6, Zenon

-----------------------------------------------------------------------------
\* What each method expects, and which wrong digits it tells.

\* M gives a check digit at pos that follows from the digits of S alone.
Checks(M, S, pos) ==
  /\ \A d \in TenDigits : M[d].usable /\ M[d].pos = pos /\ M[d].expected \in 0..9
  /\ \A d, e \in TenDigits : Agree(d, e, S) => M[d] = M[e]

\* It is the same for two numbers that differ in one of those only if it is 0.
Tells(M, S) ==
  \A d, e \in TenDigits : \A p :
    DifferAt(d, e, p, S) /\ M[d].expected = M[e].expected => M[d].expected = 0

TellsAll(M, S) ==
  \A d, e \in TenDigits : \A p : DifferAt(d, e, p, S) => M[d].expected # M[e].expected

LEMMA ExpectIs ==
  \A x, pos : /\ CheckDigit!Expect(x, pos).usable /\ CheckDigit!Expect(x, pos).pos = pos
              /\ CheckDigit!Expect(x, pos).expected = x
BY DEF CheckDigit!Expect

\* Method 00: a digit for each remainder, another for another remainder.
LEMMA ByTen ==
  ASSUME NEW M, NEW S, NEW pos, NEW A, Summing(10, S, A),
         \A d \in TenDigits : M[d] = CheckDigit!Expect(CheckDigit!mod10(A[d]), pos)
  PROVE  Checks(M, S, pos) /\ TellsAll(M, S)
<1>1. \A d \in TenDigits : A[d] \in Int
  BY DEF Summing
<1>2. \A d \in TenDigits : M[d].usable /\ M[d].pos = pos /\ M[d].expected = CheckDigit!mod10(A[d])
  BY ExpectIs
<1>3. \A d \in TenDigits : M[d].expected \in 0..9
  BY <1>1, <1>2, Remainders
<1>4. \A d, e \in TenDigits : Agree(d, e, S) => M[d] = M[e]
  BY DEF Summing
<1>5. ASSUME NEW d \in TenDigits, NEW e \in TenDigits, NEW p, DifferAt(d, e, p, S)
      PROVE  M[d].expected # M[e].expected
  <2>1. PICK a \in Int, b \in Int : a = A[d] /\ b = A[e]
    BY <1>1
  <2>2. a % 10 # b % 10
    BY <1>5, <2>1 DEF Summing
  <2>3. CheckDigit!mod10(a) # CheckDigit!mod10(b)
    BY <2>2, Remainders
  <2> QED  BY <1>2, <2>1, <2>3
<1> QED  BY <1>2, <1>3, <1>4, <1>5 DEF Checks, TellsAll

\* The modulus 11 methods: a digit from 0 to 9, and only 0 stands for two
\* remainders.
LEMMA Standard ==
  ASSUME NEW M, NEW S, NEW pos, NEW A, Summing(11, S, A),
         \A d \in TenDigits : M[d] = CheckDigit!Expect(CheckDigit!mod11Standard(A[d]), pos)
  PROVE  Checks(M, S, pos) /\ Tells(M, S)
<1>1. \A d \in TenDigits : A[d] \in Int
  BY DEF Summing
<1>2. \A d \in TenDigits : M[d].usable /\ M[d].pos = pos /\ M[d].expected = CheckDigit!mod11Standard(A[d])
  BY ExpectIs
<1>3. \A d \in TenDigits : M[d].expected \in 0..9
  BY <1>1, <1>2, Remainders
<1>4. \A d, e \in TenDigits : Agree(d, e, S) => M[d] = M[e]
  BY DEF Summing
<1>5. ASSUME NEW d \in TenDigits, NEW e \in TenDigits, NEW p, DifferAt(d, e, p, S),
             M[d].expected = M[e].expected
      PROVE  M[d].expected = 0
  <2>1. PICK a \in Int, b \in Int : a = A[d] /\ b = A[e]
    BY <1>1
  <2>2. a % 11 # b % 11
    BY <1>5, <2>1 DEF Summing
  <2>3. CheckDigit!mod11Standard(a) = CheckDigit!mod11Standard(b)
    BY <1>2, <1>5, <2>1
  <2>4. CheckDigit!mod11Standard(a) = 0
    BY <2>2, <2>3, Remainders
  <2> QED  BY <1>2, <2>1, <2>4
<1> QED  BY <1>2, <1>3, <1>4, <1>5 DEF Checks, Tells

\* The same for methods 17 and C1, whose remainder may not be 10 either.
LEMMA MinusOne ==
  ASSUME NEW M, NEW S, NEW pos, NEW A, Summing(11, S, A),
         \A d \in TenDigits : M[d] = CheckDigit!Expect(CheckDigit!mod11MinusOne(A[d]), pos)
  PROVE  Checks(M, S, pos) /\ Tells(M, S)
<1>1. \A d \in TenDigits : A[d] \in Int
  BY DEF Summing
<1>2. \A d \in TenDigits : M[d].usable /\ M[d].pos = pos /\ M[d].expected = CheckDigit!mod11MinusOne(A[d])
  BY ExpectIs
<1>3. \A d \in TenDigits : M[d].expected \in 0..9
  BY <1>1, <1>2, Remainders
<1>4. \A d, e \in TenDigits : Agree(d, e, S) => M[d] = M[e]
  BY DEF Summing
<1>5. ASSUME NEW d \in TenDigits, NEW e \in TenDigits, NEW p, DifferAt(d, e, p, S),
             M[d].expected = M[e].expected
      PROVE  M[d].expected = 0
  <2>1. PICK a \in Int, b \in Int : a = A[d] /\ b = A[e]
    BY <1>1
  <2>2. a % 11 # b % 11
    BY <1>5, <2>1 DEF Summing
  <2>3. CheckDigit!mod11MinusOne(a) = CheckDigit!mod11MinusOne(b)
    BY <1>2, <1>5, <2>1
  <2>4. CheckDigit!mod11MinusOne(a) = 0
    BY <2>2, <2>3, Remainders
  <2> QED  BY <1>2, <2>1, <2>4
<1> QED  BY <1>2, <1>3, <1>4, <1>5 DEF Checks, Tells

\* Weights that tell digits apart: from 2 to 10 with modulus 11, 1 and 2 for cross sums.
Plainly(w) == w \in Seq(2..10) /\ Len(w) \in Nat \ {0}
Crosswise(w) == w \in Seq(1..2) /\ Len(w) \in Nat \ {0}

\* The weights of the methods.
LEMMA Weights ==
  /\ Plainly(<<2, 3, 4, 5, 6, 7>>) /\ Plainly(<<2, 3, 4, 5, 6, 7, 8>>)
  /\ Plainly(<<2, 3, 4, 5, 6, 7, 8, 9, 10>>) /\ Plainly(<<2, 4, 8, 5, 10, 9, 7>>)
  /\ Plainly(<<2, 3, 4, 5, 6, 7, 2, 3, 4>>)
  /\ Crosswise(<<2, 1>>) /\ Crosswise(<<1, 2, 1, 2, 1, 2>>) /\ Crosswise(<<1, 2, 1, 2, 1, 2, 1, 2, 1>>)
BY DEF Plainly, Crosswise

LEMMA Bounds == 1 \in 1..10 /\ 2 \in 1..10 /\ 3 \in 1..10 /\ 4 \in 1..10 /\ 7 \in 1..10 /\ 9 \in 1..10
OBVIOUS

LEMMA PlainlySums ==
  \A w : \A from \in 1..10 : \A to \in 1..10 : Plainly(w) => Summing(11, from..to, PlainSum(w, from, to))
BY PlainSums DEF Plainly

LEMMA CrosswiseSums ==
  \A w : \A from \in 1..10 : \A to \in 1..10 : Crosswise(w) =>
    Summing(10, from..to, CrossSums(w, from, to)) /\ Summing(11, from..to, SumLTR(w, from, to))
BY CrossesSum DEF Crosswise

\* The methods, as functions.
M00 == [d \in TenDigits |-> CheckDigit!m00(d)]
M06 == [d \in TenDigits |-> CheckDigit!m06(d)]
M10 == [d \in TenDigits |-> CheckDigit!m10(d)]
M28 == [d \in TenDigits |-> CheckDigit!m28(d)]
M32 == [d \in TenDigits |-> CheckDigit!m32(d)]
M34 == [d \in TenDigits |-> CheckDigit!m34(d)]
M17 == [d \in TenDigits |-> CheckDigit!m17(d)]
M99 == [d \in TenDigits |->
         CheckDigit!Expect(CheckDigit!mod11Standard(CheckDigit!weightedSum(d, 1, 9, <<2, 3, 4, 5, 6, 7, 2, 3, 4>>)), 10)]
M88Long == [d \in TenDigits |->
         CheckDigit!Expect(CheckDigit!mod11Standard(CheckDigit!weightedSum(d, 3, 9, <<2, 3, 4, 5, 6, 7, 8>>)), 10)]
MC1v2 == [d \in TenDigits |-> CheckDigit!mC1v2(d)]

\* Each method checks the digits it sums up, and derives the digit at its position.
LEMMA M00Is == Checks(M00, 1..9, 10) /\ TellsAll(M00, 1..9)
<1> DEFINE w == <<2, 1>>
           A == CrossSums(w, 1, 9)
<1>1. Summing(10, 1..9, A)
  BY Weights, Bounds, CrosswiseSums, Zenon
<1>2. \A d \in TenDigits : M00[d] = CheckDigit!Expect(CheckDigit!mod10(A[d]), 10)
  BY DEF M00, CheckDigit!m00, CrossSums
<1> HIDE DEF A
<1> QED  BY <1>1, <1>2, ByTen

LEMMA M06Is == Checks(M06, 1..9, 10) /\ Tells(M06, 1..9)
<1> DEFINE w == <<2, 3, 4, 5, 6, 7>>
           A == PlainSum(w, 1, 9)
<1>1. Summing(11, 1..9, A)
  BY Weights, Bounds, PlainlySums, Zenon
<1>2. \A d \in TenDigits : M06[d] = CheckDigit!Expect(CheckDigit!mod11Standard(A[d]), 10)
  BY DEF M06, CheckDigit!m06, PlainSum
<1> HIDE DEF A
<1> QED  BY <1>1, <1>2, Standard

LEMMA M10Is == Checks(M10, 1..9, 10) /\ Tells(M10, 1..9)
<1> DEFINE w == <<2, 3, 4, 5, 6, 7, 8, 9, 10>>
           A == PlainSum(w, 1, 9)
<1>1. Summing(11, 1..9, A)
  BY Weights, Bounds, PlainlySums, Zenon
<1>2. \A d \in TenDigits : M10[d] = CheckDigit!Expect(CheckDigit!mod11Standard(A[d]), 10)
  BY DEF M10, CheckDigit!m10, PlainSum
<1> HIDE DEF A
<1> QED  BY <1>1, <1>2, Standard

LEMMA M28Is == Checks(M28, 1..7, 8) /\ Tells(M28, 1..7)
<1> DEFINE w == <<2, 3, 4, 5, 6, 7, 8>>
           A == PlainSum(w, 1, 7)
<1>1. Summing(11, 1..7, A)
  BY Weights, Bounds, PlainlySums, Zenon
<1>2. \A d \in TenDigits : M28[d] = CheckDigit!Expect(CheckDigit!mod11Standard(A[d]), 8)
  BY DEF M28, CheckDigit!m28, PlainSum
<1> HIDE DEF A
<1> QED  BY <1>1, <1>2, Standard

LEMMA M32Is == Checks(M32, 4..9, 10) /\ Tells(M32, 4..9)
<1> DEFINE w == <<2, 3, 4, 5, 6, 7>>
           A == PlainSum(w, 4, 9)
<1>1. Summing(11, 4..9, A)
  BY Weights, Bounds, PlainlySums, Zenon
<1>2. \A d \in TenDigits : M32[d] = CheckDigit!Expect(CheckDigit!mod11Standard(A[d]), 10)
  BY DEF M32, CheckDigit!m32, PlainSum
<1> HIDE DEF A
<1> QED  BY <1>1, <1>2, Standard

LEMMA M34Is == Checks(M34, 1..7, 8) /\ Tells(M34, 1..7)
<1> DEFINE w == <<2, 4, 8, 5, 10, 9, 7>>
           A == PlainSum(w, 1, 7)
<1>1. Summing(11, 1..7, A)
  BY Weights, Bounds, PlainlySums, Zenon
<1>2. \A d \in TenDigits : M34[d] = CheckDigit!Expect(CheckDigit!mod11Standard(A[d]), 8)
  BY DEF M34, CheckDigit!m34, PlainSum
<1> HIDE DEF A
<1> QED  BY <1>1, <1>2, Standard

LEMMA M17Is == Checks(M17, 2..7, 8) /\ Tells(M17, 2..7)
<1> DEFINE w == <<1, 2, 1, 2, 1, 2>>
           A == SumLTR(w, 2, 7)
<1>1. Summing(11, 2..7, A)
  BY Weights, Bounds, CrosswiseSums, Zenon
<1>2. \A d \in TenDigits : M17[d] = CheckDigit!Expect(CheckDigit!mod11MinusOne(A[d]), 8)
  BY DEF M17, CheckDigit!m17, SumLTR
<1> HIDE DEF A
<1> QED  BY <1>1, <1>2, MinusOne

LEMMA MC1v2Is == Checks(MC1v2, 1..9, 10) /\ Tells(MC1v2, 1..9)
<1> DEFINE w == <<1, 2, 1, 2, 1, 2, 1, 2, 1>>
           A == SumLTR(w, 1, 9)
<1>1. Summing(11, 1..9, A)
  BY Weights, Bounds, CrosswiseSums, Zenon
<1>2. \A d \in TenDigits : MC1v2[d] = CheckDigit!Expect(CheckDigit!mod11MinusOne(A[d]), 10)
  BY DEF MC1v2, CheckDigit!mC1v2, SumLTR
<1> HIDE DEF A
<1> QED  BY <1>1, <1>2, MinusOne

LEMMA M99Is == Checks(M99, 1..9, 10) /\ Tells(M99, 1..9)
<1> DEFINE w == <<2, 3, 4, 5, 6, 7, 2, 3, 4>>
           A == PlainSum(w, 1, 9)
<1>1. Summing(11, 1..9, A)
  BY Weights, Bounds, PlainlySums, Zenon
<1>2. \A d \in TenDigits : M99[d] = CheckDigit!Expect(CheckDigit!mod11Standard(A[d]), 10)
  BY DEF M99, PlainSum
<1> HIDE DEF A
<1> QED  BY <1>1, <1>2, Standard

LEMMA M88LongIs == Checks(M88Long, 3..9, 10) /\ Tells(M88Long, 3..9)
<1> DEFINE w == <<2, 3, 4, 5, 6, 7, 8>>
           A == PlainSum(w, 3, 9)
<1>1. Summing(11, 3..9, A)
  BY Weights, Bounds, PlainlySums, Zenon
<1>2. \A d \in TenDigits : M88Long[d] = CheckDigit!Expect(CheckDigit!mod11Standard(A[d]), 10)
  BY DEF M88Long, PlainSum
<1> HIDE DEF A
<1> QED  BY <1>1, <1>2, Standard

PosOf(id, d) == IF id \in {"28", "34", "17"} \/ (id = "C1" /\ d[1] # 5) THEN 8 ELSE 10

\* m is the method's digit at pos, whatever stands there.
Fits(m, n, pos) == m = n /\ (m.usable => m.pos = pos /\ m.expected \in 0..9)

\* Accounts that differ in the check digit alone expect the same digit.
LEMMA ChecksFit ==
  ASSUME NEW M, NEW S, NEW pos, Checks(M, S, pos), S \subseteq 1..10, pos \notin S,
         NEW d \in TenDigits, NEW e \in TenDigits, \A i \in 1..10 : i # pos => d[i] = e[i]
  PROVE  Fits(M[d], M[e], pos)
<1>1. Agree(d, e, S)
  BY DEF Agree
<1> QED  BY <1>1 DEF Checks, Fits

\* Which method is which.
LEMMA MethodsAre ==
  \A d \in TenDigits :
    /\ CheckDigit!Method("00", d) = M00[d] /\ CheckDigit!Method("06", d) = M06[d]
    /\ CheckDigit!Method("10", d) = M10[d] /\ CheckDigit!Method("28", d) = M28[d]
    /\ CheckDigit!Method("32", d) = M32[d] /\ CheckDigit!Method("34", d) = M34[d]
    /\ CheckDigit!Method("17", d) = M17[d]
    /\ CheckDigit!Method("09", d) = CheckDigit!NoDigit
    /\ CheckDigit!Method("88", d) = IF d[3] = 9 THEN M88Long[d] ELSE M32[d]
    /\ CheckDigit!Method("99", d) = (IF /\ d[1] = 0
                                        /\ (d[2] = 3 /\ d[3] = 9 /\ d[4] >= 6) \/ d[2] = 4
                                     THEN CheckDigit!NoDigit ELSE M99[d])
    /\ CheckDigit!Method("C1", d) = IF d[1] = 5 THEN MC1v2[d] ELSE M17[d]
<1> TAKE d \in TenDigits
<1>1. CheckDigit!Method("00", d) = M00[d]
  BY DEF CheckDigit!Method, M00
<1>2. CheckDigit!Method("06", d) = M06[d]
  BY DEF CheckDigit!Method, M06
<1>3. CheckDigit!Method("10", d) = M10[d]
  BY DEF CheckDigit!Method, M10
<1>4. CheckDigit!Method("28", d) = M28[d]
  BY DEF CheckDigit!Method, M28
<1>5. CheckDigit!Method("32", d) = M32[d]
  BY DEF CheckDigit!Method, M32
<1>6. CheckDigit!Method("34", d) = M34[d]
  BY DEF CheckDigit!Method, M34
<1>7. CheckDigit!Method("17", d) = M17[d]
  BY DEF CheckDigit!Method, M17
<1>8. CheckDigit!Method("09", d) = CheckDigit!NoDigit
  BY DEF CheckDigit!Method
<1>9. CheckDigit!Method("88", d) = IF d[3] = 9 THEN M88Long[d] ELSE M32[d]
  <2>1. CheckDigit!Method("88", d) = CheckDigit!m88(d)
    BY DEF CheckDigit!Method
  <2>2. M32[d] = CheckDigit!m32(d)
    BY DEF M32
  <2>3. CheckDigit!m88(d) = IF d[3] = 9 THEN M88Long[d] ELSE M32[d]
    BY <2>2 DEF CheckDigit!m88, CheckDigit!m32, M88Long
  <2> QED  BY <2>1, <2>3
<1>10. CheckDigit!Method("99", d) = (IF /\ d[1] = 0
                                        /\ (d[2] = 3 /\ d[3] = 9 /\ d[4] >= 6) \/ d[2] = 4
                                     THEN CheckDigit!NoDigit ELSE M99[d])
  <2>1. CheckDigit!Method("99", d) = CheckDigit!m99(d)
    BY DEF CheckDigit!Method
  <2> QED  BY <2>1 DEF CheckDigit!m99, M99
<1>11. CheckDigit!Method("C1", d) = IF d[1] = 5 THEN MC1v2[d] ELSE M17[d]
  <2>1. CheckDigit!Method("C1", d) = CheckDigit!mC1(d)
    BY DEF CheckDigit!Method
  <2> QED  BY <2>1 DEF CheckDigit!mC1, MC1v2, M17
<1> QED  BY <1>1, <1>2, <1>3, <1>4, <1>5, <1>6, <1>7, <1>8, <1>9, <1>10, <1>11, Zenon

LEMMA Ranges ==
  /\ 1..9 \subseteq 1..10 /\ 3..9 \subseteq 1..10 /\ 4..9 \subseteq 1..10
  /\ 1..7 \subseteq 1..10 /\ 2..7 \subseteq 1..10
  /\ 10 \notin 1..9 /\ 10 \notin 3..9 /\ 10 \notin 4..9 /\ 8 \notin 1..7 /\ 8 \notin 2..7
OBVIOUS

LEMMA NoDigitFits == \A n, pos : n = CheckDigit!NoDigit => Fits(CheckDigit!NoDigit, n, pos)
BY DEF CheckDigit!NoDigit, Fits

\* The digit a method expects does not depend on the one that stands there.
LEMMA MethodFits ==
  ASSUME NEW id \in CheckDigit!implemented \cap CheckDigit!verified,
         NEW d \in TenDigits, NEW e \in TenDigits, \A i \in 1..10 : i # PosOf(id, d) => d[i] = e[i]
  PROVE  Fits(CheckDigit!Method(id, d), CheckDigit!Method(id, e), PosOf(id, d))
<1> DEFINE Good(pos) == \A i \in 1..10 : i # pos => d[i] = e[i]
<1>1. CASE id = "00"
  <2>1. PosOf(id, d) = 10 /\ Good(10)
    BY <1>1 DEF PosOf
  <2>2. Fits(M00[d], M00[e], 10)
    BY <2>1, M00Is, Ranges, ChecksFit
  <2> QED  BY <1>1, <2>1, <2>2, MethodsAre
<1>2. CASE id = "06"
  <2>1. PosOf(id, d) = 10 /\ Good(10)
    BY <1>2 DEF PosOf
  <2>2. Fits(M06[d], M06[e], 10)
    BY <2>1, M06Is, Ranges, ChecksFit
  <2> QED  BY <1>2, <2>1, <2>2, MethodsAre
<1>3. CASE id = "09"
  BY <1>3, MethodsAre, NoDigitFits
<1>4. CASE id = "10"
  <2>1. PosOf(id, d) = 10 /\ Good(10)
    BY <1>4 DEF PosOf
  <2>2. Fits(M10[d], M10[e], 10)
    BY <2>1, M10Is, Ranges, ChecksFit
  <2> QED  BY <1>4, <2>1, <2>2, MethodsAre
<1>5. CASE id = "28"
  <2>1. PosOf(id, d) = 8 /\ Good(8)
    BY <1>5 DEF PosOf
  <2>2. Fits(M28[d], M28[e], 8)
    BY <2>1, M28Is, Ranges, ChecksFit
  <2> QED  BY <1>5, <2>1, <2>2, MethodsAre
<1>6. CASE id = "32"
  <2>1. PosOf(id, d) = 10 /\ Good(10)
    BY <1>6 DEF PosOf
  <2>2. Fits(M32[d], M32[e], 10)
    BY <2>1, M32Is, Ranges, ChecksFit
  <2> QED  BY <1>6, <2>1, <2>2, MethodsAre
<1>7. CASE id = "34"
  <2>1. PosOf(id, d) = 8 /\ Good(8)
    BY <1>7 DEF PosOf
  <2>2. Fits(M34[d], M34[e], 8)
    BY <2>1, M34Is, Ranges, ChecksFit
  <2> QED  BY <1>7, <2>1, <2>2, MethodsAre
<1>8. CASE id = "88"
  <2>1. PosOf(id, d) = 10 /\ Good(10)
    BY <1>8 DEF PosOf
  <2>2. d[3] = e[3]
    BY <2>1
  <2>3. Fits(M88Long[d], M88Long[e], 10)
    BY <2>1, M88LongIs, Ranges, ChecksFit
  <2>4. Fits(M32[d], M32[e], 10)
    BY <2>1, M32Is, Ranges, ChecksFit
  <2> HIDE DEF Good
  <2>5. CheckDigit!Method("88", d) = (IF d[3] = 9 THEN M88Long[d] ELSE M32[d])
        /\ CheckDigit!Method("88", e) = (IF e[3] = 9 THEN M88Long[e] ELSE M32[e])
    BY MethodsAre, Zenon
  <2> QED  BY <1>8, <2>1, <2>2, <2>3, <2>4, <2>5
<1>9. CASE id = "99"
  <2>1. PosOf(id, d) = 10 /\ Good(10)
    BY <1>9 DEF PosOf
  <2>2. d[1] = e[1] /\ d[2] = e[2] /\ d[3] = e[3] /\ d[4] = e[4]
    BY <2>1
  <2>3. Fits(M99[d], M99[e], 10)
    BY <2>1, M99Is, Ranges, ChecksFit
  <2> DEFINE Exempt(a) == a[1] = 0 /\ ((a[2] = 3 /\ a[3] = 9 /\ a[4] >= 6) \/ a[2] = 4)
  <2>4. CheckDigit!Method("99", d) = (IF Exempt(d) THEN CheckDigit!NoDigit ELSE M99[d])
        /\ CheckDigit!Method("99", e) = (IF Exempt(e) THEN CheckDigit!NoDigit ELSE M99[e])
    BY MethodsAre, Zenon
  <2>5. Exempt(d) <=> Exempt(e)
    BY <2>2
  <2> HIDE DEF Good, Exempt
  <2>6. Fits(CheckDigit!NoDigit, CheckDigit!NoDigit, 10)
    BY NoDigitFits
  <2> QED  BY <1>9, <2>1, <2>3, <2>4, <2>5, <2>6
<1>10. CASE id = "17"
  <2>1. PosOf(id, d) = 8 /\ Good(8)
    BY <1>10 DEF PosOf
  <2>2. Fits(M17[d], M17[e], 8)
    BY <2>1, M17Is, Ranges, ChecksFit
  <2> QED  BY <1>10, <2>1, <2>2, MethodsAre
<1>11. CASE id = "C1" /\ d[1] = 5
  <2>1. PosOf(id, d) = 10 /\ Good(10)
    BY <1>11 DEF PosOf
  <2>2. e[1] = 5
    BY <1>11, <2>1
  <2>3. Fits(MC1v2[d], MC1v2[e], 10)
    BY <2>1, MC1v2Is, Ranges, ChecksFit
  <2>4. CheckDigit!Method("C1", d) = MC1v2[d] /\ CheckDigit!Method("C1", e) = MC1v2[e]
    BY <1>11, <2>2, MethodsAre
  <2> QED  BY <1>11, <2>1, <2>3, <2>4
<1>12. CASE id = "C1" /\ d[1] # 5
  <2>1. PosOf(id, d) = 8 /\ Good(8)
    BY <1>12 DEF PosOf
  <2>2. e[1] # 5
    BY <1>12, <2>1
  <2>3. Fits(M17[d], M17[e], 8)
    BY <2>1, M17Is, Ranges, ChecksFit
  <2>4. CheckDigit!Method("C1", d) = M17[d] /\ CheckDigit!Method("C1", e) = M17[e]
    BY <1>12, <2>2, MethodsAre
  <2> QED  BY <1>12, <2>1, <2>3, <2>4
<1>13. id \in {"00", "06", "09", "10", "28", "32", "34", "88", "99", "17", "C1"}
  BY DEF CheckDigit!verified
<1> QED  BY <1>1, <1>2, <1>3, <1>4, <1>5, <1>6, <1>7, <1>8, <1>9, <1>10, <1>11, <1>12, <1>13

-----------------------------------------------------------------------------
\* Ten account numbers that differ in the check digit.

LEMMA TenDigitsCount == IsFiniteSet(Range(Digits)) /\ Cardinality(Range(Digits)) = 10
<1> DEFINE f == [i \in 1..10 |-> Digits[i]]
<1>1. f \in Bijection(1..10, Range(Digits))
  <2>1. f \in [1..10 -> Range(Digits)]
    BY PlaceDigits
  <2>2. \A i, j \in 1..10 : f[i] = f[j] => i = j
    BY DigitsDiffer
  <2>3. \A ch \in Range(Digits) : \E i \in 1..10 : f[i] = ch
    BY PlaceDigits
  <2> HIDE DEF f
  <2>4. f \in Injection(1..10, Range(Digits))
    BY <2>1, <2>2 DEF Injection, IsInjective
  <2>5. f \in Surjection(1..10, Range(Digits))
    BY <2>1, <2>3 DEF Surjection
  <2> QED  BY <2>4, <2>5 DEF Bijection
<1>2. ExistsBijection(1..10, Range(Digits))
  BY <1>1, Zenon DEF ExistsBijection
<1>3. IsFiniteSet(1..10) /\ Cardinality(1..10) = 10
  <2>1. 1 \in Int /\ 10 \in Int
    OBVIOUS
  <2>2. IsFiniteSet(1..10) /\ Cardinality(1..10) = IF 1 > 10 THEN 0 ELSE 10 - 1 + 1
    BY <2>1, FS_Interval, Zenon
  <2> QED  BY <2>2
<1> QED  BY <1>2, <1>3, FS_Bijection

\* Ten digits are an account as the methods take it.
LEMMA TenIs ==
  ASSUME NEW a \in Seq(Range(Digits)), Len(a) = 10
  PROVE  /\ CheckDigit!toDigits(a) \in TenDigits
         /\ \A i \in 1..10 : CheckDigit!toDigits(a)[i] = DigitValue[a[i]]
         /\ CheckDigit!WellFormed(a)
<1>1. CheckDigit!toDigits(a) = [i \in 1..10 |-> DigitValue[a[i]]]
  <2> DEFINE g(i) == LET j == i - (10 - Len(a)) IN IF j < 1 THEN 0 ELSE DigitValue[a[j]]
  <2>1. CheckDigit!toDigits(a) = [i \in 1..10 |-> g(i)]
    BY SameAlphabet DEF CheckDigit!toDigits, CheckDigit!accountLength
  <2>2. \A i \in 1..10 : g(i) = DigitValue[a[i]]
    <3> TAKE i \in 1..10
    <3>1. i - (10 - Len(a)) = i /\ ~ (i < 1)
      OBVIOUS
    <3> QED  BY <3>1
  <2> HIDE DEF g
  <2> QED  BY <2>1, <2>2
<1>2. \A i \in 1..10 : DigitValue[a[i]] \in 0..9
  <2> TAKE i \in 1..10
  <2>1. 10 \in Nat
    OBVIOUS
  <2>2. a[i] \in Range(Digits)
    BY <2>1, TextIs
  <2> QED  BY <2>2, DigitValues
<1>3. CheckDigit!WellFormed(a)
  <2>1. Len(a) \in 1..10
    OBVIOUS
  <2> QED  BY <2>1, DigitsAre, WellFormedIs
<1> QED  BY <1>1, <1>2, <1>3 DEF TenDigits

\* A filled up number is the number behind zeros.
LEMMA PadBehind ==
  ASSUME NEW a \in Seq(AlNum), NEW w \in Nat, Len(a) <= w
  PROVE  \E k : Behind(Pad(a, w), a, k) /\ Len(Pad(a, w)) = w
<1>1. PICK n \in Nat : n = Len(a)
  OBVIOUS
<1>2. PICK k \in Nat : k = w - n /\ n + k = w
  BY <1>1
<1>3. PICK z : z = Zeros(k) /\ z \in Seq(AlNum) /\ Len(z) = k /\ \A i \in 1..k : z[i] = "0"
  <2>1. Len(Zeros(k)) = IF k > 0 THEN k ELSE 0
    BY ZerosIs
  <2>2. Len(Zeros(k)) = k
    BY <2>1
  <2> QED  BY <2>2, ZerosIs
<1>4. PICK u : u = z \o a
  OBVIOUS
<1>5. u \in Seq(AlNum) /\ JoinAs(u, z, a)
  BY <1>3, <1>4, JoinIs
<1>6. Pad(a, w) = u
  BY <1>1, <1>2, <1>3, <1>4 DEF Pad
<1>7. Len(u) = k + n
  BY <1>1, <1>3, <1>5 DEF JoinAs
<1>8. Behind(u, a, k)
  <2>1. \A i \in 1..k : u[i] = "0"
    BY <1>3, <1>5 DEF JoinAs
  <2>2. \A i \in 1..Len(a) : u[i + k] = a[i]
    BY <1>3, <1>5 DEF JoinAs
  <2>3. Len(u) = Len(a) + k
    BY <1>1, <1>7
  <2> QED  BY <1>5, <2>1, <2>2, <2>3 DEF Behind
<1>9. Len(u) = w
  BY <1>2, <1>7
<1> QED  BY <1>6, <1>8, <1>9

LEMMA PadDigits ==
  ASSUME NEW a \in Seq(Range(Digits)), NEW w \in Nat, Len(a) <= w
  PROVE  \E k : /\ Behind(Pad(a, w), a, k) /\ Len(Pad(a, w)) = w
               /\ Pad(a, w) \in Seq(Range(Digits))
<1>1. a \in Seq(AlNum) /\ AllDigits(a)
  BY DigitsAre
<1>2. PICK k : Behind(Pad(a, w), a, k) /\ Len(Pad(a, w)) = w
  BY <1>1, PadBehind
<1>3. Pad(a, w) \in Seq(AlNum)
  BY <1>2 DEF Behind
<1>4. Pad(a, w) \in Seq(Range(Digits))
  BY <1>1, <1>2, <1>3, BehindDigits, DigitsOnly
<1> QED  BY <1>2, <1>4

\* What is said of an account number with another check digit.
LEMMA VerdictIs ==
  ASSUME NEW a \in Seq(Range(Digits)), Len(a) = 10, NEW id,
         NEW pos, pos = PosOf(id, CheckDigit!toDigits(a)), NEW ch \in Range(Digits)
  PROVE  LET m == CheckDigit!Method(id, CheckDigit!toDigits(a))
             said == CheckDigit!Validate(id, [a EXCEPT ![pos] = ch])
         IN  IF id \notin CheckDigit!implemented \cap CheckDigit!verified \/ ~ m.usable
               THEN said = "unchecked"
               ELSE m.expected \in 0..9
                    /\ said = IF DigitValue[ch] = m.expected THEN "valid" ELSE "invalid"
<1> DEFINE d == CheckDigit!toDigits(a)
           b == [a EXCEPT ![pos] = ch]
           e == CheckDigit!toDigits(b)
<1>1. CASE id \notin CheckDigit!implemented \cap CheckDigit!verified
  BY <1>1 DEF CheckDigit!Validate
<1>2. CASE id \in CheckDigit!implemented \cap CheckDigit!verified
  <2>1. pos \in 1..10
    BY DEF PosOf
  <2>2. b \in Seq(Range(Digits)) /\ Len(b) = 10 /\ b[pos] = ch
        /\ \A i \in 1..10 : i # pos => b[i] = a[i]
    <3>0. 10 \in Nat
      OBVIOUS
    <3>1. DOMAIN a = 1..10 /\ a = [i \in 1..10 |-> a[i]] /\ \A i \in 1..10 : a[i] \in Range(Digits)
      BY <3>0, TextIs
    <3>2. b = [i \in 1..10 |-> IF i = pos THEN ch ELSE a[i]]
      BY <3>1
    <3>3. \A i \in 1..10 : b[i] = IF i = pos THEN ch ELSE a[i]
      BY <3>2
    <3>4. \A i \in 1..10 : b[i] \in Range(Digits)
      BY <3>1, <3>3
    <3>5. b \in Seq(Range(Digits)) /\ Len(b) = 10
      <4>1. b = [i \in 1..10 |-> b[i]]
        BY <3>2
      <4> HIDE DEF b
      <4> QED  BY <3>0, <3>4, <4>1, TextOf
    <3> QED  BY <2>1, <3>3, <3>5
  <2>3. /\ d \in TenDigits /\ \A i \in 1..10 : d[i] = DigitValue[a[i]]
        /\ e \in TenDigits /\ \A i \in 1..10 : e[i] = DigitValue[b[i]]
        /\ CheckDigit!WellFormed(b)
    BY <2>2, TenIs
  <2> HIDE DEF d, b, e
  <2>4. \A i \in 1..10 : i # PosOf(id, d) => d[i] = e[i]
    BY <2>2, <2>3 DEF d
  <2>5. Fits(CheckDigit!Method(id, d), CheckDigit!Method(id, e), PosOf(id, d))
    BY <1>2, <2>3, <2>4, MethodFits
  <2>6. pos = PosOf(id, d)
    BY DEF d
  <2>7. PICK m : m = CheckDigit!Method(id, d) /\ m = CheckDigit!Method(id, e)
                 /\ (m.usable => m.pos = pos /\ m.expected \in 0..9)
    BY <2>5, <2>6 DEF Fits
  <2>8. CheckDigit!Validate(id, b) = IF ~ m.usable THEN "unchecked"
                                     ELSE IF e[m.pos] = m.expected THEN "valid" ELSE "invalid"
    BY <1>2, <2>3, <2>7, Zenon DEF CheckDigit!Validate, e
  <2>9. e[pos] = DigitValue[ch]
    BY <2>1, <2>2, <2>3
  <2>10. IF ~ m.usable THEN CheckDigit!Validate(id, b) = "unchecked"
         ELSE m.expected \in 0..9
              /\ CheckDigit!Validate(id, b) = IF DigitValue[ch] = m.expected THEN "valid" ELSE "invalid"
    BY <2>7, <2>8, <2>9
  <2> QED  BY <1>2, <2>7, <2>10 DEF d, b
<1> QED  BY <1>1, <1>2

LEMMA FiveIs == \A ch \in Range(Digits) : ch = "5" <=> DigitValue[ch] = 5
<1>1. Digits[6] = "5"
  BY DEF Digits
<1>2. 5 \in 0..9 /\ 5 + 1 = 6
  OBVIOUS
<1>3. "5" \in Range(Digits) /\ DigitValue["5"] = 5
  BY <1>1, <1>2, DigitValues
<1> QED  BY <1>3, DigitsInjective

\* Of ten account numbers that differ in the check digit one is valid and nine are
\* not, or the method says nothing: for every method and every account number of
\* up to ten digits.
THEOREM EntryOneDigit == Spec => []OneDigitFits
<1>1. TypeOK => OneDigitFits
  <2> SUFFICES ASSUME TypeOK, HasForm, CheckDigit!WellFormed(form.account)
               PROVE  LET account == Pad(form.account, 10)
                          pos == IF form.method \in {"28", "34", "17"}
                                     \/ (form.method = "C1" /\ account[1] # "5") THEN 8 ELSE 10
                          Says(verdict) == {digit \in Range(Digits) :
                            CheckDigit!Validate(form.method, [account EXCEPT ![pos] = digit]) = verdict}
                      IN  \/ Cardinality(Says("valid")) = 1 /\ Cardinality(Says("invalid")) = 9
                          \/ Says("unchecked") = Range(Digits)
    BY DEF OneDigitFits, CheckDigit!accountLength
  <2> DEFINE account == Pad(form.account, 10)
             pos == IF form.method \in {"28", "34", "17"}
                        \/ (form.method = "C1" /\ account[1] # "5") THEN 8 ELSE 10
             Said(digit) == CheckDigit!Validate(form.method, [account EXCEPT ![pos] = digit])
             Says(verdict) == {digit \in Range(Digits) : Said(digit) = verdict}
             d == CheckDigit!toDigits(account)
             m == CheckDigit!Method(form.method, d)
             checked == form.method \in CheckDigit!implemented \cap CheckDigit!verified
  <2>1. form.account \in Seq(Range(Digits)) /\ Len(form.account) <= 10
    <3>1. form.account \in Seq(AlNum)
      BY DEF TypeOK, HasForm, FormTexts, AlNum
    <3>2. Len(form.account) \in 1..10 /\ AllDigits(form.account)
      BY WellFormedIs
    <3>3. form.account \in Seq(Range(Digits))
      BY <3>1, <3>2, DigitsOnly, Zenon
    <3>4. \A n \in 1..10 : n <= 10
      OBVIOUS
    <3> QED  BY <3>2, <3>3, <3>4, Zenon
  <2>2. account \in Seq(Range(Digits)) /\ Len(account) = 10
    <3>1. 10 \in Nat
      OBVIOUS
    <3> QED  BY <2>1, <3>1, PadDigits
  <2>3. pos = PosOf(form.method, d)
    <3>1. d[1] = DigitValue[account[1]] /\ account[1] \in Range(Digits)
      BY <2>2, TenIs
    <3>2. account[1] = "5" <=> d[1] = 5
      BY <3>1, FiveIs
    <3> QED  BY <3>2 DEF PosOf
  <2>4. \A ch \in Range(Digits) :
          IF ~ checked \/ ~ m.usable THEN Said(ch) = "unchecked"
          ELSE m.expected \in 0..9 /\ Said(ch) = IF DigitValue[ch] = m.expected THEN "valid" ELSE "invalid"
    <3> SUFFICES ASSUME NEW ch \in Range(Digits)
                 PROVE  IF ~ checked \/ ~ m.usable THEN Said(ch) = "unchecked"
                        ELSE m.expected \in 0..9
                             /\ Said(ch) = IF DigitValue[ch] = m.expected THEN "valid" ELSE "invalid"
      OBVIOUS
    <3>1. PICK a, p, id : a = account /\ a \in Seq(Range(Digits)) /\ Len(a) = 10 /\ p = pos /\ id = form.method
      BY <2>2
    <3> HIDE DEF account, pos
    <3>2. p = PosOf(id, CheckDigit!toDigits(a))
      BY <2>3, <3>1
    <3>3. LET n == CheckDigit!Method(id, CheckDigit!toDigits(a))
              said == CheckDigit!Validate(id, [a EXCEPT ![p] = ch])
          IN  IF id \notin CheckDigit!implemented \cap CheckDigit!verified \/ ~ n.usable
                THEN said = "unchecked"
                ELSE n.expected \in 0..9
                     /\ said = IF DigitValue[ch] = n.expected THEN "valid" ELSE "invalid"
      BY <3>1, <3>2, VerdictIs
    <3> QED  BY <3>1, <3>3, Zenon
  <2> HIDE DEF Said, m, checked
  <2>5. CASE ~ checked \/ ~ m.usable
    <3>1. Says("unchecked") = Range(Digits)
      BY <2>4, <2>5
    <3> QED  BY <3>1 DEF Said
  <2>6. CASE checked /\ m.usable
    <3>1. m.expected \in 0..9
      BY <2>4, <2>6, ZeroIs
    <3>2. PICK k \in 0..9 : k = m.expected
      BY <3>1
    <3>3. PICK x \in Range(Digits) : DigitValue[x] = k /\ \A ch \in Range(Digits) : DigitValue[ch] = k => ch = x
      BY DigitValues, DigitsInjective
    <3>4. \A ch \in Range(Digits) : Said(ch) = IF ch = x THEN "valid" ELSE "invalid"
      BY <2>4, <2>6, <3>2, <3>3
    <3>5. Says("valid") = {x} /\ Says("invalid") = Range(Digits) \ {x}
      BY <3>4
    <3>6. Cardinality({x}) = 1
      BY FS_Singleton
    <3>7. Cardinality(Range(Digits) \ {x}) = 9
      BY TenDigitsCount, FS_RemoveElement
    <3>8. Cardinality(Says("valid")) = 1 /\ Cardinality(Says("invalid")) = 9
      BY <3>5, <3>6, <3>7
    <3> QED  BY <3>8 DEF Said
  <2> QED  BY <2>5, <2>6
<1> QED  BY <1>1, EntryTyped, PTL

-----------------------------------------------------------------------------
\* A wrong digit in an account number.

\* The digits of an account number of up to ten.
LEMMA DigitsOf ==
  ASSUME NEW x \in Seq(Range(Digits)), NEW n \in 1..10, Len(x) = n
  PROVE  /\ CheckDigit!toDigits(x) \in TenDigits
         /\ \A j \in 1..n : CheckDigit!toDigits(x)[j + (10 - n)] = DigitValue[x[j]]
<1>1. PICK u, k : u \in Seq(Range(Digits)) /\ u = Pad(x, 10) /\ Behind(u, x, k) /\ Len(u) = 10
  <2>1. 10 \in Nat /\ Len(x) <= 10
    OBVIOUS
  <2> QED  BY <2>1, PadDigits
<1>2. u \in Seq(Range(Digits)) /\ k \in Nat /\ 10 = n + k /\ \A j \in 1..n : u[j + k] = x[j]
  BY <1>1 DEF Behind
<1>3. CheckDigit!toDigits(u) = CheckDigit!toDigits(x)
  <2>1. Len(u) <= 10
    <3>1. Len(u) = 10
      BY <1>1, Zenon
    <3>2. \A w : w = 10 => w <= 10
      OBVIOUS
    <3> QED  BY <3>1, <3>2, Zenon
  <2> QED  BY <1>1, <2>1, SameDigits
<1>4. CheckDigit!toDigits(u) \in TenDigits /\ \A i \in 1..10 : CheckDigit!toDigits(u)[i] = DigitValue[u[i]]
  BY <1>1, <1>2, TenIs
<1>5. ASSUME NEW j \in 1..n  PROVE CheckDigit!toDigits(x)[j + (10 - n)] = DigitValue[x[j]]
  <2>1. 10 - n = k
    BY <1>2
  <2>2. PICK i \in 1..10 : i = j + k
    BY <1>2
  <2>3. u[i] = x[j]
    BY <1>2, <2>2
  <2> QED  BY <1>3, <1>4, <2>1, <2>2, <2>3
<1> QED  BY <1>3, <1>4, <1>5

\* Account numbers of a length that differ have digits that differ.
LEMMA DigitsTell ==
  ASSUME NEW x \in Seq(Range(Digits)), NEW y \in Seq(Range(Digits)), NEW n \in 1..10,
         Len(x) = n, Len(y) = n, x # y
  PROVE  CheckDigit!toDigits(x) # CheckDigit!toDigits(y)
<1>1. PICK j \in 1..n : x[j] # y[j]
  BY SameText
<1>2. x[j] \in Range(Digits) /\ y[j] \in Range(Digits)
  <2>1. n \in Nat
    OBVIOUS
  <2> QED  BY <2>1, TextIs
<1>3. DigitValue[x[j]] # DigitValue[y[j]]
  BY <1>1, <1>2, DigitsInjective
<1>4. /\ CheckDigit!toDigits(x)[j + (10 - n)] = DigitValue[x[j]]
      /\ CheckDigit!toDigits(y)[j + (10 - n)] = DigitValue[y[j]]
  BY DigitsOf
<1> QED  BY <1>3, <1>4

\* A valid number has one to ten digits and the digit its method expects.
LEMMA ValidIs ==
  ASSUME NEW id, NEW x, CheckDigit!Validate(id, x) = "valid"
  PROVE  LET d == CheckDigit!toDigits(x)
             m == CheckDigit!Method(id, d)
         IN  Len(x) \in 1..10 /\ AllDigits(x) /\ d[m.pos] = m.expected
<1>1. CheckDigit!WellFormed(x)
  BY DEF CheckDigit!Validate
<1>2. Len(x) \in 1..10 /\ AllDigits(x)
  BY <1>1, WellFormedIs
<1> QED  BY <1>2 DEF CheckDigit!Validate

\* Two valid numbers that differ in one position differ in a digit that is
\* summed up, and expect the same check digit.
LEMMA OneWrong ==
  ASSUME NEW M, NEW S, NEW pos \in 1..10, Checks(M, S, pos), S \subseteq 1..10, pos \notin S,
         NEW d \in TenDigits, NEW e \in TenDigits, NEW i \in S \cup {pos},
         d[i] # e[i], \A j \in 1..10 : j # i => d[j] = e[j],
         d[M[d].pos] = M[d].expected, e[M[e].pos] = M[e].expected
  PROVE  DifferAt(d, e, i, S) /\ M[d].expected = M[e].expected
<1>1. M[d].pos = pos /\ M[e].pos = pos
  BY DEF Checks
<1>2. CASE i = pos
  <2>1. Agree(d, e, S)
    BY <1>2 DEF Agree
  <2>2. M[d] = M[e]
    BY <2>1 DEF Checks
  <2> QED  BY <1>1, <1>2, <2>2
<1>3. CASE i # pos
  <2>1. i \in S /\ \A j \in S : j # i => d[j] = e[j]
    BY <1>3
  <2>2. d[pos] = e[pos]
    BY <1>3
  <2> QED  BY <1>1, <2>1, <2>2 DEF DifferAt
<1> QED  BY <1>2, <1>3

LEMMA Parts ==
  /\ 1..10 = 1..9 \cup {10} /\ 4..10 = 4..9 \cup {10}
  /\ 1..8 = 1..7 \cup {8} /\ 2..8 = 2..7 \cup {8}
  /\ 8 \in 1..10 /\ 10 \in 1..10
OBVIOUS

\* Which method 00 excludes, and the others for any check digit but 0.
LEMMA WrongDigit ==
  ASSUME NEW id, NEW d \in TenDigits, NEW e \in TenDigits, NEW i \in Counted(id),
         d[i] # e[i], \A j \in 1..10 : j # i => d[j] = e[j],
         d[CheckDigit!Method(id, d).pos] = CheckDigit!Method(id, d).expected,
         e[CheckDigit!Method(id, e).pos] = CheckDigit!Method(id, e).expected
  PROVE  id # "00" /\ CheckDigit!Method(id, d).expected = 0
<1>1. CASE id = "00"
  <2>1. i \in 1..9 \cup {10}
    BY <1>1, Parts DEF Counted
  <2>2. CheckDigit!Method(id, d) = M00[d] /\ CheckDigit!Method(id, e) = M00[e]
    BY <1>1, MethodsAre
  <2>3. Checks(M00, 1..9, 10) /\ TellsAll(M00, 1..9)
    BY M00Is
  <2>4. DifferAt(d, e, i, 1..9) /\ M00[d].expected = M00[e].expected
    BY <2>1, <2>2, <2>3, Parts, Ranges, OneWrong
  <2> QED  BY <2>3, <2>4 DEF TellsAll
<1>2. CASE id = "06"
  <2>1. i \in 1..9 \cup {10}
    BY <1>2, Parts DEF Counted
  <2>2. CheckDigit!Method(id, d) = M06[d] /\ CheckDigit!Method(id, e) = M06[e]
    BY <1>2, MethodsAre
  <2>3. Checks(M06, 1..9, 10) /\ Tells(M06, 1..9)
    BY M06Is
  <2>4. DifferAt(d, e, i, 1..9) /\ M06[d].expected = M06[e].expected
    BY <2>1, <2>2, <2>3, Parts, Ranges, OneWrong
  <2>5. M06[d].expected = 0
    BY <2>3, <2>4 DEF Tells
  <2> QED  BY <1>2, <2>2, <2>5
<1>3. CASE id = "10"
  <2>1. i \in 1..9 \cup {10}
    BY <1>3, Parts DEF Counted
  <2>2. CheckDigit!Method(id, d) = M10[d] /\ CheckDigit!Method(id, e) = M10[e]
    BY <1>3, MethodsAre
  <2>3. Checks(M10, 1..9, 10) /\ Tells(M10, 1..9)
    BY M10Is
  <2>4. DifferAt(d, e, i, 1..9) /\ M10[d].expected = M10[e].expected
    BY <2>1, <2>2, <2>3, Parts, Ranges, OneWrong
  <2>5. M10[d].expected = 0
    BY <2>3, <2>4 DEF Tells
  <2> QED  BY <1>3, <2>2, <2>5
<1>4. CASE id = "28"
  <2>1. i \in 1..7 \cup {8}
    BY <1>4, Parts DEF Counted
  <2>2. CheckDigit!Method(id, d) = M28[d] /\ CheckDigit!Method(id, e) = M28[e]
    BY <1>4, MethodsAre
  <2>3. Checks(M28, 1..7, 8) /\ Tells(M28, 1..7)
    BY M28Is
  <2>4. DifferAt(d, e, i, 1..7) /\ M28[d].expected = M28[e].expected
    BY <2>1, <2>2, <2>3, Parts, Ranges, OneWrong
  <2>5. M28[d].expected = 0
    BY <2>3, <2>4 DEF Tells
  <2> QED  BY <1>4, <2>2, <2>5
<1>5. CASE id = "34"
  <2>1. i \in 1..7 \cup {8}
    BY <1>5, Parts DEF Counted
  <2>2. CheckDigit!Method(id, d) = M34[d] /\ CheckDigit!Method(id, e) = M34[e]
    BY <1>5, MethodsAre
  <2>3. Checks(M34, 1..7, 8) /\ Tells(M34, 1..7)
    BY M34Is
  <2>4. DifferAt(d, e, i, 1..7) /\ M34[d].expected = M34[e].expected
    BY <2>1, <2>2, <2>3, Parts, Ranges, OneWrong
  <2>5. M34[d].expected = 0
    BY <2>3, <2>4 DEF Tells
  <2> QED  BY <1>5, <2>2, <2>5
<1>6. CASE id = "32"
  <2>1. i \in 4..9 \cup {10}
    BY <1>6, Parts DEF Counted
  <2>2. CheckDigit!Method(id, d) = M32[d] /\ CheckDigit!Method(id, e) = M32[e]
    BY <1>6, MethodsAre
  <2>3. Checks(M32, 4..9, 10) /\ Tells(M32, 4..9)
    BY M32Is
  <2>4. DifferAt(d, e, i, 4..9) /\ M32[d].expected = M32[e].expected
    BY <2>1, <2>2, <2>3, Parts, Ranges, OneWrong
  <2>5. M32[d].expected = 0
    BY <2>3, <2>4 DEF Tells
  <2> QED  BY <1>6, <2>2, <2>5
<1>7. CASE id = "17"
  <2>1. i \in 2..7 \cup {8}
    BY <1>7, Parts DEF Counted
  <2>2. CheckDigit!Method(id, d) = M17[d] /\ CheckDigit!Method(id, e) = M17[e]
    BY <1>7, MethodsAre
  <2>3. Checks(M17, 2..7, 8) /\ Tells(M17, 2..7)
    BY M17Is
  <2>4. DifferAt(d, e, i, 2..7) /\ M17[d].expected = M17[e].expected
    BY <2>1, <2>2, <2>3, Parts, Ranges, OneWrong
  <2>5. M17[d].expected = 0
    BY <2>3, <2>4 DEF Tells
  <2> QED  BY <1>7, <2>2, <2>5
<1>8. id \in {"00", "06", "10", "28", "34", "32", "17"}
  BY DEF Counted
<1> QED  BY <1>1, <1>2, <1>3, <1>4, <1>5, <1>6, <1>7, <1>8

\* The form changes in a slip only: one of its digits, or a leading zero.
LEMMA WrongStep ==
  ASSUME TypeOK, [Next]_vars, form # form', Len(form.account) = Len(form'.account),
         \E i \in Counted(form.method) :
           CheckDigit!toDigits(form'.account) =
             [CheckDigit!toDigits(form.account) EXCEPT ![i] = CheckDigit!toDigits(form'.account)[i]],
         Judged(form) = "valid", Judged(form') = "valid"
  PROVE  /\ form.method # "00"
         /\ CheckDigit!Method(form.method, CheckDigit!toDigits(form.account)).expected = 0
<1>1. ASSUME NEW k \in 1..10, NEW digit \in Range(Digits), MistypeAccount(k, digit)
      PROVE  /\ form.method # "00"
             /\ CheckDigit!Method(form.method, CheckDigit!toDigits(form.account)).expected = 0
  <2>1. form \in FormTexts /\ k \in DOMAIN form.account /\ digit # form.account[k]
        /\ form' = [form EXCEPT !.account = [form.account EXCEPT ![k] = digit]]
    BY <1>1 DEF MistypeAccount, HasForm, TypeOK, FormTexts
  <2>2. PICK x, y, id : x = form.account /\ y = form'.account /\ id = form.method
    OBVIOUS
  <2>3. x \in Seq(AlNum) /\ y = [x EXCEPT ![k] = digit] /\ k \in DOMAIN x /\ digit # x[k]
        /\ form'.method = id
    BY <2>1, <2>2 DEF FormTexts, AlNum
  <2>5. CheckDigit!Validate(id, x) = "valid" /\ CheckDigit!Validate(id, y) = "valid"
    BY <2>2, <2>3 DEF Judged
  <2>4. x \in Seq(Range(Digits)) /\ y \in Seq(Range(Digits)) /\ y # x
    <3>1. x \in Seq(Range(Digits))
      BY <2>3, <2>5, ValidIs, DigitsOnly
    <3> QED  BY <2>3, <3>1
  <2>6. PICK n \in 1..10 : n = Len(x) /\ n = Len(y)
    BY <2>2, <2>5, ValidIs
  <2>7. PICK d, e : d = CheckDigit!toDigits(x) /\ e = CheckDigit!toDigits(y)
    OBVIOUS
  <2>8. d \in TenDigits /\ e \in TenDigits /\ d # e
    BY <2>3, <2>4, <2>6, <2>7, DigitsOf, DigitsTell
  <2>9. PICK i \in Counted(id) : e = [d EXCEPT ![i] = e[i]]
    BY <2>2, <2>7
  <2>10. d[i] # e[i] /\ \A j \in 1..10 : j # i => d[j] = e[j]
    <3>1. DOMAIN d = 1..10 /\ d = [j \in 1..10 |-> d[j]]
      BY <2>8 DEF TenDigits
    <3>2. e = [j \in 1..10 |-> IF j = i THEN e[i] ELSE d[j]]
      BY <2>9, <3>1
    <3>3. \A j \in 1..10 : j # i => d[j] = e[j]
      BY <3>2
    <3>4. ASSUME d[i] = e[i]  PROVE FALSE
      <4>1. \A j \in 1..10 : (IF j = i THEN e[i] ELSE d[j]) = d[j]
        BY <3>4
      <4>2. e = [j \in 1..10 |-> d[j]]
        BY <3>2, <4>1
      <4> QED  BY <2>8, <3>1, <4>2
    <3> QED  BY <3>3, <3>4
  <2>11. d[CheckDigit!Method(id, d).pos] = CheckDigit!Method(id, d).expected
         /\ e[CheckDigit!Method(id, e).pos] = CheckDigit!Method(id, e).expected
    BY <2>5, <2>7, ValidIs
  <2>12. id # "00" /\ CheckDigit!Method(id, d).expected = 0
    BY <2>8, <2>9, <2>10, <2>11, WrongDigit
  <2> QED  BY <2>2, <2>7, <2>12
<1>2. ASSUME OmitZero  PROVE FALSE
  <2>1. form \in FormTexts /\ Len(form.account) > 1
        /\ form' = [form EXCEPT !.account = Tail(form.account)]
    BY <1>2 DEF OmitZero, HasForm, TypeOK
  <2>2. form.account \in Seq(AlNum) /\ form'.account = Tail(form.account)
    BY <2>1 DEF FormTexts, AlNum
  <2> QED  BY <2>1, <2>2
<1>3. CASE handleV1Calculate
  BY <1>3 DEF handleV1Calculate
<1>4. ASSUME NEW e \in Elsewhere, Issue(e)  PROVE FALSE
  BY <1>4 DEF Issue
<1>5. ASSUME NEW i \in DOMAIN text, NEW ch, Misread(i, ch)  PROVE FALSE
  BY <1>5 DEF Misread, Copying
<1>6. ASSUME NEW i \in DOMAIN text, Swap(i)  PROVE FALSE
  BY <1>6 DEF Swap, Copying
<1>7. ASSUME NEW i \in DOMAIN text, NEW ch, Separate(i, ch)  PROVE FALSE
  BY <1>7 DEF Separate, Copying
<1>8. CASE WriteSmall
  BY <1>8 DEF WriteSmall, Copying
<1>9. CASE UNCHANGED vars
  BY <1>9 DEF vars
<1> QED  BY <1>1, <1>2, <1>3, <1>4, <1>5, <1>6, <1>7, <1>8, <1>9, Zenon DEF Next

\* A wrong digit in a valid account number is noticed: always by method 00, and by
\* the modulus 11 methods unless the check digit is 0.
THEOREM EntryWrongDigit == Spec => WrongDigitNoticed
<1>1. TypeOK /\ [Next]_vars =>
        [LET d == CheckDigit!toDigits(form.account)
             e == CheckDigit!toDigits(form'.account)
         IN  (/\ text' = <<>> /\ form # form' /\ form.method \in CheckDigit!verified
              /\ Judged(form) = "valid" /\ Judged(form') = "valid"
              /\ Len(form.account) = Len(form'.account)
              /\ \E i \in Counted(form.method) : e = [d EXCEPT ![i] = e[i]])
             => /\ form.method # "00"
                /\ CheckDigit!Method(form.method, d).expected = 0]_vars
  BY WrongStep
<1> QED  BY <1>1, EntryTyped, PTL DEF Spec, WrongDigitNoticed
=============================================================================
