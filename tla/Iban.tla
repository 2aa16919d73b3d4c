-------------------------------- MODULE Iban --------------------------------
(***************************************************************************)
(* iban/iban.go and calculate.go: what a text says as an IBAN, the check   *)
(* digits of ISO 7064 MOD 97-10, and the IBAN of a bank code and an        *)
(* account number.  An outcome carries the error of the first test that    *)
(* fails, in the code's order, or "none".                                  *)
(***************************************************************************)
EXTENDS IbanRegistry

MaxLength == 34
Characters == Range(Digits) \cup Range(Uppers) \cup Range(Lowers) \cup Separators

upper(ch) == IF ch \in Range(Lowers) THEN Uppers[Place(ch, Lowers)] ELSE ch

Normalize(s) ==
  LET kept[n \in 0..Len(s)] ==
        IF n = 0 THEN <<>>
        ELSE IF s[n] \in Separators THEN kept[n - 1]
        ELSE Append(kept[n - 1], upper(s[n]))
  IN  kept[Len(s)]

\* The n-th character of s when its first four are taken last.
Turned(s, n) == s[((n + 3) % Len(s)) + 1]

\* Faulty: a letter counts as one digit.
mod97Narrow(s) ==
  LET r[n \in 0..Len(s)] ==
        LET ch == Turned(s, n) IN
        IF n = 0 THEN 0
        ELSE (r[n - 1] * 10 + (IF isDigit(ch) THEN DigitValue[ch] ELSE LetterValue[ch])) % 97
  IN  r[Len(s)]

\* Faulty: adds the digits up without weighing them.
mod97Sum(s) ==
  LET r[n \in 0..Len(s)] ==
        LET ch == Turned(s, n) IN
        IF n = 0 THEN 0
        ELSE (r[n - 1] + (IF isDigit(ch) THEN DigitValue[ch] ELSE LetterValue[ch])) % 97
  IN  r[Len(s)]

\* The remainders after the first n characters of that order.
Running(s) ==
  LET r[n \in 0..Len(s)] ==
        LET ch == Turned(s, n) IN
        IF n = 0 THEN 0
        ELSE IF isDigit(ch) THEN (r[n - 1] * 10 + DigitValue[ch]) % 97
        ELSE (r[n - 1] * 100 + LetterValue[ch]) % 97
  IN  r

\* Any other character ends the count with 0.
mod97(s) ==
  IF \A i \in DOMAIN s : isDigit(s[i]) \/ isUpper(s[i]) THEN Running(s)[Len(s)] ELSE 0

checkStructure(country, bban) ==
  /\ country.BBAN # <<>> => Len(country.BBAN) = Len(bban)
  /\ \A i \in DOMAIN bban :
       accepts(IF country.BBAN = <<>> THEN "c" ELSE country.BBAN[i], bban[i])

BBAN(raw) == SubSeq(raw, 5, Len(raw))

ParseError(s) ==
  IF Len(s) < 4 THEN "too short"
  ELSE IF Len(s) > MaxLength THEN "too long"
  ELSE IF ~ (isUpper(s[1]) /\ isUpper(s[2])) THEN "country code"
  ELSE IF ~ (isDigit(s[3]) /\ isDigit(s[4])) THEN "check digits"
  ELSE LET rows == Lookup(SubSeq(s, 1, 2)) IN
    IF rows = {} THEN "unknown country"
    ELSE IF \E c \in rows : Len(s) # c.Length THEN "length"
    ELSE IF \E c \in rows : ~ checkStructure(c, BBAN(s)) THEN "structure"
    ELSE "none"

Parse(s) == [raw |-> Normalize(s), error |-> ParseError(Normalize(s))]
Parses(s) == Parse(s).error = "none"
Validate(s) == mod97(Parse(s).raw) = 1

CountryOf(raw) == CHOOSE c \in Lookup(SubSeq(raw, 1, 2)) : TRUE
BankCode(raw) == extract(CountryOf(raw).BankCode, BBAN(raw))
AccountNumber(raw) == extract(CountryOf(raw).Account, BBAN(raw))

-----------------------------------------------------------------------------
Zeros(n) == [i \in 1..n |-> "0"]

\* Faulty: pads on the right.
PadRight(s, n) == s \o Zeros(n - Len(s))

Pad(s, n) == Zeros(n - Len(s)) \o s
padTo(s, f) == IF known(f) THEN Pad(s, Width(f)) ELSE s

\* The two digits that stand for n.
TwoDigits(n) == <<Digits[(n \div 10) + 1], Digits[(n % 10) + 1]>>

\* The room the registry or the BBAN leaves for an account number.
AccountLen(country, bank) ==
  IF known(country.Account) THEN Width(country.Account) ELSE BBANLength(country) - Len(bank)

Refused(why) == [raw |-> <<>>, error |-> why]

Assemble(country, bankCode, account) ==
  LET bank == padTo(bankCode, country.BankCode)
      bban == bank \o Pad(account, AccountLen(country, bank))
  IN  IF Len(bban) # BBANLength(country) THEN Refused("length")
      ELSE Parse(country.Code \o TwoDigits(98 - mod97(country.Code \o Zeros(2) \o bban)) \o bban)

Calculate(code, bankCode, account) ==
  LET bank == Normalize(bankCode)
      acct == Normalize(account)
      country == CHOOSE c \in Lookup(code) : TRUE
      room == AccountLen(country, padTo(bank, country.BankCode))
  IN  IF Lookup(code) = {} THEN Refused("unknown country")
      ELSE IF bank = <<>> \/ acct = <<>> THEN Refused("required")
      ELSE IF known(country.BankCode) /\ Len(bank) > Width(country.BankCode)
        THEN Refused("bank code")
      ELSE IF room < 1 THEN Refused("no room")
      ELSE IF room < Len(acct) THEN Refused("account number")
      ELSE Assemble(country, bank, acct)
=============================================================================
