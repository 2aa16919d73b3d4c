----------------------------- MODULE CheckDigit -----------------------------
(***************************************************************************)
(* internal/checkdigit: the Bundesbank's check digit methods for German    *)
(* account numbers.  A method takes ten digits, position 1 first, and says *)
(* which digit it expects where, or that it can derive none.               *)
(* Methods 01, 02 and 13 are implemented too, but Validate never calls     *)
(* them, because they are not verified.                                    *)
(***************************************************************************)
EXTENDS IbanRegistry

accountLength == 10
implemented == {"00", "01", "02", "06", "09", "10", "13", "28", "32", "34", "88", "99", "17", "C1"}
verified == {"00", "06", "09", "10", "28", "32", "34", "88", "99", "17", "C1"}

WellFormed(account) ==
  /\ Len(account) \in 1..accountLength
  /\ \A i \in DOMAIN account : isDigit(account[i])

\* Faulty: fills up on the right.
toDigitsRight(account) ==
  [i \in 1..accountLength |-> IF i > Len(account) THEN 0 ELSE DigitValue[account[i]]]

\* Left padded with zeros.
toDigits(account) ==
  [i \in 1..accountLength |->
     LET j == i - (accountLength - Len(account)) IN
       IF j < 1 THEN 0 ELSE DigitValue[account[j]]]

CrossSum(p) == IF p > 9 THEN p - 9 ELSE p
Weight(weights, w) == weights[(w % Len(weights)) + 1]

\* Right to left.
weightedSum(d, from, to, weights) ==
  SumFunction([i \in from..to |-> d[i] * Weight(weights, to - i)])

weightedCrossSum(d, from, to, weights) ==
  SumFunction([i \in from..to |-> CrossSum(d[i] * Weight(weights, to - i))])

\* Left to right, for methods 17 and C1.
weightedSumLTR(d, from, to, weights) ==
  SumFunction([i \in from..to |-> CrossSum(d[i] * Weight(weights, i - from))])

mod10(sum) == (10 - (sum % 10)) % 10

\* Faulty: a remainder of 1 gives the check digit 10.
mod11Bare(sum) == IF sum % 11 = 0 THEN 0 ELSE 11 - (sum % 11)

mod11Standard(sum) == IF sum % 11 \in {0, 1} THEN 0 ELSE 11 - (sum % 11)

\* The remainder of a negative number, made positive as in the code.
mod11MinusOne(sum) ==
  LET rest == (sum - 1) % 11 IN IF rest = 0 THEN 0 ELSE 10 - rest

Expect(digit, pos) == [expected |-> digit, pos |-> pos, usable |-> TRUE]
NoDigit == [expected |-> 0, pos |-> 10, usable |-> FALSE]

\* Faulty: does not reduce the products.
m00Plain(d) == Expect(mod10(weightedSum(d, 1, 9, <<2, 1>>)), 10)

m00(d) == Expect(mod10(weightedCrossSum(d, 1, 9, <<2, 1>>)), 10)
m06(d) == Expect(mod11Standard(weightedSum(d, 1, 9, <<2, 3, 4, 5, 6, 7>>)), 10)
m10(d) == Expect(mod11Standard(weightedSum(d, 1, 9, <<2, 3, 4, 5, 6, 7, 8, 9, 10>>)), 10)
m28(d) == Expect(mod11Standard(weightedSum(d, 1, 7, <<2, 3, 4, 5, 6, 7, 8>>)), 8)
m32(d) == Expect(mod11Standard(weightedSum(d, 4, 9, <<2, 3, 4, 5, 6, 7>>)), 10)
m34(d) == Expect(mod11Standard(weightedSum(d, 1, 7, <<2, 4, 8, 5, 10, 9, 7>>)), 8)

m88(d) ==
  Expect(mod11Standard(IF d[3] = 9 THEN weightedSum(d, 3, 9, <<2, 3, 4, 5, 6, 7, 8>>)
                                   ELSE weightedSum(d, 4, 9, <<2, 3, 4, 5, 6, 7>>)), 10)

\* 0396000000 to 0499999999 is exempt; told by the digits, as the number itself
\* is beyond TLC's integers.
m99(d) ==
  IF /\ d[1] = 0
     /\ \/ d[2] = 3 /\ d[3] = 9 /\ d[4] >= 6
        \/ d[2] = 4
    THEN NoDigit
    ELSE Expect(mod11Standard(weightedSum(d, 1, 9, <<2, 3, 4, 5, 6, 7, 2, 3, 4>>)), 10)

m17(d) == Expect(mod11MinusOne(weightedSumLTR(d, 2, 7, <<1, 2, 1, 2, 1, 2>>)), 8)
mC1v2(d) == Expect(mod11MinusOne(weightedSumLTR(d, 1, 9, <<1, 2, 1, 2, 1, 2, 1, 2, 1>>)), 10)
mC1(d) == IF d[1] = 5 THEN mC1v2(d) ELSE m17(d)

Method(id, d) ==
  CASE id = "00" -> m00(d) [] id = "06" -> m06(d) [] id = "09" -> NoDigit
    [] id = "10" -> m10(d) [] id = "28" -> m28(d) [] id = "32" -> m32(d)
    [] id = "34" -> m34(d) [] id = "88" -> m88(d) [] id = "99" -> m99(d)
    [] id = "17" -> m17(d) [] id = "C1" -> mC1(d)

Validate(id, account) ==
  IF id \notin implemented \cap verified THEN "unchecked"
  ELSE IF ~ WellFormed(account) THEN "invalid"
  ELSE LET d == toDigits(account)
           digit == Method(id, d)
       IN  IF ~ digit.usable THEN "unchecked"
           ELSE IF d[digit.pos] = digit.expected THEN "valid" ELSE "invalid"
=============================================================================
