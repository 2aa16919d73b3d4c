----------------------------- MODULE Iban_proofs -----------------------------
(***************************************************************************)
(* Lemmas about the texts of Entry: what Normalize and mod97 compute, that *)
(* mod97 is the sum of ISO 7064, what calculate and a bank put together,   *)
(* and that a misread character or two exchanged neighbours show.          *)
(*                                                                         *)
(* mod97, Normalize and the powers of ten are recursive functions; what    *)
(* they compute is proved by induction over the natural numbers, for the   *)
(* set of numbers the statement is true of (Induction); sums over finite   *)
(* sets by induction on the size of their subsets (BySize).                *)
(***************************************************************************)
EXTENDS Entry, FiniteSetTheorems, TLAPS

-----------------------------------------------------------------------------
\* Induction, and runs of a loop.

\* A non-empty set of natural numbers has a least element.
LEMMA Least ==
  ASSUME NEW T, T \subseteq Nat, T # {}
  PROVE  \E x \in T : \A y \in T : x <= y
<1> DEFINE R == OpToRel(<, Nat)
<1>1. IsWellFoundedOn(R, Nat)
  BY NatLessThanWellFounded
<1>2. \E x \in T : \A y \in T : ~ (<<y, x>> \in R)
  <2> HIDE DEF R
  <2> QED  BY <1>1, WFMin
<1>3. \A x, y \in Nat : <<y, x>> \in R <=> y < x
  BY DEF OpToRel
<1> HIDE DEF R
<1>4. PICK x \in T : \A y \in T : ~ (<<y, x>> \in R)
  BY <1>2
<1>5. ASSUME NEW y \in T PROVE x <= y
  <2>1. x \in Nat /\ y \in Nat
    OBVIOUS
  <2>2. ~ (y < x)
    BY <1>3, <1>4, <2>1
  <2> QED  BY <2>1, <2>2
<1> QED  BY <1>5

\* Induction over the natural numbers, for a set.
LEMMA Induction ==
  ASSUME NEW T, 0 \in T, \A n \in Nat : n \in T => n + 1 \in T
  PROVE  Nat \subseteq T
<1> SUFFICES ASSUME Nat \ T # {} PROVE FALSE
  OBVIOUS
<1>1. PICK x \in Nat \ T : \A y \in Nat \ T : x <= y
  BY Least
<1>2. x # 0 /\ x - 1 \in Nat /\ x - 1 \in T
  BY <1>1
<1> QED  BY <1>1, <1>2

\* A loop of L rounds has a run: the values before and after each round.
IsRun(r, L, T, a, step) ==
  /\ r \in [0..L -> T] /\ r[0] = a
  /\ \A n \in 1..L : r[n] = step[<<n, r[n - 1]>>]

\* Every loop has one.
LEMMA RunExists ==
  ASSUME NEW L \in Nat, NEW T, NEW a \in T, NEW step \in [(1..L) \X T -> T]
  PROVE  \E r : IsRun(r, L, T, a, step)
<1> DEFINE Has == {k \in Nat : k <= L => \E r \in [0..k -> T] :
             r[0] = a /\ \A n \in 1..k : r[n] = step[<<n, r[n - 1]>>]}
<1>1. 0 \in Has
  <2> DEFINE r == [n \in 0..0 |-> a]
  <2>1. r \in [0..0 -> T] /\ r[0] = a /\ \A n \in 1..0 : r[n] = step[<<n, r[n - 1]>>]
    OBVIOUS
  <2> HIDE DEF r
  <2> QED  BY <2>1
<1>2. ASSUME NEW k \in Nat, k \in Has
      PROVE  k + 1 \in Has
  <2> SUFFICES ASSUME k + 1 <= L
               PROVE  \E q \in [0..(k + 1) -> T] :
                        q[0] = a /\ \A n \in 1..(k + 1) : q[n] = step[<<n, q[n - 1]>>]
    OBVIOUS
  <2>1. PICK r \in [0..k -> T] :
               r[0] = a /\ \A n \in 1..k : r[n] = step[<<n, r[n - 1]>>]
    BY <1>2
  <2> DEFINE last == step[<<k + 1, r[k]>>]
             q == [n \in 0..(k + 1) |-> IF n = k + 1 THEN last ELSE r[n]]
  <2>2. last \in T
    <3>1. <<k + 1, r[k]>> \in (1..L) \X T
      BY <2>1
    <3> QED  BY <3>1
  <2> HIDE DEF last
  <2>3. q \in [0..(k + 1) -> T]
    BY <2>1, <2>2
  <2>4. q[0] = a
    BY <2>1
  <2>5. ASSUME NEW n \in 1..(k + 1) PROVE q[n] = step[<<n, q[n - 1]>>]
    <3>1. CASE n = k + 1
      <4>1. q[n] = last /\ q[n - 1] = r[k]
        BY <3>1
      <4> QED  BY <4>1, <3>1 DEF last
    <3>2. CASE n # k + 1
      <4>1. n \in 1..k /\ q[n] = r[n] /\ q[n - 1] = r[n - 1]
        BY <3>2
      <4> QED  BY <4>1, <2>1
    <3> QED  BY <3>1, <3>2
  <2> QED  BY <2>3, <2>4, <2>5
<1> HIDE DEF Has
<1>3. Nat \subseteq Has
  BY <1>1, <1>2, Induction
<1>4. L \in Has
  BY <1>3
<1> QED  BY <1>4 DEF Has, IsRun

\* A function is known by its values.
LEMMA SameFunction ==
  ASSUME NEW S, NEW f, NEW g, DOMAIN f = S, DOMAIN g = S,
         f = [x \in S |-> f[x]], g = [x \in S |-> g[x]], \A x \in S : f[x] = g[x]
  PROVE  f = g
OBVIOUS

-----------------------------------------------------------------------------
\* The alphabet: digits, capital and small letters, and their values.

AlNum == Range(Digits) \cup Range(Uppers)

\* A character of an alphabet is found at its one place.
LEMMA PlaceOf ==
  ASSUME NEW S, NEW N \in Nat, DOMAIN S = 1..N,
         \A i, j \in 1..N : S[i] = S[j] => i = j
  PROVE  /\ \A i \in 1..N : S[i] \in Range(S) /\ Place(S[i], S) = i
         /\ \A ch \in Range(S) : Place(ch, S) \in 1..N /\ S[Place(ch, S)] = ch
<1>1. \A i \in 1..N : S[i] \in Range(S)
  BY DEF Range
<1>2. ASSUME NEW i \in 1..N PROVE Place(S[i], S) = i
  <2>1. \A j \in DOMAIN S : S[j] = S[i] <=> j = i
    OBVIOUS
  <2>2. i \in DOMAIN S
    OBVIOUS
  <2> QED  BY <2>1, <2>2, Zenon DEF Place
<1>3. \A ch \in Range(S) : \E i \in 1..N : ch = S[i]
  BY DEF Range
<1> QED  BY <1>1, <1>2, <1>3

\* No character stands twice in its alphabet.
LEMMA DigitsDiffer ==
  DOMAIN Digits = 1..10 /\ \A i, j \in 1..10 : Digits[i] = Digits[j] => i = j
BY DEF Digits

LEMMA UppersDiffer ==
  DOMAIN Uppers = 1..26 /\ \A i, j \in 1..26 : Uppers[i] = Uppers[j] => i = j
BY DEF Uppers

LEMMA LowersDiffer ==
  DOMAIN Lowers = 1..26 /\ \A i, j \in 1..26 : Lowers[i] = Lowers[j] => i = j
BY DEF Lowers

\* Place finds a character's place.
LEMMA PlaceDigits ==
  /\ \A i \in 1..10 : Digits[i] \in Range(Digits) /\ Place(Digits[i], Digits) = i
  /\ \A ch \in Range(Digits) : Place(ch, Digits) \in 1..10 /\ Digits[Place(ch, Digits)] = ch
BY DigitsDiffer, PlaceOf

LEMMA PlaceUppers ==
  /\ \A i \in 1..26 : Uppers[i] \in Range(Uppers) /\ Place(Uppers[i], Uppers) = i
  /\ \A ch \in Range(Uppers) : Place(ch, Uppers) \in 1..26 /\ Uppers[Place(ch, Uppers)] = ch
BY UppersDiffer, PlaceOf

LEMMA PlaceLowers ==
  /\ \A i \in 1..26 : Lowers[i] \in Range(Lowers) /\ Place(Lowers[i], Lowers) = i
  /\ \A ch \in Range(Lowers) : Place(ch, Lowers) \in 1..26 /\ Lowers[Place(ch, Lowers)] = ch
BY LowersDiffer, PlaceOf

\* Digits, capitals, small letters and separators are different characters.
LEMMA AlphabetsDiffer ==
  /\ Range(Digits) \cap Range(Uppers) = {}
  /\ Range(Digits) \cap Range(Lowers) = {}
  /\ Range(Uppers) \cap Range(Lowers) = {}
  /\ Separators \cap (Range(Digits) \cup Range(Uppers) \cup Range(Lowers)) = {}
<1> DEFINE D == {"0", "1", "2", "3", "4", "5", "6", "7", "8", "9"}
           U == {"A", "B", "C", "D", "E", "F", "G", "H", "I", "J", "K", "L", "M",
                 "N", "O", "P", "Q", "R", "S", "T", "U", "V", "W", "X", "Y", "Z"}
           W == {"a", "b", "c", "d", "e", "f", "g", "h", "i", "j", "k", "l", "m",
                 "n", "o", "p", "q", "r", "s", "t", "u", "v", "w", "x", "y", "z"}
<1>1. \A i \in 1..10 : Digits[i] \in D
  BY DEF Digits
<1>2. \A i \in 1..26 : Uppers[i] \in U
  BY DEF Uppers
<1>3. \A i \in 1..26 : Lowers[i] \in W
  BY DEF Lowers
<1>4. D \cap U = {} /\ D \cap W = {} /\ U \cap W = {}
  OBVIOUS
<1>5. \A ch \in D \cup U \cup W : ch # " " /\ ch # "\t" /\ ch # "-"
  BY Zenon
<1> HIDE DEF D, U, W
<1>6. Range(Digits) \subseteq D /\ Range(Uppers) \subseteq U /\ Range(Lowers) \subseteq W
  BY <1>1, <1>2, <1>3, DigitsDiffer, UppersDiffer, LowersDiffer DEF Range
<1>7. \A ch \in D \cup U \cup W : ch \notin Separators
  BY <1>5, Zenon DEF Separators
<1> QED  BY <1>4, <1>6, <1>7

\* A digit's value is its place, counted from 0; a letter's goes on from 10.
LEMMA DigitValues ==
  /\ DigitValue \in [Range(Digits) -> 0..9]
  /\ \A k \in 0..9 : Digits[k + 1] \in Range(Digits) /\ DigitValue[Digits[k + 1]] = k
  /\ \A ch \in Range(Digits) : Digits[DigitValue[ch] + 1] = ch
<1>1. ASSUME NEW k \in 0..9
      PROVE  Digits[k + 1] \in Range(Digits) /\ Place(Digits[k + 1], Digits) = k + 1
  <2>1. k + 1 \in 1..10
    OBVIOUS
  <2> QED  BY <2>1, PlaceDigits
<1> QED  BY <1>1, PlaceDigits DEF DigitValue

LEMMA LetterValues ==
  /\ LetterValue \in [Range(Uppers) -> 10..35]
  /\ \A c, d \in Range(Uppers) : LetterValue[c] = LetterValue[d] => c = d
BY PlaceUppers DEF LetterValue

LEMMA DigitsInjective ==
  \A c, d \in Range(Digits) : DigitValue[c] = DigitValue[d] => c = d
BY DigitValues

\* Writing a character in capitals: once is enough, and it says nothing of
\* digits; writing it small can be undone.
LEMMA Capitals ==
  /\ \A ch \in Range(Lowers) : upper(ch) \in Range(Uppers)
  /\ \A ch : ch \notin Range(Lowers) => upper(ch) = ch
  /\ \A ch \in Characters \ Separators : upper(ch) \in AlNum
  /\ \A ch \in AlNum : upper(ch) = ch
  /\ \A ch \in Characters : upper(lower(ch)) = upper(ch)
  /\ \A ch \in Characters : lower(ch) \in Separators <=> ch \in Separators
<1>1. \A ch \in Range(Lowers) : Place(ch, Lowers) \in 1..26
  BY PlaceLowers
<1>2. \A ch \in Range(Lowers) : upper(ch) \in Range(Uppers)
  BY <1>1, PlaceLowers, PlaceUppers DEF upper
<1>3. \A ch : ch \notin Range(Lowers) => upper(ch) = ch
  BY DEF upper
<1>4. \A ch \in Characters \ Separators : upper(ch) \in AlNum
  BY <1>2, <1>3 DEF Characters, AlNum
<1>5. \A ch \in AlNum : upper(ch) = ch
  BY <1>3, AlphabetsDiffer DEF AlNum
<1>6. ASSUME NEW ch \in Range(Uppers)
      PROVE  lower(ch) \in Range(Lowers) /\ upper(lower(ch)) = ch
  <2>1. Place(ch, Uppers) \in 1..26 /\ Uppers[Place(ch, Uppers)] = ch
    BY PlaceUppers
  <2>2. lower(ch) = Lowers[Place(ch, Uppers)]
    BY DEF lower, isUpper
  <2>3. lower(ch) \in Range(Lowers)
    BY <2>1, <2>2, PlaceLowers
  <2>4. Place(Lowers[Place(ch, Uppers)], Lowers) = Place(ch, Uppers)
    BY <2>1, PlaceLowers
  <2> QED  BY <2>1, <2>2, <2>3, <2>4 DEF upper
<1>7. \A ch : ch \notin Range(Uppers) => lower(ch) = ch
  BY DEF lower, isUpper
<1>8. \A ch \in Characters : upper(lower(ch)) = upper(ch)
  BY <1>3, <1>6, <1>7, AlphabetsDiffer
<1>9. \A ch \in Characters : lower(ch) \in Separators <=> ch \in Separators
  BY <1>6, <1>7, AlphabetsDiffer
<1> QED  BY <1>2, <1>3, <1>4, <1>5, <1>8, <1>9

-----------------------------------------------------------------------------
\* mod97, as the loop of the code: a running remainder modulo 97.

\* What one character does to the remainder.
Shift(r, ch) ==
  IF isDigit(ch) THEN (r * 10 + DigitValue[ch]) % 97 ELSE (r * 100 + LetterValue[ch]) % 97

LEMMA Values ==
  ASSUME NEW ch \in AlNum
  PROVE  /\ isDigit(ch) => DigitValue[ch] \in 0..9
         /\ ~ isDigit(ch) => LetterValue[ch] \in 10..35
BY DigitValues, LetterValues DEF AlNum, isDigit

\* A remainder stays below 97, and the characters stay those of the text.
LEMMA ShiftType ==
  ASSUME NEW r \in 0..96, NEW ch \in AlNum
  PROVE  Shift(r, ch) \in 0..96
<1>1. CASE isDigit(ch)
  <2>1. DigitValue[ch] \in 0..9
    BY <1>1, Values
  <2>2. Shift(r, ch) = (r * 10 + DigitValue[ch]) % 97
    BY <1>1 DEF Shift
  <2>3. \A v \in 0..9 : (r * 10 + v) % 97 \in 0..96
    OBVIOUS
  <2> QED  BY <2>1, <2>2, <2>3
<1>2. CASE ~ isDigit(ch)
  <2>1. LetterValue[ch] \in 10..35
    BY <1>2, Values
  <2>2. Shift(r, ch) = (r * 100 + LetterValue[ch]) % 97
    BY <1>2 DEF Shift
  <2>3. \A v \in 10..35 : (r * 100 + v) % 97 \in 0..96
    OBVIOUS
  <2> QED  BY <2>1, <2>2, <2>3
<1> QED  BY <1>1, <1>2

LEMMA TurnedType ==
  ASSUME NEW S, NEW s \in Seq(S), NEW n \in 1..Len(s)
  PROVE  Turned(s, n) \in S
<1>1. Len(s) \in Nat /\ Len(s) > 0
  OBVIOUS
<1>2. ((n + 3) % Len(s)) + 1 \in 1..Len(s)
  BY <1>1
<1> QED  BY <1>2 DEF Turned

\* The loop of mod97, unfolded.
LEMMA RunningIs ==
  ASSUME NEW s \in Seq(AlNum)
  PROVE  /\ Running(s) \in [0..Len(s) -> 0..96]
         /\ Running(s)[0] = 0
         /\ \A n \in 1..Len(s) : Running(s)[n] = Shift(Running(s)[n - 1], Turned(s, n))
<1> DEFINE L == Len(s)
           step == [p \in (1..L) \X (0..96) |-> Shift(p[2], Turned(s, p[1]))]
<1>1. L \in Nat
  OBVIOUS
<1>2. step \in [(1..L) \X (0..96) -> 0..96]
  <2>1. ASSUME NEW n \in 1..L, NEW r \in 0..96 PROVE Shift(r, Turned(s, n)) \in 0..96
    <3>1. Turned(s, n) \in AlNum
      BY TurnedType
    <3> QED  BY <3>1, ShiftType
  <2> QED  BY <2>1
<1> HIDE DEF L
<1>3. PICK g \in [0..L -> 0..96] :
             g[0] = 0 /\ \A n \in 1..L : g[n] = step[<<n, g[n - 1]>>]
  <2>1. 0 \in 0..96
    OBVIOUS
  <2> HIDE DEF step
  <2>2. \E g : IsRun(g, L, 0..96, 0, step)
    BY <1>1, <1>2, <2>1, RunExists
  <2> QED  BY <2>2 DEF IsRun
<1>4. ASSUME NEW n \in 1..L PROVE step[<<n, g[n - 1]>>] = Shift(g[n - 1], Turned(s, n))
  <2>1. n - 1 \in 0..L
    BY <1>1
  <2>2. g[n - 1] \in 0..96
    BY <2>1
  <2> DEFINE q == g[n - 1]
  <2> HIDE DEF q
  <2>3. step[<<n, q>>] = Shift(q, Turned(s, n))
    BY <2>2 DEF q
  <2> QED  BY <2>3 DEF q
<1> HIDE DEF step
<1>5. g = [n \in 0..L |-> IF n = 0 THEN 0 ELSE Shift(g[n - 1], Turned(s, n))]
  <2> DEFINE h == [n \in 0..L |-> IF n = 0 THEN 0 ELSE Shift(g[n - 1], Turned(s, n))]
  <2>1. ASSUME NEW n \in 0..L PROVE g[n] = h[n]
    <3>1. CASE n = 0
      BY <3>1, <1>3
    <3>2. CASE n # 0
      <4>1. n \in 1..L
        BY <1>1, <3>2
      <4> QED  BY <4>1, <1>3, <1>4
    <3> QED  BY <3>1, <3>2
  <2>2. DOMAIN h = 0..L /\ h = [n \in 0..L |-> h[n]]
    OBVIOUS
  <2> HIDE DEF h
  <2>3. g = h
    BY <2>1, <2>2, SameFunction
  <2> QED  BY <2>3 DEF h
<1>6. Running(s) = [n \in 0..L |-> IF n = 0 THEN 0 ELSE Shift(Running(s)[n - 1], Turned(s, n))]
  BY <1>5, Zenon DEF Running, Shift, L
<1>7. Running(s)[0] = 0
  BY <1>1, <1>6
<1>8. \A n \in 1..L : Running(s)[n] = Shift(Running(s)[n - 1], Turned(s, n))
  BY <1>1, <1>6
<1>9. \A n \in 0..L : Running(s)[n] \in 0..96
  <2> DEFINE T == {n \in Nat : n <= L => Running(s)[n] \in 0..96}
  <2>1. 0 \in T
    BY <1>7
  <2>2. ASSUME NEW n \in Nat, n \in T PROVE n + 1 \in T
    <3>1. SUFFICES ASSUME n + 1 <= L PROVE Running(s)[n + 1] \in 0..96
      OBVIOUS
    <3>2. Running(s)[n + 1] = Shift(Running(s)[n], Turned(s, n + 1))
      BY <1>1, <1>8, <3>1
    <3>3. Turned(s, n + 1) \in AlNum
      BY <1>1, <3>1, TurnedType DEF L
    <3>4. Running(s)[n] \in 0..96
      BY <1>1, <2>2, <3>1
    <3> QED  BY <3>2, <3>3, <3>4, ShiftType
  <2> HIDE DEF T
  <2>3. Nat \subseteq T
    BY <2>1, <2>2, Induction
  <2> QED  BY <1>1, <2>3 DEF T
<1> QED  BY <1>6, <1>7, <1>8, <1>9 DEF L

\* Remainders told without dividing.
LEMMA SmallRemainder ==
  /\ \A a, b \in Nat : a < b => a % b = a
  /\ \A a, b \in Nat : b <= a /\ a < 2 * b => a % b = a - b
<1>1. ASSUME NEW a \in Nat, NEW b \in Nat, a < b PROVE a % b = a
  BY <1>1
<1>2. ASSUME NEW a \in Nat, NEW b \in Nat, b <= a, a < 2 * b PROVE a % b = a - b
  BY <1>2
<1> QED  BY <1>1, <1>2

\* Where the characters of a text stand in the turned text.
LEMMA TurnedAt ==
  ASSUME NEW S, NEW s \in Seq(S), Len(s) >= 4
  PROVE  /\ \A n \in 1..(Len(s) - 4) : Turned(s, n) = s[n + 4]
         /\ \A n \in (Len(s) - 3)..Len(s) : Turned(s, n) = s[n + 4 - Len(s)]
<1> DEFINE L == Len(s)
<1>1. L \in Nat /\ L >= 4
  OBVIOUS
<1> HIDE DEF L
<1>2. ASSUME NEW n \in 1..(L - 4) PROVE Turned(s, n) = s[n + 4]
  <2>0. n + 3 \in Nat /\ n + 3 < L
    BY <1>1
  <2>1. (n + 3) % L = n + 3
    BY <1>1, <2>0, SmallRemainder, Zenon
  <2>2. ((n + 3) % L) + 1 = n + 4
    BY <1>1, <2>1
  <2> QED  BY <2>2 DEF Turned, L
<1>3. ASSUME NEW n \in (L - 3)..L PROVE Turned(s, n) = s[n + 4 - L]
  <2>1. n \in Nat /\ n + 3 \in Nat /\ L <= n + 3 /\ n + 3 < 2 * L
    BY <1>1
  <2>2. (n + 3) % L = (n + 3) - L
    <3> DEFINE a == n + 3
    <3>1. a \in Nat /\ L <= a /\ a < 2 * L
      BY <2>1
    <3> HIDE DEF a
    <3>2. a % L = a - L
      BY <1>1, <3>1, SmallRemainder
    <3> QED  BY <3>2 DEF a
  <2>3. ((n + 3) % L) + 1 = n + 4 - L
    BY <1>1, <2>1, <2>2
  <2> QED  BY <2>3 DEF Turned, L
<1> QED  BY <1>2, <1>3 DEF L

\* Different remainders stay different, whatever character follows: 10 and 100
\* have inverses modulo 97.
LEMMA ShiftInjective ==
  ASSUME NEW r \in 0..96, NEW q \in 0..96, NEW ch \in AlNum, Shift(r, ch) = Shift(q, ch)
  PROVE  r = q
<1>1. CASE isDigit(ch)
  <2>1. DigitValue[ch] \in 0..9
    BY <1>1, Values
  <2>2. (r * 10 + DigitValue[ch]) % 97 = (q * 10 + DigitValue[ch]) % 97
    BY <1>1 DEF Shift
  <2>3. \A v \in 0..9 : (r * 10 + v) % 97 = (q * 10 + v) % 97 => r = q
    OBVIOUS
  <2> QED  BY <2>1, <2>2, <2>3
<1>2. CASE ~ isDigit(ch)
  <2>1. LetterValue[ch] \in 10..35
    BY <1>2, Values
  <2>2. (r * 100 + LetterValue[ch]) % 97 = (q * 100 + LetterValue[ch]) % 97
    BY <1>2 DEF Shift
  <2>3. \A v \in 10..35 : (r * 100 + v) % 97 = (q * 100 + v) % 97 => r = q
    OBVIOUS
  <2> QED  BY <2>1, <2>2, <2>3
<1> QED  BY <1>1, <1>2

\* Two characters of a kind.
Alike(c, d) == isDigit(c) <=> isDigit(d)

LEMMA ValuesDiffer ==
  ASSUME NEW c \in AlNum, NEW d \in AlNum, Alike(c, d), c # d
  PROVE  /\ isDigit(c) => DigitValue[c] # DigitValue[d]
         /\ ~ isDigit(c) => LetterValue[c] # LetterValue[d]
BY DigitsInjective, LetterValues DEF AlNum, isDigit, Alike

\* Another character of its kind gives another remainder.
LEMMA ShiftTells ==
  ASSUME NEW r \in 0..96, NEW c \in AlNum, NEW d \in AlNum, Alike(c, d), c # d
  PROVE  Shift(r, c) # Shift(r, d)
<1>1. CASE isDigit(c)
  <2>1. DigitValue[c] \in 0..9 /\ DigitValue[d] \in 0..9 /\ DigitValue[c] # DigitValue[d]
    BY <1>1, Values, ValuesDiffer DEF Alike
  <2>2. /\ Shift(r, c) = (r * 10 + DigitValue[c]) % 97
        /\ Shift(r, d) = (r * 10 + DigitValue[d]) % 97
    BY <1>1 DEF Shift, Alike
  <2>3. \A u, v \in 0..9 : (r * 10 + u) % 97 = (r * 10 + v) % 97 => u = v
    OBVIOUS
  <2> QED  BY <2>1, <2>2, <2>3
<1>2. CASE ~ isDigit(c)
  <2>1. LetterValue[c] \in 10..35 /\ LetterValue[d] \in 10..35 /\ LetterValue[c] # LetterValue[d]
    BY <1>2, Values, ValuesDiffer DEF Alike
  <2>2. /\ Shift(r, c) = (r * 100 + LetterValue[c]) % 97
        /\ Shift(r, d) = (r * 100 + LetterValue[d]) % 97
    BY <1>2 DEF Shift, Alike
  <2>3. \A u, v \in 10..35 : (r * 100 + u) % 97 = (r * 100 + v) % 97 => u = v
    OBVIOUS
  <2> QED  BY <2>1, <2>2, <2>3
<1> QED  BY <1>1, <1>2

\* So do two neighbours of a kind in the other order.
LEMMA ShiftOrder ==
  ASSUME NEW r \in 0..96, NEW c \in AlNum, NEW d \in AlNum, Alike(c, d), c # d
  PROVE  Shift(Shift(r, c), d) # Shift(Shift(r, d), c)
<1>1. CASE isDigit(c)
  <2>1. DigitValue[c] \in 0..9 /\ DigitValue[d] \in 0..9 /\ DigitValue[c] # DigitValue[d]
    BY <1>1, Values, ValuesDiffer DEF Alike
  <2>2. /\ Shift(Shift(r, c), d) = (((r * 10 + DigitValue[c]) % 97) * 10 + DigitValue[d]) % 97
        /\ Shift(Shift(r, d), c) = (((r * 10 + DigitValue[d]) % 97) * 10 + DigitValue[c]) % 97
    BY <1>1 DEF Shift, Alike
  <2>3. \A u, v \in 0..9 :
          (((r * 10 + u) % 97) * 10 + v) % 97 = (((r * 10 + v) % 97) * 10 + u) % 97 => u = v
    OBVIOUS
  <2> QED  BY <2>1, <2>2, <2>3, Zenon
<1>2. CASE ~ isDigit(c)
  <2>1. LetterValue[c] \in 10..35 /\ LetterValue[d] \in 10..35 /\ LetterValue[c] # LetterValue[d]
    BY <1>2, Values, ValuesDiffer DEF Alike
  <2>2. /\ Shift(Shift(r, c), d) = (((r * 100 + LetterValue[c]) % 97) * 100 + LetterValue[d]) % 97
        /\ Shift(Shift(r, d), c) = (((r * 100 + LetterValue[d]) % 97) * 100 + LetterValue[c]) % 97
    BY <1>2 DEF Shift, Alike
  <2>3. \A u, v \in 10..35 :
          (((r * 100 + u) % 97) * 100 + v) % 97 = (((r * 100 + v) % 97) * 100 + u) % 97 => u = v
    OBVIOUS
  <2> QED  BY <2>1, <2>2, <2>3
<1> QED  BY <1>1, <1>2

\* Texts that start alike have the same remainders so far.
LEMMA SameStart ==
  ASSUME NEW s \in Seq(AlNum), NEW t \in Seq(AlNum), Len(t) = Len(s),
         NEW k \in 0..Len(s), \A n \in 1..k : Turned(s, n) = Turned(t, n)
  PROVE  \A n \in 0..k : Running(s)[n] = Running(t)[n]
<1> DEFINE T == {n \in Nat : n <= k => Running(s)[n] = Running(t)[n]}
<1>0. Len(s) \in Nat /\ k \in Nat
  OBVIOUS
<1>1. 0 \in T
  BY RunningIs
<1>2. ASSUME NEW n \in Nat, n \in T PROVE n + 1 \in T
  <2>1. SUFFICES ASSUME n + 1 <= k PROVE Running(s)[n + 1] = Running(t)[n + 1]
    OBVIOUS
  <2>2. /\ Running(s)[n + 1] = Shift(Running(s)[n], Turned(s, n + 1))
        /\ Running(t)[n + 1] = Shift(Running(t)[n], Turned(t, n + 1))
    <3>1. n + 1 \in 1..Len(s) /\ (n + 1) - 1 = n
      BY <1>0, <2>1
    <3> QED  BY <3>1, RunningIs
  <2>3. Turned(s, n + 1) = Turned(t, n + 1)
    BY <1>0, <2>1
  <2> QED  BY <1>0, <1>2, <2>1, <2>2, <2>3
<1> HIDE DEF T
<1>3. Nat \subseteq T
  BY <1>1, <1>2, Induction
<1> QED  BY <1>0, <1>3 DEF T

\* Once the remainders differ they differ to the end, if the rest is the same.
LEMMA StaysDifferent ==
  ASSUME NEW s \in Seq(AlNum), NEW t \in Seq(AlNum), Len(t) = Len(s),
         NEW k \in 0..Len(s), Running(s)[k] # Running(t)[k],
         \A n \in (k + 1)..Len(s) : Turned(s, n) = Turned(t, n)
  PROVE  Running(s)[Len(s)] # Running(t)[Len(s)]
<1> DEFINE T == {n \in Nat : k + n <= Len(s) => Running(s)[k + n] # Running(t)[k + n]}
<1>0. Len(s) \in Nat /\ k \in Nat /\ k <= Len(s)
  OBVIOUS
<1>1. 0 \in T
  BY <1>0
<1>2. ASSUME NEW n \in Nat, n \in T PROVE n + 1 \in T
  <2>1. SUFFICES ASSUME k + (n + 1) <= Len(s)
                 PROVE  Running(s)[k + (n + 1)] # Running(t)[k + (n + 1)]
    OBVIOUS
  <2> DEFINE m == k + n
  <2>2. m \in 0..Len(s) /\ k + (n + 1) = m + 1 /\ m + 1 \in (k + 1)..Len(s) /\ m + 1 \in 1..Len(s)
    BY <1>0, <2>1
  <2>3. Running(s)[m] # Running(t)[m]
    BY <1>0, <1>2, <2>1
  <2> HIDE DEF m
  <2>4. /\ Running(s)[m + 1] = Shift(Running(s)[m], Turned(s, m + 1))
        /\ Running(t)[m + 1] = Shift(Running(t)[m], Turned(t, m + 1))
    <3>1. (m + 1) - 1 = m
      BY <1>0, <2>2
    <3> QED  BY <2>2, <3>1, RunningIs
  <2>5. Turned(s, m + 1) = Turned(t, m + 1) /\ Turned(s, m + 1) \in AlNum
    BY <2>2, TurnedType
  <2>6. Running(s)[m] \in 0..96 /\ Running(t)[m] \in 0..96
    BY <2>2, RunningIs
  <2>7. Running(s)[m + 1] # Running(t)[m + 1]
    BY <2>3, <2>4, <2>5, <2>6, ShiftInjective
  <2> QED  BY <2>2, <2>7
<1> HIDE DEF T
<1>3. Nat \subseteq T
  BY <1>1, <1>2, Induction
<1>4. Len(s) - k \in T
  BY <1>0, <1>3
<1> QED  BY <1>0, <1>4 DEF T

-----------------------------------------------------------------------------
\* The powers of ten modulo 97: none up to the 67th is 1, which is why two
\* neighbours that change places are noticed.

LEMMA PowerIs ==
  /\ PowerOfTen \in [0..68 -> 0..96] /\ PowerOfTen[0] = 1
  /\ \A n \in 1..68 : PowerOfTen[n] = (PowerOfTen[n - 1] * 10) % 97
<1> DEFINE step == [p \in (1..68) \X (0..96) |-> (p[2] * 10) % 97]
<1>1. step \in [(1..68) \X (0..96) -> 0..96]
  OBVIOUS
<1>2. PICK g : IsRun(g, 68, 0..96, 1, step)
  <2>1. 1 \in 0..96 /\ 68 \in Nat
    OBVIOUS
  <2> HIDE DEF step
  <2> QED  BY <1>1, <2>1, RunExists
<1>3. g \in [0..68 -> 0..96] /\ g[0] = 1
  BY <1>2 DEF IsRun
<1>4. ASSUME NEW n \in 1..68 PROVE g[n] = (g[n - 1] * 10) % 97
  <2> DEFINE q == g[n - 1]
  <2>1. q \in 0..96
    BY <1>3
  <2>2. g[n] = step[<<n, q>>]
    BY <1>2 DEF IsRun
  <2> HIDE DEF q
  <2>3. step[<<n, q>>] = (q * 10) % 97
    BY <2>1
  <2> QED  BY <2>2, <2>3 DEF q
<1>5. g = [n \in 0..68 |-> IF n = 0 THEN 1 ELSE (g[n - 1] * 10) % 97]
  <2> DEFINE h == [n \in 0..68 |-> IF n = 0 THEN 1 ELSE (g[n - 1] * 10) % 97]
  <2>1. ASSUME NEW n \in 0..68 PROVE g[n] = h[n]
    <3>1. CASE n = 0
      BY <3>1, <1>3
    <3>2. CASE n # 0
      <4>1. n \in 1..68
        BY <3>2
      <4> QED  BY <4>1, <1>4
    <3> QED  BY <3>1, <3>2
  <2>2. DOMAIN h = 0..68 /\ h = [n \in 0..68 |-> h[n]]
    OBVIOUS
  <2>3. DOMAIN g = 0..68 /\ g = [n \in 0..68 |-> g[n]]
    BY <1>3
  <2> HIDE DEF h
  <2>4. g = h
    BY <2>1, <2>2, <2>3, SameFunction
  <2> QED  BY <2>4 DEF h
<1>6. 2 * MaxLength = 68
  BY DEF MaxLength
<1>7. PowerOfTen = [n \in 0..68 |-> IF n = 0 THEN 1 ELSE (PowerOfTen[n - 1] * 10) % 97]
  <2>1. PowerOfTen = CHOOSE f : f = [n \in 0..68 |-> IF n = 0 THEN 1 ELSE (f[n - 1] * 10) % 97]
    BY <1>6, Zenon DEF PowerOfTen
  <2> QED  BY <1>5, <2>1, Zenon
<1>8. PowerOfTen[0] = 1 /\ \A n \in 1..68 : PowerOfTen[n] = (PowerOfTen[n - 1] * 10) % 97
  BY <1>7
<1>9. ASSUME NEW n \in 0..68 PROVE PowerOfTen[n] = g[n]
  <2> DEFINE T == {k \in Nat : k <= 68 => PowerOfTen[k] = g[k]}
  <2>1. 0 \in T
    BY <1>3, <1>8
  <2>2. \A k \in Nat : k \in T => k + 1 \in T
    BY <1>4, <1>8
  <2> HIDE DEF T
  <2>3. Nat \subseteq T
    BY <2>1, <2>2, Induction
  <2> QED  BY <2>3 DEF T
<1>10. PowerOfTen \in [0..68 -> 0..96]
  BY <1>3, <1>7, <1>9
<1> QED  BY <1>8, <1>10

\* The first 67 powers of ten, modulo 97: none of them is 1.
Powers == <<10, 3, 30, 9, 90, 27, 76, 81, 34, 49, 5, 50, 15, 53,
              45, 62, 38, 89, 17, 73, 51, 25, 56, 75, 71, 31, 19, 93,
              57, 85, 74, 61, 28, 86, 84, 64, 58, 95, 77, 91, 37, 79,
              14, 43, 42, 32, 29, 96, 87, 94, 67, 88, 7, 70, 21, 16,
              63, 48, 92, 47, 82, 44, 52, 35, 59, 8, 80>>

\* 10 has order 96 modulo 97, and a text has at most 68 digits.
LEMMA PowersNotOne == \A n \in 1..67 : PowerOfTen[n] # 1
<1>1. /\ Powers[1] = 10
      /\ \A n \in 1..67 : Powers[n] # 1
      /\ \A n \in 1..66 : Powers[n + 1] = (Powers[n] * 10) % 97
  BY DEF Powers
<1> DEFINE T == {k \in Nat : k \in 1..67 => PowerOfTen[k] = Powers[k]}
<1>2. 0 \in T
  OBVIOUS
<1>3. ASSUME NEW k \in Nat, k \in T PROVE k + 1 \in T
  <2>1. CASE k = 0
    BY <1>1, <2>1, PowerIs
  <2>2. CASE k \in 1..66
    BY <1>1, <1>3, <2>2, PowerIs
  <2>3. CASE k > 66
    BY <2>3
  <2> QED  BY <2>1, <2>2, <2>3
<1> HIDE DEF T
<1>4. Nat \subseteq T
  BY <1>2, <1>3, Induction
<1> QED  BY <1>1, <1>4 DEF T

\* One character that is another of its kind.
LEMMA OneChange ==
  ASSUME NEW s \in Seq(AlNum), NEW t \in Seq(AlNum), Len(t) = Len(s),
         NEW k \in 1..Len(s), Turned(s, k) # Turned(t, k), Alike(Turned(s, k), Turned(t, k)),
         \A n \in 1..Len(s) : n # k => Turned(s, n) = Turned(t, n)
  PROVE  Running(s)[Len(s)] # Running(t)[Len(s)]
<1>1. Len(s) \in Nat /\ k - 1 \in 0..Len(s) /\ k \in 0..Len(s)
  OBVIOUS
<1>2. \A n \in 1..(k - 1) : Turned(s, n) = Turned(t, n)
  BY <1>1
<1>3. Running(s)[k - 1] = Running(t)[k - 1]
  BY <1>1, <1>2, SameStart
<1>4. /\ Running(s)[k] = Shift(Running(s)[k - 1], Turned(s, k))
      /\ Running(t)[k] = Shift(Running(t)[k - 1], Turned(t, k))
      /\ Running(s)[k - 1] \in 0..96
  BY <1>1, RunningIs
<1>5. Turned(s, k) \in AlNum /\ Turned(t, k) \in AlNum
  BY TurnedType
<1>6. Running(s)[k] # Running(t)[k]
  BY <1>3, <1>4, <1>5, ShiftTells
<1>7. \A n \in (k + 1)..Len(s) : Turned(s, n) = Turned(t, n)
  BY <1>1
<1> QED  BY <1>1, <1>6, <1>7, StaysDifferent

\* Two neighbours of a kind in the other order.
LEMMA OneExchange ==
  ASSUME NEW s \in Seq(AlNum), NEW t \in Seq(AlNum), Len(t) = Len(s),
         NEW k \in 1..(Len(s) - 1),
         Turned(t, k) = Turned(s, k + 1), Turned(t, k + 1) = Turned(s, k),
         Turned(s, k) # Turned(s, k + 1), Alike(Turned(s, k), Turned(s, k + 1)),
         \A n \in 1..Len(s) : n # k /\ n # k + 1 => Turned(s, n) = Turned(t, n)
  PROVE  Running(s)[Len(s)] # Running(t)[Len(s)]
<1>1. /\ Len(s) \in Nat /\ k - 1 \in 0..Len(s) /\ k \in 1..Len(s) /\ k + 1 \in 1..Len(s)
      /\ (k + 1) - 1 = k /\ k + 1 \in 0..Len(s)
  OBVIOUS
<1>2. \A n \in 1..(k - 1) : Turned(s, n) = Turned(t, n)
  BY <1>1
<1>3. Running(s)[k - 1] = Running(t)[k - 1]
  BY <1>1, <1>2, SameStart
<1>4. /\ Running(s)[k] = Shift(Running(s)[k - 1], Turned(s, k))
      /\ Running(t)[k] = Shift(Running(t)[k - 1], Turned(t, k))
      /\ Running(s)[k - 1] \in 0..96
  BY <1>1, RunningIs
<1>5. /\ Running(s)[k + 1] = Shift(Running(s)[k], Turned(s, k + 1))
      /\ Running(t)[k + 1] = Shift(Running(t)[k], Turned(t, k + 1))
  BY <1>1, RunningIs
<1>6. Turned(s, k) \in AlNum /\ Turned(s, k + 1) \in AlNum
  BY <1>1, TurnedType
<1>7. Running(s)[k + 1] # Running(t)[k + 1]
  BY <1>3, <1>4, <1>5, <1>6, ShiftOrder
<1>8. \A n \in ((k + 1) + 1)..Len(s) : Turned(s, n) = Turned(t, n)
  BY <1>1
<1> QED  BY <1>1, <1>7, <1>8, StaysDifferent

LEMMA Quotient == \A z \in Int : \E q \in Int : z % 97 = z - 97 * q
<1> SUFFICES ASSUME NEW z \in Int PROVE z % 97 = z - 97 * (z \div 97) /\ z \div 97 \in Int
  OBVIOUS
<1> QED  OBVIOUS

\* 97 is a prime: it divides no product of these.
LEMMA NoProduct ==
  ASSUME NEW d \in (-9)..9, d # 0, NEW e \in (-1)..95, e # 0, NEW q \in Int, d * e = 97 * q
  PROVE  FALSE
<1>1. ASSUME NEW f \in 1..9, NEW p \in Int, f * e = 97 * p
      PROVE  FALSE
  <2>1. CASE f = 1
    BY <1>1, <2>1
  <2>2. CASE f = 2
    BY <1>1, <2>2
  <2>3. CASE f = 3
    BY <1>1, <2>3
  <2>4. CASE f = 4
    BY <1>1, <2>4
  <2>5. CASE f = 5
    BY <1>1, <2>5
  <2>6. CASE f = 6
    BY <1>1, <2>6
  <2>7. CASE f = 7
    BY <1>1, <2>7
  <2>8. CASE f = 8
    BY <1>1, <2>8
  <2>9. CASE f = 9
    BY <1>1, <2>9
  <2> QED  BY <2>1, <2>2, <2>3, <2>4, <2>5, <2>6, <2>7, <2>8, <2>9
<1>2. CASE d > 0
  BY <1>1, <1>2
<1>3. CASE d < 0
  <2>1. (-d) \in 1..9 /\ (-q) \in Int /\ (-d) * e = 97 * (-q)
    BY <1>3
  <2> QED  BY <1>1, <2>1
<1> QED  BY <1>2, <1>3

\* x and y differ by d times p, modulo 97.
Apart(x, y, d, p) == \E q \in Int : x - y = d * p + 97 * q

\* A digit carries the distance of two remainders on to the next power.
LEMMA ApartStep ==
  ASSUME NEW x \in 0..96, NEW y \in 0..96, NEW d \in Int, NEW p \in 0..96, Apart(x, y, d, p),
         NEW v \in Nat
  PROVE  Apart((x * 10 + v) % 97, (y * 10 + v) % 97, d, (p * 10) % 97)
<1>1. PICK q \in Int : x - y = d * p + 97 * q
  BY DEF Apart
<1>2. PICK a \in Int : (x * 10 + v) % 97 = (x * 10 + v) - 97 * a
  <2>1. x * 10 + v \in Int
    OBVIOUS
  <2> QED  BY <2>1, Quotient
<1>3. PICK b \in Int : (y * 10 + v) % 97 = (y * 10 + v) - 97 * b
  <2>1. y * 10 + v \in Int
    OBVIOUS
  <2> QED  BY <2>1, Quotient
<1>4. PICK c \in Int : (p * 10) % 97 = p * 10 - 97 * c
  <2>1. p * 10 \in Int
    OBVIOUS
  <2> QED  BY <2>1, Quotient
<1> DEFINE k == ((10 * q - a) + b) + d * c
<1>5. k \in Int
  OBVIOUS
<1>6. ((x * 10 + v) - 97 * a) - ((y * 10 + v) - 97 * b) = d * (p * 10 - 97 * c) + 97 * k
  <2>1. ((x * 10 + v) - 97 * a) - ((y * 10 + v) - 97 * b) = 10 * (x - y) - 97 * a + 97 * b
    OBVIOUS
  <2> QED  BY <1>1, <2>1
<1> HIDE DEF k
<1> QED  BY <1>2, <1>3, <1>4, <1>5, <1>6 DEF Apart

LEMMA PowerStep ==
  ASSUME NEW m \in 0..67
  PROVE  /\ PowerOfTen[m] \in 0..96 /\ PowerOfTen[m + 1] \in 0..96
         /\ PowerOfTen[m + 1] = (PowerOfTen[m] * 10) % 97
         /\ m < 67 => PowerOfTen[m + 1] # 1
<1> DEFINE j == m + 1
<1>1. m \in 0..68 /\ j \in 1..68 /\ j \in 0..68 /\ j - 1 = m /\ (m < 67 => j \in 1..67)
  OBVIOUS
<1> HIDE DEF j
<1>2. /\ PowerOfTen[m] \in 0..96 /\ PowerOfTen[j] \in 0..96
      /\ PowerOfTen[j] = (PowerOfTen[j - 1] * 10) % 97
      /\ m < 67 => PowerOfTen[j] # 1
  BY <1>1, PowerIs, PowersNotOne
<1>3. PowerOfTen[j] = (PowerOfTen[m] * 10) % 97
  BY <1>1, <1>2
<1> QED  BY <1>2, <1>3 DEF j

\* A letter is two digits.
LEMMA TwoDigitsAtOnce ==
  \A x \in 0..96, v \in 10..35 : (x * 100 + v) % 97 = (((x * 10 + 0) % 97) * 10 + v) % 97
OBVIOUS

\* The same character after both keeps them apart by a power of ten.
LEMMA ApartShift ==
  ASSUME NEW x \in 0..96, NEW y \in 0..96, NEW d \in Int, NEW m \in 0..66,
         Apart(x, y, d, PowerOfTen[m]), NEW ch \in AlNum
  PROVE  \/ Apart(Shift(x, ch), Shift(y, ch), d, PowerOfTen[m + 1])
         \/ Apart(Shift(x, ch), Shift(y, ch), d, PowerOfTen[m + 2])
<1>1. PICK p \in 0..96 : p = PowerOfTen[m] /\ PowerOfTen[m + 1] = (p * 10) % 97
  <2>1. m \in 0..67
    OBVIOUS
  <2> QED  BY <2>1, PowerStep
<1>2. PICK q \in 0..96 : q = PowerOfTen[m + 1] /\ PowerOfTen[m + 2] = (q * 10) % 97
  <2>1. m + 1 \in 0..67 /\ (m + 1) + 1 = m + 2
    OBVIOUS
  <2>2. /\ PowerOfTen[m + 1] \in 0..96
        /\ PowerOfTen[(m + 1) + 1] = (PowerOfTen[m + 1] * 10) % 97
    BY <2>1, PowerStep
  <2> QED  BY <2>1, <2>2
<1>3. q = (p * 10) % 97
  BY <1>1, <1>2
<1>4. \A v \in Nat : Apart((x * 10 + v) % 97, (y * 10 + v) % 97, d, q)
  BY <1>1, <1>3, ApartStep
<1>5. CASE isDigit(ch)
  <2>1. DigitValue[ch] \in Nat
    BY <1>5, Values
  <2>2. /\ Shift(x, ch) = (x * 10 + DigitValue[ch]) % 97
        /\ Shift(y, ch) = (y * 10 + DigitValue[ch]) % 97
    BY <1>5 DEF Shift
  <2>3. Apart(Shift(x, ch), Shift(y, ch), d, PowerOfTen[m + 1])
    BY <1>2, <1>4, <2>1, <2>2
  <2> QED  BY <2>3
<1>6. CASE ~ isDigit(ch)
  <2>1. LetterValue[ch] \in 10..35 /\ LetterValue[ch] \in Nat
    BY <1>6, Values
  <2>2. /\ Shift(x, ch) = (x * 100 + LetterValue[ch]) % 97
        /\ Shift(y, ch) = (y * 100 + LetterValue[ch]) % 97
    BY <1>6 DEF Shift
  <2>3. PICK u \in 0..96 : u = (x * 10 + 0) % 97
    OBVIOUS
  <2>4. PICK w \in 0..96 : w = (y * 10 + 0) % 97
    OBVIOUS
  <2>5. \A v \in 10..35 : /\ (x * 100 + v) % 97 = (u * 10 + v) % 97
                          /\ (y * 100 + v) % 97 = (w * 10 + v) % 97
    <3>1. \A z \in 0..96 : \A v \in 10..35 : (z * 100 + v) % 97 = (((z * 10 + 0) % 97) * 10 + v) % 97
      BY TwoDigitsAtOnce, Zenon
    <3>2. \A v \in 10..35 : (x * 100 + v) % 97 = (u * 10 + v) % 97
      BY <2>3, <3>1, Zenon
    <3>3. \A v \in 10..35 : (y * 100 + v) % 97 = (w * 10 + v) % 97
      BY <2>4, <3>1, Zenon
    <3> QED  BY <3>2, <3>3, Zenon
  <2>6. Apart(u, w, d, q)
    <3>1. 0 \in Nat
      OBVIOUS
    <3>2. Apart((x * 10 + 0) % 97, (y * 10 + 0) % 97, d, q)
      BY <1>4, <3>1, Zenon
    <3> QED  BY <2>3, <2>4, <3>2, Zenon
  <2>7. \A v \in Nat : Apart((u * 10 + v) % 97, (w * 10 + v) % 97, d, PowerOfTen[m + 2])
    <3>1. \A v \in Nat : Apart((u * 10 + v) % 97, (w * 10 + v) % 97, d, (q * 10) % 97)
      BY <2>6, ApartStep
    <3> QED  BY <1>2, <3>1, Zenon
  <2>8. Apart(Shift(x, ch), Shift(y, ch), d, PowerOfTen[m + 2])
    <3>1. Shift(x, ch) = (u * 10 + LetterValue[ch]) % 97 /\ Shift(y, ch) = (w * 10 + LetterValue[ch]) % 97
      BY <2>1, <2>2, <2>5, Zenon
    <3> QED  BY <2>1, <2>7, <3>1, Zenon
  <2> QED  BY <2>8
<1> QED  BY <1>5, <1>6

\* Two texts that differ in their first place only stay apart by a power of ten.
LEMMA StayApart ==
  ASSUME NEW s \in Seq(AlNum), NEW t \in Seq(AlNum), NEW L \in 2..34, Len(s) = L, Len(t) = L,
         \A n \in 2..(L - 1) : Turned(s, n) = Turned(t, n),
         NEW d \in Int, Apart(Running(s)[1], Running(t)[1], d, PowerOfTen[0])
  PROVE  \E m \in 0..64 : Apart(Running(s)[L - 1], Running(t)[L - 1], d, PowerOfTen[m])
<1> DEFINE T == {n \in Nat : n + 1 < L =>
                  \E m \in 0..(2 * n) :
                    Apart(Running(s)[n + 1], Running(t)[n + 1], d, PowerOfTen[m])}
<1>1. 0 \in T
  OBVIOUS
<1>2. ASSUME NEW n \in Nat, n \in T PROVE n + 1 \in T
  <2>1. SUFFICES ASSUME (n + 1) + 1 < L
        PROVE  \E m \in 0..(2 * (n + 1)) :
                 Apart(Running(s)[(n + 1) + 1], Running(t)[(n + 1) + 1], d, PowerOfTen[m])
    OBVIOUS
  <2>2. PICK m \in 0..(2 * n) : Apart(Running(s)[n + 1], Running(t)[n + 1], d, PowerOfTen[m])
    BY <1>2, <2>1
  <2>3. PICK i \in 0..L : i = n + 1
    BY <2>1
  <2>4. PICK j \in 2..(L - 1) : j = i + 1
    BY <2>1, <2>3
  <2>5. j \in 1..L /\ j - 1 = i /\ j = (n + 1) + 1 /\ m \in 0..66
    BY <2>1, <2>3, <2>4
  <2>6. /\ Running(s)[j] = Shift(Running(s)[j - 1], Turned(s, j))
        /\ Running(t)[j] = Shift(Running(t)[j - 1], Turned(t, j))
        /\ Running(s)[i] \in 0..96 /\ Running(t)[i] \in 0..96
    <3>1. Running(s)[j] = Shift(Running(s)[j - 1], Turned(s, j)) /\ Running(s)[i] \in 0..96
      BY <2>5, RunningIs
    <3>2. Running(t)[j] = Shift(Running(t)[j - 1], Turned(t, j)) /\ Running(t)[i] \in 0..96
      BY <2>5, RunningIs
    <3> QED  BY <3>1, <3>2
  <2>7. Turned(t, j) = Turned(s, j) /\ Turned(s, j) \in AlNum
    BY <2>4, <2>5, TurnedType
  <2>8. Apart(Running(s)[i], Running(t)[i], d, PowerOfTen[m])
    BY <2>2, <2>3
  <2>9. \/ Apart(Shift(Running(s)[i], Turned(s, j)), Shift(Running(t)[i], Turned(s, j)), d,
                  PowerOfTen[m + 1])
        \/ Apart(Shift(Running(s)[i], Turned(s, j)), Shift(Running(t)[i], Turned(s, j)), d,
                  PowerOfTen[m + 2])
    BY <2>5, <2>6, <2>7, <2>8, ApartShift
  <2>10. \/ Apart(Running(s)[j], Running(t)[j], d, PowerOfTen[m + 1])
         \/ Apart(Running(s)[j], Running(t)[j], d, PowerOfTen[m + 2])
    BY <2>5, <2>6, <2>7, <2>9
  <2>11. m + 1 \in 0..(2 * (n + 1)) /\ m + 2 \in 0..(2 * (n + 1))
    OBVIOUS
  <2> QED  BY <2>5, <2>10, <2>11
<1> HIDE DEF T
<1>3. Nat \subseteq T
  BY <1>1, <1>2, Induction
<1>4. PICK k \in Nat : k = L - 2
  OBVIOUS
<1>5. k \in T /\ k + 1 < L /\ k + 1 = L - 1
  BY <1>3, <1>4
<1>6. PICK m \in 0..(2 * k) : Apart(Running(s)[k + 1], Running(t)[k + 1], d, PowerOfTen[m])
  BY <1>5 DEF T
<1>7. m \in 0..64
  BY <1>4
<1> QED  BY <1>5, <1>6, <1>7

EndApart(x, y, a, b) == (x * 10 + b) % 97 # (y * 10 + a) % 97

\* So if they differ in their last place too, the other way round, they end
\* with different remainders: the power would have to be the inverse of ten.
LEMMA EndsApart ==
  ASSUME NEW x \in 0..96, NEW y \in 0..96, NEW p \in 0..96, (p * 10) % 97 # 1,
         NEW a \in 0..9, NEW b \in 0..9, a # b, Apart(x, y, a - b, p)
  PROVE  EndApart(x, y, a, b)
<1>1. SUFFICES ASSUME (x * 10 + b) % 97 = (y * 10 + a) % 97 PROVE FALSE
  BY DEF EndApart
<1>2. PICK d \in (-9)..9 : d = a - b /\ d # 0
  OBVIOUS
<1>3. PICK q \in Int : x - y = d * p + 97 * q
  BY <1>2 DEF Apart
<1>4. PICK i \in Int : (x * 10 + b) % 97 = (x * 10 + b) - 97 * i
  <2>1. x * 10 + b \in Int
    OBVIOUS
  <2> QED  BY <2>1, Quotient
<1>5. PICK j \in Int : (y * 10 + a) % 97 = (y * 10 + a) - 97 * j
  <2>1. y * 10 + a \in Int
    OBVIOUS
  <2> QED  BY <2>1, Quotient
<1>6. PICK c \in Int : (p * 10) % 97 = p * 10 - 97 * c
  <2>1. p * 10 \in Int
    OBVIOUS
  <2> QED  BY <2>1, Quotient
<1>7. PICK e \in (-1)..95 : e = ((p * 10) % 97) - 1 /\ e # 0
  OBVIOUS
<1>8. e = (p * 10 - 97 * c) - 1
  BY <1>6, <1>7
<1>9. (x * 10 + b) - 97 * i = (y * 10 + a) - 97 * j
  BY <1>1, <1>4, <1>5
<1>10. PICK dp \in Int : dp = d * p
  OBVIOUS
<1>11. PICK dc \in Int : dc = d * c
  OBVIOUS
<1>12. 10 * (dp + 97 * q) - d = 97 * (i - j)
  BY <1>2, <1>3, <1>9, <1>10
<1>13. d * e = (10 * dp - 97 * dc) - d
  <2>1. d * e = d * ((p * 10 - 97 * c) - 1)
    BY <1>8
  <2>2. d * ((p * 10 - 97 * c) - 1) = (10 * (d * p) - 97 * (d * c)) - d
    OBVIOUS
  <2>3. (10 * (d * p) - 97 * (d * c)) - d = (10 * dp - 97 * dc) - d
    BY <1>10, <1>11, ZenonT(60)
  <2> QED  BY <2>1, <2>2, <2>3, ZenonT(60)
<1>14. PICK z \in Int : z = ((i - j) - 10 * q) - dc
  OBVIOUS
<1>15. d * e = 97 * z
  BY <1>12, <1>13, <1>14
<1> QED  BY <1>2, <1>7, <1>15, NoProduct

\* A digit at the front and another at the end, exchanged.
LEMMA EndsExchanged ==
  ASSUME NEW s \in Seq(AlNum), NEW t \in Seq(AlNum), NEW L \in 2..34, Len(s) = L, Len(t) = L,
         Turned(t, 1) = Turned(s, L), Turned(t, L) = Turned(s, 1),
         Turned(s, 1) # Turned(s, L), isDigit(Turned(s, 1)), isDigit(Turned(s, L)),
         \A n \in 2..(L - 1) : Turned(s, n) = Turned(t, n)
  PROVE  Running(s)[L] # Running(t)[L]
<1>1. 1 \in 1..L /\ L \in 1..L /\ L - 1 \in 0..L /\ 1 - 1 = 0
  OBVIOUS
<1>2. Turned(s, 1) \in AlNum /\ Turned(s, L) \in AlNum
  BY <1>1, TurnedType
<1>3. PICK a \in 0..9 : a = DigitValue[Turned(s, 1)]
  BY <1>2, Values
<1>4. PICK b \in 0..9 : b = DigitValue[Turned(s, L)]
  BY <1>2, Values
<1>5. a # b
  BY <1>2, <1>3, <1>4, ValuesDiffer DEF Alike
<1>6. /\ Running(s)[1] = Shift(Running(s)[0], Turned(s, 1)) /\ Running(s)[0] = 0
      /\ Running(t)[1] = Shift(Running(t)[0], Turned(t, 1)) /\ Running(t)[0] = 0
      /\ Running(s)[L] = Shift(Running(s)[L - 1], Turned(s, L))
      /\ Running(t)[L] = Shift(Running(t)[L - 1], Turned(t, L))
      /\ Running(s)[L - 1] \in 0..96 /\ Running(t)[L - 1] \in 0..96
  <2>1. /\ Running(s)[1] = Shift(Running(s)[0], Turned(s, 1)) /\ Running(s)[0] = 0
        /\ Running(s)[L] = Shift(Running(s)[L - 1], Turned(s, L)) /\ Running(s)[L - 1] \in 0..96
    BY <1>1, RunningIs
  <2>2. /\ Running(t)[1] = Shift(Running(t)[0], Turned(t, 1)) /\ Running(t)[0] = 0
        /\ Running(t)[L] = Shift(Running(t)[L - 1], Turned(t, L)) /\ Running(t)[L - 1] \in 0..96
    BY <1>1, RunningIs
  <2> QED  BY <2>1, <2>2, Zenon
<1>7. Running(s)[1] = a /\ Running(t)[1] = b
  <2>1. \A v \in 0..9 : (0 * 10 + v) % 97 = v
    OBVIOUS
  <2>2. Running(s)[1] = (0 * 10 + a) % 97 /\ Running(t)[1] = (0 * 10 + b) % 97
    BY <1>3, <1>4, <1>6, Zenon DEF Shift
  <2> QED  BY <2>1, <2>2
<1>8. Apart(Running(s)[1], Running(t)[1], a - b, PowerOfTen[0])
  <2>1. PowerOfTen[0] = 1
    BY PowerIs
  <2>2. a - b = (a - b) * 1 + 97 * 0
    OBVIOUS
  <2> QED  BY <1>7, <2>1, <2>2 DEF Apart
<1>9. PICK m \in 0..64 : Apart(Running(s)[L - 1], Running(t)[L - 1], a - b, PowerOfTen[m])
  <2>1. a - b \in Int
    OBVIOUS
  <2> QED  BY <1>8, <2>1, StayApart
<1>10. PICK p \in 0..96 : p = PowerOfTen[m] /\ (p * 10) % 97 # 1
  <2>1. m \in 0..67 /\ m < 67
    OBVIOUS
  <2> QED  BY <2>1, PowerStep
<1>11. PICK x \in 0..96 : x = Running(s)[L - 1]
  BY <1>6
<1>12. PICK y \in 0..96 : y = Running(t)[L - 1]
  BY <1>6
<1>13. (x * 10 + b) % 97 # (y * 10 + a) % 97
  <2>1. Apart(x, y, a - b, p)
    BY <1>9, <1>10, <1>11, <1>12
  <2>2. EndApart(x, y, a, b)
    BY <1>5, <1>10, <2>1, EndsApart, Zenon
  <2> QED  BY <2>2, Zenon DEF EndApart
<1>14. Running(s)[L] = (x * 10 + b) % 97 /\ Running(t)[L] = (y * 10 + a) % 97
  BY <1>3, <1>4, <1>6, <1>11, <1>12, Zenon DEF Shift
<1> QED  BY <1>13, <1>14

-----------------------------------------------------------------------------
\* A misread character, or two that change places, in what mod97 reads.

\* Where the character at i of a text of length L is taken.
Turn(i, L) == IF i > 4 THEN i - 4 ELSE (i + L) - 4

TakenFrom(s, L) ==
  /\ \A i \in 1..L : Turn(i, L) \in 1..L /\ Turned(s, Turn(i, L)) = s[i]
  /\ \A n \in 1..L : \E i \in 1..L : Turn(i, L) = n

\* The i-th character is read as the Turn(i)-th, neighbours one after the other
\* except at the seam.
LEMMA TurnIs ==
  ASSUME NEW L \in Nat, L >= 4, NEW s \in Seq(AlNum), Len(s) = L
  PROVE  TakenFrom(s, L)
<1>1. ASSUME NEW i \in 1..L PROVE Turn(i, L) \in 1..L /\ Turned(s, Turn(i, L)) = s[i]
  <2>1. CASE i > 4
    <3>1. PICK n \in 1..(L - 4) : n = i - 4
      BY <2>1
    <3>2. Turned(s, n) = s[n + 4]
      BY <3>1, TurnedAt
    <3>3. n \in 1..L /\ n + 4 = i /\ Turn(i, L) = n
      BY <2>1, <3>1 DEF Turn
    <3> QED  BY <3>2, <3>3
  <2>2. CASE i <= 4
    <3>1. PICK n \in (L - 3)..L : n = (i + L) - 4
      BY <2>2
    <3>2. Turned(s, n) = s[n + 4 - L]
      BY <3>1, TurnedAt
    <3>3. n \in 1..L /\ n + 4 - L = i /\ Turn(i, L) = n
      BY <2>2, <3>1 DEF Turn
    <3> QED  BY <3>2, <3>3
  <2> QED  BY <2>1, <2>2
<1>2. ASSUME NEW n \in 1..L PROVE \E i \in 1..L : Turn(i, L) = n
  <2>1. CASE n <= L - 4
    <3>1. PICK i \in 1..L : i = n + 4
      BY <2>1
    <3>2. Turn(i, L) = n
      BY <3>1 DEF Turn
    <3> QED  BY <3>2
  <2>2. CASE n > L - 4
    <3>1. PICK i \in 1..L : i = (n + 4) - L
      BY <2>2
    <3>2. Turn(i, L) = n
      BY <2>2, <3>1 DEF Turn
    <3> QED  BY <3>2
  <2> QED  BY <2>1, <2>2
<1> QED  BY <1>1, <1>2 DEF TakenFrom

LEMMA TurnNeighbours ==
  ASSUME NEW L \in 4..34, NEW i \in 1..(L - 1)
  PROVE  /\ i # 4 => Turn(i + 1, L) = Turn(i, L) + 1
         /\ Turn(4, L) = L /\ Turn(5, L) = 1
BY DEF Turn

\* A misread character changes the remainder.
LEMMA Misread97 ==
  ASSUME NEW L \in 4..34, NEW s \in Seq(AlNum), NEW t \in Seq(AlNum), Len(s) = L, Len(t) = L,
         NEW i \in 1..L, s[i] # t[i], Alike(s[i], t[i]),
         \A j \in 1..L : j # i => s[j] = t[j]
  PROVE  Running(s)[L] # Running(t)[L]
<1>0. L \in Nat /\ L >= 4
  OBVIOUS
<1>a. /\ \A j \in 1..L : Turn(j, L) \in 1..L /\ Turned(s, Turn(j, L)) = s[j]
      /\ \A n \in 1..L : \E j \in 1..L : Turn(j, L) = n
  <2>1. TakenFrom(s, L)
    BY <1>0, TurnIs
  <2> QED  BY <2>1, Zenon DEF TakenFrom
<1>b. \A j \in 1..L : Turned(t, Turn(j, L)) = t[j]
  <2>1. TakenFrom(t, L)
    BY <1>0, TurnIs
  <2> QED  BY <2>1, Zenon DEF TakenFrom
<1>1. PICK k \in 1..L : k = Turn(i, L)
  BY <1>a, Zenon
<1>2. Turned(s, k) = s[i] /\ Turned(t, k) = t[i]
  BY <1>1, <1>a, <1>b
<1>3. ASSUME NEW n \in 1..L, n # k PROVE Turned(s, n) = Turned(t, n)
  <2>1. PICK j \in 1..L : Turn(j, L) = n
    BY <1>a, Zenon
  <2>2. j # i /\ Turned(s, n) = s[j] /\ Turned(t, n) = t[j]
    BY <1>1, <1>3, <2>1, <1>a, <1>b, Zenon
  <2> QED  BY <2>2
<1> QED  BY <1>2, <1>3, OneChange

\* Two neighbours exchanged change it too.
LEMMA Swap97 ==
  ASSUME NEW L \in 4..34, NEW s \in Seq(AlNum), NEW t \in Seq(AlNum), Len(s) = L, Len(t) = L,
         NEW i \in 1..(L - 1), t[i] = s[i + 1], t[i + 1] = s[i],
         s[i] # s[i + 1], Alike(s[i], s[i + 1]), isDigit(s[4]),
         \A j \in 1..L : j # i /\ j # i + 1 => s[j] = t[j]
  PROVE  Running(s)[L] # Running(t)[L]
<1>1. PICK h \in 1..L : h = i + 1
  OBVIOUS
<1>2. i \in 1..L /\ L \in Nat /\ L >= 4
  OBVIOUS
<1>a. /\ \A j \in 1..L : Turn(j, L) \in 1..L /\ Turned(s, Turn(j, L)) = s[j]
      /\ \A n \in 1..L : \E j \in 1..L : Turn(j, L) = n
  <2>1. TakenFrom(s, L)
    BY <1>2, TurnIs
  <2> QED  BY <2>1, Zenon DEF TakenFrom
<1>b. \A j \in 1..L : Turned(t, Turn(j, L)) = t[j]
  <2>1. TakenFrom(t, L)
    BY <1>2, TurnIs
  <2> QED  BY <2>1, Zenon DEF TakenFrom
<1>3. /\ Turned(s, Turn(i, L)) = s[i] /\ Turned(s, Turn(h, L)) = s[h]
      /\ Turned(t, Turn(i, L)) = s[h] /\ Turned(t, Turn(h, L)) = s[i]
      /\ Turn(i, L) \in 1..L /\ Turn(h, L) \in 1..L
  BY <1>1, <1>2, <1>a, <1>b
<1>4. ASSUME NEW n \in 1..L, n # Turn(i, L), n # Turn(h, L) PROVE Turned(s, n) = Turned(t, n)
  <2>1. PICK j \in 1..L : Turn(j, L) = n
    BY <1>a, Zenon
  <2>2. j # i /\ j # h /\ Turned(s, n) = s[j] /\ Turned(t, n) = t[j]
    BY <1>4, <2>1, <1>a, <1>b, Zenon
  <2> QED  BY <1>1, <2>2
<1>5. CASE i # 4
  <2>1. Turn(h, L) = Turn(i, L) + 1
    BY <1>1, <1>5, TurnNeighbours
  <2>2. PICK k \in 1..(L - 1) : k = Turn(i, L)
    BY <1>3, <2>1
  <2>3. /\ Turned(s, k) = s[i] /\ Turned(s, k + 1) = s[i + 1]
        /\ Turned(t, k) = s[i + 1] /\ Turned(t, k + 1) = s[i]
    BY <1>1, <1>3, <2>1, <2>2, Zenon
  <2>4. \A n \in 1..L : n # k /\ n # k + 1 => Turned(s, n) = Turned(t, n)
    BY <1>4, <2>1, <2>2, Zenon
  <2> QED  BY <2>2, <2>3, <2>4, OneExchange, SMTT(60)
<1>6. CASE i = 4
  <2>a. h = 5 /\ L \in 2..34
    BY <1>1, <1>6
  <2>b. Turn(4, L) = L /\ Turn(5, L) = 1
    BY TurnNeighbours, Zenon
  <2>1. Turn(i, L) = L /\ Turn(h, L) = 1 /\ h = 5 /\ L \in 2..34
    BY <1>6, <2>a, <2>b
  <2>2. /\ Turned(s, L) = s[4] /\ Turned(s, 1) = s[5] /\ Turned(t, L) = s[5] /\ Turned(t, 1) = s[4]
    BY <1>3, <1>6, <2>1
  <2>3. isDigit(s[5]) /\ isDigit(s[4]) /\ s[4] # s[5]
    BY <1>6 DEF Alike
  <2>4. \A n \in 2..(L - 1) : Turned(s, n) = Turned(t, n)
    <3>1. \A n \in 2..(L - 1) : n \in 1..L /\ n # L /\ n # 1
      OBVIOUS
    <3> QED  BY <1>4, <2>1, <3>1, Zenon
  <2> QED  BY <2>1, <2>2, <2>3, <2>4, EndsExchanged, ZenonT(60)
<1> QED  BY <1>5, <1>6

-----------------------------------------------------------------------------
\* Normalize, on texts put together of others.

\* What Normalize has kept of the first n characters of s.
Keeps(k, s) ==
  /\ k \in [0..Len(s) -> Seq(AlNum)] /\ k[0] = <<>>
  /\ \A n \in 1..Len(s) :
       k[n] = IF s[n] \in Separators THEN k[n - 1] ELSE Append(k[n - 1], upper(s[n]))

\* Normalize is the loop that keeps capitals and digits.
LEMMA NormalizeKeeps ==
  ASSUME NEW s \in Seq(Characters)
  PROVE  \E k : Keeps(k, s) /\ Normalize(s) = k[Len(s)]
<1> DEFINE L == Len(s)
           T == Seq(AlNum)
           step == [p \in (1..L) \X T |->
                      IF s[p[1]] \in Separators THEN p[2] ELSE Append(p[2], upper(s[p[1]]))]
<1>1. L \in Nat /\ \A n \in 1..L : s[n] \in Characters
  OBVIOUS
<1>2. step \in [(1..L) \X T -> T]
  <2>1. ASSUME NEW n \in 1..L, NEW q \in T, s[n] \notin Separators
        PROVE  Append(q, upper(s[n])) \in T
    <3>1. upper(s[n]) \in AlNum
      BY <1>1, <2>1, Capitals
    <3> QED  BY <3>1
  <2> QED  BY <2>1
<1> HIDE DEF L
<1>3. <<>> \in T
  OBVIOUS
<1> HIDE DEF T
<1>4. PICK g : g \in [0..L -> T] /\ g[0] = <<>> /\ \A n \in 1..L : g[n] = step[<<n, g[n - 1]>>]
  <2> HIDE DEF step
  <2>1. \E g : IsRun(g, L, T, <<>>, step)
    BY <1>1, <1>2, <1>3, RunExists
  <2> QED  BY <2>1 DEF IsRun
<1>5. ASSUME NEW n \in 1..L
      PROVE  g[n] = IF s[n] \in Separators THEN g[n - 1] ELSE Append(g[n - 1], upper(s[n]))
  <2>1. n - 1 \in 0..L
    BY <1>1
  <2>2. PICK q \in T : q = g[n - 1]
    BY <1>4, <2>1
  <2>3. step[<<n, q>>] = IF s[n] \in Separators THEN q ELSE Append(q, upper(s[n]))
    OBVIOUS
  <2> HIDE DEF step
  <2> QED  BY <1>4, <2>2, <2>3
<1> HIDE DEF step
<1>6. g = [n \in 0..L |-> IF n = 0 THEN <<>>
                          ELSE IF s[n] \in Separators THEN g[n - 1]
                          ELSE Append(g[n - 1], upper(s[n]))]
  <2> DEFINE h == [n \in 0..L |-> IF n = 0 THEN <<>>
                          ELSE IF s[n] \in Separators THEN g[n - 1]
                          ELSE Append(g[n - 1], upper(s[n]))]
  <2>1. ASSUME NEW n \in 0..L PROVE g[n] = h[n]
    <3>1. CASE n = 0
      BY <3>1, <1>4
    <3>2. CASE n # 0
      <4>1. n \in 1..L
        BY <1>1, <3>2
      <4> QED  BY <4>1, <1>5
    <3> QED  BY <3>1, <3>2
  <2>2. DOMAIN h = 0..L /\ h = [n \in 0..L |-> h[n]]
    OBVIOUS
  <2>3. DOMAIN g = 0..L /\ g = [n \in 0..L |-> g[n]]
    BY <1>4
  <2> HIDE DEF h
  <2>4. g = h
    BY <2>1, <2>2, <2>3, SameFunction
  <2> QED  BY <2>4 DEF h
<1> DEFINE Good(k) == k = [n \in 0..L |-> IF n = 0 THEN <<>>
                          ELSE IF s[n] \in Separators THEN k[n - 1]
                          ELSE Append(k[n - 1], upper(s[n]))]
           kept == CHOOSE k : Good(k)
<1>7. Good(kept)
  <2>1. Good(g)
    BY <1>6
  <2> HIDE DEF Good
  <2> QED  BY <2>1, Zenon
<1>8. Normalize(s) = kept[L]
  BY Zenon DEF Normalize, L
<1> HIDE DEF kept
<1>9. kept[0] = <<>>
  BY <1>1, <1>7
<1>10. \A n \in 1..L : kept[n] = IF s[n] \in Separators THEN kept[n - 1]
                                ELSE Append(kept[n - 1], upper(s[n]))
  <2>1. TAKE n \in 1..L
  <2>2. n \in 0..L /\ n # 0
    BY <1>1
  <2> QED  BY <1>7, <2>2, Zenon
<1>11. DOMAIN kept = 0..L /\ kept = [n \in 0..L |-> kept[n]]
  BY <1>7
<1> HIDE DEF Good
<1>12. ASSUME NEW n \in 0..L PROVE kept[n] \in T
  <2> DEFINE A == {m \in Nat : m <= L => kept[m] \in T}
  <2>1. 0 \in A
    BY <1>3, <1>9
  <2>2. ASSUME NEW m \in Nat, m \in A PROVE m + 1 \in A
    <3>1. SUFFICES ASSUME m + 1 <= L PROVE kept[m + 1] \in T
      OBVIOUS
    <3>2. kept[m] \in T /\ m + 1 \in 1..L /\ (m + 1) - 1 = m
      BY <1>1, <2>2, <3>1
    <3>3. kept[m + 1] = IF s[m + 1] \in Separators THEN kept[m]
                          ELSE Append(kept[m], upper(s[m + 1]))
      BY <1>10, <3>2
    <3>4. s[m + 1] \notin Separators => upper(s[m + 1]) \in AlNum
      BY <1>1, <3>2, Capitals
    <3> QED  BY <3>2, <3>3, <3>4 DEF T
  <2> HIDE DEF A
  <2>3. Nat \subseteq A
    BY <2>1, <2>2, Induction
  <2> QED  BY <1>1, <2>3 DEF A
<1>13. kept \in [0..L -> T]
  BY <1>11, <1>12
<1> QED  BY <1>8, <1>9, <1>10, <1>13 DEF Keeps, L, T

LEMMA NormalizeType ==
  ASSUME NEW s \in Seq(Characters)
  PROVE  Normalize(s) \in Seq(AlNum)
<1>1. PICK k : Keeps(k, s) /\ Normalize(s) = k[Len(s)]
  BY NormalizeKeeps
<1>2. Len(s) \in 0..Len(s)
  OBVIOUS
<1> QED  BY <1>1, <1>2 DEF Keeps

\* Sequences are known by their lengths and elements.
LEMMA SameText ==
  ASSUME NEW S, NEW s \in Seq(S), NEW t \in Seq(S), Len(s) = Len(t),
         \A i \in 1..Len(s) : s[i] = t[i]
  PROVE  s = t
<1>1. DOMAIN s = 1..Len(s) /\ DOMAIN t = 1..Len(s) /\ s \in [1..Len(s) -> S] /\ t \in [1..Len(s) -> S]
  OBVIOUS
<1> QED  BY <1>1, SameFunction

LEMMA AppendJoin ==
  \A x \in Seq(AlNum) : \A y \in Seq(AlNum) : \A c \in AlNum : Append(x \o y, c) = x \o Append(y, c)
<1> TAKE x \in Seq(AlNum)
<1> TAKE y \in Seq(AlNum)
<1> TAKE c \in AlNum
<1>1. Append(x \o y, c) \in Seq(AlNum) /\ x \o Append(y, c) \in Seq(AlNum)
  OBVIOUS
<1>2. Len(Append(x \o y, c)) = Len(x \o Append(y, c))
  OBVIOUS
<1>3. \A i \in 1..Len(Append(x \o y, c)) : Append(x \o y, c)[i] = (x \o Append(y, c))[i]
  OBVIOUS
<1> QED  BY <1>1, <1>2, <1>3, SameText

\* What the parts say, one after the other.
LEMMA NormalizeParts ==
  ASSUME NEW s \in Seq(Characters), NEW t \in Seq(Characters)
  PROVE  Normalize(s \o t) = Normalize(s) \o Normalize(t)
<1> DEFINE L == Len(s)
           M == Len(t)
<1>1. L \in Nat /\ M \in Nat /\ s \o t \in Seq(Characters) /\ Len(s \o t) = L + M
  OBVIOUS
<1>2. PICK k : Keeps(k, s) /\ Normalize(s) = k[L]
  BY NormalizeKeeps
<1>3. PICK l : Keeps(l, t) /\ Normalize(t) = l[M]
  BY NormalizeKeeps
<1>4. PICK j : Keeps(j, s \o t) /\ Normalize(s \o t) = j[L + M]
  BY <1>1, NormalizeKeeps
<1>5. \A n \in 1..L : (s \o t)[n] = s[n]
  OBVIOUS
<1>6. \A n \in 1..M : (s \o t)[L + n] = t[n]
  OBVIOUS
<1>a. Len(s) = L /\ Len(t) = M
  OBVIOUS
<1> HIDE DEF L, M
<1> DEFINE A == {n \in Nat : n <= L => j[n] = k[n]}
<1>7. 0 \in A
  BY <1>1, <1>a, <1>2, <1>4 DEF Keeps
<1>8. ASSUME NEW n \in Nat, n \in A PROVE n + 1 \in A
  <2>1. SUFFICES ASSUME n + 1 <= L PROVE j[n + 1] = k[n + 1]
    OBVIOUS
  <2>2. n + 1 \in 1..L /\ n + 1 \in 1..(L + M) /\ (n + 1) - 1 = n /\ j[n] = k[n]
    BY <1>1, <1>8, <2>1
  <2>3. j[n + 1] = IF s[n + 1] \in Separators THEN j[n] ELSE Append(j[n], upper(s[n + 1]))
    BY <1>1, <1>a, <1>4, <1>5, <2>2 DEF Keeps
  <2>4. k[n + 1] = IF s[n + 1] \in Separators THEN k[n] ELSE Append(k[n], upper(s[n + 1]))
    BY <1>a, <1>2, <2>2 DEF Keeps
  <2> QED  BY <2>2, <2>3, <2>4
<1> HIDE DEF A
<1>9. Nat \subseteq A
  BY <1>7, <1>8, Induction
<1>10. j[L] = k[L]
  BY <1>1, <1>9 DEF A
<1>11. k[L] \in Seq(AlNum) /\ \A n \in 0..M : l[n] \in Seq(AlNum)
  <2>1. L \in 0..L
    BY <1>1
  <2> QED  BY <1>a, <1>2, <1>3, <2>1 DEF Keeps
<1> DEFINE Joined(n) == k[L] \o l[n]
<1>12. Joined(0) = k[L]
  <2>1. l[0] = <<>>
    BY <1>3 DEF Keeps
  <2>2. k[L] \o <<>> = k[L]
    BY <1>11
  <2> QED  BY <2>1, <2>2
<1>13. ASSUME NEW n \in 0..M, n + 1 \in 1..M
       PROVE  Joined(n + 1) = IF t[n + 1] \in Separators THEN Joined(n)
                                ELSE Append(Joined(n), upper(t[n + 1]))
  <2>1. (n + 1) - 1 = n
    BY <1>1
  <2>2. l[n + 1] = IF t[n + 1] \in Separators THEN l[n] ELSE Append(l[n], upper(t[n + 1]))
    BY <1>a, <1>3, <1>13, <2>1 DEF Keeps
  <2>4. t[n + 1] \notin Separators => upper(t[n + 1]) \in AlNum
    <3>1. t[n + 1] \in Characters
      BY <1>a, <1>13
    <3> QED  BY <3>1, Capitals
  <2>5. k[L] \in Seq(AlNum) /\ l[n] \in Seq(AlNum)
    BY <1>11
  <2>6. CASE t[n + 1] \in Separators
    BY <2>2, <2>6
  <2>7. CASE t[n + 1] \notin Separators
    <3>1. Append(k[L] \o l[n], upper(t[n + 1])) = k[L] \o Append(l[n], upper(t[n + 1]))
      BY <2>4, <2>5, <2>7, AppendJoin, ZenonT(30)
    <3> QED  BY <2>2, <2>7, <3>1
  <2> QED  BY <2>6, <2>7
<1> HIDE DEF Joined
<1>14. ASSUME NEW n \in 0..M, n + 1 \in 1..M
       PROVE  j[L + (n + 1)] = IF t[n + 1] \in Separators THEN j[L + n]
                                ELSE Append(j[L + n], upper(t[n + 1]))
  <2>1. PICK p \in 1..(L + M) : p = L + (n + 1) /\ p - 1 = L + n
    BY <1>1, <1>14
  <2>2. PICK u : u = s \o t
    OBVIOUS
  <2>3. u[p] = t[n + 1]
    BY <1>6, <1>14, <2>1, <2>2
  <2>4. Len(u) = L + M /\ Keeps(j, u)
    BY <1>1, <1>4, <2>2
  <2>5. j[p] = IF u[p] \in Separators THEN j[p - 1] ELSE Append(j[p - 1], upper(u[p]))
    BY <2>4 DEF Keeps
  <2> QED  BY <2>1, <2>3, <2>5
<1> DEFINE B == {n \in Nat : n <= M => j[L + n] = Joined(n)}
<1>15. 0 \in B
  <2>1. L + 0 = L
    BY <1>1
  <2> QED  BY <1>10, <1>12, <2>1
<1>16. ASSUME NEW n \in Nat, n \in B PROVE n + 1 \in B
  <2>1. ASSUME n + 1 <= M PROVE j[L + (n + 1)] = Joined(n + 1)
    <3>1. n \in 0..M /\ n + 1 \in 1..M /\ j[L + n] = Joined(n)
      BY <1>1, <1>16, <2>1
    <3> QED  BY <1>13, <1>14, <3>1
  <2>2. n + 1 \in Nat
    OBVIOUS
  <2> QED  BY <2>1, <2>2
<1> HIDE DEF B
<1>17. Nat \subseteq B
  BY <1>15, <1>16, Induction
<1>18. j[L + M] = Joined(M)
  BY <1>1, <1>17 DEF B
<1> QED  BY <1>2, <1>3, <1>4, <1>18 DEF Joined

\* A separator is dropped, a small letter made a capital.
LEMMA NormalizeOne ==
  ASSUME NEW ch \in Characters
  PROVE  Normalize(<<ch>>) = IF ch \in Separators THEN <<>> ELSE <<upper(ch)>>
<1> DEFINE s == <<ch>>
<1>1. s \in Seq(Characters) /\ Len(s) = 1 /\ s[1] = ch
  OBVIOUS
<1> HIDE DEF s
<1>2. PICK k : Keeps(k, s) /\ Normalize(s) = k[1]
  BY <1>1, NormalizeKeeps
<1>3. k[1] = IF ch \in Separators THEN k[1 - 1] ELSE Append(k[1 - 1], upper(ch))
  BY <1>1, <1>2 DEF Keeps
<1>4. k[1 - 1] = <<>>
  BY <1>2 DEF Keeps
<1> QED  BY <1>2, <1>3, <1>4 DEF s

\* A text without separators and small letters is kept as it is.
LEMMA NormalizeSame ==
  ASSUME NEW s \in Seq(AlNum)
  PROVE  Normalize(s) = s
<1> DEFINE L == Len(s)
<1>1. L \in Nat /\ \A n \in 1..L : s[n] \in AlNum
  OBVIOUS
<1>2. AlNum \subseteq Characters
  BY DEF AlNum, Characters
<1>3. s \in Seq(Characters)
  BY <1>2
<1>4. PICK k : Keeps(k, s) /\ Normalize(s) = k[L]
  BY <1>3, NormalizeKeeps
<1>5. \A n \in 1..L : s[n] \notin Separators /\ upper(s[n]) = s[n]
  BY <1>1, AlphabetsDiffer, Capitals DEF AlNum
<1> DEFINE A == {n \in Nat : n <= L => k[n] = SubSeq(s, 1, n)}
<1>6. 0 \in A
  BY <1>4 DEF Keeps
<1>7. ASSUME NEW n \in Nat, n \in A PROVE n + 1 \in A
  <2>1. SUFFICES ASSUME n + 1 <= L PROVE k[n + 1] = SubSeq(s, 1, n + 1)
    OBVIOUS
  <2>2. n + 1 \in 1..L /\ (n + 1) - 1 = n /\ k[n] = SubSeq(s, 1, n)
    BY <1>1, <1>7, <2>1
  <2>3. k[n + 1] = Append(SubSeq(s, 1, n), s[n + 1])
    BY <1>4, <1>5, <2>2 DEF Keeps
  <2>4. SubSeq(s, 1, n + 1) = Append(SubSeq(s, 1, n), s[n + 1])
    BY <1>1, <2>2
  <2> QED  BY <2>3, <2>4
<1> HIDE DEF A
<1>8. Nat \subseteq A
  BY <1>6, <1>7, Induction
<1>9. k[L] = SubSeq(s, 1, L)
  BY <1>1, <1>8 DEF A
<1> QED  BY <1>4, <1>9

\* Writing small says the same.
LEMMA NormalizeSmall ==
  ASSUME NEW s \in Seq(Characters)
  PROVE  LET t == [i \in DOMAIN s |-> lower(s[i])]
         IN  t \in Seq(Characters) /\ Normalize(t) = Normalize(s)
<1> DEFINE L == Len(s)
           t == [i \in 1..L |-> lower(s[i])]
<1>1. L \in Nat /\ DOMAIN s = 1..L /\ \A n \in 1..L : s[n] \in Characters
  OBVIOUS
<1>2. \A c \in Characters : lower(c) \in Characters
  <2>1. ASSUME NEW c \in Range(Uppers) PROVE lower(c) \in Range(Lowers)
    <3>1. lower(c) = Lowers[Place(c, Uppers)] /\ Place(c, Uppers) \in 1..26
      BY PlaceUppers DEF lower, isUpper
    <3> QED  BY <3>1, PlaceLowers
  <2> QED  BY <2>1 DEF lower, isUpper, Characters
<1>3. t \in Seq(Characters) /\ Len(t) = L
  <2>1. t \in [1..L -> Characters]
    BY <1>1, <1>2
  <2> QED  BY <1>1, <2>1
<1>4. \A n \in 1..L : t[n] = lower(s[n])
  OBVIOUS
<1> HIDE DEF t
<1>5. PICK k : Keeps(k, s) /\ Normalize(s) = k[L]
  BY NormalizeKeeps
<1>6. PICK l : Keeps(l, t) /\ Normalize(t) = l[L]
  BY <1>3, NormalizeKeeps
<1> DEFINE A == {n \in Nat : n <= L => k[n] = l[n]}
<1>7. 0 \in A
  BY <1>5, <1>6 DEF Keeps
<1>8. ASSUME NEW n \in Nat, n \in A PROVE n + 1 \in A
  <2>1. SUFFICES ASSUME n + 1 <= L PROVE k[n + 1] = l[n + 1]
    OBVIOUS
  <2>2. n + 1 \in 1..L /\ (n + 1) - 1 = n /\ k[n] = l[n]
    BY <1>1, <1>8, <2>1
  <2>3. l[n + 1] = IF t[n + 1] \in Separators THEN l[n] ELSE Append(l[n], upper(t[n + 1]))
    BY <1>3, <1>6, <2>2 DEF Keeps
  <2>4. k[n + 1] = IF s[n + 1] \in Separators THEN k[n] ELSE Append(k[n], upper(s[n + 1]))
    BY <1>5, <2>2 DEF Keeps
  <2>5. t[n + 1] = lower(s[n + 1]) /\ s[n + 1] \in Characters
    BY <1>1, <1>4, <2>2
  <2>6. upper(t[n + 1]) = upper(s[n + 1]) /\ (t[n + 1] \in Separators <=> s[n + 1] \in Separators)
    BY <2>5, Capitals, Zenon
  <2> QED  BY <2>2, <2>3, <2>4, <2>6
<1> HIDE DEF A
<1>9. Nat \subseteq A
  BY <1>7, <1>8, Induction
<1>10. k[L] = l[L]
  BY <1>1, <1>9 DEF A
<1>11. [i \in DOMAIN s |-> lower(s[i])] = t
  BY <1>1 DEF t
<1> QED  BY <1>3, <1>5, <1>6, <1>10, <1>11

-----------------------------------------------------------------------------
\* The registry, and what Parse and Validate accept.

\* A row of the table: two capitals, and the bank code before the account
\* number in the BBAN.
RowIs(c) ==
  /\ c.Code = <<c.Code[1], c.Code[2]>> /\ c.Code[1] \in Range(Uppers) /\ c.Code[2] \in Range(Uppers)
  /\ c.Length \in 15..31
  /\ c.BankCode[1] \in 0..27 /\ c.BankCode[2] \in 0..27
  /\ c.Account[1] \in 0..27 /\ c.Account[2] \in 0..27
  /\ c.BankCode[1] < c.BankCode[2] /\ c.BankCode[2] <= c.Account[1]
  /\ c.Account[1] < c.Account[2] /\ c.Account[2] <= c.Length - 4

LEMMA UppersHave ==
  {"A", "B", "C", "D", "E", "F", "G", "H", "I", "J", "K", "L", "M",
   "N", "O", "P", "Q", "R", "S", "T", "U", "V", "W", "X", "Y", "Z"} \subseteq Range(Uppers)
<1>1. \A i \in 1..26 : Uppers[i] \in Range(Uppers)
  BY PlaceUppers
<1> QED  BY <1>1 DEF Uppers

\* Every row of the registry is one.
LEMMA RegistryIs == \A c \in registry : RowIs(c)
BY UppersHave, SMTT(100) DEF registry, Row, RowIs

\* A country code is two capitals.
LEMMA CodesAre ==
  \A code \in Codes : code \in Seq(AlNum) /\ Len(code) = 2 /\ isUpper(code[1]) /\ isUpper(code[2])
<1> TAKE code \in Codes
<1>1. PICK c \in registry : c.Code = code
  BY DEF Codes
<1>2. code = <<code[1], code[2]>> /\ code[1] \in Range(Uppers) /\ code[2] \in Range(Uppers)
  BY <1>1, RegistryIs DEF RowIs
<1>3. PICK x \in Range(Uppers), y \in Range(Uppers) : code = <<x, y>>
  BY <1>2
<1>4. x \in AlNum /\ y \in AlNum
  BY DEF AlNum
<1> QED  BY <1>3, <1>4 DEF isUpper

\* What a text must be for Parse to find no error.
LEMMA ParsesIs ==
  ASSUME NEW s, ParseError(s) = "none"
  PROVE  /\ ~ (Len(s) < 4) /\ ~ (Len(s) > 34)
         /\ isDigit(s[3]) /\ isDigit(s[4])
         /\ Lookup(SubSeq(s, 1, 2)) # {}
         /\ \A c \in Lookup(SubSeq(s, 1, 2)) : Len(s) = c.Length
<1>1. /\ "too short" # "none" /\ "too long" # "none" /\ "country code" # "none"
      /\ "check digits" # "none" /\ "unknown country" # "none" /\ "length" # "none"
  OBVIOUS
<1>2. ~ (Len(s) < 4)
  BY <1>1, Zenon DEF ParseError
<1>3. ~ (Len(s) > MaxLength)
  BY <1>1, <1>2, Zenon DEF ParseError
<1>4. isUpper(s[1]) /\ isUpper(s[2])
  BY <1>1, <1>2, <1>3, Zenon DEF ParseError
<1>5. isDigit(s[3]) /\ isDigit(s[4])
  BY <1>1, <1>2, <1>3, <1>4, Zenon DEF ParseError
<1> DEFINE rows == Lookup(SubSeq(s, 1, 2))
<1>6. rows # {}
  BY <1>1, <1>2, <1>3, <1>4, <1>5, Zenon DEF ParseError
<1>7. ~ \E c \in rows : Len(s) # c.Length
  BY <1>1, <1>2, <1>3, <1>4, <1>5, <1>6, Zenon DEF ParseError
<1>8. ~ (Len(s) > 34)
  BY <1>3 DEF MaxLength
<1>9. \A c \in rows : Len(s) = c.Length
  <2> HIDE DEF rows
  <2> QED  BY <1>7
<1> QED  BY <1>2, <1>5, <1>6, <1>8, <1>9

\* On a normalized text the count goes to the end.
LEMMA Mod97Is ==
  ASSUME NEW s \in Seq(AlNum)
  PROVE  mod97(s) = Running(s)[Len(s)] /\ mod97(s) \in 0..96
<1>1. \A i \in DOMAIN s : isDigit(s[i]) \/ isUpper(s[i])
  BY DEF AlNum, isDigit, isUpper
<1>2. Len(s) \in 0..Len(s)
  OBVIOUS
<1> QED  BY <1>1, <1>2, RunningIs DEF mod97

\* What an accepted text says.
LEMMA AcceptedIs ==
  ASSUME NEW s \in Seq(Characters), Accepted(s)
  PROVE  LET raw == Normalize(s)
         IN  raw \in Seq(AlNum) /\ Len(raw) \in 4..34 /\ isDigit(raw[4])
             /\ Running(raw)[Len(raw)] = 1
<1> DEFINE raw == Normalize(s)
<1>1. raw \in Seq(AlNum)
  BY NormalizeType
<1>2. ParseError(raw) = "none" /\ mod97(raw) = 1
  BY DEF Accepted, Parses, Validate, Parse
<1> HIDE DEF raw
<1>3. Len(raw) \in 4..34 /\ isDigit(raw[4])
  <2>1. ~ (Len(raw) < 4) /\ ~ (Len(raw) > 34) /\ isDigit(raw[4])
    BY <1>2, ParsesIs
  <2>2. PICK n \in Nat : Len(raw) = n
    BY <1>1
  <2>3. n \in 4..34
    BY <2>1, <2>2
  <2> QED  BY <2>1, <2>2, <2>3
<1>4. Running(raw)[Len(raw)] = 1
  BY <1>1, <1>2, Mod97Is
<1> QED  BY <1>1, <1>3, <1>4 DEF raw

\* The remainder tells two texts of an IBAN's length apart.
Told(s, t) ==
  /\ Len(s) = Len(t)
  /\ Len(s) \in 4..34 /\ isDigit(s[4]) => Running(s)[Len(s)] # Running(t)[Len(s)]

\* Texts of the same length in which one character differs, or two neighbours
\* are exchanged, are not both accepted.
LEMMA OneDiffers ==
  \A a \in Seq(AlNum) : \A b \in Seq(AlNum) : \A x \in AlNum : \A y \in AlNum :
    x # y /\ Alike(x, y) => Told(a \o <<x>> \o b, a \o <<y>> \o b)
<1> SUFFICES ASSUME NEW a \in Seq(AlNum), NEW b \in Seq(AlNum), NEW x \in AlNum, NEW y \in AlNum,
                    x # y, Alike(x, y)
             PROVE  Told(a \o <<x>> \o b, a \o <<y>> \o b)
  BY Zenon
<1> DEFINE s == a \o <<x>> \o b
           t == a \o <<y>> \o b
           i == Len(a) + 1
<1>1. s \in Seq(AlNum) /\ t \in Seq(AlNum) /\ Len(s) = Len(t)
  OBVIOUS
<1>2. i \in 1..Len(s) /\ s[i] = x /\ t[i] = y
  OBVIOUS
<1>3. \A j \in 1..Len(s) : j # i => s[j] = t[j]
  OBVIOUS
<1> HIDE DEF s, t, i
<1>4. ASSUME NEW L \in 4..34, Len(s) = L PROVE Running(s)[L] # Running(t)[L]
  <2>1. Len(t) = L /\ i \in 1..L /\ s[i] # t[i] /\ Alike(s[i], t[i])
        /\ \A j \in 1..L : j # i => s[j] = t[j]
    BY <1>1, <1>2, <1>3, <1>4
  <2> QED  BY <1>1, <1>4, <2>1, Misread97
<1>5. Len(s) \in 4..34 => Running(s)[Len(s)] # Running(t)[Len(s)]
  BY <1>4
<1> QED  BY <1>1, <1>5 DEF s, t, Told

\* Two neighbours of a kind that change places are noticed.
LEMMA TwoExchanged ==
  \A a \in Seq(AlNum) : \A b \in Seq(AlNum) : \A x \in AlNum : \A y \in AlNum :
    x # y /\ Alike(x, y) => Told(a \o <<x>> \o <<y>> \o b, a \o <<y>> \o <<x>> \o b)
<1> SUFFICES ASSUME NEW a \in Seq(AlNum), NEW b \in Seq(AlNum), NEW x \in AlNum, NEW y \in AlNum,
                    x # y, Alike(x, y)
             PROVE  Told(a \o <<x>> \o <<y>> \o b, a \o <<y>> \o <<x>> \o b)
  BY Zenon
<1> DEFINE s == a \o <<x>> \o <<y>> \o b
           t == a \o <<y>> \o <<x>> \o b
           i == Len(a) + 1
<1>1. s \in Seq(AlNum) /\ t \in Seq(AlNum) /\ Len(s) = Len(t)
  OBVIOUS
<1>2. i \in 1..(Len(s) - 1) /\ s[i] = x /\ t[i] = y /\ s[i + 1] = y /\ t[i + 1] = x
  OBVIOUS
<1>3. \A j \in 1..Len(s) : j # i /\ j # i + 1 => s[j] = t[j]
  OBVIOUS
<1> HIDE DEF s, t, i
<1>4. ASSUME NEW L \in 4..34, Len(s) = L, isDigit(s[4]) PROVE Running(s)[L] # Running(t)[L]
  <2>1. Len(t) = L /\ i \in 1..(L - 1) /\ t[i] = s[i + 1] /\ t[i + 1] = s[i]
        /\ s[i] # s[i + 1] /\ Alike(s[i], s[i + 1])
        /\ \A j \in 1..L : j # i /\ j # i + 1 => s[j] = t[j]
    BY <1>1, <1>2, <1>3, <1>4
  <2> QED  BY <1>1, <1>4, <2>1, Swap97
<1>5. Len(s) \in 4..34 /\ isDigit(s[4]) => Running(s)[Len(s)] # Running(t)[Len(s)]
  BY <1>4
<1> QED  BY <1>1, <1>5 DEF s, t, Told

-----------------------------------------------------------------------------
\* Texts that differ in a character, or in two neighbours.

\* Where the parts of a text are found in it.
JoinedOne(u, a, b, c) ==
  /\ u \in Seq(Characters) /\ Len(u) = Len(a) + 1 + Len(b)
  /\ \A j \in 1..Len(a) : u[j] = a[j]
  /\ u[Len(a) + 1] = c
  /\ \A j \in 1..Len(b) : u[j + (Len(a) + 1)] = b[j]

JoinedTwo(u, a, b, c, d) ==
  /\ u \in Seq(Characters) /\ Len(u) = Len(a) + 2 + Len(b)
  /\ \A j \in 1..Len(a) : u[j] = a[j]
  /\ u[Len(a) + 1] = c /\ u[Len(a) + 2] = d
  /\ \A j \in 1..Len(b) : u[j + (Len(a) + 2)] = b[j]

\* The parts of a text, character by character.
LEMMA JoinOne ==
  \A a \in Seq(Characters) : \A b \in Seq(Characters) : \A c \in Characters :
    JoinedOne(a \o <<c>> \o b, a, b, c)
BY DEF JoinedOne

LEMMA JoinTwo ==
  \A a \in Seq(Characters) : \A b \in Seq(Characters) : \A c \in Characters : \A d \in Characters :
    JoinedTwo(a \o <<c>> \o <<d>> \o b, a, b, c, d)
BY DEF JoinedTwo

\* Texts that agree before, at and behind a place.
LEMMA AgreeAround ==
  ASSUME NEW S, NEW s \in Seq(S), NEW u \in Seq(S), NEW L \in Nat, Len(s) = L, Len(u) = L,
         NEW i \in 1..L, \A j \in 1..(i - 1) : u[j] = s[j], u[i] = s[i],
         \A j \in 1..(L - i) : u[j + i] = s[j + i]
  PROVE  u = s
<1>1. ASSUME NEW j \in 1..L PROVE u[j] = s[j]
  <2>1. CASE j < i
    BY <2>1
  <2>2. CASE j > i
    <3>1. PICK k \in 1..(L - i) : k = j - i
      BY <2>2
    <3>2. u[k + i] = s[k + i] /\ k + i = j
      BY <3>1
    <3> QED  BY <3>2
  <2> QED  BY <2>1, <2>2
<1> QED  BY <1>1, SameText

\* A text taken apart at one character, and at two neighbours.
PartedIn(s, t, x, y) ==
  \E a \in Seq(Characters), b \in Seq(Characters) : s = a \o <<x>> \o b /\ t = a \o <<y>> \o b

LEMMA SplitOne ==
  ASSUME NEW s \in Seq(Characters), NEW i \in 1..Len(s), NEW ch \in Characters
  PROVE  PartedIn(s, [s EXCEPT ![i] = ch], s[i], ch)
<1> DEFINE L == Len(s)
           a == SubSeq(s, 1, i - 1)
           b == SubSeq(s, i + 1, L)
           t == [s EXCEPT ![i] = ch]
<1>0. L \in Nat /\ i \in 1..L /\ Len(s) = L
  OBVIOUS
<1>1. a \in Seq(Characters) /\ b \in Seq(Characters) /\ Len(a) = i - 1 /\ Len(b) = L - i
  BY <1>0
<1>2. t \in Seq(Characters) /\ Len(t) = L /\ \A j \in 1..L : t[j] = IF j = i THEN ch ELSE s[j]
  OBVIOUS
<1>3. \A j \in 1..(i - 1) : a[j] = s[j]
  BY <1>0
<1>4. \A j \in 1..(L - i) : b[j] = s[j + i]
  BY <1>0
<1> HIDE DEF a, b, t, L
<1>5. Len(a) + 1 = i /\ Len(a) + 1 + Len(b) = L
  BY <1>0, <1>1
<1>6. ASSUME NEW c \in Characters, NEW v \in Seq(Characters), Len(v) = L, v[i] = c,
             \A j \in 1..L : j # i => v[j] = s[j]
      PROVE  v = a \o <<c>> \o b
  <2>0. PICK u : u = a \o <<c>> \o b
    OBVIOUS
  <2>1. /\ u \in Seq(Characters) /\ Len(u) = L /\ u[i] = c
        /\ \A j \in 1..(i - 1) : u[j] = a[j]
        /\ \A j \in 1..(L - i) : u[j + i] = b[j]
    <3>1. JoinedOne(u, a, b, c)
      BY <1>1, <2>0, JoinOne, Zenon
    <3> QED  BY <1>1, <1>5, <3>1 DEF JoinedOne
  <2>2. \A j \in 1..(i - 1) : u[j] = v[j]
    BY <1>0, <1>3, <1>6, <2>1
  <2>3. \A j \in 1..(L - i) : u[j + i] = v[j + i]
    BY <1>0, <1>4, <1>6, <2>1
  <2>a. u[i] = v[i]
    BY <1>6, <2>1
  <2>4. u = v
    BY <1>0, <1>6, <2>1, <2>2, <2>3, <2>a, AgreeAround
  <2> QED  BY <2>0, <2>4
<1>7. s[i] \in Characters
  BY <1>0
<1>8. s = a \o <<s[i]>> \o b
  BY <1>0, <1>6, <1>7
<1>9. t = a \o <<ch>> \o b
  BY <1>0, <1>2, <1>6
<1> QED  BY <1>1, <1>8, <1>9, Zenon DEF PartedIn, t

\* t is s with the neighbours x and y at i exchanged.
Exchanged(s, t, i, x, y) ==
  /\ i \in 1..Len(s) /\ i + 1 \in 1..Len(s) /\ x \in Characters /\ y \in Characters
  /\ s[i] = x /\ s[i + 1] = y /\ t \in Seq(Characters) /\ Len(t) = Len(s)
  /\ \A j \in 1..Len(s) : t[j] = IF j = i THEN y ELSE IF j = i + 1 THEN x ELSE s[j]

PartedAt(s, t, x, y) ==
  \E a \in Seq(Characters), b \in Seq(Characters) :
    s = a \o <<x>> \o <<y>> \o b /\ t = a \o <<y>> \o <<x>> \o b

\* A text parted where two neighbours changed places.
LEMMA SplitTwo ==
  ASSUME NEW s \in Seq(Characters), NEW t, NEW i, NEW x, NEW y, Exchanged(s, t, i, x, y)
  PROVE  PartedAt(s, t, x, y)
<1> DEFINE L == Len(s)
           h == i + 1
           a == SubSeq(s, 1, i - 1)
           b == SubSeq(s, h + 1, L)
<1>0. L \in Nat /\ i \in 1..L /\ h \in 1..L /\ Len(s) = L /\ h = i + 1
  BY DEF Exchanged
<1>1. a \in Seq(Characters) /\ b \in Seq(Characters) /\ Len(a) = i - 1 /\ Len(b) = L - h
  BY <1>0
<1>2. t \in Seq(Characters) /\ Len(t) = L /\ x \in Characters /\ y \in Characters
      /\ s[i] = x /\ s[h] = y
      /\ \A j \in 1..L : t[j] = IF j = i THEN y ELSE IF j = h THEN x ELSE s[j]
  BY DEF Exchanged
<1>3. \A j \in 1..(i - 1) : a[j] = s[j]
  BY <1>0
<1>4. \A j \in 1..(L - h) : b[j] = s[j + h]
  BY <1>0
<1> HIDE DEF a, b, L, h
<1>5. Len(a) + 1 = i /\ Len(a) + 2 = h /\ Len(a) + 2 + Len(b) = L
  BY <1>0, <1>1
<1>6. ASSUME NEW c \in Characters, NEW d \in Characters, NEW v \in Seq(Characters), Len(v) = L, v[i] = c, v[h] = d,
             \A j \in 1..L : j # i /\ j # h => v[j] = s[j]
      PROVE  v = a \o <<c>> \o <<d>> \o b
  <2>0. PICK u : u = a \o <<c>> \o <<d>> \o b
    OBVIOUS
  <2>1. /\ u \in Seq(Characters) /\ Len(u) = L /\ u[i] = c /\ u[h] = d
        /\ \A j \in 1..(i - 1) : u[j] = a[j]
        /\ \A j \in 1..(L - h) : u[j + h] = b[j]
    <3>1. JoinedTwo(u, a, b, c, d)
      BY <1>1, <2>0, JoinTwo, Zenon
    <3> QED  BY <1>1, <1>5, <3>1 DEF JoinedTwo
  <2>2. \A j \in 1..(i - 1) : u[j] = v[j]
    <3>1. TAKE j \in 1..(i - 1)
    <3>2. j \in 1..L /\ j # i /\ j # h
      BY <1>0
    <3>3. u[j] = a[j] /\ a[j] = s[j]
      BY <1>3, <2>1
    <3> QED  BY <1>6, <3>2, <3>3
  <2>3. ASSUME NEW j \in 1..(L - h) PROVE u[j + h] = v[j + h]
    <3>1. PICK m \in 1..L : m = j + h /\ m # i /\ m # h
      BY <1>0
    <3>2. u[j + h] = b[j] /\ b[j] = s[j + h]
      BY <1>4, <2>1
    <3> QED  BY <1>6, <3>1, <3>2
  <2>4. ASSUME NEW j \in 1..L PROVE u[j] = v[j]
    <3>1. CASE j < i
      <4>1. j \in 1..(i - 1)
        BY <1>0, <3>1
      <4> QED  BY <2>2, <4>1
    <3>2. CASE j > h
      <4>1. PICK k \in 1..(L - h) : k + h = j
        <5>1. j - h \in 1..(L - h) /\ (j - h) + h = j
          BY <1>0, <3>2
        <5> QED  BY <5>1
      <4>2. u[k + h] = v[k + h]
        BY <2>3, Zenon
      <4> QED  BY <4>1, <4>2
    <3>3. CASE j = i \/ j = h
      BY <1>6, <2>1, <3>3
    <3>4. j < i \/ j > h \/ j = i \/ j = h
      BY <1>0
    <3> QED  BY <3>1, <3>2, <3>3, <3>4
  <2>5. v \in Seq(Characters) /\ Len(v) = L
    BY <1>6
  <2>6. u = v
    BY <2>1, <2>4, <2>5, SameText
  <2> QED  BY <2>0, <2>6
<1>7. s = a \o <<x>> \o <<y>> \o b
  BY <1>0, <1>2, <1>6
<1>8. t = a \o <<y>> \o <<x>> \o b
  <2>1. t[i] = y /\ t[h] = x /\ \A j \in 1..L : j # i /\ j # h => t[j] = s[j]
    BY <1>0, <1>2
  <2> QED  BY <1>2, <1>6, <2>1
<1> QED  BY <1>1, <1>7, <1>8, Zenon DEF PartedAt

LEMMA NormalizeAround ==
  \A a \in Seq(Characters) : \A b \in Seq(Characters) : \A x \in Characters \ Separators :
    Normalize(a \o <<x>> \o b) = Normalize(a) \o <<upper(x)>> \o Normalize(b)
<1> TAKE a \in Seq(Characters)
<1> TAKE b \in Seq(Characters)
<1> TAKE x \in Characters \ Separators
<1>1. <<x>> \in Seq(Characters) /\ a \o <<x>> \in Seq(Characters)
  OBVIOUS
<1>2. Normalize(a \o <<x>> \o b) = Normalize(a \o <<x>>) \o Normalize(b)
  BY <1>1, NormalizeParts, Zenon
<1>3. Normalize(a \o <<x>>) = Normalize(a) \o Normalize(<<x>>)
  BY <1>1, NormalizeParts, Zenon
<1>4. Normalize(<<x>>) = <<upper(x)>>
  BY NormalizeOne, Zenon
<1> QED  BY <1>2, <1>3, <1>4, Zenon

PairNormalized(a, b, x, y) ==
  Normalize(a \o <<x>> \o <<y>> \o b) =
    Normalize(a) \o Normalize(<<x>>) \o Normalize(<<y>>) \o Normalize(b)

LEMMA NormalizePair ==
  ASSUME NEW a \in Seq(Characters), NEW b \in Seq(Characters), NEW x \in Characters, NEW y \in Characters
  PROVE  PairNormalized(a, b, x, y)
<1>1. <<x>> \in Seq(Characters) /\ a \o <<x>> \in Seq(Characters)
      /\ <<y>> \in Seq(Characters) /\ a \o <<x>> \o <<y>> \in Seq(Characters)
  OBVIOUS
<1>2. Normalize(a \o <<x>> \o <<y>> \o b) = Normalize(a \o <<x>> \o <<y>>) \o Normalize(b)
  BY <1>1, NormalizeParts, Zenon
<1>3. Normalize(a \o <<x>> \o <<y>>) = Normalize(a \o <<x>>) \o Normalize(<<y>>)
  BY <1>1, NormalizeParts, Zenon
<1>4. Normalize(a \o <<x>>) = Normalize(a) \o Normalize(<<x>>)
  BY <1>1, NormalizeParts, Zenon
<1> QED  BY <1>2, <1>3, <1>4, Zenon DEF PairNormalized

\* Digits are exchanged for digits, letters for letters.
LEMMA KindIs ==
  /\ \A x \in Characters : isDigit(x) => \A ch \in KindOf(x) : isDigit(ch) /\ ch \in AlNum
  /\ \A x \in Characters : ~ isDigit(x) => \A ch \in KindOf(x) : ~ isDigit(ch) /\ ch \in AlNum
  /\ \A x, y \in Characters : KindOf(x) = KindOf(y) => Alike(x, y)
  /\ \A x \in Characters : x \notin Separators => upper(x) \in AlNum /\ Alike(x, upper(x))
<1>1. Range(Digits) # Range(Uppers)
  <2>1. Digits[1] \in Range(Digits)
    BY PlaceDigits
  <2> QED  BY <2>1, AlphabetsDiffer
<1>2. \A x \in Characters : x \notin Separators => upper(x) \in AlNum /\ Alike(x, upper(x))
  BY Capitals, AlphabetsDiffer DEF Characters, Alike, isDigit
<1> QED  BY <1>1, <1>2, AlphabetsDiffer DEF KindOf, isDigit, Alike, AlNum

\* What mod97 tells apart, and Parse reads alike, is not accepted twice.
LEMMA NotAccepted ==
  ASSUME NEW s \in Seq(Characters), NEW t \in Seq(Characters), Accepted(s),
         Told(Normalize(s), Normalize(t))
  PROVE  ~ Accepted(t)
BY AcceptedIs DEF Told

\* A misread character makes an accepted text one that is not accepted.
LEMMA MisreadIs ==
  ASSUME NEW s \in Seq(Characters), NEW i \in DOMAIN s, isDigit(s[i]) \/ isUpper(s[i]),
         NEW ch \in KindOf(s[i]) \ {s[i]}, Accepted(s)
  PROVE  ~ Accepted([s EXCEPT ![i] = ch])
<1> DEFINE t == [s EXCEPT ![i] = ch]
<1>1. PICK x \in AlNum : x = s[i]
  BY DEF AlNum, isDigit, isUpper
<1>2. x \in Characters /\ x \notin Separators /\ upper(x) = x
  BY AlphabetsDiffer, Capitals DEF AlNum, Characters
<1>3. ch \in AlNum /\ Alike(x, ch) /\ ch # x
  BY <1>1, <1>2, KindIs DEF Alike
<1>4. ch \in Characters /\ ch \notin Separators /\ upper(ch) = ch
  BY <1>3, AlphabetsDiffer, Capitals DEF AlNum, Characters
<1>5. PICK a \in Seq(Characters), b \in Seq(Characters) :
             s = a \o <<x>> \o b /\ t = a \o <<ch>> \o b
  <2>1. i \in 1..Len(s)
    OBVIOUS
  <2>2. PartedIn(s, t, s[i], ch)
    BY <1>4, <2>1, SplitOne
  <2> HIDE DEF t
  <2> QED  BY <1>1, <2>2, Zenon DEF PartedIn
<1>6. t \in Seq(Characters)
  BY <1>4
<1> HIDE DEF t
<1>7. Normalize(s) = Normalize(a) \o <<x>> \o Normalize(b)
  <2>1. x \in Characters \ Separators
    BY <1>2
  <2>2. Normalize(a \o <<x>> \o b) = Normalize(a) \o <<upper(x)>> \o Normalize(b)
    BY <2>1, NormalizeAround, Zenon
  <2> QED  BY <1>2, <1>5, <2>2, Zenon
<1>8. Normalize(t) = Normalize(a) \o <<ch>> \o Normalize(b)
  <2>1. ch \in Characters \ Separators
    BY <1>4
  <2>2. Normalize(a \o <<ch>> \o b) = Normalize(a) \o <<upper(ch)>> \o Normalize(b)
    BY <2>1, NormalizeAround, Zenon
  <2> QED  BY <1>4, <1>5, <2>2, Zenon
<1>9. Normalize(a) \in Seq(AlNum) /\ Normalize(b) \in Seq(AlNum)
  BY NormalizeType
<1>10. Told(Normalize(s), Normalize(t))
  BY <1>3, <1>7, <1>8, <1>9, OneDiffers, Zenon
<1> QED  BY <1>6, <1>10, NotAccepted DEF t

\* And so do two neighbours that change places.
LEMMA SwapIs ==
  ASSUME NEW s \in Seq(Characters), NEW i \in DOMAIN s, i + 1 \in DOMAIN s,
         KindOf(s[i]) = KindOf(s[i + 1]), s[i] # s[i + 1], Accepted(s),
         Normalize(s) # Normalize([s EXCEPT ![i] = s[i + 1], ![i + 1] = s[i]])
  PROVE  ~ Accepted([s EXCEPT ![i] = s[i + 1], ![i + 1] = s[i]])
<1> DEFINE t == [s EXCEPT ![i] = s[i + 1], ![i + 1] = s[i]]
<1>1. PICK x \in Characters, y \in Characters : x = s[i] /\ y = s[i + 1]
  OBVIOUS
<1>2. Alike(x, y)
  BY <1>1, KindIs
<1>3. PICK a \in Seq(Characters), b \in Seq(Characters) :
             s = a \o <<x>> \o <<y>> \o b /\ t = a \o <<y>> \o <<x>> \o b
  <2>1. i \in 1..Len(s) /\ i + 1 \in 1..Len(s)
    OBVIOUS
  <2>2. t \in Seq(Characters) /\ Len(t) = Len(s)
    BY <1>1
  <2>3. \A j \in 1..Len(s) : t[j] = IF j = i THEN y ELSE IF j = i + 1 THEN x ELSE s[j]
    BY <1>1, <2>1
  <2> HIDE DEF t
  <2>4. Exchanged(s, t, i, x, y)
    BY <1>1, <2>1, <2>2, <2>3 DEF Exchanged
  <2>5. PartedAt(s, t, x, y)
    BY <2>4, SplitTwo, Zenon
  <2> QED  BY <2>5, Zenon DEF PartedAt
<1>4. t \in Seq(Characters) /\ Normalize(s) # Normalize(t)
  BY <1>1
<1> HIDE DEF t
<1>5. Normalize(s) = Normalize(a) \o Normalize(<<x>>) \o Normalize(<<y>>) \o Normalize(b)
  <2>1. PairNormalized(a, b, x, y)
    BY NormalizePair
  <2> QED  BY <1>3, <2>1, Zenon DEF PairNormalized
<1>6. Normalize(t) = Normalize(a) \o Normalize(<<y>>) \o Normalize(<<x>>) \o Normalize(b)
  <2>1. PairNormalized(a, b, y, x)
    BY NormalizePair
  <2> QED  BY <1>3, <2>1, Zenon DEF PairNormalized
<1>7. Normalize(a) \in Seq(AlNum) /\ Normalize(b) \in Seq(AlNum)
  BY NormalizeType
<1>8. x \notin Separators /\ y \notin Separators
  <2> DEFINE n(c) == Normalize(<<c>>)
  <2>1. n(x) \in Seq(AlNum) /\ n(y) \in Seq(AlNum)
    <3>1. <<x>> \in Seq(Characters) /\ <<y>> \in Seq(Characters)
      OBVIOUS
    <3> QED  BY <3>1, NormalizeType
  <2>2. x \in Separators \/ y \in Separators => n(x) = <<>> \/ n(y) = <<>>
    BY NormalizeOne
  <2>3. \A k, p, q \in Seq(AlNum) : p = <<>> \/ q = <<>> => k \o p \o q = k \o q \o p
    <3>1. \A k \in Seq(AlNum) : k \o <<>> = k
      OBVIOUS
    <3>2. \A k, q \in Seq(AlNum) : k \o q \in Seq(AlNum)
      OBVIOUS
    <3> TAKE k, p, q \in Seq(AlNum)
    <3> HAVE p = <<>> \/ q = <<>>
    <3>3. k \o p \in Seq(AlNum) /\ k \o q \in Seq(AlNum)
      BY <3>2, Zenon
    <3>4. CASE p = <<>>
      BY <3>1, <3>3, <3>4, Zenon
    <3>5. CASE q = <<>>
      BY <3>1, <3>3, <3>5, Zenon
    <3> QED  BY <3>4, <3>5
  <2> HIDE DEF n
  <2>4. x \in Separators \/ y \in Separators =>
          Normalize(a) \o n(x) \o n(y) = Normalize(a) \o n(y) \o n(x)
    BY <1>7, <2>1, <2>2, <2>3, Zenon
  <2> QED  BY <1>4, <1>5, <1>6, <2>4, Zenon DEF n
<1>9. Normalize(<<x>>) = <<upper(x)>> /\ Normalize(<<y>>) = <<upper(y)>>
  BY <1>8, NormalizeOne
<1>10. PICK c \in AlNum, d \in AlNum : c = upper(x) /\ d = upper(y) /\ Alike(c, d)
  BY <1>2, <1>8, KindIs DEF Alike
<1>11. /\ Normalize(s) = Normalize(a) \o <<c>> \o <<d>> \o Normalize(b)
       /\ Normalize(t) = Normalize(a) \o <<d>> \o <<c>> \o Normalize(b)
  BY <1>5, <1>6, <1>9, <1>10, Zenon
<1>12. c # d
  BY <1>4, <1>11, Zenon
<1>13. Told(Normalize(s), Normalize(t))
  BY <1>7, <1>10, <1>11, <1>12, TwoExchanged, Zenon
<1> QED  BY <1>4, <1>13, NotAccepted DEF t

-----------------------------------------------------------------------------
\* Sums over finite sets, by induction on their size.

\* A sum over the subsets of S, one element at a time.
First(s) == CHOOSE x \in s : TRUE
Adds(g, F, S) ==
  /\ g \in [SUBSET S -> Int] /\ g[{}] = 0
  /\ \A s \in SUBSET S : s # {} => g[s] = F[First(s)] + g[s \ {First(s)}]

\* A sum over a finite set: what a fold that takes First computes.
LEMMA FirstIs == \A s : s # {} => First(s) \in s
BY DEF First

\* Induction over the subsets of a finite set, by their size.
LEMMA BySize ==
  ASSUME NEW S, IsFiniteSet(S), NEW T,
         \A s \in SUBSET S :
           (\A u \in SUBSET S : Cardinality(u) < Cardinality(s) => u \in T) => s \in T
  PROVE  SUBSET S \subseteq T
<1>1. \A s \in SUBSET S : Cardinality(s) \in Nat
  BY FS_Subset, FS_CardinalityType
<1> DEFINE A == {n \in Nat : \A s \in SUBSET S : Cardinality(s) < n => s \in T}
<1>2. 0 \in A
  BY <1>1
<1>3. ASSUME NEW n \in Nat, n \in A PROVE n + 1 \in A
  <2>1. ASSUME NEW s \in SUBSET S, Cardinality(s) < n + 1 PROVE s \in T
    <3>1. \A u \in SUBSET S : Cardinality(u) < Cardinality(s) => u \in T
      BY <1>1, <1>3, <2>1
    <3> QED  BY <3>1
  <2> QED  BY <2>1
<1> HIDE DEF A
<1>4. Nat \subseteq A
  BY <1>2, <1>3, Induction
<1>5. ASSUME NEW s \in SUBSET S PROVE s \in T
  <2>1. Cardinality(s) + 1 \in A
    BY <1>1, <1>4
  <2>2. Cardinality(s) < Cardinality(s) + 1
    BY <1>1
  <2> QED  BY <2>1, <2>2 DEF A
<1> QED  BY <1>5

LEMMA Smaller ==
  ASSUME NEW S, IsFiniteSet(S), NEW s \in SUBSET S, NEW x \in s
  PROVE  s \ {x} \in SUBSET S /\ Cardinality(s \ {x}) < Cardinality(s)
         /\ Cardinality(s \ {x}) \in Nat /\ Cardinality(s) = Cardinality(s \ {x}) + 1
<1>1. IsFiniteSet(s)
  BY FS_Subset
<1>2. Cardinality(s \ {x}) = Cardinality(s) - 1 /\ IsFiniteSet(s \ {x})
  BY <1>1, FS_RemoveElement
<1>3. Cardinality(s) \in Nat /\ Cardinality(s \ {x}) \in Nat
  BY <1>1, <1>2, FS_CardinalityType
<1> QED  BY <1>2, <1>3

\* Every finite set has its sums.
LEMMA AddsExists ==
  ASSUME NEW S, IsFiniteSet(S), NEW F, \A x \in S : F[x] \in Int
  PROVE  \E g : Adds(g, F, S)
<1> DEFINE T == [SUBSET S -> Int]
           next(g) == [s \in SUBSET S |-> IF s = {} THEN 0 ELSE F[First(s)] + g[s \ {First(s)}]]
           N == Cardinality(S) + 1
           step == [p \in (1..N) \X T |-> next(p[2])]
           zero == [s \in SUBSET S |-> 0]
<1>1. Cardinality(S) \in Nat /\ N \in Nat /\ zero \in T
  BY FS_CardinalityType
<1>2. ASSUME NEW g \in T PROVE next(g) \in T
  <2>1. ASSUME NEW s \in SUBSET S, s # {} PROVE F[First(s)] + g[s \ {First(s)}] \in Int
    <3>1. First(s) \in S /\ s \ {First(s)} \in SUBSET S
      BY <2>1, FirstIs
    <3> QED  BY <3>1
  <2> QED  BY <2>1
<1>3. step \in [(1..N) \X T -> T]
  BY <1>2
<1>4. PICK r : IsRun(r, N, T, zero, step)
  <2> HIDE DEF T, N, step, zero
  <2> QED  BY <1>1, <1>3, RunExists
<1>5. ASSUME NEW n \in 1..N PROVE r[n] = next(r[n - 1]) /\ r[n] \in T /\ r[n - 1] \in T
  <2>1. n - 1 \in 0..N /\ n \in 0..N
    BY <1>1
  <2>2. PICK q \in T : q = r[n - 1]
    BY <1>4, <2>1 DEF IsRun
  <2>3. step[<<n, q>>] = next(q)
    OBVIOUS
  <2>4. r[n] = step[<<n, r[n - 1]>>] /\ r[n] \in T
    BY <1>4, <2>1 DEF IsRun
  <2> HIDE DEF step, next, T
  <2> QED  BY <2>2, <2>3, <2>4
<1>6. ASSUME NEW n \in 1..N, NEW s \in SUBSET S
      PROVE  r[n][s] = IF s = {} THEN 0 ELSE F[First(s)] + r[n - 1][s \ {First(s)}]
  BY <1>5
<1> HIDE DEF step, next, zero, N
<1> DEFINE B == {s \in SUBSET S : \A n \in 1..N : \A m \in 1..N :
                   Cardinality(s) < n /\ Cardinality(s) < m => r[n][s] = r[m][s]}
<1>7. ASSUME NEW s \in SUBSET S, \A u \in SUBSET S : Cardinality(u) < Cardinality(s) => u \in B
      PROVE  s \in B
  <2>1. CASE s = {}
    BY <1>6, <2>1
  <2>2. CASE s # {}
    <3>1. PICK v \in SUBSET S : v = s \ {First(s)} /\ Cardinality(v) \in Nat
            /\ Cardinality(s) = Cardinality(v) + 1
      <4>1. PICK x \in s : x = First(s)
        BY <2>2, FirstIs, Zenon
      <4>2. s \ {x} \in SUBSET S /\ Cardinality(s \ {x}) \in Nat /\ Cardinality(s) = Cardinality(s \ {x}) + 1
        BY Smaller
      <4> QED  BY <4>1, <4>2
    <3>2. ASSUME NEW n \in 1..N, NEW m \in 1..N, Cardinality(s) < n, Cardinality(s) < m
          PROVE  r[n][s] = r[m][s]
      <4>1. n - 1 \in 1..N /\ m - 1 \in 1..N /\ Cardinality(v) < n - 1 /\ Cardinality(v) < m - 1
        <5>1. PICK k \in Nat : Cardinality(v) = k
          BY <3>1
        <5>2. k + 1 < n /\ k + 1 < m
          BY <3>1, <3>2, <5>1
        <5> QED  BY <1>1, <5>1, <5>2
      <4>2. v \in B
        <5>1. Cardinality(v) < Cardinality(s)
          BY <3>1
        <5> HIDE DEF B
        <5> QED  BY <1>7, <5>1
      <4>3. r[n - 1][v] = r[m - 1][v]
        BY <4>1, <4>2
      <4>4. r[n][s] = F[First(s)] + r[n - 1][v] /\ r[m][s] = F[First(s)] + r[m - 1][v]
        BY <1>6, <2>2, <3>1
      <4> QED  BY <4>3, <4>4
    <3> QED  BY <3>2
  <2> QED  BY <2>1, <2>2
<1> HIDE DEF B
<1>8. SUBSET S \subseteq B
  BY <1>7, BySize
<1>9. N \in 1..N /\ Cardinality(S) < N
  BY <1>1 DEF N
<1>10. r[N][{}] = 0
  BY <1>6, <1>9
<1>11. ASSUME NEW s \in SUBSET S, s # {} PROVE r[N][s] = F[First(s)] + r[N][s \ {First(s)}]
  <2>1. PICK v \in SUBSET S : v = s \ {First(s)} /\ Cardinality(v) \in Nat
          /\ Cardinality(s) = Cardinality(v) + 1
    <3>1. PICK x \in s : x = First(s)
      BY <1>11, FirstIs, Zenon
    <3>2. s \ {x} \in SUBSET S /\ Cardinality(s \ {x}) \in Nat /\ Cardinality(s) = Cardinality(s \ {x}) + 1
      BY Smaller
    <3> QED  BY <3>1, <3>2
  <2>2. Cardinality(s) <= Cardinality(S) /\ Cardinality(s) \in Nat
    BY FS_Subset, FS_CardinalityType
  <2>3. N - 1 \in 1..N /\ Cardinality(v) < N - 1 /\ Cardinality(v) < N
    BY <1>1, <2>1, <2>2 DEF N
  <2>4. r[N - 1][v] = r[N][v]
    BY <1>8, <1>9, <2>3 DEF B
  <2>5. r[N][s] = F[First(s)] + r[N - 1][v]
    BY <1>6, <1>9, <1>11, <2>1
  <2> QED  BY <2>1, <2>4, <2>5
<1>12. r[N] \in T
  BY <1>5, <1>9
<1> QED  BY <1>10, <1>11, <1>12 DEF Adds

\* Which element is taken first does not matter.
LEMMA AddsAny ==
  ASSUME NEW S, IsFiniteSet(S), NEW F, \A x \in S : F[x] \in Int, NEW g, Adds(g, F, S)
  PROVE  \A s \in SUBSET S : \A x \in s : g[s] = F[x] + g[s \ {x}]
<1> DEFINE T == {s \in SUBSET S : \A x \in s : g[s] = F[x] + g[s \ {x}]}
<1>1. ASSUME NEW s \in SUBSET S, \A u \in SUBSET S : Cardinality(u) < Cardinality(s) => u \in T
      PROVE  s \in T
  <2>1. ASSUME NEW x \in s PROVE g[s] = F[x] + g[s \ {x}]
    <3>1. PICK y \in s : y = First(s)
      BY FirstIs, Zenon
    <3>2. g[s] = F[y] + g[s \ {y}]
      BY <3>1 DEF Adds
    <3>3. CASE x = y
      BY <3>2, <3>3
    <3>4. CASE x # y
      <4>1. s \ {y} \in T /\ s \ {x} \in T
        <5>1. Cardinality(s \ {y}) < Cardinality(s) /\ s \ {y} \in SUBSET S
          BY Smaller
        <5>2. Cardinality(s \ {x}) < Cardinality(s) /\ s \ {x} \in SUBSET S
          BY Smaller
        <5> HIDE DEF T
        <5> QED  BY <1>1, <5>1, <5>2
      <4>2. g[s \ {y}] = F[x] + g[(s \ {y}) \ {x}]
        BY <3>4, <4>1
      <4>3. g[s \ {x}] = F[y] + g[(s \ {x}) \ {y}]
        BY <3>4, <4>1
      <4>4. (s \ {y}) \ {x} = (s \ {x}) \ {y}
        OBVIOUS
      <4>5. F[x] \in Int /\ F[y] \in Int /\ g[(s \ {x}) \ {y}] \in Int
        <5>1. (s \ {x}) \ {y} \in SUBSET S /\ x \in S /\ y \in S
          OBVIOUS
        <5> QED  BY <5>1 DEF Adds
      <4>6. PICK a \in Int, b \in Int, c \in Int :
                   a = F[x] /\ b = F[y] /\ c = g[(s \ {x}) \ {y}]
        BY <4>5
      <4>7. g[s \ {y}] = a + c /\ g[s \ {x}] = b + c
        BY <4>2, <4>3, <4>4, <4>6
      <4>8. g[s] = b + (a + c)
        BY <3>2, <4>6, <4>7
      <4>9. b + (a + c) = a + (b + c)
        OBVIOUS
      <4> QED  BY <4>6, <4>7, <4>8, <4>9
    <3> QED  BY <3>3, <3>4
  <2> QED  BY <2>1
<1> HIDE DEF T
<1>2. SUBSET S \subseteq T
  BY <1>1, BySize
<1> QED  BY <1>2 DEF T

\* Functions that agree on a set have the same sum over it.
LEMMA AddsSame ==
  ASSUME NEW S, IsFiniteSet(S), NEW R, IsFiniteSet(R), NEW F, NEW G,
         \A x \in S : F[x] \in Int, \A x \in R : G[x] \in Int,
         NEW f, NEW g, Adds(f, F, S), Adds(g, G, R), S \subseteq R, \A x \in S : F[x] = G[x]
  PROVE  f[S] = g[S]
<1> DEFINE T == {s \in SUBSET S : f[s] = g[s]}
<1>1. ASSUME NEW s \in SUBSET S, \A u \in SUBSET S : Cardinality(u) < Cardinality(s) => u \in T
      PROVE  s \in T
  <2>1. CASE s = {}
    BY <2>1 DEF Adds
  <2>2. CASE s # {}
    <3>1. PICK y \in s : y = First(s)
      BY <2>2, FirstIs, Zenon
    <3>2. f[s] = F[y] + f[s \ {y}] /\ g[s] = G[y] + g[s \ {y}]
      BY <2>2, <3>1 DEF Adds
    <3>3. s \ {y} \in T
      <4>1. Cardinality(s \ {y}) < Cardinality(s) /\ s \ {y} \in SUBSET S
        BY Smaller
      <4> HIDE DEF T
      <4> QED  BY <1>1, <4>1
    <3> QED  BY <3>2, <3>3
  <2> QED  BY <2>1, <2>2
<1> HIDE DEF T
<1>2. SUBSET S \subseteq T
  BY <1>1, BySize
<1>3. S \in T
  BY <1>2
<1> QED  BY <1>3 DEF T

\* The sum of the library, unfolded.
LEMMA SumAdds ==
  ASSUME NEW S, IsFiniteSet(S), NEW F, \A x \in S : F[x] \in Int
  PROVE  \E g : Adds(g, F, S) /\ SumFunctionOnSet(F, S) = g[S]
<1> DEFINE Good(g) == g = [s \in SUBSET S |-> IF s = {} THEN 0
                                             ELSE F[First(s)] + g[s \ {First(s)}]]
           iter == CHOOSE g : Good(g)
<1>1. PICK h : Adds(h, F, S)
  BY AddsExists
<1>2. Good(h)
  <2> DEFINE k == [s \in SUBSET S |-> IF s = {} THEN 0 ELSE F[First(s)] + h[s \ {First(s)}]]
  <2>1. \A s \in SUBSET S : h[s] = k[s]
    BY <1>1 DEF Adds
  <2>2. DOMAIN h = SUBSET S /\ h = [s \in SUBSET S |-> h[s]]
    BY <1>1 DEF Adds
  <2>3. DOMAIN k = SUBSET S /\ k = [s \in SUBSET S |-> k[s]]
    OBVIOUS
  <2> HIDE DEF k
  <2>4. h = k
    BY <2>1, <2>2, <2>3, SameFunction
  <2> QED  BY <2>4 DEF k
<1>3. Good(iter)
  <2> HIDE DEF Good
  <2> QED  BY <1>2, Zenon
<1>4. SumFunctionOnSet(F, S) = iter[S]
  BY Zenon DEF SumFunctionOnSet, FoldFunctionOnSet, MapThenFoldSet, First
<1> HIDE DEF iter
<1>5. /\ DOMAIN iter = SUBSET S /\ iter = [s \in SUBSET S |-> iter[s]]
      /\ iter[{}] = 0
      /\ \A s \in SUBSET S : s # {} => iter[s] = F[First(s)] + iter[s \ {First(s)}]
  BY <1>3
<1> HIDE DEF Good
<1> DEFINE T == {s \in SUBSET S : iter[s] = h[s]}
<1>6. ASSUME NEW s \in SUBSET S, \A u \in SUBSET S : Cardinality(u) < Cardinality(s) => u \in T
      PROVE  s \in T
  <2>1. CASE s = {}
    BY <1>1, <1>5, <2>1 DEF Adds
  <2>2. CASE s # {}
    <3>1. PICK y \in s : y = First(s)
      BY <2>2, FirstIs, Zenon
    <3>2. iter[s] = F[y] + iter[s \ {y}] /\ h[s] = F[y] + h[s \ {y}]
      BY <1>1, <1>5, <2>2, <3>1 DEF Adds
    <3>3. s \ {y} \in T
      <4>1. Cardinality(s \ {y}) < Cardinality(s) /\ s \ {y} \in SUBSET S
        BY Smaller
      <4> HIDE DEF T
      <4> QED  BY <1>6, <4>1
    <3> QED  BY <3>2, <3>3
  <2> QED  BY <2>1, <2>2
<1> HIDE DEF T
<1>7. SUBSET S \subseteq T
  BY <1>6, BySize
<1>8. iter[S] = h[S]
  <2>1. S \in T
    BY <1>7
  <2> QED  BY <2>1 DEF T
<1> QED  BY <1>1, <1>4, <1>8

\* Taking one element out of a sum, and what a sum depends on.
LEMMA SumOut ==
  ASSUME NEW S, IsFiniteSet(S), NEW F, \A x \in S : F[x] \in Int, NEW x \in S
  PROVE  /\ SumFunctionOnSet(F, S) = F[x] + SumFunctionOnSet(F, S \ {x})
         /\ SumFunctionOnSet(F, S) \in Int
<1> DEFINE R == S \ {x}
<1>1. IsFiniteSet(R) /\ R \in SUBSET S
  BY FS_Subset
<1>2. PICK g : Adds(g, F, S) /\ SumFunctionOnSet(F, S) = g[S]
  BY SumAdds
<1>3. PICK h : Adds(h, F, R) /\ SumFunctionOnSet(F, R) = h[R]
  BY <1>1, SumAdds
<1>4. g[S] = F[x] + g[R]
  BY <1>2, AddsAny
<1>5. h[R] = g[R]
  <2>1. \A y \in R : F[y] \in Int /\ F[y] = F[y]
    OBVIOUS
  <2> HIDE DEF R
  <2> QED  BY <1>1, <1>2, <1>3, <2>1, AddsSame
<1>6. g[S] \in Int
  BY <1>2 DEF Adds
<1> QED  BY <1>2, <1>3, <1>4, <1>5, <1>6

\* Sums of the same terms are the same.
LEMMA SumSame ==
  ASSUME NEW S, IsFiniteSet(S), NEW F, NEW G, \A x \in S : F[x] \in Int /\ F[x] = G[x]
  PROVE  SumFunctionOnSet(F, S) = SumFunctionOnSet(G, S)
<1>1. PICK g : Adds(g, F, S) /\ SumFunctionOnSet(F, S) = g[S]
  BY SumAdds
<1>2. PICK h : Adds(h, G, S) /\ SumFunctionOnSet(G, S) = h[S]
  BY SumAdds
<1> QED  BY <1>1, <1>2, AddsSame

LEMMA SumNone == \A F : SumFunctionOnSet(F, {}) = 0
<1> TAKE F
<1>1. IsFiniteSet({}) /\ \A x \in {} : F[x] \in Int
  BY FS_EmptySet
<1>2. PICK g : Adds(g, F, {}) /\ SumFunctionOnSet(F, {}) = g[{}]
  BY <1>1, SumAdds, Zenon
<1> QED  BY <1>2 DEF Adds

LEMMA SumType ==
  ASSUME NEW S, IsFiniteSet(S), NEW F, \A x \in S : F[x] \in Int
  PROVE  SumFunctionOnSet(F, S) \in Int
<1>1. PICK g : Adds(g, F, S) /\ SumFunctionOnSet(F, S) = g[S]
  BY SumAdds
<1> QED  BY <1>1 DEF Adds

-----------------------------------------------------------------------------
\* What calculate assembles, and what its check digits do to mod97.

\* The zeros that fill up a field, and the two check digits.
LEMMA ZerosIs ==
  ASSUME NEW n \in Int
  PROVE  /\ Zeros(n) \in Seq(Range(Digits)) /\ Zeros(n) \in Seq(AlNum)
         /\ Len(Zeros(n)) = IF n > 0 THEN n ELSE 0
         /\ \A i \in 1..Len(Zeros(n)) : Zeros(n)[i] = "0"
<1>1. "0" \in Range(Digits) /\ "0" \in AlNum
  <2>1. Digits[1] = "0" /\ Digits[1] \in Range(Digits)
    BY PlaceDigits DEF Digits
  <2> QED  BY <2>1 DEF AlNum
<1>2. PICK m \in Nat : 1..n = 1..m /\ m = IF n > 0 THEN n ELSE 0
  <2>1. CASE n > 0
    BY <2>1
  <2>2. CASE ~ (n > 0)
    <3>1. 1..n = 1..0 /\ 0 \in Nat
      BY <2>2
    <3> QED  BY <2>2, <3>1
  <2> QED  BY <2>1, <2>2
<1> DEFINE z == [i \in 1..m |-> "0"]
<1>3. Zeros(n) = z
  BY <1>2, Zenon DEF Zeros
<1>4. z \in Seq(Range(Digits)) /\ z \in Seq(AlNum) /\ Len(z) = m /\ \A i \in 1..m : z[i] = "0"
  BY <1>1
<1> QED  BY <1>2, <1>3, <1>4

LEMMA TwoDigitsIs ==
  ASSUME NEW n \in 0..99
  PROVE  \E a \in Range(Digits), b \in Range(Digits) :
           TwoDigits(n) = <<a, b>> /\ DigitValue[a] * 10 + DigitValue[b] = n
<1>1. PICK q \in 0..9, r \in 0..9 : q = n \div 10 /\ r = n % 10 /\ q * 10 + r = n
  OBVIOUS
<1>2. /\ Digits[q + 1] \in Range(Digits) /\ DigitValue[Digits[q + 1]] = q
      /\ Digits[r + 1] \in Range(Digits) /\ DigitValue[Digits[r + 1]] = r
  BY DigitValues
<1>3. TwoDigits(n) = <<Digits[q + 1], Digits[r + 1]>>
  BY <1>1 DEF TwoDigits
<1> QED  BY <1>1, <1>2, <1>3

\* u is c followed by p.
JoinAs(u, c, p) ==
  /\ Len(u) = Len(c) + Len(p)
  /\ \A i \in 1..Len(c) : u[i] = c[i]
  /\ \A i \in 1..Len(p) : u[i + Len(c)] = p[i]

\* Where the characters of two joined texts stand.
LEMMA JoinIs ==
  ASSUME NEW S, NEW c \in Seq(S), NEW p \in Seq(S)
  PROVE  c \o p \in Seq(S) /\ JoinAs(c \o p, c, p)
<1>1. c \o p \in Seq(S) /\ Len(c \o p) = Len(c) + Len(p)
  OBVIOUS
<1>2. \A i \in 1..Len(c) : (c \o p)[i] = c[i]
  OBVIOUS
<1>3. \A i \in 1..Len(p) : (c \o p)[i + Len(c)] = p[i]
  OBVIOUS
<1> QED  BY <1>1, <1>2, <1>3 DEF JoinAs

\* A text made of a country code, check digits and a BBAN.
Framed(u, code, p, bban) ==
  /\ u \in Seq(AlNum) /\ Len(u) = Len(bban) + 4
  /\ u[1] = code[1] /\ u[2] = code[2] /\ u[3] = p[1] /\ u[4] = p[2]
  /\ \A i \in 1..Len(bban) : u[i + 4] = bban[i]

\* A code, two check digits and a BBAN: where Parse finds each of them.
LEMMA FramedIs ==
  \A code \in Seq(AlNum) : \A p \in Seq(AlNum) : \A bban \in Seq(AlNum) :
    Len(code) = 2 /\ Len(p) = 2 => Framed(code \o p \o bban, code, p, bban)
<1> SUFFICES ASSUME NEW code \in Seq(AlNum), NEW p \in Seq(AlNum), NEW bban \in Seq(AlNum),
                    Len(code) = 2, Len(p) = 2
             PROVE  Framed(code \o p \o bban, code, p, bban)
  BY Zenon
<1>a. PICK w : w = code \o p
  OBVIOUS
<1>b. w \in Seq(AlNum) /\ JoinAs(w, code, p)
  BY <1>a, JoinIs
<1>c. Len(w) = 4 /\ w[1] = code[1] /\ w[2] = code[2] /\ w[1 + 2] = p[1] /\ w[2 + 2] = p[2]
  BY <1>b DEF JoinAs
<1> DEFINE u == w \o bban
<1>d. u \in Seq(AlNum) /\ JoinAs(u, w, bban)
  BY <1>b, JoinIs
<1> HIDE DEF u
<1>1. u \in Seq(AlNum) /\ Len(u) = Len(bban) + 4
  BY <1>c, <1>d DEF JoinAs
<1>2. u[1] = code[1] /\ u[2] = code[2] /\ u[3] = p[1] /\ u[4] = p[2]
  BY <1>c, <1>d DEF JoinAs
<1>3. \A i \in 1..Len(bban) : u[i + 4] = bban[i]
  BY <1>c, <1>d DEF JoinAs
<1> HIDE DEF u
<1>4. Framed(u, code, p, bban)
  BY <1>1, <1>2, <1>3 DEF Framed
<1> QED  BY <1>a, <1>4, Zenon DEF u

\* A text with its check digits: its first two characters, and the BBAN.
Numbered(code, m, bban) == code \o TwoDigits(98 - m) \o bban

NumberedAs(code, m, bban, a, b) ==
  /\ Framed(Numbered(code, m, bban), code, <<a, b>>, bban)
  /\ DigitValue[a] * 10 + DigitValue[b] = 98 - m
  /\ Numbered(code, m, bban)[3] = a /\ Numbered(code, m, bban)[4] = b

\* Check digits 98 - m make a text whose country and BBAN are the given ones.
LEMMA NumberedIs ==
  ASSUME NEW code \in Codes, NEW m \in 0..96, NEW bban \in Seq(AlNum)
  PROVE  \E a \in Range(Digits), b \in Range(Digits) : NumberedAs(code, m, bban, a, b)
<1>1. 98 - m \in 0..99
  OBVIOUS
<1>2. PICK a \in Range(Digits), b \in Range(Digits) :
             TwoDigits(98 - m) = <<a, b>> /\ DigitValue[a] * 10 + DigitValue[b] = 98 - m
  BY <1>1, TwoDigitsIs
<1>3. <<a, b>> \in Seq(AlNum) /\ Len(<<a, b>>) = 2 /\ code \in Seq(AlNum) /\ Len(code) = 2
  <2>1. a \in AlNum /\ b \in AlNum
    BY DEF AlNum
  <2> QED  BY <2>1, CodesAre
<1>4. Framed(code \o <<a, b>> \o bban, code, <<a, b>>, bban)
  BY <1>3, FramedIs, Zenon
<1>5. Numbered(code, m, bban) = code \o <<a, b>> \o bban
  BY <1>2 DEF Numbered
<1>6. Framed(Numbered(code, m, bban), code, <<a, b>>, bban)
  BY <1>4, <1>5, Zenon
<1>7. <<a, b>>[1] = a /\ <<a, b>>[2] = b
  OBVIOUS
<1> HIDE DEF Numbered
<1>8. Numbered(code, m, bban)[3] = a /\ Numbered(code, m, bban)[4] = b
  BY <1>6, <1>7 DEF Framed
<1> QED  BY <1>2, <1>6, <1>8 DEF NumberedAs

\* The check digits that make the remainder one.
LEMMA NumberedFits ==
  ASSUME NEW code \in Codes, NEW bban \in Seq(AlNum)
  PROVE  LET m == mod97(code \o Zeros(2) \o bban)
         IN  m \in 0..96 /\ mod97(Numbered(code, m, bban)) = 1
<1> DEFINE z == code \o Zeros(2) \o bban
           m == mod97(z)
           t == Numbered(code, m, bban)
<1>1. Zeros(2) \in Seq(AlNum) /\ Len(Zeros(2)) = 2 /\ Zeros(2)[1] = "0" /\ Zeros(2)[2] = "0"
  <2>1. 2 \in Int /\ 2 > 0
    OBVIOUS
  <2>2. Zeros(2) \in Seq(AlNum) /\ Len(Zeros(2)) = 2 /\ \A i \in 1..Len(Zeros(2)) : Zeros(2)[i] = "0"
    BY <2>1, ZerosIs
  <2> QED  BY <2>2
<1>2. code \in Seq(AlNum) /\ Len(code) = 2
  BY CodesAre
<1> DEFINE L == Len(bban) + 4
<1>3. L \in Nat /\ L >= 4
  OBVIOUS
<1>4. Framed(z, code, Zeros(2), bban)
  BY <1>1, <1>2, FramedIs, Zenon
<1>5. z \in Seq(AlNum) /\ Len(z) = L /\ z[3] = "0" /\ z[4] = "0"
      /\ z[1] = code[1] /\ z[2] = code[2] /\ \A i \in 1..Len(bban) : z[i + 4] = bban[i]
  <2> HIDE DEF z
  <2> QED  BY <1>1, <1>4 DEF Framed
<1> HIDE DEF z
<1>7. m \in 0..96 /\ m = Running(z)[L]
  BY <1>5, Mod97Is
<1> HIDE DEF m
<1>8. PICK a \in Range(Digits), b \in Range(Digits) : NumberedAs(code, m, bban, a, b)
  BY <1>7, NumberedIs
<1>9. DigitValue[a] * 10 + DigitValue[b] = 98 - m /\ a \in AlNum /\ b \in AlNum
  BY <1>8 DEF AlNum, NumberedAs
<1> HIDE DEF t
<1>10. t \in Seq(AlNum) /\ Len(t) = L /\ t[3] = a /\ t[4] = b
      /\ t[1] = code[1] /\ t[2] = code[2] /\ \A i \in 1..Len(bban) : t[i + 4] = bban[i]
  BY <1>8 DEF NumberedAs, Framed, t
<1> HIDE DEF L
<1>13. ASSUME NEW n \in 1..(L - 2) PROVE Turned(z, n) = Turned(t, n)
  <2>1. CASE n <= L - 4
    <3>1. n \in 1..(Len(z) - 4) /\ n \in 1..(Len(t) - 4) /\ n \in 1..Len(bban)
      BY <1>3, <1>5, <1>10, <2>1 DEF L
    <3>2. Turned(z, n) = z[n + 4] /\ Turned(t, n) = t[n + 4]
      BY <1>3, <1>5, <1>10, <3>1, TurnedAt
    <3> QED  BY <1>5, <1>10, <3>1, <3>2
  <2>2. CASE n > L - 4
    <3>1. n \in (L - 3)..L /\ n + 4 - L \in 1..2
      BY <1>3, <2>2
    <3>a. n + 4 - L = 1 \/ n + 4 - L = 2
      BY <3>1
    <3>2. Turned(z, n) = z[n + 4 - L]
      BY <1>3, <1>5, <3>1, TurnedAt
    <3>3. Turned(t, n) = t[n + 4 - L]
      BY <1>3, <1>10, <3>1, TurnedAt
    <3> QED  BY <1>5, <1>10, <3>a, <3>2, <3>3
  <2> QED  BY <1>3, <2>1, <2>2
<1>14. /\ Turned(z, L - 1) = "0" /\ Turned(z, L) = "0"
       /\ Turned(t, L - 1) = a /\ Turned(t, L) = b
  <2>1. L - 1 \in (L - 3)..L /\ L \in (L - 3)..L /\ (L - 1) + 4 - L = 3 /\ L + 4 - L = 4
    BY <1>3
  <2>2. \A n \in (L - 3)..L : Turned(z, n) = z[n + 4 - L] /\ Turned(t, n) = t[n + 4 - L]
    <3>1. \A n \in (L - 3)..L : Turned(z, n) = z[n + 4 - L]
      BY <1>3, <1>5, TurnedAt
    <3>2. \A n \in (L - 3)..L : Turned(t, n) = t[n + 4 - L]
      BY <1>3, <1>10, TurnedAt
    <3> QED  BY <3>1, <3>2, Zenon
  <2>3. Turned(z, L - 1) = z[3] /\ Turned(t, L - 1) = t[3]
    BY <2>1, <2>2
  <2>4. Turned(z, L) = z[4] /\ Turned(t, L) = t[4]
    BY <2>1, <2>2
  <2> QED  BY <1>5, <1>10, <2>3, <2>4
<1> DEFINE A == {n \in Nat : n <= L - 2 => Running(z)[n] = Running(t)[n]}
<1>15. 0 \in A
  BY <1>5, <1>10, RunningIs
<1>16. ASSUME NEW n \in Nat, n \in A PROVE n + 1 \in A
  <2>1. ASSUME n + 1 <= L - 2 PROVE Running(z)[n + 1] = Running(t)[n + 1]
    <3>1. n + 1 \in 1..(L - 2) /\ n + 1 \in 1..L /\ (n + 1) - 1 = n /\ Running(z)[n] = Running(t)[n]
      BY <1>3, <1>16, <2>1
    <3>2. Running(z)[n + 1] = Shift(Running(z)[n], Turned(z, n + 1))
      BY <1>5, <3>1, RunningIs
    <3>3. Running(t)[n + 1] = Shift(Running(t)[n], Turned(t, n + 1))
      BY <1>10, <3>1, RunningIs
    <3> QED  BY <1>13, <3>1, <3>2, <3>3
  <2> QED  BY <2>1
<1> HIDE DEF A
<1>17. Nat \subseteq A
  BY <1>15, <1>16, Induction
<1>18. PICK r \in 0..96 : r = Running(z)[L - 2] /\ r = Running(t)[L - 2]
  <2>1. L - 2 \in Nat /\ L - 2 \in 0..Len(z)
    BY <1>3, <1>5
  <2>2. Running(z)[L - 2] \in 0..96
    <3>1. Running(z) \in [0..Len(z) -> 0..96]
      BY <1>5, RunningIs
    <3> QED  BY <2>1, <3>1, Zenon
  <2>3. L - 2 \in A /\ L - 2 <= L - 2
    BY <1>3, <1>17, <2>1
  <2>4. Running(z)[L - 2] = Running(t)[L - 2]
    BY <2>3 DEF A
  <2> QED  BY <2>2, <2>4
<1>19. ASSUME NEW s \in Seq(AlNum), Len(s) = L, Running(s)[L - 2] = r
       PROVE  Running(s)[L] = Shift(Shift(r, Turned(s, L - 1)), Turned(s, L))
  <2>1. L - 1 \in 1..L /\ L \in 1..L /\ (L - 1) - 1 = L - 2
    BY <1>3
  <2>2. Running(s)[L - 1] = Shift(Running(s)[(L - 1) - 1], Turned(s, L - 1))
    BY <1>19, <2>1, RunningIs
  <2>3. Running(s)[L] = Shift(Running(s)[L - 1], Turned(s, L))
    BY <1>19, <2>1, RunningIs
  <2> QED  BY <1>19, <2>1, <2>2, <2>3
<1>20. DigitValue["0"] = 0 /\ "0" \in Range(Digits)
  <2>1. Digits[0 + 1] = "0" /\ Digits[0 + 1] \in Range(Digits) /\ DigitValue[Digits[0 + 1]] = 0
    BY DigitValues DEF Digits
  <2> QED  BY <2>1
<1>21. m = Shift(Shift(r, "0"), "0")
  BY <1>5, <1>7, <1>14, <1>18, <1>19
<1>22. Running(t)[L] = Shift(Shift(r, a), b)
  BY <1>10, <1>14, <1>18, <1>19
<1>23. PICK v \in 0..9, w \in 0..9 : v = DigitValue[a] /\ w = DigitValue[b] /\ v * 10 + w = 98 - m
  BY <1>9, DigitValues
<1>24. Shift(Shift(r, "0"), "0") = (((r * 10 + 0) % 97) * 10 + 0) % 97
  BY <1>20 DEF Shift, isDigit
<1>25. Shift(Shift(r, a), b) = (((r * 10 + v) % 97) * 10 + w) % 97
  BY <1>23 DEF Shift, isDigit
<1>26. (((r * 10 + v) % 97) * 10 + w) % 97 = 1
  <2>1. v * 10 + w = 98 - ((((r * 10 + 0) % 97) * 10 + 0) % 97)
    BY <1>21, <1>23, <1>24
  <2>2. \A q \in 0..96, c \in 0..9, d \in 0..9 :
          c * 10 + d = 98 - ((((q * 10 + 0) % 97) * 10 + 0) % 97)
            => (((q * 10 + c) % 97) * 10 + d) % 97 = 1
    OBVIOUS
  <2> QED  BY <2>1, <2>2
<1>27. mod97(t) = 1
  BY <1>10, <1>22, <1>25, <1>26, Mod97Is
<1> QED  BY <1>7, <1>27 DEF z, m, t

\* The parts of a framed text.
LEMMA FramedParts ==
  ASSUME NEW u, NEW code \in Codes, NEW p, NEW bban \in Seq(AlNum), Framed(u, code, p, bban)
  PROVE  SubSeq(u, 1, 2) = code /\ SubSeq(u, 5, Len(u)) = bban
<1>1. u \in Seq(AlNum) /\ Len(u) = Len(bban) + 4 /\ u[1] = code[1] /\ u[2] = code[2]
      /\ \A i \in 1..Len(bban) : u[i + 4] = bban[i]
  BY DEF Framed
<1>2. code \in Seq(AlNum) /\ Len(code) = 2
  BY CodesAre
<1>3. PICK L \in Nat : Len(bban) = L
  OBVIOUS
<1>4. SubSeq(u, 1, 2) = code
  <2> DEFINE a == SubSeq(u, 1, 2)
  <2>1. a \in Seq(AlNum) /\ Len(a) = 2 /\ a[1] = u[1] /\ a[2] = u[2]
    BY <1>1, <1>3
  <2> HIDE DEF a
  <2>2. \A i \in 1..2 : a[i] = code[i]
    BY <1>1, <2>1
  <2>3. a = code
    BY <1>2, <2>1, <2>2, SameText
  <2> QED  BY <2>3 DEF a
<1>5. SubSeq(u, 5, Len(u)) = bban
  <2> DEFINE b == SubSeq(u, 5, L + 4)
  <2>1. b \in Seq(AlNum) /\ Len(b) = L /\ \A i \in 1..L : b[i] = u[i + 4]
    BY <1>1, <1>3
  <2> HIDE DEF b
  <2>2. \A i \in 1..L : b[i] = bban[i]
    BY <1>1, <1>3, <2>1
  <2>3. b = bban
    BY <1>3, <2>1, <2>2, SameText
  <2> QED  BY <1>1, <1>3, <2>3 DEF b
<1> QED  BY <1>4, <1>5

\* The row a code finds.
Home(code) == CHOOSE c \in Lookup(code) : TRUE

\* The row of a country.
LEMMA HomeIs ==
  ASSUME NEW code \in Codes
  PROVE  Home(code) \in Lookup(code) /\ Home(code) \in registry /\ Home(code).Code = code
         /\ RowIs(Home(code)) /\ Lookup(code) # {}
<1>1. PICK c \in registry : c.Code = code
  BY DEF Codes
<1>2. c \in Lookup(code)
  BY <1>1 DEF Lookup
<1>3. Home(code) \in Lookup(code)
  BY <1>2 DEF Home
<1> QED  BY <1>2, <1>3, RegistryIs DEF Lookup

\* The bank code and the account number of a form, filled up with zeros, and
\* what calculate makes of them.
FormBank(f) ==
  Zeros(Width(Home(f.country).BankCode) - Len(Normalize(f.bank))) \o Normalize(f.bank)
FormAccount(f) == Zeros(Width(Home(f.country).Account) - Len(f.account)) \o f.account
FormBBAN(f) == FormBank(f) \o FormAccount(f)
FormText(f) ==
  Numbered(f.country, mod97(f.country \o Zeros(2) \o FormBBAN(f)), FormBBAN(f))

BuiltFrom(f) ==
  LET c == Home(f.country) IN
  /\ Len(Normalize(f.bank)) <= Width(c.BankCode) /\ Len(f.account) <= Width(c.Account)
  /\ FormBank(f) \in Seq(AlNum) /\ Len(FormBank(f)) = Width(c.BankCode)
  /\ FormAccount(f) \in Seq(AlNum) /\ Len(FormAccount(f)) = Width(c.Account)
  /\ Width(c.BankCode) + Width(c.Account) = c.Length - 4
  /\ Built(f) = Parse(FormText(f))

\* A form's account number is normalized as it is.
LEMMA FormTextsAre ==
  ASSUME NEW f \in FormTexts
  PROVE  /\ f.country \in Codes /\ f.bank \in Seq(Characters) /\ Normalize(f.bank) \in Seq(AlNum)
         /\ f.account \in Seq(AlNum) /\ Normalize(f.account) = f.account
<1>1. f.country \in Codes /\ f.bank \in Seq(Characters) /\ f.account \in Seq(AlNum)
  BY DEF FormTexts, AlNum
<1> QED  BY <1>1, NormalizeType, NormalizeSame

\* Filling up a field to its width.
LEMMA PadIs ==
  ASSUME NEW s \in Seq(AlNum), NEW n \in Nat, Len(s) <= n
  PROVE  /\ Zeros(n - Len(s)) \o s \in Seq(AlNum) /\ Len(Zeros(n - Len(s)) \o s) = n
         /\ JoinAs(Zeros(n - Len(s)) \o s, Zeros(n - Len(s)), s)
<1> DEFINE z == Zeros(n - Len(s))
<1>1. PICK k \in Nat : k = n - Len(s)
  OBVIOUS
<1>2. z \in Seq(AlNum) /\ Len(z) = n - Len(s)
  <2>1. Zeros(k) \in Seq(AlNum) /\ Len(Zeros(k)) = IF k > 0 THEN k ELSE 0
    BY ZerosIs
  <2>2. Len(Zeros(k)) = k
    BY <2>1
  <2>3. z = Zeros(k)
    BY <1>1
  <2> QED  BY <1>1, <2>1, <2>2, <2>3
<1> HIDE DEF z
<1>3. z \o s \in Seq(AlNum) /\ JoinAs(z \o s, z, s)
  BY <1>2, JoinIs
<1>4. Len(z \o s) = n
  BY <1>2, <1>3 DEF JoinAs
<1> QED  BY <1>3, <1>4 DEF z

\* An IBAN that calculate answers is the form's parts, filled up, behind their
\* check digits; Parse accepts it and its remainder is 1.
LEMMA BuiltIs ==
  ASSUME NEW f \in FormTexts, Built(f).error = "none"
  PROVE  BuiltFrom(f)
<1> DEFINE c == Home(f.country)
           bank == Normalize(f.bank)
           acct == Normalize(f.account)
           padded == padTo(bank, c.BankCode)
           room == AccountLen(c, padded)
           bban == padded \o Pad(acct, room)
<1>0. f.country \in Codes /\ bank \in Seq(AlNum) /\ acct \in Seq(AlNum) /\ acct = f.account
  BY FormTextsAre
<1>1. c \in Lookup(f.country) /\ RowIs(c) /\ c.Code = f.country
  BY <1>0, HomeIs
<1> DEFINE Built1 == Refused("unknown country")
           Built2 == Refused("required")
           Built3 == Refused("bank code")
           Built4 == Refused("account number")
           Built5 == Refused("length")
           Built6 == Refused("no room")
<1>2. /\ Built1.error # "none" /\ Built2.error # "none" /\ Built3.error # "none"
      /\ Built4.error # "none" /\ Built5.error # "none" /\ Built6.error # "none"
  BY DEF Refused
<1>3. Built(f) = IF Lookup(f.country) = {} THEN Built1
                 ELSE IF bank = <<>> \/ acct = <<>> THEN Built2
                 ELSE IF known(c.BankCode) /\ Len(bank) > Width(c.BankCode) THEN Built3
                 ELSE IF room < 1 THEN Built6
                 ELSE IF room < Len(acct) THEN Built4
                 ELSE Assemble(c, bank, acct)
  BY Zenon DEF Built, Calculate, Home
<1>4. Assemble(c, bank, acct) =
        IF Len(bban) # BBANLength(c) THEN Built5
        ELSE Parse(c.Code \o TwoDigits(98 - mod97(c.Code \o Zeros(2) \o bban)) \o bban)
  BY Zenon DEF Assemble
<1> HIDE DEF Built1, Built2, Built3, Built4, Built5, Built6, c, bank, acct, padded, room, bban
<1>5. /\ ~ (known(c.BankCode) /\ Len(bank) > Width(c.BankCode)) /\ ~ (room < Len(acct))
      /\ Built(f) = Assemble(c, bank, acct)
  BY <1>2, <1>3
<1>6. Len(bban) = BBANLength(c)
      /\ Built(f) = Parse(c.Code \o TwoDigits(98 - mod97(c.Code \o Zeros(2) \o bban)) \o bban)
  BY <1>2, <1>4, <1>5
<1>7. PICK w \in Nat, v \in Nat : w = Width(c.BankCode) /\ v = Width(c.Account)
  BY <1>1 DEF RowIs, Width
<1>8. known(c.BankCode) /\ known(c.Account)
  BY <1>1 DEF RowIs, known
<1>9. room = v
  BY <1>7, <1>8 DEF room, AccountLen
<1>10. Len(bank) <= w /\ Len(acct) <= v
  <2>1. Len(bank) \in Nat /\ Len(acct) \in Nat
    BY <1>0
  <2> QED  BY <1>5, <1>7, <1>8, <1>9, <2>1
<1>11. padded = FormBank(f)
  BY <1>8, Zenon DEF padded, padTo, Pad, FormBank, c, bank
<1>12. Pad(acct, room) = FormAccount(f)
  BY <1>0, <1>7, <1>9, Zenon DEF Pad, FormAccount, c
<1>13. FormBank(f) \in Seq(AlNum) /\ Len(FormBank(f)) = w
  <2>1. FormBank(f) = Zeros(w - Len(bank)) \o bank
    BY <1>7, Zenon DEF FormBank, c, bank
  <2> QED  BY <1>0, <1>10, <2>1, PadIs
<1>14. FormAccount(f) \in Seq(AlNum) /\ Len(FormAccount(f)) = v
  <2>1. FormAccount(f) = Zeros(v - Len(acct)) \o acct
    BY <1>0, <1>7, Zenon DEF FormAccount, c
  <2> QED  BY <1>0, <1>10, <2>1, PadIs
<1>15. bban = FormBBAN(f)
  BY <1>11, <1>12 DEF bban, FormBBAN
<1>16. w + v = c.Length - 4
  <2>1. Len(FormBBAN(f)) = Len(FormBank(f)) + Len(FormAccount(f))
    BY <1>13, <1>14, JoinIs DEF FormBBAN, JoinAs
  <2> QED  BY <1>6, <1>13, <1>14, <1>15, <2>1 DEF BBANLength
<1>17. Built(f) = Parse(FormText(f))
  BY <1>1, <1>6, <1>15, Zenon DEF FormText, Numbered
<1> QED  BY <1>0, <1>7, <1>10, <1>13, <1>14, <1>16, <1>17, Zenon DEF BuiltFrom, c, bank

-----------------------------------------------------------------------------
\* The sum of ISO 7064 is the running remainder of the code.

\* Multiples of 97 do not matter, and one step of the sum is one of the loop.
LEMMA Whole ==
  \A a \in Int : \A k \in Int : (a + 97 * k) % 97 = a % 97
OBVIOUS

\* A digit or a letter carried over to the other side of the product.
Carried(t, r, v, p, d) ==
  (r * ((p * t) % 97) + (v * p + d)) % 97 = (((r * t + v) % 97) * p + d) % 97

LEMMA CarriedOver ==
  \A t \in Nat : \A r \in Nat : \A v \in Nat : \A p \in Nat : \A d \in Int : Carried(t, r, v, p, d)
<1> SUFFICES ASSUME NEW t \in Nat, NEW r \in Nat, NEW v \in Nat, NEW p \in Nat, NEW d \in Int
             PROVE  (r * ((p * t) % 97) + (v * p + d)) % 97 = (((r * t + v) % 97) * p + d) % 97
  BY Zenon DEF Carried
<1>1. PICK x \in Nat : x = p * t
  OBVIOUS
<1>2. PICK y \in Nat : y = r * t + v
  OBVIOUS
<1>3. PICK q \in Int, m \in Nat : m = x % 97 /\ x = 97 * q + m
  <2>1. x % 97 \in Nat /\ x \div 97 \in Int /\ x = 97 * (x \div 97) + (x % 97)
    OBVIOUS
  <2> QED  BY <2>1
<1>4. PICK h \in Int, n \in Nat : n = y % 97 /\ y = 97 * h + n
  <2>1. y % 97 \in Nat /\ y \div 97 \in Int /\ y = 97 * (y \div 97) + (y % 97)
    OBVIOUS
  <2> QED  BY <2>1
<1>5. PICK a \in Int, b \in Int : a = r * m + (v * p + d) /\ b = n * p + d
  OBVIOUS
<1>6. a - b = 97 * (h * p - r * q)
  <2>1. r * x = r * (97 * q + m) /\ y * p = (97 * h + n) * p
    BY <1>3, <1>4
  <2>2. r * x = r * (p * t) /\ y * p = (r * t + v) * p
    BY <1>1, <1>2
  <2>3. r * (97 * q + m) = 97 * (r * q) + r * m /\ (97 * h + n) * p = 97 * (h * p) + n * p
    OBVIOUS
  <2>4. (r * t + v) * p = r * (p * t) + v * p
    OBVIOUS
  <2>5. r * m = r * x - 97 * (r * q) /\ n * p = y * p - 97 * (h * p)
    BY <2>1, <2>3
  <2>6. y * p = r * x + v * p
    BY <2>2, <2>4
  <2>7. 97 * (h * p - r * q) = 97 * (h * p) - 97 * (r * q)
    OBVIOUS
  <2> QED  BY <1>5, <2>5, <2>6, <2>7
<1>7. PICK k \in Int : k = h * p - r * q
  OBVIOUS
<1>8. a = b + 97 * k
  BY <1>6, <1>7
<1>9. a % 97 = b % 97
  BY <1>8, Whole
<1> QED  BY <1>1, <1>2, <1>3, <1>4, <1>5, <1>9

\* What the sums in Remainder are, from the n-th character on.
Turn4(s) == SubSeq(s, 5, Len(s)) \o SubSeq(s, 1, 4)
Wide(s) == [m \in 1..Len(s) |-> Narrow(Turn4(s)[m])]
After(s, n) == SumFunctionOnSet(Wide(s), (n + 1)..Len(s))
Weighed(s) == [n \in 1..Len(s) |-> Spelt(Turn4(s)[n]) * PowerOfTen[After(s, n)]]
Rest(s, n) == SumFunctionOnSet(Weighed(s), (n + 1)..Len(s))

\* The standard's turned text is read in the order of the loop.
LEMMA Turn4Is ==
  ASSUME NEW s \in Seq(AlNum), Len(s) \in 4..34
  PROVE  \A n \in 1..Len(s) : Turn4(s)[n] = Turned(s, n) /\ Turn4(s)[n] \in AlNum
<1>1. PICK N \in Nat : Len(s) = N + 4
  <2>1. PICK L \in 4..34 : Len(s) = L
    OBVIOUS
  <2>2. L - 4 \in Nat /\ L = (L - 4) + 4
    OBVIOUS
  <2> QED  BY <2>1, <2>2
<1> DEFINE a == SubSeq(s, 5, N + 4)
           b == SubSeq(s, 1, 4)
<1>2. a \in Seq(AlNum) /\ Len(a) = N /\ \A i \in 1..N : a[i] = s[i + 4]
  BY <1>1
<1>3. b \in Seq(AlNum) /\ Len(b) = 4 /\ \A i \in 1..4 : b[i] = s[i]
  BY <1>1
<1>4. Turn4(s) = a \o b
  BY <1>1, Zenon DEF Turn4
<1> HIDE DEF a, b
<1>5. PICK u : u = a \o b
  OBVIOUS
<1>6. u \in Seq(AlNum) /\ JoinAs(u, a, b)
  BY <1>2, <1>3, <1>5, JoinIs
<1>7. /\ \A n \in 1..N : Turned(s, n) = s[n + 4]
      /\ \A j \in 1..4 : Turned(s, j + N) = s[j]
  <2>1. /\ \A n \in 1..(Len(s) - 4) : Turned(s, n) = s[n + 4]
        /\ \A n \in (Len(s) - 3)..Len(s) : Turned(s, n) = s[n + 4 - Len(s)]
    <3>1. Len(s) >= 4
      BY <1>1
    <3> QED  BY <3>1, TurnedAt
  <2>2. ASSUME NEW n \in 1..N  PROVE Turned(s, n) = s[n + 4]
    <3>1. n \in 1..(Len(s) - 4)
      BY <1>1
    <3> QED  BY <2>1, <3>1
  <2>3. ASSUME NEW j \in 1..4  PROVE Turned(s, j + N) = s[j]
    <3>1. PICK n \in Nat : n = j + N
      OBVIOUS
    <3>2. n \in (Len(s) - 3)..Len(s) /\ n + 4 - Len(s) = j
      BY <1>1, <3>1
    <3> QED  BY <2>1, <3>1, <3>2
  <2> QED  BY <2>2, <2>3
<1>8. ASSUME NEW n \in 1..(N + 4)  PROVE u[n] = Turned(s, n) /\ u[n] \in AlNum
  <2>1. Len(u) = N + 4
    BY <1>2, <1>3, <1>6 DEF JoinAs
  <2>2. u[n] \in AlNum
    BY <1>6, <2>1
  <2>3. CASE n <= N
    <3>1. n \in 1..N
      BY <2>3
    <3> QED  BY <1>2, <1>6, <1>7, <2>2, <3>1 DEF JoinAs
  <2>4. CASE ~ (n <= N)
    <3>1. PICK j \in 1..4 : j + N = n
      <4>1. n - N \in 1..4 /\ (n - N) + N = n
        BY <2>4
      <4> QED  BY <4>1
    <3>2. u[j + N] = b[j]
      BY <1>2, <1>3, <1>6 DEF JoinAs
    <3> QED  BY <1>3, <1>7, <2>2, <3>1, <3>2
  <2> QED  BY <2>3, <2>4
<1> QED  BY <1>1, <1>4, <1>5, <1>8

\* How many digits follow: one for a digit, two for a letter.
LEMMA AfterIs ==
  ASSUME NEW s \in Seq(AlNum), Len(s) \in 4..34
  PROVE  /\ After(s, Len(s)) = 0
         /\ \A n \in 1..Len(s) : After(s, n - 1) = Narrow(Turn4(s)[n]) + After(s, n)
         /\ \A n \in 0..Len(s) : After(s, n) \in 0..68
<1>1. PICK L \in 4..34 : Len(s) = L
  OBVIOUS
<1> DEFINE W == [m \in 1..L |-> Narrow(Turn4(s)[m])]
           A(n) == SumFunctionOnSet(W, (n + 1)..L)
<1>2. \A n : After(s, n) = A(n)
  BY <1>1 DEF After, Wide
<1>3. \A m \in 1..L : W[m] \in 1..2 /\ W[m] = Narrow(Turn4(s)[m])
  BY DEF Narrow
<1> HIDE DEF W
<1>4. A(L) = 0
  <2>1. (L + 1)..L = {}
    OBVIOUS
  <2> QED  BY <2>1, SumNone
<1>5. ASSUME NEW n \in 1..L  PROVE A(n - 1) = W[n] + A(n)
  <2>1. IsFiniteSet(n..L)
    BY FS_Interval
  <2>2. \A x \in n..L : W[x] \in Int
    BY <1>3
  <2>3. n \in n..L /\ (n..L) \ {n} = (n + 1)..L /\ ((n - 1) + 1)..L = n..L
    OBVIOUS
  <2>4. SumFunctionOnSet(W, n..L) = W[n] + SumFunctionOnSet(W, (n..L) \ {n})
    BY <2>1, <2>2, <2>3, SumOut
  <2> QED  BY <2>3, <2>4
<1> HIDE DEF A
<1>6. \A n \in 0..L : A(n) \in 0..(2 * (L - n))
  <2> DEFINE T == {k \in Nat : k <= L => A(L - k) \in 0..(2 * k)}
  <2>1. 0 \in T
    BY <1>4
  <2>2. ASSUME NEW k \in Nat, k \in T  PROVE k + 1 \in T
    <3>1. CASE k + 1 <= L
      <4>1. PICK n \in 1..L : n = L - k
        BY <3>1
      <4>2. A(n) \in 0..(2 * k)
        BY <2>2, <3>1, <4>1
      <4>3. A(n - 1) \in 0..(2 * (k + 1))
        BY <1>3, <1>5, <4>2
      <4>4. n - 1 = L - (k + 1)
        BY <4>1
      <4> QED  BY <4>3, <4>4
    <3> QED  BY <3>1
  <2> HIDE DEF T
  <2>3. Nat \subseteq T
    BY <2>1, <2>2, Induction
  <2>4. ASSUME NEW n \in 0..L  PROVE A(n) \in 0..(2 * (L - n))
    <3>1. PICK k \in Nat : k = L - n
      OBVIOUS
    <3>2. k \in T /\ k <= L /\ L - k = n
      BY <2>3, <3>1
    <3> QED  BY <3>1, <3>2 DEF T
  <2> QED  BY <2>4
<1>7. ASSUME NEW n \in 0..L  PROVE A(n) \in 0..68
  <2>1. PICK j \in 0..68 : j = 2 * (L - n)
    <3>1. 2 * (L - n) \in 0..68
      OBVIOUS
    <3> QED  BY <3>1
  <2>2. A(n) \in 0..j
    BY <1>6, <2>1
  <2> HIDE DEF A
  <2>3. PICK v \in 0..j : v = A(n)
    BY <2>2, Zenon
  <2>4. v \in 0..68
    OBVIOUS
  <2> QED  BY <2>3, <2>4, Zenon
<1>8. \A n \in 1..L : A(n - 1) = Narrow(Turn4(s)[n]) + A(n)
  BY <1>3, <1>5
<1>9. After(s, L) = 0
  BY <1>2, <1>4, Zenon
<1>10. \A n \in 1..L : After(s, n - 1) = Narrow(Turn4(s)[n]) + After(s, n)
  BY <1>2, <1>8, Zenon
<1>11. \A n \in 0..L : After(s, n) \in 0..68
  BY <1>2, <1>7, Zenon
<1> QED  BY <1>1, <1>9, <1>10, <1>11, Zenon

LEMMA SpeltType == \A ch \in AlNum : Spelt(ch) \in 0..35
<1> TAKE ch \in AlNum
<1>1. CASE isDigit(ch)
  <2>1. DigitValue[ch] \in 0..9
    BY <1>1, Values
  <2>2. Spelt(ch) = DigitValue[ch]
    BY <1>1 DEF Spelt
  <2> QED  BY <2>1, <2>2
<1>2. CASE ~ isDigit(ch)
  <2>1. LetterValue[ch] \in 10..35
    BY <1>2, Values
  <2>2. Spelt(ch) = LetterValue[ch]
    BY <1>2 DEF Spelt
  <2> QED  BY <2>1, <2>2
<1> QED  BY <1>1, <1>2

LEMMA PowerType == \A n \in 0..68 : PowerOfTen[n] \in 0..96
<1>1. PowerOfTen \in [0..68 -> 0..96]
  BY PowerIs
<1> QED  BY <1>1

\* One step of the running remainder, taken out of the sum.
Stepped(r, ch, n, d) ==
  (r * PowerOfTen[Narrow(ch) + n] + (Spelt(ch) * PowerOfTen[n] + d)) % 97
  = (Shift(r, ch) * PowerOfTen[n] + d) % 97

LEMMA OneStep ==
  ASSUME NEW r \in 0..96, NEW ch \in AlNum, NEW n \in 0..68, Narrow(ch) + n \in 0..68, NEW d \in Int
  PROVE  Stepped(r, ch, n, d)
<1>1. PICK p \in 0..96 : p = PowerOfTen[n]
  BY PowerIs
<1>2. CASE isDigit(ch)
  <2>1. Narrow(ch) = 1
    BY <1>2 DEF Narrow
  <2>2. PICK v \in 0..9 : v = DigitValue[ch] /\ Spelt(ch) = v
    BY <1>2, Values DEF Spelt
  <2>3. PowerOfTen[1 + n] = (p * 10) % 97
    <3>1. PICK k \in 1..68 : k = 1 + n
      BY <2>1
    <3>2. k - 1 = n
      BY <3>1
    <3> QED  BY <1>1, <3>1, <3>2, PowerIs
  <2>4. Shift(r, ch) = (r * 10 + v) % 97
    BY <1>2, <2>2 DEF Shift
  <2>5. (r * ((p * 10) % 97) + (v * p + d)) % 97 = (((r * 10 + v) % 97) * p + d) % 97
    <3>1. PICK t \in Nat : t = 10
      OBVIOUS
    <3>2. r \in Nat /\ v \in Nat /\ p \in Nat
      OBVIOUS
    <3>3. Carried(t, r, v, p, d)
      BY <3>2, CarriedOver, Zenon
    <3> QED  BY <3>1, <3>3, Zenon DEF Carried
  <2> QED  BY <1>1, <2>1, <2>2, <2>3, <2>4, <2>5, Zenon DEF Stepped
<1>3. CASE ~ isDigit(ch)
  <2>1. Narrow(ch) = 2
    BY <1>3 DEF Narrow
  <2>2. PICK v \in 10..35 : v = LetterValue[ch] /\ Spelt(ch) = v
    BY <1>3, Values DEF Spelt
  <2>3. PowerOfTen[2 + n] = (p * 100) % 97
    <3>1. PICK k \in 1..68 : k = 1 + n
      BY <2>1
    <3>2. k - 1 = n /\ k + 1 = 2 + n /\ (k + 1) - 1 = k /\ k + 1 \in 1..68
      BY <2>1, <3>1
    <3>3. PowerOfTen[k] = (p * 10) % 97
      BY <1>1, <3>2, PowerIs
    <3>4. PowerOfTen[k + 1] = (PowerOfTen[k] * 10) % 97
      BY <3>2, PowerIs
    <3>5. \A q \in 0..96 : (((q * 10) % 97) * 10) % 97 = (q * 100) % 97
      OBVIOUS
    <3> QED  BY <3>2, <3>3, <3>4, <3>5
  <2>4. Shift(r, ch) = (r * 100 + v) % 97
    BY <1>3, <2>2 DEF Shift
  <2>5. (r * ((p * 100) % 97) + (v * p + d)) % 97 = (((r * 100 + v) % 97) * p + d) % 97
    <3>1. PICK t \in Nat : t = 100
      OBVIOUS
    <3>2. r \in Nat /\ v \in Nat /\ p \in Nat
      OBVIOUS
    <3>3. Carried(t, r, v, p, d)
      BY <3>2, CarriedOver, Zenon
    <3> QED  BY <3>1, <3>3, Zenon DEF Carried
  <2> QED  BY <1>1, <2>1, <2>2, <2>3, <2>4, <2>5, Zenon DEF Stepped
<1> QED  BY <1>2, <1>3

\* The terms of the standard's sum.
LEMMA WeighedType ==
  ASSUME NEW s \in Seq(AlNum), Len(s) \in 4..34, NEW m \in 1..Len(s)
  PROVE  Spelt(Turn4(s)[m]) * PowerOfTen[After(s, m)] \in Int
<1>1. PICK L \in 4..34 : Len(s) = L
  OBVIOUS
<1>a. PICK ch \in AlNum : ch = Turn4(s)[m]
  BY <1>1, Turn4Is
<1>2. Spelt(ch) \in Int
  <2>1. Spelt(ch) \in 0..35
    BY SpeltType, Zenon
  <2>2. \A x \in 0..35 : x \in Int
    OBVIOUS
  <2> QED  BY <2>1, <2>2, Zenon
<1>3. PICK a \in 0..68 : a = After(s, m)
  <2>1. m \in 0..L
    BY <1>1
  <2> QED  BY <1>1, <2>1, AfterIs
<1>4. PowerOfTen[a] \in Int
  <2>1. PowerOfTen[a] \in 0..96
    BY PowerType, Zenon
  <2>2. \A x \in 0..96 : x \in Int
    OBVIOUS
  <2> QED  BY <2>1, <2>2, Zenon
<1>5. Spelt(ch) * PowerOfTen[a] \in Int
  BY <1>2, <1>4
<1> QED  BY <1>a, <1>3, <1>5

\* What is still to be added, from the n-th character on.
LEMMA RestIs ==
  ASSUME NEW s \in Seq(AlNum), Len(s) \in 4..34
  PROVE  /\ Rest(s, Len(s)) = 0
         /\ \A n \in 0..Len(s) : Rest(s, n) \in Int
         /\ \A n \in 1..Len(s) :
              Rest(s, n - 1) = Spelt(Turn4(s)[n]) * PowerOfTen[After(s, n)] + Rest(s, n)
<1>1. PICK L \in 4..34 : Len(s) = L
  OBVIOUS
<1> DEFINE W == [n \in 1..L |-> Spelt(Turn4(s)[n]) * PowerOfTen[After(s, n)]]
           A(n) == SumFunctionOnSet(W, (n + 1)..L)
<1>2. \A n : Rest(s, n) = A(n)
  BY <1>1 DEF Rest, Weighed
<1>3. \A m \in 1..L : W[m] \in Int /\ W[m] = Spelt(Turn4(s)[m]) * PowerOfTen[After(s, m)]
  <2> TAKE m \in 1..L
  <2>1. Spelt(Turn4(s)[m]) * PowerOfTen[After(s, m)] \in Int
    BY <1>1, WeighedType
  <2> QED  BY <2>1
<1> HIDE DEF W
<1>4. A(L) = 0
  <2>1. (L + 1)..L = {}
    OBVIOUS
  <2> QED  BY <2>1, SumNone
<1>5. ASSUME NEW n \in 1..L  PROVE A(n - 1) = W[n] + A(n)
  <2>1. IsFiniteSet(n..L)
    BY FS_Interval
  <2>2. \A x \in n..L : W[x] \in Int
    BY <1>3
  <2>3. n \in n..L /\ (n..L) \ {n} = (n + 1)..L /\ ((n - 1) + 1)..L = n..L
    OBVIOUS
  <2>4. SumFunctionOnSet(W, n..L) = W[n] + SumFunctionOnSet(W, (n..L) \ {n})
    BY <2>1, <2>2, <2>3, SumOut
  <2> QED  BY <2>3, <2>4
<1>6. ASSUME NEW n \in 0..L  PROVE A(n) \in Int
  <2>1. IsFiniteSet((n + 1)..L)
    BY FS_Interval
  <2>2. \A x \in (n + 1)..L : W[x] \in Int
    BY <1>3
  <2> QED  BY <2>1, <2>2, SumType
<1> HIDE DEF A
<1>7. \A n \in 1..L : A(n - 1) = Spelt(Turn4(s)[n]) * PowerOfTen[After(s, n)] + A(n)
  BY <1>3, <1>5
<1> QED  BY <1>1, <1>2, <1>4, <1>6, <1>7, Zenon

\* The sum of the weighed digits is the running remainder: the code's mod97 and
\* the standard's definition agree.
THEOREM RemainderIs ==
  ASSUME NEW s \in Seq(AlNum), Len(s) \in 4..34
  PROVE  Remainder(s) = mod97(s)
<1>1. PICK L \in 4..34 : Len(s) = L
  OBVIOUS
<1>2. Remainder(s) = Rest(s, 0) % 97
  <2>1. DOMAIN Weighed(s) = 1..Len(s)
    BY DEF Weighed
  <2>2. \A n \in 1..Len(s) : DOMAIN [m \in (n + 1)..Len(s) |-> Narrow(Turn4(s)[m])] = (n + 1)..Len(s)
    OBVIOUS
  <2>3. ASSUME NEW n \in 1..L
        PROVE  SumFunctionOnSet([m \in (n + 1)..L |-> Narrow(Turn4(s)[m])], (n + 1)..L) = After(s, n)
    <3>1. IsFiniteSet((n + 1)..L)
      BY FS_Interval
    <3> DEFINE F == [m \in (n + 1)..L |-> Narrow(Turn4(s)[m])]
               G == [m \in 1..L |-> Narrow(Turn4(s)[m])]
    <3>2. \A m \in (n + 1)..L : F[m] \in Int /\ F[m] = G[m]
      BY DEF Narrow
    <3>3. After(s, n) = SumFunctionOnSet(G, (n + 1)..L)
      BY <1>1 DEF After, Wide
    <3> HIDE DEF F, G
    <3>4. SumFunctionOnSet(F, (n + 1)..L) = SumFunctionOnSet(G, (n + 1)..L)
      BY <3>1, <3>2, SumSame
    <3> QED  BY <3>3, <3>4 DEF F
  <2> DEFINE A(n) == SumFunction([m \in (n + 1)..Len(s) |-> Narrow(Turn4(s)[m])])
             W == [n \in 1..Len(s) |-> Spelt(Turn4(s)[n]) * PowerOfTen[A(n)]]
  <2>4. \A n \in 1..Len(s) : A(n) = After(s, n)
    BY <1>1, <2>2, <2>3 DEF SumFunction
  <2>5. Remainder(s) = SumFunction(W) % 97
    BY DEF Remainder, Turn4
  <2> HIDE DEF A
  <2>6. W = Weighed(s)
    BY <2>4 DEF Weighed
  <2> HIDE DEF W
  <2>7. SumFunction(Weighed(s)) = SumFunctionOnSet(Weighed(s), 1..Len(s))
    BY <2>1 DEF SumFunction
  <2>8. 0 + 1 = 1
    OBVIOUS
  <2> QED  BY <2>5, <2>6, <2>7, <2>8 DEF Rest
<1> DEFINE R == Running(s)
           T == {k \in Nat : k <= L =>
                  (R[k] * PowerOfTen[After(s, k)] + Rest(s, k)) % 97 = Remainder(s)}
<1>3. /\ R \in [0..L -> 0..96] /\ R[0] = 0
      /\ \A n \in 1..L : R[n] = Shift(R[n - 1], Turned(s, n))
  BY <1>1, RunningIs
<1>4. /\ \A n \in 0..L : After(s, n) \in 0..68
      /\ \A n \in 1..L : After(s, n - 1) = Narrow(Turn4(s)[n]) + After(s, n)
      /\ After(s, L) = 0
  BY <1>1, AfterIs
<1>5. /\ \A n \in 0..L : Rest(s, n) \in Int
      /\ \A n \in 1..L : Rest(s, n - 1) = Spelt(Turn4(s)[n]) * PowerOfTen[After(s, n)] + Rest(s, n)
      /\ Rest(s, L) = 0
  BY <1>1, RestIs
<1>6. \A n \in 1..L : Turn4(s)[n] = Turned(s, n) /\ Turn4(s)[n] \in AlNum
  BY <1>1, Turn4Is
<1> HIDE DEF R
<1>7. 0 \in T
  <2>0. 0 \in 0..L
    OBVIOUS
  <2>a. PICK a \in 0..68 : a = After(s, 0)
    BY <1>4, <2>0
  <2>1. PICK p \in 0..96 : p = PowerOfTen[After(s, 0)]
    BY <2>a, PowerIs
  <2>2. PICK d \in Int : d = Rest(s, 0)
    BY <1>5, <2>0
  <2>3. (0 * p + d) % 97 = d % 97
    OBVIOUS
  <2> QED  BY <1>2, <1>3, <2>1, <2>2, <2>3
<1>8. ASSUME NEW k \in Nat, k \in T  PROVE k + 1 \in T
  <2>1. CASE k + 1 <= L
    <3>1. PICK n \in 1..L : n = k + 1
      BY <2>1
    <3>2. n - 1 = k /\ k \in 0..L /\ k <= L /\ n \in 0..L
      BY <3>1
    <3>3. (R[k] * PowerOfTen[After(s, k)] + Rest(s, k)) % 97 = Remainder(s)
      BY <1>8, <3>2
    <3>4. PICK ch \in AlNum : ch = Turn4(s)[n] /\ ch = Turned(s, n)
      BY <1>6
    <3>5. PICK a \in 0..68 : a = After(s, n)
      BY <1>4, <3>2
    <3>6. After(s, k) = Narrow(ch) + a /\ Narrow(ch) + a \in 0..68
      BY <1>4, <3>2, <3>4, <3>5
    <3>7. PICK d \in Int : d = Rest(s, n)
      BY <1>5, <3>2
    <3>8. Rest(s, k) = Spelt(ch) * PowerOfTen[a] + d
      BY <1>5, <3>2, <3>4, <3>5, <3>7
    <3>9. PICK r \in 0..96 : r = R[k]
      BY <1>3, <3>2
    <3>10. R[n] = Shift(r, ch)
      BY <1>3, <3>2, <3>4, <3>9
    <3>11. (r * PowerOfTen[Narrow(ch) + a] + (Spelt(ch) * PowerOfTen[a] + d)) % 97
           = (Shift(r, ch) * PowerOfTen[a] + d) % 97
      <4>1. Stepped(r, ch, a, d)
        BY <3>6, OneStep
      <4> QED  BY <4>1, Zenon DEF Stepped
    <3>12. (R[n] * PowerOfTen[After(s, n)] + Rest(s, n)) % 97 = Remainder(s)
      BY <3>3, <3>5, <3>6, <3>7, <3>8, <3>9, <3>10, <3>11
    <3> QED  BY <3>1, <3>12
  <2> QED  BY <2>1
<1> HIDE DEF T
<1>9. L \in T
  BY <1>7, <1>8, Induction
<1>10. (R[L] * 1 + 0) % 97 = Remainder(s)
  BY <1>4, <1>5, <1>9, PowerIs DEF T
<1>11. PICK r \in 0..96 : r = R[L]
  BY <1>3
<1>12. r = Remainder(s)
  <2>1. (r * 1 + 0) % 97 = r
    OBVIOUS
  <2> QED  BY <1>10, <1>11, <2>1
<1>13. mod97(s) = R[L]
  BY <1>1, Mod97Is DEF R
<1> QED  BY <1>11, <1>12, <1>13

-----------------------------------------------------------------------------
\* An IBAN that a bank issues.

LEMMA AcceptsIs == \A class, ch : accepts(class, ch) => ch \in AlNum
BY DEF accepts, AlNum, isDigit, isUpper

\* The text a form becomes.
LEMMA FormTextIs ==
  ASSUME NEW f \in FormTexts, Built(f).error = "none"
  PROVE  /\ FormText(f) \in Seq(AlNum) /\ FormBBAN(f) \in Seq(AlNum)
         /\ SubSeq(FormText(f), 1, 2) = f.country /\ BBAN(FormText(f)) = FormBBAN(f)
         /\ Built(f).raw = FormText(f) /\ ParseError(FormText(f)) = "none"
         /\ mod97(FormText(f)) = 1
<1>1. BuiltFrom(f)
  BY BuiltIs
<1>2. f.country \in Codes
  BY FormTextsAre
<1>3. FormBBAN(f) \in Seq(AlNum)
  <2>1. FormBank(f) \in Seq(AlNum) /\ FormAccount(f) \in Seq(AlNum)
    BY <1>1 DEF BuiltFrom
  <2> QED  BY <2>1, JoinIs DEF FormBBAN
<1>4. PICK bban \in Seq(AlNum) : bban = FormBBAN(f)
  BY <1>3
<1>5. PICK m : m = mod97(f.country \o Zeros(2) \o bban)
  OBVIOUS
<1>6. m \in 0..96 /\ mod97(Numbered(f.country, m, bban)) = 1
  BY <1>2, <1>5, NumberedFits
<1>7. FormText(f) = Numbered(f.country, m, bban)
  BY <1>4, <1>5, Zenon DEF FormText
<1>8. PICK a \in Range(Digits), b \in Range(Digits) : NumberedAs(f.country, m, bban, a, b)
  BY <1>2, <1>6, NumberedIs
<1>9. Framed(FormText(f), f.country, <<a, b>>, bban)
  BY <1>7, <1>8 DEF NumberedAs
<1>10. FormText(f) \in Seq(AlNum)
  BY <1>9 DEF Framed
<1>11. SubSeq(FormText(f), 1, 2) = f.country /\ BBAN(FormText(f)) = bban
  BY <1>2, <1>9, FramedParts DEF BBAN
<1>12. Built(f) = Parse(FormText(f)) /\ Normalize(FormText(f)) = FormText(f)
  BY <1>1, <1>10, NormalizeSame DEF BuiltFrom
<1>13. Built(f).raw = FormText(f) /\ Built(f).error = ParseError(FormText(f))
  BY <1>12 DEF Parse
<1> QED  BY <1>3, <1>4, <1>6, <1>7, <1>10, <1>11, <1>13

\* A text of the right length and structure has no error.
LEMMA NoError ==
  ASSUME NEW code \in Codes, NEW bban \in Seq(AlNum), NEW t, NEW a \in Range(Digits), NEW b \in Range(Digits),
         Framed(t, code, <<a, b>>, bban),
         \A c \in Lookup(code) : Len(bban) = BBANLength(c) /\ checkStructure(c, bban)
  PROVE  ParseError(t) = "none"
<1>1. SubSeq(t, 1, 2) = code /\ BBAN(t) = bban
  BY FramedParts DEF BBAN
<1>2. Home(code) \in Lookup(code) /\ RowIs(Home(code))
  BY HomeIs
<1>3. /\ t \in Seq(AlNum) /\ Len(t) = Len(bban) + 4
      /\ t[1] = code[1] /\ t[2] = code[2] /\ t[3] = a /\ t[4] = b
  BY DEF Framed
<1>4. \A c \in Lookup(code) : Len(t) = c.Length
  <2> TAKE c \in Lookup(code)
  <2>1. RowIs(c)
    BY RegistryIs DEF Lookup
  <2>2. PICK n \in 15..31 : n = c.Length
    BY <2>1 DEF RowIs
  <2>3. Len(bban) = n - 4
    BY <2>2 DEF BBANLength
  <2>4. (n - 4) + 4 = n
    OBVIOUS
  <2> QED  BY <1>3, <2>2, <2>3, <2>4
<1>5. Len(t) \in 15..31
  BY <1>2, <1>4 DEF RowIs
<1>6. ~ (Len(t) < 4) /\ ~ (Len(t) > MaxLength)
  <2>1. \A n \in 15..31 : ~ (n < 4) /\ ~ (n > 34)
    OBVIOUS
  <2> QED  BY <1>5, <2>1, Zenon DEF MaxLength
<1>7. isUpper(t[1]) /\ isUpper(t[2]) /\ isDigit(t[3]) /\ isDigit(t[4])
  <2>1. isUpper(code[1]) /\ isUpper(code[2])
    BY CodesAre
  <2>2. isDigit(a) /\ isDigit(b)
    BY DEF isDigit
  <2> QED  BY <1>3, <2>1, <2>2
<1>8. Lookup(code) # {} /\ ~ (\E c \in Lookup(code) : Len(t) # c.Length)
      /\ ~ (\E c \in Lookup(code) : ~ checkStructure(c, bban))
  BY <1>2, <1>4, Zenon
<1> QED  BY <1>1, <1>6, <1>7, <1>8, Zenon DEF ParseError

Issued(e) == Numbered(e.country, Remainder(e.country \o Zeros(2) \o e.bban), e.bban)

\* An IBAN that a bank issues is accepted: its remainder is 1.
LEMMA IssuedIs ==
  ASSUME NEW e \in Elsewhere
  PROVE  Issued(e) \in Seq(AlNum) /\ ParseError(Issued(e)) = "none" /\ mod97(Issued(e)) = 1
<1>1. e.country \in Codes /\ e.bban \in Seq(Characters)
  BY ElsewhereAssumption
<1> PICK bban : bban = e.bban
  OBVIOUS
<1>2. PICK code \in Codes : code = e.country /\ bban = e.bban
  BY <1>1
<1>3. \A c \in Lookup(code) : Len(bban) = BBANLength(c) /\ checkStructure(c, bban)
  BY <1>2, ElsewhereAssumption
<1>4. PICK c \in Lookup(code) : RowIs(c)
  BY HomeIs
<1>5. PICK L \in 11..27 : Len(bban) = L
  <2>1. PICK n \in 15..31 : c.Length = n
    BY <1>4 DEF RowIs
  <2>2. Len(bban) = n - 4 /\ n - 4 \in 11..27
    BY <1>3, <1>4, <2>1 DEF BBANLength
  <2> QED  BY <2>2
<1>6. bban \in Seq(AlNum)
  <2>1. bban \in Seq(Characters)
    BY <1>1, <1>2
  <2>2. DOMAIN bban = 1..L /\ bban = [i \in 1..L |-> bban[i]]
    BY <1>5, <2>1
  <2>3. \A i \in 1..L : bban[i] \in AlNum
    <3> TAKE i \in 1..L
    <3>1. checkStructure(c, bban)
      BY <1>3, <1>4
    <3>2. \E class : accepts(class, bban[i])
      BY <2>2, <3>1, Zenon DEF checkStructure
    <3> QED  BY <3>2, AcceptsIs
  <2> QED  BY <2>2, <2>3
<1>7. PICK s : s = code \o Zeros(2) \o bban
  OBVIOUS
<1>8. s \in Seq(AlNum) /\ Len(s) \in 4..34
  <2>1. code \in Seq(AlNum) /\ Len(code) = 2 /\ Zeros(2) \in Seq(AlNum) /\ Len(Zeros(2)) = 2
    <3>1. 2 \in Int /\ 2 > 0
      OBVIOUS
    <3>2. Zeros(2) \in Seq(AlNum) /\ Len(Zeros(2)) = IF 2 > 0 THEN 2 ELSE 0
      BY <3>1, ZerosIs
    <3> QED  BY <3>1, <3>2, CodesAre
  <2>2. Framed(s, code, Zeros(2), bban)
    BY <1>6, <1>7, <2>1, FramedIs, Zenon
  <2>3. s \in Seq(AlNum) /\ Len(s) = Len(bban) + 4
    BY <2>2 DEF Framed
  <2>4. L + 4 \in 4..34
    OBVIOUS
  <2> QED  BY <1>5, <2>3, <2>4
<1>9. PICK m : m = Remainder(s) /\ m = mod97(s)
  BY <1>8, RemainderIs
<1>10. m \in 0..96 /\ mod97(Numbered(code, m, bban)) = 1
  BY <1>6, <1>7, <1>9, NumberedFits
<1>11. Issued(e) = Numbered(code, m, bban)
  BY <1>2, <1>7, <1>9, Zenon DEF Issued
<1>12. PICK a \in Range(Digits), b \in Range(Digits) : NumberedAs(code, m, bban, a, b)
  BY <1>6, <1>10, NumberedIs
<1>13. Framed(Issued(e), code, <<a, b>>, bban)
  BY <1>11, <1>12 DEF NumberedAs
<1>14. Issued(e) \in Seq(AlNum)
  BY <1>13 DEF Framed
<1>15. ParseError(Issued(e)) = "none"
  BY <1>3, <1>6, <1>13, NoError
<1> QED  BY <1>10, <1>11, <1>14, <1>15
=============================================================================
