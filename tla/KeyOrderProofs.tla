--------------------------- MODULE KeyOrderProofs ---------------------------
(***************************************************************************)
(* Proofs about the order of the keys, for every index an int64 may have:  *)
(* it is the order sort.Strings gives the numerals, it is total, and a     *)
(* queue that is not empty has exactly one first key.                      *)
(***************************************************************************)
EXTENDS KeyOrder, WellFoundedInduction, TLAPS

\* A set of numbers that is not empty has a least element.
LEMMA LeastNumber ==
  ASSUME NEW S, S \subseteq Nat, S # {}
  PROVE  \E n \in S : \A i \in S : n <= i
  <1>1. PICK n \in S : \A i \in S : ~ (<<i, n>> \in OpToRel(<, Nat))
    BY NatLessThanWellFounded, WFMin
  <1>2. \A i \in S : ~ (i < n)
    BY <1>1 DEF OpToRel
  <1> QED  BY <1>2

-----------------------------------------------------------------------------
(* Powers of ten *)

LEMMA PowerDef ==
  PowerOfTen = [d \in 0 .. 19 |-> IF d = 0 THEN 1 ELSE 10 * PowerOfTen[d - 1]]
  <1> DEFINE hundred == 10 * 10
             million == hundred * hundred * hundred
             first(d) == IF d = 0 THEN 1 ELSE IF d = 1 THEN 10
                         ELSE IF d = 2 THEN 100 ELSE IF d = 3 THEN 1000
                         ELSE IF d = 4 THEN 10000 ELSE 100000
             t(d) == IF d < 6 THEN first(d)
                     ELSE IF d < 12 THEN 1000000 * first(d - 6)
                     ELSE IF d < 18 THEN 1000000000000 * first(d - 12)
                     ELSE IF d = 18 THEN 1000000 * 1000000000000
                     ELSE 10000000 * 1000000000000
             f == [d \in 0 .. 19 |-> t(d)]
             D(g) == [d \in 0 .. 19 |-> IF d = 0 THEN 1 ELSE 10 * g[d - 1]]
  <1>1. \A d \in 0 .. 19 : t(d) = IF d = 0 THEN 1 ELSE 10 * t(d - 1)
    OBVIOUS
  <1>2. \A d \in 1 .. 19 : f[d - 1] = t(d - 1)
    <2> HIDE DEF t
    <2> QED  OBVIOUS
  <1>3. f = D(f)
    <2> HIDE DEF t
    <2> QED  BY <1>1, <1>2
  <1>4. PowerOfTen = CHOOSE g : g = D(g)
    BY DEF PowerOfTen
  <1> HIDE DEF D, f
  <1>5. PowerOfTen = D(PowerOfTen)
    BY <1>3, <1>4
  <1> QED  BY <1>5 DEF D

LEMMA PowerFacts ==
  /\ PowerOfTen[0] = 1
  /\ \A d \in 0 .. 18 : PowerOfTen[d + 1] = 10 * PowerOfTen[d]
  /\ \A d \in 0 .. 19 : PowerOfTen[d] \in Nat \ {0}
  <1>1. PowerOfTen[0] = 1
    BY PowerDef
  <1>2. ASSUME NEW d \in 0 .. 18  PROVE PowerOfTen[d + 1] = 10 * PowerOfTen[d]
    <2>1. d + 1 \in 0 .. 19 /\ d + 1 # 0 /\ (d + 1) - 1 = d
      OBVIOUS
    <2>2. \A e \in 0 .. 19 :
            PowerOfTen[e] = IF e = 0 THEN 1 ELSE 10 * PowerOfTen[e - 1]
      BY PowerDef
    <2>3. PowerOfTen[d + 1] = 10 * PowerOfTen[(d + 1) - 1]
      BY <2>1, <2>2
    <2> QED  BY <2>1, <2>3
  <1> DEFINE S == {d \in 0 .. 19 : PowerOfTen[d] \notin Nat \ {0}}
  <1>3. ASSUME S # {}  PROVE FALSE
    <2>1. PICK d \in S : \A i \in S : d <= i
      <3>1. S \subseteq Nat
        OBVIOUS
      <3> HIDE DEF S
      <3> QED  BY <1>3, <3>1, LeastNumber
    <2>2. d # 0
      BY <1>1
    <2>3. d - 1 \in 0 .. 18 /\ (d - 1) + 1 = d
      BY <2>2
    <2>4. PowerOfTen[d - 1] \in Nat \ {0}
      BY <2>1, <2>3
    <2>5. PowerOfTen[d] = 10 * PowerOfTen[d - 1]
      BY <2>3, <1>2
    <2> QED  BY <2>4, <2>5
  <1> QED  BY <1>1, <1>2, <1>3

\* The product of two powers.
LEMMA PowerSum ==
  ASSUME NEW a \in 0 .. 19, NEW b \in 0 .. 19, a + b <= 19
  PROVE  PowerOfTen[a + b] = PowerOfTen[a] * PowerOfTen[b]
  <1> DEFINE S == {d \in 0 .. 19 : /\ a + d <= 19
                                   /\ PowerOfTen[a + d] # PowerOfTen[a] * PowerOfTen[d]}
  <1>1. ASSUME S # {}  PROVE FALSE
    <2>1. PICK d \in S : \A i \in S : d <= i
      <3>1. S \subseteq Nat
        OBVIOUS
      <3> HIDE DEF S
      <3> QED  BY <1>1, <3>1, LeastNumber
    <2>2. d # 0
      BY PowerFacts
    <2>3. d - 1 \in 0 .. 18 /\ a + (d - 1) \in 0 .. 18
      BY <2>2
    <2>4. PowerOfTen[a + (d - 1)] = PowerOfTen[a] * PowerOfTen[d - 1]
      BY <2>1, <2>3
    <2>5. PowerOfTen[a + d] = 10 * PowerOfTen[a + (d - 1)]
      <3>1. (a + (d - 1)) + 1 = a + d
        BY <2>3
      <3> QED  BY <2>3, <3>1, PowerFacts
    <2>6. PowerOfTen[d] = 10 * PowerOfTen[d - 1]
      <3>1. (d - 1) + 1 = d
        BY <2>3
      <3> QED  BY <2>3, <3>1, PowerFacts
    <2>7. PowerOfTen[a] \in Nat /\ PowerOfTen[d - 1] \in Nat
      BY <2>3, PowerFacts
    <2>8. ASSUME NEW x \in Nat, NEW y \in Nat  PROVE 10 * (x * y) = x * (10 * y)
      OBVIOUS
    <2> QED  BY <2>1, <2>4, <2>5, <2>6, <2>7, <2>8
  <1> QED  BY <1>1

\* A larger exponent gives a larger power.
LEMMA PowerOrder ==
  ASSUME NEW a \in 0 .. 19, NEW b \in 0 .. 19, a <= b
  PROVE  PowerOfTen[a] <= PowerOfTen[b]
  <1>1. b - a \in 0 .. 19 /\ a + (b - a) = b
    OBVIOUS
  <1>2. PowerOfTen[b] = PowerOfTen[a] * PowerOfTen[b - a]
    BY <1>1, PowerSum
  <1>3. ASSUME NEW x \in Nat \ {0}, NEW y \in Nat \ {0}  PROVE x <= x * y
    OBVIOUS
  <1> QED  BY <1>1, <1>2, <1>3, PowerFacts

-----------------------------------------------------------------------------
(* Division *)

LEMMA Division ==
  ASSUME NEW a \in Nat, NEW b \in Nat \ {0}
  PROVE  /\ a \div b \in Nat
         /\ b * (a \div b) <= a
         /\ a < b * (a \div b) + b
         /\ \A q \in Nat : b * q <= a /\ a < b * q + b => a \div b = q
  OBVIOUS
-----------------------------------------------------------------------------
(* Numerals *)

\* The indexes a queue can count up to: an int64 is below 10^19.
Printable == {k \in Nat : k < PowerOfTen[19]}

\* The number of digits exists and is the only one of its kind.
LEMMA DigitsFacts ==
  ASSUME NEW k \in Printable
  PROVE  /\ NumDigits(k) \in 1 .. 19
         /\ k < PowerOfTen[NumDigits(k)]
         /\ NumDigits(k) = 1 \/ PowerOfTen[NumDigits(k) - 1] <= k
         /\ \A d \in 1 .. 19 :
              k < PowerOfTen[d] /\ (d = 1 \/ PowerOfTen[d - 1] <= k)
                 => NumDigits(k) = d
  <1> DEFINE Fits(d) == k < PowerOfTen[d] /\ (d = 1 \/ PowerOfTen[d - 1] <= k)
             S == {d \in 1 .. 19 : k < PowerOfTen[d]}
  <1>1. k \in Nat
    BY DEF Printable
  <1>2. PICK d \in S : \A i \in S : d <= i
    <2>1. S \subseteq Nat /\ 19 \in S
      BY DEF Printable
    <2> HIDE DEF S
    <2> QED  BY <2>1, LeastNumber
  <1>3. Fits(d)
    <2>1. CASE d = 1
      BY <1>2, <2>1
    <2>2. CASE d # 1
      <3>1. d - 1 \in 1 .. 19 /\ d - 1 \notin S
        BY <1>2, <2>2
      <3> QED  BY <1>1, <1>2, <3>1, PowerFacts
    <2> QED  BY <2>1, <2>2
  <1>4. NumDigits(k) \in 1 .. 19 /\ Fits(NumDigits(k))
    BY <1>2, <1>3 DEF NumDigits
  <1>5. ASSUME NEW a \in 1 .. 19, NEW b \in 1 .. 19, Fits(a), Fits(b)
        PROVE  a <= b
    <2> SUFFICES ASSUME b < a  PROVE FALSE
      OBVIOUS
    <2>1. a - 1 \in 0 .. 19 /\ b <= a - 1 /\ a # 1
      OBVIOUS
    <2>2. PowerOfTen[b] <= PowerOfTen[a - 1]
      BY <2>1, PowerOrder
    <2>3. PowerOfTen[a - 1] <= k /\ k < PowerOfTen[b]
      BY <1>5, <2>1
    <2>4. PowerOfTen[a - 1] \in Nat /\ PowerOfTen[b] \in Nat
      BY <2>1, PowerFacts
    <2> QED  BY <1>1, <2>2, <2>3, <2>4
  <1>6. ASSUME NEW e \in 1 .. 19, Fits(e)  PROVE NumDigits(k) = e
    <2>1. NumDigits(k) <= e /\ e <= NumDigits(k)
      BY <1>4, <1>5, <1>6
    <2> QED  BY <1>4, <2>1
  <1> QED  BY <1>4, <1>6

\* More digits make a larger number.
LEMMA WidthOrder ==
  ASSUME NEW j \in Printable, NEW k \in Printable, NumDigits(j) < NumDigits(k)
  PROVE  j < k
  <1> DEFINE d == NumDigits(j)
             e == NumDigits(k)
  <1>1. d \in 1 .. 19 /\ e \in 1 .. 19 /\ e - 1 \in 1 .. 19 /\ d <= e - 1
    BY DigitsFacts
  <1>2. j < PowerOfTen[d] /\ PowerOfTen[e - 1] <= k
    BY <1>1, DigitsFacts
  <1>3. PowerOfTen[d] <= PowerOfTen[e - 1]
    BY <1>1, PowerOrder
  <1>4. PowerOfTen[d] \in Nat /\ PowerOfTen[e - 1] \in Nat
    BY <1>1, PowerFacts
  <1> QED  BY <1>2, <1>3, <1>4 DEF Printable

\* The first digits of k: none are 0, all are k, and each one more is the next
\* digit of the numeral.
LEMMA LeadingFacts ==
  ASSUME NEW k \in Printable
  PROVE  /\ \A i \in 0 .. NumDigits(k) : Leading(k, i) \in Nat
         /\ Leading(k, 0) = 0
         /\ Leading(k, NumDigits(k)) = k
         /\ \A i \in 1 .. NumDigits(k) :
              /\ Numeral(k)[i] \in 0 .. 9
              /\ Leading(k, i) = 10 * Leading(k, i - 1) + Numeral(k)[i]
  <1> DEFINE n == NumDigits(k)
  <1>1. k \in Nat /\ n \in 1 .. 19 /\ k < PowerOfTen[n]
    BY DigitsFacts DEF Printable
  <1> HIDE DEF n
  <1>2. \A i \in 0 .. n : n - i \in 0 .. 19 /\ PowerOfTen[n - i] \in Nat \ {0}
    BY <1>1, PowerFacts
  <1>3. \A i \in 0 .. n : Leading(k, i) = k \div PowerOfTen[n - i]
    BY DEF Leading, n
  <1>4. \A i \in 0 .. n : Leading(k, i) \in Nat
    BY <1>1, <1>2, <1>3, Division
  <1>5. Leading(k, 0) = 0
    <2>1. PowerOfTen[n] \in Nat \ {0} /\ n - 0 = n /\ 0 \in 0 .. n
      BY <1>1, PowerFacts
    <2>2. k \div PowerOfTen[n] = 0
      BY <1>1, <2>1, Division
    <2> QED  BY <1>3, <2>1, <2>2
  <1>6. Leading(k, n) = k
    <2>1. n - n = 0 /\ n \in 0 .. n
      BY <1>1
    <2>2. k \div 1 = k
      BY <1>1
    <2> QED  BY <1>3, <2>1, <2>2, PowerFacts
  <1>7. ASSUME NEW i \in 1 .. n
        PROVE  /\ Numeral(k)[i] \in 0 .. 9
               /\ Leading(k, i) = 10 * Leading(k, i - 1) + Numeral(k)[i]
    <2> DEFINE b == PowerOfTen[n - i]
               q == Leading(k, i)
               r == q \div 10
    <2>1. i \in 0 .. n /\ i - 1 \in 0 .. n /\ n - i \in 0 .. 18
          /\ (n - i) + 1 = n - (i - 1)
      BY <1>1
    <2>2. b \in Nat \ {0} /\ PowerOfTen[n - (i - 1)] = 10 * b
      BY <2>1, PowerFacts
    <2>3. q = k \div b /\ Leading(k, i - 1) = k \div (10 * b)
      BY <1>3, <2>1, <2>2
    <2>4. q \in Nat /\ b * q <= k /\ k < b * q + b
      BY <1>1, <2>2, <2>3, Division
    <2>5. Numeral(k)[i] = q % 10
      BY DEF Numeral, n
    <2>9. Leading(k, i) = q
      OBVIOUS
    <2> HIDE DEF b, q
    <2>6. r \in Nat /\ q % 10 \in 0 .. 9 /\ q = 10 * r + (q % 10)
      BY <2>4
    <2>7. (10 * b) * r <= k /\ k < (10 * b) * r + 10 * b
      <3> DEFINE z == q % 10
      <3>1. b * q = (10 * b) * r + b * z
        BY <2>2, <2>4, <2>6
      <3>2. b * z >= 0 /\ b * z + b <= 10 * b
        BY <2>2, <2>6
      <3>3. (10 * b) * r \in Nat /\ b * z \in Nat /\ b * q \in Nat /\ b \in Nat
        BY <2>2, <2>4, <2>6
      <3> HIDE DEF z, r
      <3> QED  BY <1>1, <2>4, <3>1, <3>2, <3>3
    <2>8. k \div (10 * b) = r
      <3>1. 10 * b \in Nat \ {0}
        BY <2>2
      <3> QED  BY <1>1, <2>6, <2>7, <3>1, Division
    <2>10. Leading(k, i - 1) = r
      BY <2>3, <2>8
    <2> HIDE DEF r
    <2> QED  BY <2>5, <2>6, <2>9, <2>10
  <1> QED  BY <1>4, <1>5, <1>6, <1>7 DEF n

-----------------------------------------------------------------------------
(* The order of the keys is that of strings *)

\* Two keys compare as the leading numbers of the shorter one's length.
LEMMA LeadingShort ==
  ASSUME NEW j \in Printable, NEW k \in Printable
  PROVE  /\ NumDigits(j) = NumDigits(k) => (KeyLess(j, k) <=> j < k)
         /\ NumDigits(j) < NumDigits(k) =>
              (KeyLess(j, k) <=> Leading(j, NumDigits(j)) <= Leading(k, NumDigits(j)))
         /\ NumDigits(k) < NumDigits(j) =>
              (KeyLess(j, k) <=> Leading(j, NumDigits(k)) < Leading(k, NumDigits(k)))
  <1>1. /\ NumDigits(j) \in 1 .. 19 /\ NumDigits(k) \in 1 .. 19
        /\ Leading(j, NumDigits(j)) = j /\ Leading(k, NumDigits(k)) = k
    BY DigitsFacts, LeadingFacts
  <1> QED  BY <1>1 DEF KeyLess

\* Numerals that agree in their first i digits have the same leading numbers.
LEMMA SamePrefix ==
  ASSUME NEW j \in Printable, NEW k \in Printable,
         NEW i \in Nat, i <= NumDigits(j), i <= NumDigits(k),
         \A h \in 1 .. i : Numeral(j)[h] = Numeral(k)[h]
  PROVE  Leading(j, i) = Leading(k, i)
  <1> DEFINE S == {h \in 0 .. i : Leading(j, h) # Leading(k, h)}
  <1>1. NumDigits(j) \in 1 .. 19 /\ NumDigits(k) \in 1 .. 19
    BY DigitsFacts
  <1>2. ASSUME S # {}  PROVE FALSE
    <2>1. PICK h \in S : \A g \in S : h <= g
      <3>1. S \subseteq Nat
        OBVIOUS
      <3> HIDE DEF S
      <3> QED  BY <1>2, <3>1, LeastNumber
    <2>2. h # 0
      BY LeadingFacts
    <2>3. h - 1 \in 0 .. i /\ h - 1 \notin S /\ h \in 1 .. i
      BY <2>1, <2>2
    <2>4. h \in 1 .. NumDigits(j) /\ h \in 1 .. NumDigits(k)
      BY <1>1, <2>3
    <2>5. /\ Leading(j, h) = 10 * Leading(j, h - 1) + Numeral(j)[h]
          /\ Leading(k, h) = 10 * Leading(k, h - 1) + Numeral(k)[h]
      BY <2>4, LeadingFacts
    <2> QED  BY <2>1, <2>3, <2>5
  <1> QED  BY <1>2

\* What is smaller in its first i digits stays smaller with more of them.
LEMMA SmallerPrefix ==
  ASSUME NEW j \in Printable, NEW k \in Printable,
         NEW i \in Nat, NEW n \in Nat, i <= n,
         n <= NumDigits(j), n <= NumDigits(k),
         Leading(j, i) < Leading(k, i)
  PROVE  Leading(j, n) < Leading(k, n)
  <1> DEFINE S == {h \in i .. n : ~ (Leading(j, h) < Leading(k, h))}
  <1>1. NumDigits(j) \in 1 .. 19 /\ NumDigits(k) \in 1 .. 19
    BY DigitsFacts
  <1>2. ASSUME S # {}  PROVE FALSE
    <2>1. PICK h \in S : \A g \in S : h <= g
      <3>1. S \subseteq Nat
        OBVIOUS
      <3> HIDE DEF S
      <3> QED  BY <1>2, <3>1, LeastNumber
    <2>2. h # i
      OBVIOUS
    <2>3. h - 1 \in i .. n /\ h - 1 \notin S /\ h \in 1 .. n
      BY <2>1, <2>2
    <2>4. /\ h \in 1 .. NumDigits(j) /\ h \in 1 .. NumDigits(k)
          /\ h - 1 \in 0 .. NumDigits(j) /\ h - 1 \in 0 .. NumDigits(k)
      BY <1>1, <2>3
    <2>5. /\ Leading(j, h) = 10 * Leading(j, h - 1) + Numeral(j)[h]
          /\ Leading(k, h) = 10 * Leading(k, h - 1) + Numeral(k)[h]
          /\ Numeral(j)[h] \in 0 .. 9 /\ Numeral(k)[h] \in 0 .. 9
          /\ Leading(j, h - 1) \in Nat /\ Leading(k, h - 1) \in Nat
      BY <2>4, LeadingFacts
    <2>6. Leading(j, h - 1) < Leading(k, h - 1)
      BY <2>3
    <2>7. ~ (Leading(j, h) < Leading(k, h))
      BY <2>1
    <2> QED  BY <2>5, <2>6, <2>7
  <1> QED  BY <1>2

\* The order that the model gives the keys is the lexicographic order of their
\* numerals, which is what sort.Strings makes of the keys "msg:%d"
\* (getMessageKeys), for every index an int64 holds.
THEOREM KeysSortLikeStrings ==
  ASSUME NEW j \in Printable, NEW k \in Printable
  PROVE  KeyLess(j, k) <=> LexLess(Numeral(j), Numeral(k))
  <1> DEFINE d == NumDigits(j)
             e == NumDigits(k)
             s == Numeral(j)
             t == Numeral(k)
             n == IF d < e THEN d ELSE e
  <1>1. /\ d \in 1 .. 19 /\ e \in 1 .. 19 /\ n \in 1 .. 19
        /\ n <= d /\ n <= e /\ (n = d \/ n = e)
    BY DigitsFacts
  <1>2. DOMAIN s = 1 .. d /\ DOMAIN t = 1 .. e
    BY DEF Numeral
  <1>3. Leading(j, n) \in Nat /\ Leading(k, n) \in Nat
    BY <1>1, LeadingFacts
  <1>4. KeyLess(j, k) <=> \/ Leading(j, n) < Leading(k, n)
                          \/ Leading(j, n) = Leading(k, n) /\ d < e
    <2>1. j \in Nat /\ k \in Nat /\ Leading(j, d) = j /\ Leading(k, e) = k
      BY LeadingFacts DEF Printable
    <2> HIDE DEF d, e
    <2>2. CASE d = e
      BY <1>1, <2>1, <2>2, LeadingShort DEF d, e
    <2>3. CASE d < e
      BY <1>1, <1>3, <2>3, LeadingShort DEF d, e
    <2>4. CASE e < d
      BY <1>1, <1>3, <2>4, LeadingShort DEF d, e
    <2> QED  BY <1>1, <2>2, <2>3, <2>4
  <1>5. ASSUME NEW i \in 1 .. n, \A h \in 1 .. i - 1 : s[h] = t[h]
        PROVE  /\ s[i] < t[i] => Leading(j, n) < Leading(k, n)
               /\ t[i] < s[i] => Leading(k, n) < Leading(j, n)
    <2>1. /\ i \in 1 .. d /\ i \in 1 .. e /\ i - 1 \in Nat /\ i \in Nat
          /\ i - 1 \in 0 .. d /\ i - 1 <= d /\ i - 1 <= e /\ i <= n /\ n \in Nat
      BY <1>1
    <2>2. Leading(j, i - 1) = Leading(k, i - 1) /\ Leading(j, i - 1) \in Nat
      BY <1>5, <2>1, SamePrefix, LeadingFacts
    <2>3. /\ Leading(j, i) = 10 * Leading(j, i - 1) + s[i]
          /\ Leading(k, i) = 10 * Leading(k, i - 1) + t[i]
          /\ s[i] \in 0 .. 9 /\ t[i] \in 0 .. 9
      BY <2>1, LeadingFacts
    <2>4. /\ s[i] < t[i] => Leading(j, i) < Leading(k, i)
          /\ t[i] < s[i] => Leading(k, i) < Leading(j, i)
      <3> HIDE DEF s, t
      <3> QED  BY <2>2, <2>3
    <2> QED  BY <1>1, <2>1, <2>4, SmallerPrefix
  <1>6. ASSUME LexLess(s, t)  PROVE KeyLess(j, k)
    <2>1. PICK i \in 1 .. e : /\ \A h \in 1 .. i - 1 : h \in 1 .. d /\ s[h] = t[h]
                              /\ i \in 1 .. d => s[i] < t[i]
      BY <1>2, <1>6 DEF LexLess
    <2>2. CASE i \in 1 .. d
      BY <1>1, <1>4, <1>5, <2>1, <2>2
    <2>3. CASE i \notin 1 .. d
      <3>1. i - 1 \in 1 .. d
        <4>1. i - 1 \in 1 .. i - 1
          BY <1>1, <2>1, <2>3
        <4> QED  BY <2>1, <4>1
      <3>2. i - 1 = d /\ d < e /\ n = d
        BY <1>1, <2>1, <2>3, <3>1
      <3>3. Leading(j, n) = Leading(k, n)
        BY <1>1, <2>1, <3>2, SamePrefix
      <3> QED  BY <1>4, <3>2, <3>3
    <2> QED  BY <2>2, <2>3
  <1>7. ASSUME KeyLess(j, k)  PROVE LexLess(s, t)
    <2> DEFINE S == {i \in 1 .. n : s[i] # t[i]}
    <2>1. CASE S = {}
      <3>1. \A h \in 1 .. n : s[h] = t[h]
        BY <2>1
      <3>2. Leading(j, n) = Leading(k, n)
        BY <1>1, <3>1, SamePrefix
      <3>3. d < e /\ n = d
        BY <1>1, <1>3, <1>4, <1>7, <3>2
      <3>4. d + 1 \in 1 .. e /\ d + 1 \notin 1 .. d /\ (d + 1) - 1 = d
        BY <1>1, <3>3
      <3> HIDE DEF s, t, d, e, n
      <3> QED  BY <1>2, <3>1, <3>3, <3>4 DEF LexLess
    <2>2. CASE S # {}
      <3>1. PICK i \in S : \A h \in S : i <= h
        <4>1. S \subseteq Nat
          BY <1>1
        <4> HIDE DEF S
        <4> QED  BY <2>2, <4>1, LeastNumber
      <3>2. i \in 1 .. n /\ s[i] # t[i]
        BY <3>1
      <3>3. \A h \in 1 .. i - 1 : h \in 1 .. n /\ s[h] = t[h]
        BY <1>1, <3>1
      <3>4. s[i] \in 0 .. 9 /\ t[i] \in 0 .. 9
        BY <1>1, <3>2, LeadingFacts
      <3>5. ~ (t[i] < s[i])
        BY <1>3, <1>4, <1>5, <1>7, <3>2, <3>3
      <3>6. s[i] < t[i]
        <4> HIDE DEF s, t
        <4> QED  BY <3>2, <3>4, <3>5
      <3>7. i \in 1 .. e /\ \A h \in 1 .. i - 1 : h \in 1 .. d
        BY <1>1, <3>2
      <3> HIDE DEF s, t, d, e, n
      <3> QED  BY <1>2, <3>3, <3>6, <3>7 DEF LexLess
    <2> QED  BY <2>1, <2>2
  <1> QED  BY <1>6, <1>7
\* Numeral is what the repeated division of FormatInt prints: the numeral of
\* the quotient, and the remainder as one digit more.
THEOREM NumeralsAreDecimal ==
  ASSUME NEW k \in Printable
  PROVE  /\ k < 10 => NumDigits(k) = 1 /\ Numeral(k)[1] = k
         /\ k >= 10 => /\ NumDigits(k) = NumDigits(k \div 10) + 1
                       /\ Numeral(k)[NumDigits(k)] = k % 10
                       /\ \A i \in 1 .. NumDigits(k \div 10) :
                            Numeral(k)[i] = Numeral(k \div 10)[i]
  <1> DEFINE n == NumDigits(k)
             q == k \div 10
  <1>1. k \in Nat /\ n \in 1 .. 19 /\ k < PowerOfTen[n]
        /\ (n = 1 \/ PowerOfTen[n - 1] <= k)
    BY DigitsFacts DEF Printable
  <1>2. PowerOfTen[1] = 10
    <2>1. 0 \in 0 .. 18 /\ 0 + 1 = 1
      OBVIOUS
    <2> QED  BY <2>1, PowerFacts
  <1>3. Leading(k, n) = k /\ Leading(k, 0) = 0
        /\ Leading(k, n) = 10 * Leading(k, n - 1) + Numeral(k)[n]
        /\ Numeral(k)[n] \in 0 .. 9 /\ Leading(k, n - 1) \in Nat
    <2>1. n \in 1 .. n /\ n - 1 \in 0 .. n
      BY <1>1
    <2> QED  BY <2>1, LeadingFacts
  <1>4. ASSUME k < 10  PROVE n = 1 /\ Numeral(k)[1] = k
    <2>1. n = 1
      BY <1>1, <1>2, <1>4, DigitsFacts
    <2> QED  BY <1>3, <2>1
  <1>5. ASSUME k >= 10
        PROVE  /\ n = NumDigits(q) + 1
               /\ Numeral(k)[n] = k % 10
               /\ \A i \in 1 .. NumDigits(q) : Numeral(k)[i] = Numeral(q)[i]
    <2>1. n # 1
      BY <1>1, <1>2, <1>5
    <2>2. /\ n - 1 \in 1 .. 19 /\ n - 2 \in 0 .. 18 /\ (n - 2) + 1 = n - 1
          /\ n - 1 \in 0 .. 18 /\ (n - 1) + 1 = n /\ (n - 1) - 1 = n - 2
      BY <1>1, <2>1
    <2>3. q \in Nat /\ 10 * q <= k /\ k < 10 * q + 10 /\ k = 10 * q + (k % 10)
      BY <1>1
    <2>4. /\ PowerOfTen[n] = 10 * PowerOfTen[n - 1]
          /\ PowerOfTen[n - 1] = 10 * PowerOfTen[n - 2]
          /\ PowerOfTen[n - 1] \in Nat /\ PowerOfTen[n - 2] \in Nat
      BY <2>2, PowerFacts
    <2> HIDE DEF n, q
    <2>5. q < PowerOfTen[n - 1] /\ PowerOfTen[n - 2] <= q
      BY <1>1, <2>1, <2>3, <2>4
    <2>6. q \in Printable
      <3>1. PowerOfTen[19] \in Nat /\ k < PowerOfTen[19]
        BY PowerFacts DEF Printable
      <3> QED  BY <1>1, <2>3, <3>1 DEF Printable
    <2>7. NumDigits(q) = n - 1
      BY <2>2, <2>5, <2>6, DigitsFacts
    <2>8. Numeral(k)[n] = k % 10
      BY <1>1, <1>3, <2>3
    <2>9. ASSUME NEW i \in 1 .. n - 1  PROVE Leading(k, i) = Leading(q, i)
      <3> DEFINE b == PowerOfTen[n - 1 - i]
                 r == k \div (10 * b)
      <3>1. n - 1 - i \in 0 .. 18 /\ (n - 1 - i) + 1 = n - i
        BY <1>1
      <3>2. b \in Nat \ {0} /\ PowerOfTen[n - i] = 10 * b
        BY <3>1, PowerFacts
      <3>3. Leading(k, i) = r /\ Leading(q, i) = q \div b
        BY <2>7, <3>2 DEF Leading, n
      <3>4. /\ r \in Nat /\ 10 * b \in Nat \ {0}
            /\ (10 * b) * r <= k /\ k < (10 * b) * r + 10 * b
        <4> HIDE DEF b
        <4>1. 10 * b \in Nat \ {0}
          BY <3>2
        <4> QED  BY <1>1, <4>1, Division
      <3> HIDE DEF b, r
      <3>5. (10 * b) * r = 10 * (b * r) /\ b * r \in Nat
        BY <3>2, <3>4
      <3>6. b * r <= q /\ q < b * r + b
        BY <1>1, <2>3, <3>2, <3>4, <3>5
      <3>7. q \div b = r
        BY <2>3, <3>2, <3>4, <3>6, Division
      <3> QED  BY <3>3, <3>7
    <2>10. ASSUME NEW i \in 1 .. n - 1  PROVE Numeral(k)[i] = Numeral(q)[i]
      BY <1>1, <2>7, <2>9 DEF Numeral, n
    <2> QED  BY <2>2, <2>7, <2>8, <2>10
  <1> QED  BY <1>4, <1>5

-----------------------------------------------------------------------------
(* The first key *)

\* k with zeros behind it, up to the 19 digits of the longest key.
Padded(k) == k * PowerOfTen[19 - NumDigits(k)]

\* The order as a number: padded keys sort by value, and of two that are padded
\* alike the shorter one comes first.
Rank(k) == 20 * Padded(k) + NumDigits(k)

\* A factor that is not 0 keeps the order.
LEMMA Factor ==
  ASSUME NEW x \in Nat, NEW y \in Nat, NEW c \in Nat \ {0}
  PROVE  x * c < y * c <=> x < y
  <1>1. x < y => x * c < y * c
    OBVIOUS
  <1>2. y <= x => y * c <= x * c
    OBVIOUS
  <1>3. x * c \in Nat /\ y * c \in Nat
    OBVIOUS
  <1> QED  BY <1>1, <1>2, <1>3

\* The comparison with the leading digits of a longer key.
LEMMA LeadingAsProduct ==
  ASSUME NEW j \in Printable, NEW k \in Printable, NumDigits(j) < NumDigits(k)
  PROVE  /\ j <= Leading(k, NumDigits(j)) <=> Padded(j) <= Padded(k)
         /\ Padded(j) \in Nat /\ Padded(k) \in Nat
  <1> DEFINE d == NumDigits(j)
             e == NumDigits(k)
             b == PowerOfTen[e - d]
             c == PowerOfTen[19 - e]
             q == k \div b
  <1>1. /\ j \in Nat /\ k \in Nat /\ d \in 1 .. 19 /\ e \in 1 .. 19
        /\ e - d \in 0 .. 19 /\ 19 - e \in 0 .. 19 /\ (e - d) + (19 - e) = 19 - d
        /\ (e - d) + (19 - e) <= 19
    BY DigitsFacts DEF Printable
  <1>2. b \in Nat \ {0} /\ c \in Nat \ {0} /\ PowerOfTen[19 - d] = b * c
    BY <1>1, PowerFacts, PowerSum
  <1>3. q \in Nat /\ b * q <= k /\ k < b * q + b
    BY <1>1, <1>2, Division
  <1>4. Leading(k, d) = q
    BY DEF Leading
  <1>5. Padded(j) = j * (b * c) /\ Padded(k) = k * c
    BY <1>2 DEF Padded
  <1> HIDE DEF b, c, q, d, e
  <1>6. j * (b * c) = (b * j) * c /\ b * j \in Nat
    BY <1>1, <1>2
  <1>7. j <= q <=> b * j <= k
    <2>1. j <= q => b * j <= b * q
      BY <1>1, <1>2, <1>3
    <2>2. q + 1 <= j => b * (q + 1) <= b * j
      BY <1>1, <1>2, <1>3
    <2>3. b * (q + 1) = b * q + b /\ b * q \in Nat /\ b * j \in Nat
      BY <1>1, <1>2, <1>3
    <2> QED  BY <1>1, <1>2, <1>3, <2>1, <2>2, <2>3
  <1>8. k * c < (b * j) * c <=> k < b * j
    BY <1>1, <1>2, <1>6, Factor
  <1>9. k * c \in Nat /\ (b * j) * c \in Nat
    BY <1>1, <1>2, <1>6
  <1> QED  BY <1>1, <1>4, <1>5, <1>6, <1>7, <1>8, <1>9 DEF d

\* The keys sort by rank, and no two have the same one.
LEMMA KeysSortByRank ==
  ASSUME NEW j \in Printable, NEW k \in Printable
  PROVE  /\ KeyLess(j, k) <=> Rank(j) < Rank(k)
         /\ Rank(j) = Rank(k) => j = k
         /\ Rank(j) \in Nat
  <1> DEFINE d == NumDigits(j)
             e == NumDigits(k)
             x == Padded(j)
             y == Padded(k)
  <1>1. j \in Nat /\ k \in Nat /\ d \in 1 .. 19 /\ e \in 1 .. 19
    BY DigitsFacts DEF Printable
  <1>2. x \in Nat /\ y \in Nat
    BY <1>1, PowerFacts DEF Padded
  <1>3. Rank(j) = 20 * x + d /\ Rank(k) = 20 * y + e
    BY DEF Rank
  <1>4. d = e => (x < y <=> j < k) /\ (y < x <=> k < j)
    BY <1>1, PowerFacts, Factor DEF Padded
  <1>5. d < e => (KeyLess(j, k) <=> x <= y)
    BY LeadingShort, LeadingAsProduct, LeadingFacts
  <1>6. e < d => (KeyLess(j, k) <=> ~ (y <= x))
    <2> SUFFICES ASSUME e < d  PROVE KeyLess(j, k) <=> ~ (y <= x)
      OBVIOUS
    <2>1. KeyLess(j, k) <=> Leading(j, e) < k
      BY LeadingShort, LeadingFacts
    <2>2. k <= Leading(j, e) <=> y <= x
      BY LeadingAsProduct
    <2>3. Leading(j, e) \in Nat
      BY <1>1, LeadingFacts
    <2> QED  BY <1>1, <2>1, <2>2, <2>3
  <1>7. d = e => (KeyLess(j, k) <=> j < k)
    BY LeadingShort
  <1> HIDE DEF d, e, x, y
  <1>8. Rank(j) < Rank(k) <=> x < y \/ (x = y /\ d < e)
    BY <1>1, <1>2, <1>3
  <1>9. Rank(j) = Rank(k) <=> x = y /\ d = e
    BY <1>1, <1>2, <1>3
  <1>10. KeyLess(j, k) <=> x < y \/ (x = y /\ d < e)
    BY <1>1, <1>2, <1>4, <1>5, <1>6, <1>7
  <1>11. Rank(j) \in Nat
    BY <1>1, <1>2, <1>3
  <1> QED  BY <1>1, <1>2, <1>4, <1>8, <1>9, <1>10, <1>11

\* The keys are totally ordered: sorting them has one outcome.
THEOREM KeysAreOrdered ==
  ASSUME NEW i \in Printable, NEW j \in Printable, NEW k \in Printable
  PROVE  /\ ~ KeyLess(i, i)
         /\ i # j => KeyLess(i, j) \/ KeyLess(j, i)
         /\ KeyLess(i, j) /\ KeyLess(j, k) => KeyLess(i, k)
  <1>1. Rank(i) \in Nat /\ Rank(j) \in Nat /\ Rank(k) \in Nat
    BY KeysSortByRank
  <1> QED  BY <1>1, KeysSortByRank

\* The list of keys that Pop sorts has a first element when it is not empty,
\* and only one: whatever orphans and gaps earlier operations left, there is
\* exactly one message that Pop hands out.
THEOREM OneFirstKey ==
  ASSUME NEW store, DOMAIN store \subseteq Printable, DOMAIN store # {}
  PROVE  \E k \in DOMAIN store :
           IsFirst(store, k) /\ \A h : IsFirst(store, h) => h = k
  <1> DEFINE S == {Rank(k) : k \in DOMAIN store}
  <1>1. S \subseteq Nat /\ S # {}
    BY KeysSortByRank
  <1>2. PICK n \in S : \A i \in S : n <= i
    <2> HIDE DEF S
    <2> QED  BY <1>1, LeastNumber
  <1>3. PICK k \in DOMAIN store : n = Rank(k)
    BY <1>2
  <1>4. \A j \in DOMAIN store : Rank(k) <= Rank(j)
    BY <1>2, <1>3
  <1>5. \A j \in DOMAIN store : ~ KeyLess(j, k)
    BY <1>1, <1>4, KeysSortByRank
  <1>6. ASSUME NEW h, IsFirst(store, h)  PROVE h = k
    <2>1. h \in DOMAIN store /\ ~ KeyLess(k, h)
      BY <1>3, <1>6 DEF IsFirst
    <2> QED  BY <1>3, <1>5, <2>1, KeysAreOrdered
  <1> QED  BY <1>3, <1>5, <1>6 DEF IsFirst

=============================================================================
