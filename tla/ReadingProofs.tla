---------------------------- MODULE ReadingProofs ---------------------------
(***************************************************************************)
(* Proofs about what a client reads: the count of the days signed in, the  *)
(* text of a price and the pages of the feed.  The first two read a row of *)
(* digits as a number; what they read is proved by induction on its        *)
(* length, for which the least member of a set of numbers does.            *)
(***************************************************************************)
EXTENDS SignIn, PriceText, FeedScroll, FiniteSetTheorems, TLAPS

-----------------------------------------------------------------------------
(* Numbers and digits                                                      *)

\* A set of numbers that is not empty has a least one.
LEMMA LeastNatural ==
  ASSUME NEW T \in SUBSET Nat, T # {}
  PROVE  \E n \in T : \A m \in T : n <= m
<1>1. PICK n \in T : \A m \in T : ~ (<<m, n>> \in OpToRel(<, Nat))
  BY NatLessThanWellFounded, WFMin
<1>2. \A m \in T : ~ (m < n)
  BY <1>1 DEF OpToRel
<1> QED BY <1>2

\* Induction, for the set of the numbers that have a property.
LEMMA Inductive ==
  ASSUME NEW S, 0 \in S, \A n \in Nat : n \in S => n + 1 \in S
  PROVE  \A n \in Nat : n \in S
<1> SUFFICES ASSUME Nat \ S # {} PROVE FALSE
  OBVIOUS
<1>1. PICK n \in Nat \ S : \A m \in Nat \ S : n <= m
  BY LeastNatural
<1>2. n - 1 \in Nat /\ n - 1 \notin Nat \ S
  BY <1>1
<1> QED BY <1>2

\* The digits up to each position.
LEMMA ValueUpTo ==
  ASSUME NEW base \in Nat, NEW digits \in Seq(Nat)
  PROVE  \E upTo \in [0 .. Len(digits) -> Nat] :
           /\ upTo[0] = 0
           /\ \A i \in 1 .. Len(digits) : upTo[i] = base * upTo[i - 1] + digits[i]
           /\ Value(base, digits) = upTo[Len(digits)]
<1> DEFINE Def(f, i) == IF i = 0 THEN 0 ELSE base * f[i - 1] + digits[i]
           Values(f, n) == f = [i \in 0 .. n |-> Def(f, i)]
<1>1. PICK S : S = {n \in Nat : \E f : Values(f, n)}
  OBVIOUS
<1> HIDE DEF Values
<1>2. 0 \in S
  <2>1. PICK f : f = [i \in 0 .. 0 |-> 0]
    OBVIOUS
  <2>2. Values(f, 0)
    BY <2>1 DEF Values
  <2> QED BY <1>1, <2>2
<1>3. ASSUME NEW n \in Nat, n \in S
      PROVE  n + 1 \in S
  <2>1. PICK f : Values(f, n)
    BY <1>1, <1>3
  <2>2. PICK g : g = [i \in 0 .. n + 1 |-> IF i <= n THEN f[i] ELSE base * f[n] + digits[i]]
    OBVIOUS
  <2>3. \A i \in 0 .. n : /\ g[i] = f[i] /\ f[i] = Def(f, i)
                          /\ i # 0 => g[i - 1] = f[i - 1]
    BY <2>1, <2>2 DEF Values
  <2>4. g[n + 1] = Def(g, n + 1)
    BY <2>2, <2>3
  <2>5. ASSUME NEW i \in 0 .. n + 1
        PROVE  g[i] = Def(g, i)
    <3>1. CASE i = n + 1
      BY <2>4, <3>1
    <3>2. CASE i \in 0 .. n
      <4>1. Def(g, i) = Def(f, i)
        BY <2>3, <3>2
      <4> QED BY <2>3, <3>2, <4>1
    <3> QED BY <3>1, <3>2
  <2>6. Values(g, n + 1)
    BY <2>2, <2>5, Zenon DEF Values
  <2> QED BY <1>1, <2>6
<1>4. \E f : Values(f, Len(digits))
  <2>1. \A n \in Nat : n \in S
    BY <1>2, <1>3, Inductive
  <2> QED BY <1>1, <2>1
<1>5. PICK f : f = CHOOSE g : Values(g, Len(digits))
  OBVIOUS
<1>6. f = [i \in 0 .. Len(digits) |-> Def(f, i)]
  BY <1>4, <1>5 DEF Values
<1>7. Value(base, digits) = f[Len(digits)]
  BY <1>5 DEF Value, Values
<1>8. Len(digits) \in Nat
  OBVIOUS
<1>9. f[0] = 0
  BY <1>6, <1>8
<1>10. \A i \in 1 .. Len(digits) : f[i] = base * f[i - 1] + digits[i]
  <2> SUFFICES ASSUME NEW i \in 1 .. Len(digits) PROVE f[i] = base * f[i - 1] + digits[i]
    OBVIOUS
  <2>1. i \in 0 .. Len(digits) /\ i # 0
    BY <1>8
  <2>2. f[i] = Def(f, i)
    BY <1>6, <2>1, Zenon
  <2> QED BY <2>1, <2>2
<1>11. \A i \in 0 .. Len(digits) : f[i] \in Nat
  <2>1. PICK R : R = {i \in Nat : i <= Len(digits) => f[i] \in Nat}
    OBVIOUS
  <2>2. ASSUME NEW n \in Nat, n \in R, n + 1 <= Len(digits)
        PROVE  f[n + 1] \in Nat
    <3>1. f[n] \in Nat /\ n + 1 \in 1 .. Len(digits) /\ digits[n + 1] \in Nat
      BY <1>8, <2>1, <2>2
    <3>2. PICK p \in Nat : p = base * f[n]
      BY <3>1
    <3>3. f[n + 1] = p + digits[n + 1]
      BY <1>10, <3>1, <3>2
    <3> QED BY <3>1, <3>2, <3>3
  <2>3. 0 \in R /\ \A n \in Nat : n \in R => n + 1 \in R
    BY <1>9, <2>1, <2>2
  <2>4. \A n \in Nat : n \in R
    BY <2>3, Inductive
  <2> QED BY <1>8, <2>1, <2>4
<1> QED BY <1>6, <1>7, <1>9, <1>10, <1>11

-----------------------------------------------------------------------------
(* The days signed in                                                      *)

\* The same with the property of all smaller numbers to start from.
LEMMA Complete ==
  ASSUME NEW S, \A n \in Nat : (\A m \in Nat : m < n => m \in S) => n \in S
  PROVE  \A n \in Nat : n \in S
<1> SUFFICES ASSUME Nat \ S # {} PROVE FALSE
  OBVIOUS
<1>1. PICK n \in Nat \ S : \A m \in Nat \ S : n <= m
  BY LeastNatural
<1>2. \A m \in Nat : m < n => m \in S
  BY <1>1
<1> QED BY <1>1, <1>2

\* LowOnes satisfies the equation that defines it.
LEMMA LowOnesDef ==
  \A num \in Nat : LowOnes[num] = IF num % 2 = 0 THEN 0 ELSE 1 + LowOnes[num \div 2]
<1> DEFINE Def(f, n) == IF n % 2 = 0 THEN 0 ELSE 1 + f[n \div 2]
           Values(f, n) == f = [i \in 0 .. n |-> Def(f, i)]
<1>1. ASSUME NEW f, NEW n \in Nat, Values(f, n), NEW i \in Nat, i <= n
      PROVE  f[i] = Def(f, i)
  <2>1. i \in 0 .. n
    BY <1>1
  <2> QED BY <1>1, <2>1, Zenon
<1> HIDE DEF Values
<1>2. \A n \in Nat : \E f : Values(f, n)
  <2>1. PICK S : S = {n \in Nat : \E f : Values(f, n)}
    OBVIOUS
  <2>2. 0 \in S
    <3>1. PICK f : f = [i \in 0 .. 0 |-> 0]
      OBVIOUS
    <3>2. Values(f, 0)
      BY <3>1 DEF Values
    <3> QED BY <2>1, <3>2
  <2>3. ASSUME NEW n \in Nat, n \in S
        PROVE  n + 1 \in S
    <3>1. PICK f : Values(f, n)
      BY <2>1, <2>3
    <3>2. PICK g : g = [i \in 0 .. n + 1 |-> Def(f, i)]
      OBVIOUS
    <3>3. \A i \in 0 .. n : f[i] = Def(f, i)
      BY <3>1 DEF Values
    <3>4. \A i \in 0 .. n : g[i] = f[i]
      BY <3>2, <3>3
    <3>5. ASSUME NEW i \in 0 .. n + 1
          PROVE  g[i] = Def(g, i)
      <4>1. i % 2 # 0 => i \div 2 \in 0 .. n
        OBVIOUS
      <4>2. Def(g, i) = Def(f, i)
        BY <3>4, <4>1
      <4> QED BY <3>2, <4>2
    <3>6. Values(g, n + 1)
      BY <3>2, <3>5, Zenon DEF Values
    <3> QED BY <2>1, <3>6
  <2>4. \A n \in Nat : n \in S
    BY <2>2, <2>3, Inductive
  <2> QED BY <2>1, <2>4
<1>3. ASSUME NEW f, NEW g, NEW n \in Nat, NEW m \in Nat, Values(f, n), Values(g, m)
      PROVE  \A i \in 0 .. n : i <= m => f[i] = g[i]
  <2>1. PICK S : S = {i \in Nat : i <= n /\ i <= m => f[i] = g[i]}
    OBVIOUS
  <2>2. ASSUME NEW i \in Nat, \A j \in Nat : j < i => j \in S
        PROVE  i \in S
    <3> SUFFICES ASSUME i <= n, i <= m PROVE f[i] = g[i]
      BY <2>1
    <3>1. f[i] = Def(f, i) /\ g[i] = Def(g, i)
      BY <1>1, <1>3
    <3>2. i % 2 # 0 => i \div 2 \in Nat /\ i \div 2 < i /\ i \div 2 <= n /\ i \div 2 <= m
      OBVIOUS
    <3> QED BY <2>1, <2>2, <3>1, <3>2
  <2>3. \A i \in Nat : i \in S
    BY <2>2, Complete
  <2> QED BY <2>1, <2>3
<1>4. PICK part : \A n \in Nat : Values(part[n], n)
  <2>1. PICK p : p = [n \in Nat |-> CHOOSE f : Values(f, n)]
    OBVIOUS
  <2> QED BY <1>2, <2>1
<1>5. PICK f : f = [n \in Nat |-> part[n][n]]
  OBVIOUS
<1>6. ASSUME NEW n \in Nat
      PROVE  f[n] = Def(f, n)
  <2>1. part[n][n] = Def(part[n], n)
    BY <1>4, <1>1
  <2>2. n % 2 # 0 => n \div 2 \in Nat /\ n \div 2 \in 0 .. n
    OBVIOUS
  <2>3. n % 2 # 0 => part[n][n \div 2] = part[n \div 2][n \div 2]
    BY <1>3, <1>4, <2>2
  <2> QED BY <1>5, <2>1, <2>2, <2>3
<1>7. f = [n \in Nat |-> Def(f, n)]
  BY <1>5, <1>6, Zenon
<1>8. \E g : g = [n \in Nat |-> Def(g, n)]
  BY <1>7
<1>9. LowOnes = [n \in Nat |-> Def(LowOnes, n)]
  BY <1>8, Zenon DEF LowOnes
<1> QED BY <1>9

LEMMA LowOnesType == \A num \in Nat : LowOnes[num] \in Nat
<1>1. PICK S : S = {n \in Nat : LowOnes[n] \in Nat}
  OBVIOUS
<1>2. ASSUME NEW n \in Nat, \A m \in Nat : m < n => m \in S
      PROVE  n \in S
  <2>1. n % 2 # 0 => n \div 2 \in Nat /\ n \div 2 < n
    OBVIOUS
  <2> QED BY <1>1, <1>2, <2>1, LowOnesDef
<1>3. \A n \in Nat : n \in S
  BY <1>2, Complete
<1> QED BY <1>1, <1>3

\* The low ones of a number that gets another bit.
LEMMA LowOnesOfNext ==
  ASSUME NEW num \in Nat
  PROVE  LowOnes[2 * num] = 0 /\ LowOnes[2 * num + 1] = 1 + LowOnes[num]
<1>1. 2 * num \in Nat /\ (2 * num) % 2 = 0
  OBVIOUS
<1>2. 2 * num + 1 \in Nat /\ (2 * num + 1) % 2 # 0 /\ (2 * num + 1) \div 2 = num
  OBVIOUS
<1> QED BY <1>1, <1>2, LowOnesDef

\* The loop of signCount counts the days up to the last of a bitmap.
LEMMA RunCounted ==
  ASSUME NEW set, NEW width \in Nat, NEW count, count = LowOnes[BitField(set, width)]
  PROVE  /\ count \in Nat
         /\ \A n \in 0 .. count - 1 : width - n >= 1 /\ width - n - 1 \in set
         /\ ~(width - count >= 1 /\ width - count - 1 \in set)
<1>1. PICK digits : digits = [i \in 1 .. width |-> IF i - 1 \in set THEN 1 ELSE 0]
  OBVIOUS
<1>2. digits \in Seq(Nat) /\ Len(digits) = width
  BY <1>1
<1>3. PICK upTo \in [0 .. width -> Nat] :
        /\ upTo[0] = 0
        /\ \A i \in 1 .. width : upTo[i] = 2 * upTo[i - 1] + digits[i]
        /\ Value(2, digits) = upTo[width]
  BY <1>2, ValueUpTo
<1> DEFINE Counts(i, c) == /\ \A n \in 0 .. c - 1 : i - n >= 1 /\ i - n - 1 \in set
                           /\ ~(i - c >= 1 /\ i - c - 1 \in set)
<1>4. PICK S : S = {i \in Nat : i <= width => Counts(i, LowOnes[upTo[i]])}
  OBVIOUS
<1>5. LowOnes[0] = 0
  BY LowOnesDef
<1>6. 0 \in S
  BY <1>3, <1>4, <1>5
<1>7. ASSUME NEW i \in Nat, i \in S, i + 1 <= width
      PROVE  Counts(i + 1, LowOnes[upTo[i + 1]])
  <2>1. upTo[i] \in Nat /\ upTo[i + 1] = 2 * upTo[i] + (IF i \in set THEN 1 ELSE 0)
    BY <1>1, <1>3, <1>7
  <2>2. LowOnes[upTo[i]] \in Nat
    BY <2>1, LowOnesType
  <2>3. PICK c \in Nat : c = LowOnes[upTo[i]]
    BY <2>2
  <2>4. Counts(i, c)
    <3>1. i <= width
      BY <1>7
    <3> QED BY <1>4, <1>7, <2>3, <3>1
  <2>5. CASE i \in set
    <3>1. upTo[i + 1] = 2 * upTo[i] + 1
      BY <2>1, <2>5
    <3>2. LowOnes[upTo[i + 1]] = 1 + c
      BY <2>1, <2>3, <3>1, LowOnesOfNext
    <3>3. ASSUME NEW n \in 0 .. 1 + c - 1
          PROVE  i + 1 - n >= 1 /\ i + 1 - n - 1 \in set
      <4>1. CASE n = 0
        BY <2>5, <4>1
      <4>2. CASE n # 0
        <5>1. n - 1 \in 0 .. c - 1
          BY <4>2
        <5>2. i - (n - 1) >= 1 /\ i - (n - 1) - 1 \in set
          BY <2>4, <5>1
        <5>3. i + 1 - n = i - (n - 1)
          BY <5>1
        <5> QED BY <5>2, <5>3
      <4> QED BY <4>1, <4>2
    <3>4. i + 1 - (1 + c) = i - c
      OBVIOUS
    <3>5. ~(i + 1 - (1 + c) >= 1 /\ i + 1 - (1 + c) - 1 \in set)
      BY <2>4, <3>4
    <3>6. Counts(i + 1, 1 + c)
      BY <3>3, <3>5
    <3> QED BY <3>2, <3>6
  <2>6. CASE i \notin set
    <3>1. upTo[i + 1] = 2 * upTo[i]
      BY <2>1, <2>6
    <3>2. LowOnes[upTo[i + 1]] = 0
      BY <2>1, <3>1, LowOnesOfNext
    <3>3. i + 1 - 0 - 1 = i
      OBVIOUS
    <3>4. Counts(i + 1, 0)
      BY <2>6, <3>3
    <3> QED BY <3>2, <3>4
  <2> QED BY <2>5, <2>6
<1>8. \A i \in Nat : i \in S
  <2>1. ASSUME NEW i \in Nat, i \in S
        PROVE  i + 1 \in S
    BY <1>4, <1>7, <2>1
  <2> QED BY <1>6, <2>1, Inductive
<1>9. Counts(width, LowOnes[upTo[width]])
  BY <1>4, <1>8
<1>10. count = LowOnes[upTo[width]]
  BY <1>1, <1>3 DEF BitField
<1>11. count \in Nat
  BY <1>3, <1>10, LowOnesType
<1> QED BY <1>9, <1>10, <1>11

DayType == day \in Nat

(***************************************************************************)
(* For a month of any length and any bits in its bitmap, the count of      *)
(* signCount is the number of days in a row, up to today and within the    *)
(* month, that the user signed in.  The bitmap is read as a number, so it  *)
(* rests on what reading a bit more does to the low ones of a number.      *)
(***************************************************************************)
THEOREM SignInRunCounted == SignSpec => []CountsTheRun
<1>1. SignInit => DayType
  BY DEF SignInit, DayType
<1>2. DayType /\ [SignNext]_signVars => DayType'
  BY DEF SignNext, DayPasses, Sign, signVars, DayType
<1>3. DayType => CountsTheRun
  <2> SUFFICES ASSUME day \in Nat PROVE CountsTheRun
    BY DEF DayType
  <2>1. PICK set : set = bits[Month(day)]
    OBVIOUS
  <2>2. PICK width \in Nat : width = DayOfMonth(day)
    BY CalendarAssumption DEF DayOfMonth
  <2>3. PICK count : count = LowOnes[BitField(set, width)]
    OBVIOUS
  <2>4. count = SignCount(day)
    BY <2>1, <2>2, <2>3 DEF SignCount
  <2>5. /\ \A n \in 0 .. count - 1 : width - n >= 1 /\ width - n - 1 \in set
        /\ ~(width - count >= 1 /\ width - count - 1 \in set)
    BY <2>3, RunCounted
  <2> QED BY <2>1, <2>2, <2>4, <2>5 DEF CountsTheRun, SignedBefore
<1> QED BY <1>1, <1>2, <1>3, PTL DEF SignSpec

-----------------------------------------------------------------------------
(* Prices                                                                  *)

\* A zero in front does not count.
LEMMA LeadingZero ==
  ASSUME NEW digits \in Seq(Nat)
  PROVE  ValueOf(<<0>> \o digits) = ValueOf(digits)
<1>1. PICK padded : padded = <<0>> \o digits
  OBVIOUS
<1>2. Len(digits) \in Nat
  OBVIOUS
<1>3. /\ padded \in Seq(Nat) /\ Len(padded) = Len(digits) + 1 /\ padded[1] = 0
      /\ \A i \in 1 .. Len(digits) : padded[i + 1] = digits[i]
  BY <1>1
<1>4. PICK v \in [0 .. Len(digits) -> Nat] :
        /\ v[0] = 0
        /\ \A i \in 1 .. Len(digits) : v[i] = 10 * v[i - 1] + digits[i]
        /\ Value(10, digits) = v[Len(digits)]
  BY ValueUpTo
<1>5. PICK w \in [0 .. Len(padded) -> Nat] :
        /\ w[0] = 0
        /\ \A i \in 1 .. Len(padded) : w[i] = 10 * w[i - 1] + padded[i]
        /\ Value(10, padded) = w[Len(padded)]
  BY <1>3, ValueUpTo
<1>6. PICK S : S = {i \in Nat : i <= Len(digits) => w[i + 1] = v[i]}
  OBVIOUS
<1>7. 0 \in S
  BY <1>2, <1>3, <1>4, <1>5, <1>6
<1>8. ASSUME NEW i \in Nat, i \in S
      PROVE  i + 1 \in S
  <2> SUFFICES ASSUME i + 1 <= Len(digits) PROVE w[i + 2] = v[i + 1]
    BY <1>6
  <2>1. w[i + 1] = v[i] /\ v[i] \in Nat
    BY <1>2, <1>6, <1>8
  <2>2. i + 1 \in 1 .. Len(digits) /\ i + 2 \in 1 .. Len(padded)
    BY <1>2, <1>3
  <2>3. padded[i + 2] = digits[i + 1]
    BY <1>3, <2>2
  <2>4. v[i + 1] = 10 * v[i] + digits[i + 1]
    BY <1>4, <2>2
  <2>5. w[i + 2] = 10 * w[i + 1] + padded[i + 2]
    BY <1>5, <2>2
  <2> QED BY <2>1, <2>3, <2>4, <2>5
<1>9. \A i \in Nat : i \in S
  BY <1>7, <1>8, Inductive
<1>10. w[Len(padded)] = v[Len(digits)]
  BY <1>2, <1>3, <1>6, <1>9
<1> QED BY <1>1, <1>4, <1>5, <1>10 DEF ValueOf

\* A text with two digits behind its point is read as its digits.
LEMMA DigitsRead ==
  ASSUME NEW whole \in Seq(Nat), NEW decimals \in Seq(Nat)
  PROVE  TextToNumber(Text(whole, decimals)) = ValueOf(whole \o decimals)
<1>1. (whole \o decimals) \o <<>> = whole \o decimals
  OBVIOUS
<1>2. PICK t : t = Text(whole, decimals)
  OBVIOUS
<1>3. t.whole = whole /\ t.point /\ t.decimals = decimals
  BY <1>2 DEF Text
<1>4. PICK index \in Nat : index = Len(whole)
  OBVIOUS
<1>5. Len(<<>>) = 0
  OBVIOUS
<1>6. ~(index < 0) /\ ~(index >= 0 /\ index = Len(<<>>) - 2)
  BY <1>5
<1>7. TextToNumber(t) = ValueOf((whole \o decimals) \o <<>>)
  BY <1>3, <1>4, <1>6 DEF TextToNumber
<1> QED BY <1>1, <1>2, <1>7

(***************************************************************************)
(* The text formatPrice shows for a price of any number of digits has two  *)
(* digits behind its point and at least one before it, and formatPrice     *)
(* reads it back as the same price.                                        *)
(***************************************************************************)
THEOREM PricesReadBack == PriceInit => ShownPriceReadsBack
<1> SUFFICES ASSUME PriceInit, ValueOf(price) > 0, NEW text, text = NumberToText(price)
             PROVE  /\ Len(text.decimals) = 2 /\ text.whole # <<>>
                    /\ TextToNumber(text) = ValueOf(price)
  BY DEF ShownPriceReadsBack
<1>1. PICK n \in 1 .. MaxDigits : price \in [1 .. n -> 0 .. 9]
  BY DigitsAssumption DEF PriceInit, Numerals
<1>2. price \in Seq(Nat) /\ Len(price) = n
  BY <1>1
<1>3. PICK whole \in Seq(Nat), decimals \in Seq(Nat) :
        /\ text = Text(whole, decimals) /\ Len(decimals) = 2 /\ whole # <<>>
        /\ ValueOf(whole \o decimals) = ValueOf(price)
  <2>1. CASE n = 1
    <3>1. text = Text(<<0>>, <<0>> \o price)
      BY <1>2, <2>1 DEF NumberToText
    <3>2. /\ <<0>> \in Seq(Nat) /\ <<0>> # <<>>
          /\ <<0>> \o price \in Seq(Nat) /\ Len(<<0>> \o price) = 2
      BY <1>2, <2>1
    <3>3. ValueOf(<<0>> \o (<<0>> \o price)) = ValueOf(price)
      BY <1>2, <3>2, LeadingZero
    <3> QED BY <3>1, <3>2, <3>3
  <2>2. CASE n = 2
    <3>1. text = Text(<<0>>, price)
      BY <1>2, <2>2 DEF NumberToText
    <3>2. <<0>> \in Seq(Nat) /\ <<0>> # <<>>
      OBVIOUS
    <3>3. ValueOf(<<0>> \o price) = ValueOf(price)
      BY <1>2, LeadingZero
    <3> QED BY <1>2, <2>2, <3>1, <3>2, <3>3
  <2>3. CASE n > 2
    <3>1. text = Text(SubSeq(price, 1, n - 2), SubSeq(price, n - 1, n))
      BY <1>2, <2>3 DEF NumberToText, Last2
    <3>2. /\ SubSeq(price, 1, n - 2) \in Seq(Nat) /\ Len(SubSeq(price, 1, n - 2)) = n - 2
          /\ Len(SubSeq(price, 1, n - 2)) > 0
          /\ SubSeq(price, n - 1, n) \in Seq(Nat) /\ Len(SubSeq(price, n - 1, n)) = 2
      BY <1>2, <2>3
    <3>3. SubSeq(price, 1, n - 2) # <<>>
      <4>1. \A s \in Seq(Nat) : Len(s) > 0 => s # <<>>
        OBVIOUS
      <4> QED BY <2>3, <3>2, <4>1, Zenon
    <3>4. SubSeq(price, 1, n - 2) \o SubSeq(price, n - 1, n) = price
      BY <1>2, <2>3
    <3> QED BY <3>1, <3>2, <3>3, <3>4
  <2> QED BY <2>1, <2>2, <2>3
<1> QED BY <1>3, DigitsRead DEF Text

-----------------------------------------------------------------------------
(* The feed                                                                *)

InboxType == inbox \in [Blogs -> Nat]

QueryType == [at : {"idle", "sent", "answered"}, clear : BOOLEAN, current : BOOLEAN,
              lastId : Nat, offset : Nat, page : SUBSET Blogs]

FeedTypeInv ==
  /\ InboxType
  /\ params \in [lastId : Nat, offset : Nat, current : BOOLEAN]
  /\ query \in [Queries -> QueryType]
  /\ opened \in SUBSET Blogs

\* What the list will hold, apart from the answer itself, once a query is answered.
Base(q) == IF query[q].clear THEN {} ELSE shown

\* The answer of a query under way skips nothing either.
QueriesInv ==
  \A q \in Queries :
    query[q].at # "idle" /\ query[q].current =>
      opened \subseteq Base(q) \cup query[q].page \cup Remaining(query[q])

FeedInv ==
  /\ FeedTypeInv
  /\ \A q \in Queries : query[q].at # "answered" => query[q].page = {}
  /\ NothingSkipped /\ QueriesInv

LEMMA FeedInitially == FeedInit => FeedInv
BY DEF FeedInit, FeedInv, FeedTypeInv, QueryType, InboxType, NoQuery, NothingSkipped, QueriesInv, Closed

LEMMA BeforeType ==
  ASSUME NEW b, NEW score
  PROVE  /\ Before(b, score) \in Nat
         /\ IsFiniteSet({d \in UpTo(score) : Above(d, b)})
<1>1. {d \in UpTo(score) : Above(d, b)} \in SUBSET Blogs
  BY DEF UpTo
<1>2. IsFiniteSet({d \in UpTo(score) : Above(d, b)})
  BY <1>1, FeedAssumption, FS_Subset
<1> QED BY <1>2, FS_CardinalityType DEF Before

\* Of a blog on a page and one that comes after the page, the former is above.
LEMMA PageAbove ==
  ASSUME InboxType, NEW score, NEW b \in UpTo(score), NEW d \in UpTo(score),
         Before(d, score) < Before(b, score)
  PROVE  Above(d, b)
<1>1. b \in Blogs /\ d \in Blogs /\ inbox[b] \in Nat /\ inbox[d] \in Nat /\ b \in Nat /\ d \in Nat
  BY FeedAssumption DEF UpTo, InboxType
<1>2. PICK ofB \in Nat, ofD \in Nat : ofB = Before(b, score) /\ ofD = Before(d, score)
  BY BeforeType
<1>3. b # d
  <2>1. ofD < ofB
    BY <1>2
  <2> QED BY <1>2, <2>1
<1>4. CASE Above(b, d)
  <2>1. \A e \in UpTo(score) : Above(e, b) => Above(e, d)
    <3> SUFFICES ASSUME NEW e \in UpTo(score), Above(e, b) PROVE Above(e, d)
      OBVIOUS
    <3>1. inbox[e] \in Nat /\ e \in Nat
      BY FeedAssumption DEF UpTo, InboxType
    <3> QED BY <1>1, <1>4, <3>1 DEF Above
  <2>2. {e \in UpTo(score) : Above(e, b)} \in SUBSET {e \in UpTo(score) : Above(e, d)}
    BY <2>1
  <2>3. Before(b, score) <= Before(d, score)
    BY <2>2, BeforeType, FS_Subset DEF Before
  <2>4. ofB <= ofD /\ ofD < ofB
    BY <1>2, <2>3
  <2> QED BY <1>2, <2>4
<1> QED BY <1>1, <1>3, <1>4 DEF Above

\* What was left before a page is on the page or left after it.
LEMMA PageAdvances ==
  ASSUME InboxType, NEW p, p.offset \in Nat, NEW page, page = OnPage(p), page # {},
         NEW next, next.lastId = MinTime(page), next.offset = NextOffset(page)
  PROVE  /\ Remaining(p) \subseteq page \cup Remaining(next)
         /\ MinTime(page) \in Nat /\ NextOffset(page) \in Nat
<1>1. \A b \in page : /\ b \in UpTo(p.lastId) /\ b \in Blogs /\ inbox[b] \in Nat
                      /\ Before(b, p.lastId) < p.offset + 2
  BY DEF OnPage, Remaining, UpTo, InboxType
<1>2. PICK m : m = MinTime(page)
  OBVIOUS
<1>3. m \in {inbox[b] : b \in page} /\ \A b \in page : m <= inbox[b]
  <2>1. {inbox[b] : b \in page} \in SUBSET Nat /\ {inbox[b] : b \in page} # {}
    BY <1>1
  <2>2. PICK t \in {inbox[b] : b \in page} : \A u \in {inbox[b] : b \in page} : t <= u
    BY <2>1, LeastNatural
  <2>3. \E u \in {inbox[b] : b \in page} : \A b \in page : u <= inbox[b]
    BY <2>2
  <2> QED BY <1>2, <2>3 DEF MinTime
<1>4. PICK same : same = {b \in page : inbox[b] = m}
  OBVIOUS
<1>5. IsFiniteSet(same) /\ Cardinality(same) \in Nat /\ NextOffset(page) = Cardinality(same)
  <2>1. same \in SUBSET Blogs
    BY <1>1, <1>4
  <2> QED BY <1>2, <1>4, <2>1, FeedAssumption, FS_Subset, FS_CardinalityType DEF NextOffset
<1>6. m \in Nat
  BY <1>1, <1>3
<1>7. ASSUME NEW b \in Remaining(p), b \notin page
      PROVE  b \in Remaining(next)
  <2>1. /\ b \in UpTo(p.lastId) /\ b \in Blogs /\ inbox[b] \in Nat /\ inbox[b] # 0
        /\ Before(b, p.lastId) >= p.offset + 2
    <3>1. b \in UpTo(p.lastId) /\ b \in Blogs /\ inbox[b] \in Nat /\ inbox[b] # 0
      BY DEF Remaining, UpTo, InboxType
    <3>2. Before(b, p.lastId) \in Nat /\ ~(Before(b, p.lastId) < p.offset + 2)
      BY <1>7, BeforeType DEF OnPage
    <3> QED BY <3>1, <3>2
  <2>2. \A d \in page : Above(d, b)
    <3> SUFFICES ASSUME NEW d \in page PROVE Above(d, b)
      OBVIOUS
    <3>1. Before(d, p.lastId) < Before(b, p.lastId)
      <4>1. Before(d, p.lastId) \in Nat /\ Before(b, p.lastId) \in Nat
        BY BeforeType
      <4> QED BY <1>1, <2>1, <4>1
    <3> QED BY <1>1, <2>1, <3>1, PageAbove
  <2>3. inbox[b] <= m
    <3>1. PICK d \in page : inbox[d] = m
      BY <1>3
    <3> QED BY <1>6, <2>1, <2>2, <3>1 DEF Above
  <2>4. b \in UpTo(m)
    BY <2>1, <2>3 DEF UpTo
  <2>5. same \in SUBSET {d \in UpTo(m) : Above(d, b)}
    <3>1. \A d \in same : d \in UpTo(m)
      BY <1>1, <1>4, <1>6 DEF UpTo
    <3> QED BY <1>4, <2>2, <3>1
  <2>6. Cardinality(same) <= Before(b, m)
    BY <2>5, BeforeType, FS_Subset DEF Before
  <2>7. Before(b, m) >= Cardinality(same)
    BY <1>5, <2>6, BeforeType
  <2> QED BY <1>2, <1>5, <2>4, <2>7 DEF Remaining
<1> QED BY <1>2, <1>5, <1>6, <1>7

\* A push takes away nothing that is left.
LEMMA PushAdds ==
  ASSUME FeedTypeInv, NEW b \in Blogs, NEW score \in 1 .. MaxScore, Push(b, score)
  PROVE  /\ InboxType'
         /\ \A p : p.offset \in Nat => Remaining(p) \subseteq Remaining(p)'
<1>1. /\ inbox[b] = 0 /\ \A d \in Blogs : d # b => inbox'[d] = inbox[d]
      /\ inbox' \in [Blogs -> Nat]
  BY FeedAssumption DEF Push, FeedTypeInv, QueryType, InboxType
<1>2. \A p : p.offset \in Nat => Remaining(p) \subseteq Remaining(p)'
  <2> SUFFICES ASSUME NEW p, p.offset \in Nat, NEW d \in Remaining(p)
               PROVE  d \in Remaining(p)'
    OBVIOUS
  <2>1. PICK s : s = p.lastId
    OBVIOUS
  <2>2. \A e \in UpTo(s) : e \in UpTo(s)' /\ inbox'[e] = inbox[e]
    BY <1>1 DEF UpTo
  <2>3. d \in UpTo(s) /\ Before(d, s) >= p.offset
    BY <2>1 DEF Remaining
  <2>4. PICK above : above = {e \in UpTo(s) : Above(e, d)}
    OBVIOUS
  <2>5. PICK aboveNext : aboveNext = {e \in UpTo(s) : Above(e, d)}'
    OBVIOUS
  <2>6. above \in SUBSET aboveNext
    <3>1. \A e \in UpTo(s) : Above(e, d) => Above(e, d)'
      BY <2>2, <2>3 DEF Above
    <3> QED BY <2>2, <2>4, <2>5, <3>1
  <2>7. IsFiniteSet(aboveNext)
    <3>1. aboveNext \in SUBSET Blogs
      BY <2>5 DEF UpTo
    <3> QED BY <3>1, FeedAssumption, FS_Subset
  <2>8. Cardinality(above) <= Cardinality(aboveNext) /\ Cardinality(aboveNext) \in Nat
    BY <2>6, <2>7, FS_Subset, FS_CardinalityType
  <2>9. Before(d, s) = Cardinality(above) /\ Before(d, s)' = Cardinality(aboveNext)
    BY <2>4, <2>5 DEF Before
  <2>10. Before(d, s)' >= p.offset
    <3>1. Before(d, s) \in Nat
      BY BeforeType
    <3> QED BY <2>3, <2>8, <2>9, <3>1
  <2> QED BY <2>1, <2>2, <2>3, <2>10 DEF Remaining
<1> QED BY <1>1, <1>2 DEF InboxType

LEMMA PushKeeps ==
  ASSUME FeedInv, NEW b \in Blogs, NEW score \in 1 .. MaxScore, Push(b, score)
  PROVE  FeedInv'
<1>1. UNCHANGED <<params, query, shown, opened>>
  BY DEF Push
<1>2. InboxType' /\ \A p : p.offset \in Nat => Remaining(p) \subseteq Remaining(p)'
  BY PushAdds DEF FeedInv
<1>3. FeedTypeInv'
  BY <1>1, <1>2 DEF FeedInv, FeedTypeInv, QueryType
<1>4. NothingSkipped'
  <2>1. PICK p : p = params /\ p.offset \in Nat
    BY DEF FeedInv, FeedTypeInv, QueryType
  <2>2. Remaining(p) \subseteq Remaining(p)'
    BY <1>2, <2>1
  <2> QED BY <1>1, <2>1, <2>2 DEF FeedInv, NothingSkipped, Remaining
<1>5. QueriesInv'
  <2> SUFFICES ASSUME NEW q \in Queries, query[q].at # "idle", query[q].current
               PROVE  (opened \subseteq Base(q) \cup query[q].page \cup Remaining(query[q]))'
    BY <1>1 DEF QueriesInv
  <2>1. PICK p : p = query[q] /\ p.offset \in Nat
    BY DEF FeedInv, FeedTypeInv, QueryType
  <2>2. Remaining(p) \subseteq Remaining(p)'
    BY <1>2, <2>1
  <2>3. opened \subseteq Base(q) \cup query[q].page \cup Remaining(p)
    BY <2>1 DEF FeedInv, QueriesInv
  <2>4. Base(q)' = Base(q) /\ query'[q] = p /\ opened' = opened
    BY <1>1, <2>1 DEF Base
  <2>5. Remaining(query[q])' = Remaining(p)'
    BY <2>4 DEF Remaining
  <2> QED BY <2>1, <2>2, <2>3, <2>4, <2>5
<1> QED BY <1>1, <1>3, <1>4, <1>5 DEF FeedInv

LEMMA RemainingSame ==
  ASSUME inbox' = inbox
  PROVE  \A p : Remaining(p)' = Remaining(p)
<1> SUFFICES ASSUME NEW p PROVE Remaining(p)' = Remaining(p)
  OBVIOUS
<1>1. \A b, s : Before(b, s)' = Before(b, s)
  BY DEF Before, UpTo, Above
<1> QED BY <1>1 DEF Remaining, UpTo

\* A step that changes one query, and lets the others be, or be late.
LEMMA OneQuery ==
  ASSUME FeedInv, NEW q \in Queries,
         UNCHANGED <<inbox, opened>>, FeedTypeInv', NothingSkipped',
         \A o \in Queries : o # q =>
           \/ query'[o] = query[o] /\ (query[o].clear \/ shown \subseteq shown')
           \/ /\ ~query'[o].current /\ query'[o].at = query[o].at
              /\ query'[o].page = query[o].page,
         query'[q].at # "answered" => query'[q].page = {},
         query'[q].at # "idle" /\ query'[q].current =>
           opened \subseteq (IF query'[q].clear THEN {} ELSE shown') \cup query'[q].page
                            \cup Remaining(query'[q])
  PROVE  FeedInv'
<1>1. \A p : Remaining(p)' = Remaining(p)
  BY RemainingSame
<1>2. \A o \in Queries : query'[o].at # "answered" => query'[o].page = {}
  BY DEF FeedInv
<1>3. ASSUME NEW o \in Queries, query'[o].at # "idle", query'[o].current
      PROVE  opened \subseteq Base(o)' \cup query'[o].page \cup Remaining(query[o])'
  <2>1. PICK p : p = query'[o]
    OBVIOUS
  <2>2. Remaining(query[o])' = Remaining(p)
    <3>1. Remaining(query[o])' = Remaining(p)'
      BY <2>1 DEF Remaining
    <3> QED BY <1>1, <3>1
  <2>3. CASE o = q
    BY <1>3, <2>1, <2>2, <2>3 DEF Base
  <2>4. CASE o # q
    <3>1. query'[o] = query[o] /\ (query[o].clear \/ shown \subseteq shown')
      BY <1>3, <2>4
    <3>2. opened \subseteq Base(o) \cup query[o].page \cup Remaining(p)
      BY <1>3, <2>1, <3>1 DEF FeedInv, QueriesInv
    <3>3. Base(o) \subseteq Base(o)'
      BY <3>1 DEF Base
    <3> QED BY <2>1, <2>2, <3>1, <3>2, <3>3
  <2> QED BY <2>3, <2>4
<1>4. QueriesInv'
  BY <1>3 DEF QueriesInv
<1> QED BY <1>2, <1>4 DEF FeedInv

\* Nothing that could be shown lies before the start.
LEMMA FromTheTop ==
  ASSUME NEW p, p.offset = 0
  PROVE  Remaining(p) = UpTo(p.lastId)
<1>1. \A b \in UpTo(p.lastId) : Before(b, p.lastId) >= p.offset
  <2> SUFFICES ASSUME NEW b \in UpTo(p.lastId) PROVE Before(b, p.lastId) >= 0
    OBVIOUS
  <2>1. Before(b, p.lastId) \in Nat
    BY BeforeType
  <2> QED BY <2>1
<1> QED BY <1>1 DEF Remaining

LEMMA OthersTyped ==
  ASSUME FeedTypeInv, NEW q \in Queries, NEW record \in QueryType, OthersLate(q, record)
  PROVE  query' \in [Queries -> QueryType]
<1>1. \A o \in Queries : [query[o] EXCEPT !.current = FALSE] \in QueryType
  BY DEF FeedTypeInv, QueryType
<1> QED BY <1>1 DEF OthersLate

LEMMA OpenKeeps ==
  ASSUME FeedInv, NEW q \in Queries, NEW now \in 1 .. MaxScore, OpenFeed(q, now)
  PROVE  FeedInv'
<1>1. PICK new : new = [at |-> "sent", clear |-> TRUE, current |-> TRUE, lastId |-> now,
                        offset |-> 0, page |-> {}]
  OBVIOUS
<1>2. /\ params' = [lastId |-> now, offset |-> 0, current |-> TRUE]
      /\ query' = [o \in Queries |-> IF o = q THEN new ELSE [query[o] EXCEPT !.current = FALSE]]
      /\ opened' = UpTo(now) /\ UNCHANGED <<inbox, shown>> /\ now \in Nat
  BY <1>1, FeedAssumption DEF OpenFeed, OthersLate
<1>3. FeedTypeInv'
  <2>1. UpTo(now) \in SUBSET Blogs
    BY DEF UpTo
  <2>2. new \in QueryType /\ OthersLate(q, new)
    BY <1>1, <1>2 DEF QueryType, OthersLate
  <2>3. query' \in [Queries -> QueryType]
    BY <2>2, OthersTyped DEF FeedInv
  <2> QED BY <1>2, <2>1, <2>3 DEF FeedInv, FeedTypeInv, InboxType
<1>4. /\ query'[q] = new
      /\ \A o \in Queries : o # q => /\ ~query'[o].current /\ query'[o].at = query[o].at
                                     /\ query'[o].page = query[o].page
  BY <1>2 DEF FeedInv, FeedTypeInv, QueryType
<1>5. opened' = Remaining(new) /\ opened' = Remaining(params')
  <2>1. new.offset = 0 /\ new.lastId = now /\ params'.offset = 0 /\ params'.lastId = now
    BY <1>1, <1>2
  <2> QED BY <1>2, <2>1, FromTheTop
<1>6. \A p : Remaining(p)' = Remaining(p)
  BY <1>2, RemainingSame
<1>7. NothingSkipped'
  <2>1. PICK p : p = params'
    OBVIOUS
  <2>2. Remaining(params)' = Remaining(p)'
    BY <2>1 DEF Remaining
  <2> QED BY <1>5, <1>6, <2>1, <2>2 DEF NothingSkipped
<1>8. QueriesInv'
  <2> SUFFICES ASSUME NEW o \in Queries, query'[o].at # "idle", query'[o].current
               PROVE  opened' \subseteq Base(o)' \cup query'[o].page \cup Remaining(query[o])'
    BY DEF QueriesInv
  <2>1. o = q
    BY <1>4
  <2>2. Remaining(query[o])' = Remaining(new)'
    BY <1>4, <2>1 DEF Remaining
  <2>3. Remaining(new)' = Remaining(new)
    BY <1>6
  <2> QED BY <1>5, <2>2, <2>3
<1>9. \A o \in Queries : query'[o].at # "answered" => query'[o].page = {}
  BY <1>1, <1>4 DEF FeedInv
<1> QED BY <1>3, <1>7, <1>8, <1>9 DEF FeedInv

LEMMA ScrollKeeps ==
  ASSUME FeedInv, NEW q \in Queries, ScrollOn(q)
  PROVE  FeedInv'
<1>1. /\ query' = [query EXCEPT ![q] = [at |-> "sent", clear |-> FALSE,
                                        current |-> params.current, lastId |-> params.lastId,
                                        offset |-> params.offset, page |-> {}]]
      /\ UNCHANGED <<inbox, params, shown, opened>>
  BY DEF ScrollOn
<1>2. FeedTypeInv'
  BY <1>1 DEF FeedInv, FeedTypeInv, QueryType, InboxType
<1>3. /\ query'[q].at = "sent" /\ ~query'[q].clear /\ query'[q].current = params.current
      /\ query'[q].lastId = params.lastId /\ query'[q].offset = params.offset
      /\ query'[q].page = {}
      /\ \A o \in Queries : o # q => query'[o] = query[o]
  BY <1>1 DEF FeedInv, FeedTypeInv, QueryType
<1>4. NothingSkipped'
  <2>1. Remaining(params)' = Remaining(params)
    BY <1>1 DEF Remaining, UpTo, Before, Above
  <2> QED BY <1>1, <2>1 DEF FeedInv, NothingSkipped
<1>5. Remaining(query'[q]) = Remaining(params)
  BY <1>3 DEF Remaining
<1>6. params.current => opened \subseteq shown' \cup query'[q].page \cup Remaining(query'[q])
  BY <1>1, <1>5 DEF FeedInv, NothingSkipped
<1> QED BY <1>1, <1>2, <1>3, <1>4, <1>6, OneQuery

LEMMA SkippedFrame ==
  ASSUME NothingSkipped, UNCHANGED <<inbox, params, shown, opened>>
  PROVE  NothingSkipped'
<1>1. Remaining(params)' = Remaining(params)
  BY DEF Remaining, UpTo, Before, Above
<1> QED BY <1>1 DEF NothingSkipped

LEMMA EndKeeps ==
  ASSUME FeedInv, NEW q \in Queries, query' = [query EXCEPT ![q] = NoQuery],
         UNCHANGED <<inbox, params, shown, opened>>
  PROVE  FeedInv'
<1>1. FeedTypeInv'
  BY DEF FeedInv, FeedTypeInv, QueryType, InboxType, NoQuery, Closed
<1>2. /\ query'[q].at = "idle" /\ query'[q].page = {}
      /\ \A o \in Queries : o # q => query'[o] = query[o]
  BY DEF FeedInv, FeedTypeInv, QueryType, NoQuery
<1>3. NothingSkipped'
  BY SkippedFrame DEF FeedInv
<1> QED BY <1>1, <1>2, <1>3, OneQuery

LEMMA AnswerKeeps ==
  ASSUME FeedInv, NEW q \in Queries, QueryBlogOfFollow(q)
  PROVE  FeedInv'
<1>1. PICK old : old = query[q]
  OBVIOUS
<1>2. PICK page : page = OnPage(old)
  OBVIOUS
<1>3. /\ old.at = "sent" /\ UNCHANGED <<inbox, params, shown, opened>>
      /\ page = {} => query' = [query EXCEPT ![q] = NoQuery]
      /\ page # {} => query' = [query EXCEPT ![q].at = "answered", ![q].page = page,
                                             ![q].lastId = MinTime(page),
                                             ![q].offset = NextOffset(page)]
  BY <1>1, <1>2 DEF QueryBlogOfFollow
<1>4. CASE page = {}
  BY <1>3, <1>4, EndKeeps
<1>5. CASE page # {}
  <2>1. PICK next : next = query'[q]
    OBVIOUS
  <2>2. /\ next.at = "answered" /\ next.clear = old.clear /\ next.current = old.current
        /\ next.page = page /\ next.lastId = MinTime(page) /\ next.offset = NextOffset(page)
        /\ \A o \in Queries : o # q => query'[o] = query[o]
    BY <1>1, <1>3, <1>5, <2>1 DEF FeedInv, FeedTypeInv, QueryType
  <2>3. InboxType /\ old.offset \in Nat
    BY <1>1 DEF FeedInv, FeedTypeInv, QueryType
  <2>4. /\ Remaining(old) \subseteq page \cup Remaining(next)
        /\ MinTime(page) \in Nat /\ NextOffset(page) \in Nat
    BY <1>2, <1>5, <2>2, <2>3, PageAdvances
  <2>5. FeedTypeInv'
    <3>1. page \in SUBSET Blogs
      BY <1>2 DEF OnPage, Remaining, UpTo
    <3> QED BY <1>3, <1>5, <2>4, <3>1 DEF FeedInv, FeedTypeInv, QueryType, InboxType
  <2>6. old.current => opened \subseteq Base(q) \cup Remaining(old)
    BY <1>1, <1>3 DEF FeedInv, QueriesInv
  <2>7. next.current =>
          opened \subseteq (IF next.clear THEN {} ELSE shown') \cup next.page \cup Remaining(next)
    BY <1>1, <1>3, <2>2, <2>4, <2>6 DEF Base
  <2>8. NothingSkipped'
    BY <1>3, SkippedFrame DEF FeedInv
  <2> QED BY <1>3, <2>1, <2>2, <2>5, <2>7, <2>8, OneQuery
<1> QED BY <1>4, <1>5

LEMMA ShowKeeps ==
  ASSUME FeedInv, NEW q \in Queries, ShowAnswer(q)
  PROVE  FeedInv'
<1>1. PICK answer : answer = query[q]
  OBVIOUS
<1>2. /\ answer.at = "answered" /\ UNCHANGED <<inbox, opened>>
      /\ params' = [lastId |-> answer.lastId, offset |-> answer.offset,
                    current |-> answer.current]
      /\ answer.clear => /\ shown' = answer.page
                         /\ query' = [o \in Queries |-> IF o = q THEN NoQuery
                                                        ELSE [query[o] EXCEPT !.current = FALSE]]
      /\ ~answer.clear => /\ shown' = shown \cup answer.page
                          /\ query' = [query EXCEPT ![q] = NoQuery]
  BY <1>1 DEF ShowAnswer, OthersLate
<1>3. FeedTypeInv'
  <2>1. params' \in [lastId : Nat, offset : Nat, current : BOOLEAN]
    BY <1>1, <1>2 DEF FeedInv, FeedTypeInv, QueryType
  <2>2. NoQuery \in QueryType
    BY DEF NoQuery, QueryType, Closed
  <2>3. query' \in [Queries -> QueryType]
    <3>1. CASE answer.clear
      <4>1. OthersLate(q, NoQuery)
        BY <1>2, <3>1 DEF OthersLate
      <4> QED BY <2>2, <4>1, OthersTyped DEF FeedInv
    <3>2. CASE ~answer.clear
      BY <1>2, <2>2, <3>2 DEF FeedInv, FeedTypeInv
    <3> QED BY <3>1, <3>2
  <2> QED BY <1>2, <2>1, <2>3 DEF FeedInv, FeedTypeInv, InboxType
<1>4. query'[q].at = "idle" /\ query'[q].page = {}
  <2>1. query'[q] = NoQuery
    BY <1>2 DEF FeedInv, FeedTypeInv, QueryType
  <2> QED BY <2>1 DEF NoQuery
<1>5. ASSUME NEW o \in Queries, o # q
      PROVE  \/ query'[o] = query[o] /\ (query[o].clear \/ shown \subseteq shown')
             \/ /\ ~query'[o].current /\ query'[o].at = query[o].at
                /\ query'[o].page = query[o].page
  BY <1>2, <1>5 DEF FeedInv, FeedTypeInv, QueryType
<1>6. NothingSkipped'
  <2>1. PICK p : p = params'
    OBVIOUS
  <2>2. Remaining(params)' = Remaining(answer)
    <3>1. Remaining(params)' = Remaining(p)'
      BY <2>1 DEF Remaining
    <3>2. Remaining(p) = Remaining(answer)
      BY <1>2, <2>1 DEF Remaining
    <3> QED BY <1>2, <3>1, <3>2, RemainingSame
  <2>3. answer.current => opened \subseteq Base(q) \cup answer.page \cup Remaining(answer)
    BY <1>1, <1>2 DEF FeedInv, QueriesInv
  <2>4. shown' = Base(q) \cup answer.page
    BY <1>1, <1>2 DEF Base, FeedInv, FeedTypeInv
  <2>5. params'.current = answer.current
    BY <1>2
  <2> QED BY <1>2, <2>2, <2>3, <2>4, <2>5 DEF NothingSkipped
<1> QED BY <1>2, <1>3, <1>4, <1>5, <1>6, OneQuery

LEMMA FeedStep == FeedInv /\ [FeedNext]_feedVars => FeedInv'
<1> SUFFICES ASSUME FeedInv, [FeedNext]_feedVars PROVE FeedInv'
  OBVIOUS
<1>1. CASE UNCHANGED feedVars
  <2>1. UNCHANGED <<inbox, params, query, shown, opened>>
    BY <1>1 DEF feedVars
  <2>2. NothingSkipped'
    BY <2>1, SkippedFrame DEF FeedInv
  <2>3. QueriesInv'
    <3> SUFFICES ASSUME NEW q \in Queries, query[q].at # "idle", query[q].current
                 PROVE  (opened \subseteq Base(q) \cup query[q].page \cup Remaining(query[q]))'
      BY <2>1 DEF QueriesInv
    <3>1. Remaining(query[q])' = Remaining(query[q]) /\ Base(q)' = Base(q)
      BY <2>1 DEF Remaining, UpTo, Before, Above, Base
    <3> QED BY <2>1, <3>1 DEF FeedInv, QueriesInv
  <2>4. FeedTypeInv'
    BY <2>1 DEF FeedInv, FeedTypeInv, QueryType, InboxType
  <2> QED BY <2>1, <2>2, <2>3, <2>4 DEF FeedInv
<1>2. ASSUME NEW b \in Blogs, NEW score \in 1 .. MaxScore, Push(b, score)
      PROVE  FeedInv'
  BY <1>2, PushKeeps
<1>3. ASSUME NEW q \in Queries, NEW now \in 1 .. MaxScore, OpenFeed(q, now)
      PROVE  FeedInv'
  BY <1>3, OpenKeeps
<1>4. ASSUME NEW q \in Queries, ScrollOn(q) \/ QueryBlogOfFollow(q) \/ ShowAnswer(q) \/ QueryFails(q)
      PROVE  FeedInv'
  BY <1>4, ScrollKeeps, AnswerKeeps, ShowKeeps, EndKeeps DEF QueryFails
<1> QED BY <1>1, <1>2, <1>3, <1>4 DEF FeedNext

(***************************************************************************)
(* For any inbox, with blogs of the same millisecond and clocks that are   *)
(* wrong, and any number of queries under way, repeated, lost and answered *)
(* in any order: unless an answer comes late, overtaken by a new start, a  *)
(* page that scrolls on has shown every blog that was there at the start   *)
(* or has it ahead (queryBlogOfFollow, saveBlog, info.html).               *)
(* NothingSkipped alone is not inductive: the queries under way must not   *)
(* skip anything either.                                                   *)
(***************************************************************************)
THEOREM ScrollSkipsNothing == FeedSpec => []NothingSkipped
<1>1. FeedInv => NothingSkipped
  BY DEF FeedInv
<1> QED BY FeedInitially, FeedStep, <1>1, PTL DEF FeedSpec
=============================================================================
