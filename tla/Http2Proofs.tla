----------------------------- MODULE Http2Proofs -----------------------------
(***************************************************************************)
(* The HTTP/2 prober's header compression, for every table, limit and      *)
(* length of strings: an index means to the decoder what it means to the   *)
(* peer, so that no service costs a player its rungs by an HpackError,     *)
(* short of a push or of HEADERS that are padded or prioritised.           *)
(***************************************************************************)
EXTENDS MCProbes, Http1Proofs, FiniteSetTheorems, WellFoundedInduction, TLAPS

-----------------------------------------------------------------------------
(***************************************************************************)
(* Induction.  The library's rules take a predicate as a parameter, which  *)
(* the provers do not instantiate; a set of naturals does as well.         *)
(***************************************************************************)
LEMMA SetInduction ==
  ASSUME NEW S, 0 \in S, \A n \in Nat : n \in S => n + 1 \in S
  PROVE  Nat \subseteq S
<1> SUFFICES ASSUME Nat \ S # {} PROVE FALSE
  OBVIOUS
<1>1. PICK x \in Nat \ S : \A y \in Nat \ S : ~ (<<y, x>> \in OpToRel(<, Nat))
  BY NatLessThanWellFounded, WFMin
<1>2. x # 0 /\ x - 1 \in Nat /\ x - 1 + 1 = x
  OBVIOUS
<1>3. <<x - 1, x>> \in OpToRel(<, Nat)
  BY <1>2 DEF OpToRel
<1>4. x - 1 \in S
  BY <1>1, <1>2, <1>3
<1> QED
  BY <1>2, <1>4

LEMMA StrongInduction ==
  ASSUME NEW S, \A n \in Nat : (\A m \in 0..n - 1 : m \in S) => n \in S
  PROVE  Nat \subseteq S
<1> DEFINE T == {n \in Nat : \A m \in 0..n - 1 : m \in S}
<1>1. 0 \in T
  OBVIOUS
<1>2. ASSUME NEW n \in Nat, n \in T PROVE n + 1 \in T
  BY <1>2
<1>3. Nat \subseteq T
  <2> HIDE DEF T
  <2> QED
    BY <1>1, <1>2, SetInduction
<1> QED
  BY <1>3

\* A bounded set of naturals has a greatest element.
LEMMA MaxIsGreatest ==
  ASSUME NEW S, S \subseteq Nat, NEW x \in S, NEW top \in Nat, \A y \in S : y <= top
  PROVE  Max(S) \in S /\ \A y \in S : y <= Max(S)
<1> DEFINE T == {n \in Nat : \A y \in S : y > n => \E m \in S : \A z \in S : z <= m}
           Downwards == {n \in Nat : top - n \in Nat => top - n \in T}
<1>1. 0 \in Downwards
  OBVIOUS
<1>2. ASSUME NEW n \in Nat, n \in Downwards PROVE n + 1 \in Downwards
  <2> SUFFICES ASSUME top - (n + 1) \in Nat, NEW y \in S, y > top - (n + 1)
               PROVE  \E m \in S : \A z \in S : z <= m
    OBVIOUS
  <2>1. top - n \in T
    BY <1>2
  <2>2. CASE \E z \in S : z > top - n
    BY <2>1, <2>2
  <2>3. CASE \A z \in S : z <= top - n
    BY <2>3
  <2> QED
    BY <2>2, <2>3
<1>3. top \in Downwards
  <2> HIDE DEF Downwards
  <2> QED
    BY <1>1, <1>2, SetInduction
<1>4. \E m \in S : \A z \in S : z <= m
  <2>1. 0 \in T
    BY <1>3
  <2>2. CASE x = 0 /\ \A y \in S : y = 0
    BY <2>2
  <2>3. CASE \E y \in S : y > 0
    BY <2>1, <2>3
  <2> QED
    BY <2>2, <2>3
<1>5. \E m \in S : \A z \in S : m >= z
  BY <1>4
<1>6. Max(S) \in S /\ \A z \in S : Max(S) >= z
  BY <1>5, Zenon DEF Max
<1> QED
  BY <1>6

-----------------------------------------------------------------------------
(***************************************************************************)
(* Integers.  Octets is a recursion on quotients, and so is IntDecode, the *)
(* other way about: what was encoded after any octets is what decodes.     *)
(***************************************************************************)
Byte(f, value) == IF value < 128 THEN <<value>> ELSE <<128 + (value % 128)>> \o f[value \div 128]

LEMMA Quotients ==
  ASSUME NEW v \in Nat
  PROVE  /\ v \div 128 \in Nat /\ v % 128 \in 0..127
         /\ v = (v % 128) + 128 * (v \div 128)
         /\ v >= 128 => v \div 128 < v
         /\ v < 128 => v % 128 = v
         /\ (128 + (v % 128)) % 128 = v % 128
OBVIOUS

\* The recursion up to a value has a solution, and all its solutions agree.
Solves(f, n) == f \in [0..n -> Seq(Nat)] /\ \A v \in 0..n : f[v] = Byte(f, v)

LEMMA SolutionsAgree ==
  ASSUME NEW f, NEW n \in Nat, Solves(f, n), NEW g, NEW m \in Nat, Solves(g, m), NEW v \in Nat, v <= n, v <= m
  PROVE  f[v] = g[v]
<1> DEFINE S == {w \in Nat : w <= n /\ w <= m => f[w] = g[w]}
<1>1. ASSUME NEW w \in Nat, \A u \in 0..w - 1 : u \in S
      PROVE  w \in S
  <2> SUFFICES ASSUME w <= n, w <= m PROVE f[w] = g[w]
    OBVIOUS
  <2>1. f[w] = Byte(f, w) /\ g[w] = Byte(g, w)
    BY DEF Solves
  <2>2. CASE w < 128
    BY <2>1, <2>2 DEF Byte
  <2>3. CASE w >= 128
    <3>1. w \div 128 \in 0..w - 1
      BY <2>3, Quotients
    <3>2. f[w \div 128] = g[w \div 128]
      BY <1>1, <3>1
    <3> QED
      BY <2>1, <2>3, <3>2 DEF Byte
  <2> QED
    BY <2>2, <2>3
<1>2. v \in S
  <2> HIDE DEF S
  <2> QED
    BY <1>1, StrongInduction
<1> QED
  BY <1>2

LEMMA SolutionExists ==
  ASSUME NEW n \in Nat
  PROVE  \E f : Solves(f, n)
<1> DEFINE S == {k \in Nat : \E f : Solves(f, k)}
<1>1. 0 \in S
  <2>1. Solves([v \in 0..0 |-> <<v>>], 0)
    BY DEF Solves, Byte
  <2> QED
    BY <2>1
<1>2. ASSUME NEW k \in Nat, k \in S
      PROVE  k + 1 \in S
  <2> PICK f : Solves(f, k)
    BY <1>2
  <2>1. f \in [0..k -> Seq(Nat)] /\ \A v \in 0..k : f[v] = Byte(f, v)
    BY DEF Solves
  <2>2. PICK last : last = Byte(f, k + 1)
    OBVIOUS
  <2>3. last \in Seq(Nat)
    <3>1. CASE k + 1 < 128
      BY <2>2, <3>1 DEF Byte
    <3>2. CASE k + 1 >= 128
      <4>1. (k + 1) \div 128 \in 0..k /\ (k + 1) % 128 \in Nat
        BY <3>2, Quotients
      <4>2. f[(k + 1) \div 128] \in Seq(Nat) /\ <<128 + ((k + 1) % 128)>> \in Seq(Nat)
        BY <2>1, <4>1
      <4> QED
        BY <2>2, <3>2, <4>2 DEF Byte
    <3> QED
      BY <3>1, <3>2
  <2> DEFINE g == [v \in 0..k + 1 |-> IF v <= k THEN f[v] ELSE last]
  <2>4. g \in [0..k + 1 -> Seq(Nat)]
    BY <2>1, <2>3
  <2>5. ASSUME NEW v \in 0..k + 1
        PROVE  g[v] = Byte(g, v)
    <3>1. Byte(g, v) = Byte(f, v)
      <4>1. CASE v < 128
        BY <4>1 DEF Byte
      <4>2. CASE v >= 128
        <5>1. v \div 128 \in 0..k
          BY <4>2, Quotients
        <5> QED
          BY <4>2, <5>1 DEF Byte
      <4> QED
        BY <4>1, <4>2
    <3> QED
      BY <2>1, <2>2, <3>1
  <2> HIDE DEF g
  <2>6. Solves(g, k + 1)
    BY <2>4, <2>5 DEF Solves
  <2> QED
    BY <2>6
<1>3. n \in S
  <2> HIDE DEF S
  <2> QED
    BY <1>1, <1>2, SetInduction
<1> QED
  BY <1>3

\* Octets is what its recursion says.
LEMMA OctetsAre ==
  ASSUME NEW v \in Nat
  PROVE  Octets[v] \in Seq(Nat) /\ Octets[v] = Byte(Octets, v)
<1> DEFINE solution == [n \in Nat |-> CHOOSE f : Solves(f, n)]
           all == [n \in Nat |-> solution[n][n]]
           Fixed(f) == f = [value \in Nat |-> IF value < 128 THEN <<value>>
                                              ELSE <<128 + (value % 128)>> \o f[value \div 128]]
<1>1. ASSUME NEW n \in Nat
      PROVE  Solves(solution[n], n)
  BY SolutionExists, Zenon
<1> HIDE DEF solution
<1>2. ASSUME NEW n \in Nat
      PROVE  all[n] \in Seq(Nat) /\ all[n] = Byte(all, n)
  <2>1. solution[n][n] \in Seq(Nat) /\ solution[n][n] = Byte(solution[n], n)
    BY <1>1 DEF Solves
  <2>2. CASE n < 128
    BY <2>1, <2>2 DEF Byte
  <2>3. CASE n >= 128
    <3>1. n \div 128 \in Nat /\ n \div 128 < n
      BY <2>3, Quotients
    <3>2. solution[n \div 128][n \div 128] = solution[n][n \div 128]
      BY <1>1, <3>1, SolutionsAgree
    <3> QED
      BY <2>1, <2>3, <3>1, <3>2 DEF Byte
  <2> QED
    BY <2>2, <2>3
<1> HIDE DEF all
<1>3. all = [n \in Nat |-> all[n]]
  BY DEF all
<1>4. Fixed(all)
  BY <1>2, <1>3 DEF Byte
<1>5. Octets = CHOOSE f : Fixed(f)
  BY Zenon DEF Octets
<1> HIDE DEF Fixed
<1>6. Fixed(Octets)
  BY <1>4, <1>5, Zenon
<1>7. ASSUME NEW n \in Nat
      PROVE  Octets[n] = Byte(Octets, n)
  BY <1>6 DEF Fixed, Byte
<1> DEFINE S == {n \in Nat : Octets[n] \in Seq(Nat)}
<1>8. ASSUME NEW n \in Nat, \A m \in 0..n - 1 : m \in S
      PROVE  n \in S
  <2>0. Octets[n] = Byte(Octets, n)
    BY <1>7
  <2>1. CASE n < 128
    <3>1. Octets[n] = <<n>>
      BY <2>0, <2>1 DEF Byte
    <3>2. <<n>> \in Seq(Nat)
      OBVIOUS
    <3> QED
      BY <3>1, <3>2
  <2>2. CASE n >= 128
    <3>1. n \div 128 \in 0..n - 1 /\ n % 128 \in Nat
      BY <2>2, Quotients
    <3>2. Octets[n \div 128] \in Seq(Nat) /\ <<128 + (n % 128)>> \in Seq(Nat)
      BY <1>8, <3>1
    <3>3. Octets[n] = <<128 + (n % 128)>> \o Octets[n \div 128]
      BY <2>0, <2>2 DEF Byte
    <3>4. Octets[n] \in Seq(Nat)
      BY <3>2, <3>3
    <3> QED
      BY <3>4
  <2> QED
    BY <2>1, <2>2
<1>9. v \in S
  <2> HIDE DEF S
  <2> QED
    BY <1>8, StrongInduction
<1> QED
  BY <1>7, <1>9

\* What the octets from the i-th on amount to, in terms of what those after it do.
Here(octets, from, i) == IF i > Len(octets) THEN 0 ELSE (octets[i] % 128) + 128 * from[i + 1]

\* A solution of the recursion for the last k octets.
SolvesLast(from, octets, k) ==
  from \in [Nat -> Nat] /\ \A i \in Nat : i > 0 /\ i + k > Len(octets) => from[i] = Here(octets, from, i)

LEMMA HereType ==
  ASSUME NEW o \in Seq(Nat), NEW f \in [Nat -> Nat], NEW i \in Nat, i > 0
  PROVE  Here(o, f, i) \in Nat
<1>1. CASE i > Len(o)
  BY <1>1 DEF Here
<1>2. CASE ~(i > Len(o))
  <2>1. i \in 1..Len(o)
    BY <1>2
  <2>2. o[i] \in Nat
    BY <2>1, ElementOfSeq
  <2>3. PICK octet \in Nat : octet = o[i]
    BY <2>2
  <2>4. PICK rest \in Nat : rest = f[i + 1]
    OBVIOUS
  <2>5. octet % 128 \in Nat
    BY Quotients
  <2>6. (octet % 128) + 128 * rest \in Nat
    BY <2>5
  <2>7. Here(o, f, i) = (octet % 128) + 128 * rest
    BY <1>2, <2>3, <2>4 DEF Here
  <2> QED
    BY <2>6, <2>7
<1> QED
  BY <1>1, <1>2

LEMMA LastButOne ==
  ASSUME NEW o \in Seq(Nat), NEW k \in Nat, NEW f, SolvesLast(f, o, k)
  PROVE  \E g : SolvesLast(g, o, k + 1)
<1>0. Len(o) \in Nat /\ f \in [Nat -> Nat]
  BY DEF SolvesLast
<1> PICK len \in Nat : len = Len(o)
  BY <1>0
<1>1. CASE Len(o) > k
  <2>z. len - k \in Nat
    BY <1>1
  <2> PICK n \in Nat : n = len - k
    BY <2>z
  <2>0. n > 0
    BY <1>0, <1>1
  <2>1. Here(o, f, n) \in Nat
    BY <1>0, <2>0, HereType
  <2> PICK value \in Nat : value = Here(o, f, n)
    BY <2>1
  <2> PICK g : g = [f EXCEPT ![n] = value]
    OBVIOUS
  <2>2. g \in [Nat -> Nat] /\ g[n] = value /\ \A i \in Nat : i # n => g[i] = f[i]
    BY <1>0
  <2>3. ASSUME NEW i \in Nat, i > 0, i + (k + 1) > Len(o)
        PROVE  g[i] = Here(o, g, i)
    <3>0. i + (k + 1) > len
      BY <2>3
    <3>1. i >= n /\ i + 1 \in Nat /\ i + 1 # n
      BY <3>0
    <3>2. Here(o, g, i) = Here(o, f, i)
      BY <2>2, <3>1 DEF Here
    <3>3. CASE i = n
      BY <2>2, <3>2, <3>3
    <3>4. CASE i # n
      <4>1. i + k > Len(o)
        BY <1>0, <3>1, <3>4
      <4>2. f[i] = Here(o, f, i)
        BY <2>3, <4>1 DEF SolvesLast
      <4> QED
        BY <2>2, <3>2, <3>4, <4>2
    <3> QED
      BY <3>3, <3>4
  <2>4. SolvesLast(g, o, k + 1)
    BY <2>2, <2>3 DEF SolvesLast
  <2> QED
    BY <2>4
<1>2. CASE ~(Len(o) > k)
  <2>1. \A i \in Nat : i > 0 => i + k > Len(o)
    BY <1>0, <1>2
  <2>2. SolvesLast(f, o, k + 1)
    BY <2>1 DEF SolvesLast
  <2> QED
    BY <2>2
<1> QED
  BY <1>1, <1>2

LEMMA AmountExists ==
  ASSUME NEW o \in Seq(Nat)
  PROVE  \E f : f = [i \in Nat |-> Here(o, f, i)]
<1> DEFINE S == {k \in Nat : \E f : SolvesLast(f, o, k)}
<1>0. Len(o) \in Nat
  OBVIOUS
<1>1. 0 \in S
  <2>1. SolvesLast([i \in Nat |-> 0], o, 0)
    BY <1>0 DEF SolvesLast, Here
  <2> QED
    BY <2>1
<1>2. ASSUME NEW k \in Nat, k \in S PROVE k + 1 \in S
  BY <1>2, LastButOne
<1>3. Len(o) \in S
  <2> HIDE DEF S
  <2> QED
    BY <1>0, <1>1, <1>2, SetInduction
<1>4. PICK f : SolvesLast(f, o, Len(o))
  BY <1>3
<1>5. \A i \in Nat : i > 0 => f[i] = Here(o, f, i)
  <2>1. \A i \in Nat : i > 0 => i + Len(o) > Len(o)
    BY <1>0
  <2> QED
    BY <1>4, <2>1 DEF SolvesLast
<1>6. PICK first : first = Here(o, f, 0)
  OBVIOUS
<1> DEFINE g == [i \in Nat |-> IF i = 0 THEN first ELSE f[i]]
<1>7. ASSUME NEW i \in Nat PROVE Here(o, g, i) = Here(o, f, i)
  <2>1. i + 1 \in Nat /\ i + 1 # 0
    OBVIOUS
  <2> QED
    BY <2>1 DEF Here
<1>8. ASSUME NEW i \in Nat PROVE g[i] = Here(o, g, i)
  BY <1>5, <1>6, <1>7
<1>9. g = [i \in Nat |-> g[i]]
  OBVIOUS
<1> HIDE DEF g
<1> QED
  BY <1>8, <1>9

Amount(octets) == CHOOSE from : from = [i \in Nat |-> Here(octets, from, i)]

LEMMA AmountIs ==
  ASSUME NEW o \in Seq(Nat), NEW i \in Nat
  PROVE  Amount(o)[i] = Here(o, Amount(o), i)
<1> DEFINE Fixed(f) == f = [j \in Nat |-> Here(o, f, j)]
<1>1. \E f : Fixed(f)
  BY AmountExists
<1>2. Amount(o) = CHOOSE f : Fixed(f)
  BY Zenon DEF Amount
<1> HIDE DEF Fixed
<1>3. Fixed(Amount(o))
  BY <1>1, <1>2, Zenon
<1> QED
  BY <1>3 DEF Fixed

LEMMA Joined ==
  ASSUME NEW s \in Seq(Nat), NEW t \in Seq(Nat), NEW u \in Seq(Nat)
  PROVE  (s \o t) \o u = s \o (t \o u)
BY ConcatAssociative

LEMMA OctetsAmount ==
  ASSUME NEW w \in Nat, NEW u \in Seq(Nat)
  PROVE  Amount(u \o Octets[w])[Len(u) + 1] = w
<1> DEFINE S == {n \in Nat : \A before \in Seq(Nat) : Amount(before \o Octets[n])[Len(before) + 1] = n}
<1>1. ASSUME NEW n \in Nat, \A m \in 0..n - 1 : m \in S
      PROVE  n \in S
  <2> SUFFICES ASSUME NEW before \in Seq(Nat) PROVE Amount(before \o Octets[n])[Len(before) + 1] = n
    OBVIOUS
  <2>1. Octets[n] \in Seq(Nat) /\ Octets[n] = Byte(Octets, n)
    BY OctetsAre
  <2>2. PICK o : o = before \o Octets[n]
    OBVIOUS
  <2>3. PICK i \in Nat : i = Len(before) + 1
    OBVIOUS
  <2>4. o \in Seq(Nat)
    BY <2>1, <2>2
  <2>5. Amount(o)[i] = Here(o, Amount(o), i)
    BY <2>4, AmountIs
  <2>6. CASE n < 128
    <3>1. Octets[n] = <<n>>
      BY <2>1, <2>6 DEF Byte
    <3>2. Len(o) = i /\ o[i] = n
      BY <2>2, <2>3, <3>1
    <3>3. Amount(o)[i + 1] = 0
      <4>1. Amount(o)[i + 1] = Here(o, Amount(o), i + 1)
        BY <2>4, AmountIs
      <4> QED
        BY <3>2, <4>1 DEF Here
    <3>4. Amount(o)[i] = (n % 128) + 128 * 0
      BY <2>5, <3>2, <3>3 DEF Here
    <3>5. n % 128 = n
      BY <2>6, Quotients
    <3> QED
      BY <2>2, <2>3, <3>4, <3>5
  <2>7. CASE n >= 128
    <3>1. n \div 128 \in 0..n - 1 /\ n \div 128 \in Nat /\ n % 128 \in Nat
      BY <2>7, Quotients
    <3>2. PICK rest \in Seq(Nat) : rest = Octets[n \div 128]
      BY <3>1, OctetsAre
    <3>3. PICK octet \in Nat : octet = 128 + (n % 128)
      BY <3>1
    <3>4. Octets[n] = <<octet>> \o rest
      BY <2>1, <2>7, <3>2, <3>3 DEF Byte
    <3>5. PICK more : more = Append(before, octet)
      OBVIOUS
    <3>6. more \in Seq(Nat) /\ Len(more) = i
      <4>1. more \in Seq(Nat) /\ Len(more) = Len(before) + 1
        BY <3>5, AppendProperties
      <4> QED
        BY <2>3, <4>1
    <3>7. o = more \o rest
      <4>1. <<octet>> \in Seq(Nat)
        OBVIOUS
      <4>2. PICK one \in Seq(Nat) : one = <<octet>>
        BY <4>1
      <4>3. more = before \o one
        BY <3>5, <4>2, AppendIsConcat
      <4>4. (before \o one) \o rest = before \o (one \o rest)
        BY Joined, Zenon
      <4> QED
        BY <2>2, <3>4, <4>2, <4>3, <4>4
    <3>8. i \in 1..Len(o) /\ o[i] = octet
      BY <2>2, <2>3, <3>4
    <3>9. Amount(o)[i + 1] = n \div 128
      BY <1>1, <3>1, <3>2, <3>6, <3>7
    <3>10. Amount(o)[i] = (octet % 128) + 128 * (n \div 128)
      BY <2>5, <3>8, <3>9 DEF Here
    <3>11. octet % 128 = n % 128
      BY <3>3, Quotients
    <3> QED
      BY <2>2, <2>3, <3>10, <3>11, Quotients
  <2> QED
    BY <2>6, <2>7
<1>2. w \in S
  <2> HIDE DEF S
  <2> QED
    BY <1>1, StrongInduction
<1> QED
  BY <1>2

\* encode_int and decode_int are inverse, whatever the prefix leaves room for.
LEMMA IntegersSurvive ==
  ASSUME NEW value \in Nat, NEW bits, PrefixLimit(bits) \in Nat
  PROVE  IntDecode(IntEncode(value, bits), bits) = value
<1> DEFINE limit == PrefixLimit(bits)
           octets == IntEncode(value, bits)
<1>1. IntDecode(octets, bits) = IF octets[1] < limit THEN octets[1] ELSE limit + Amount(octets)[2]
  BY Zenon DEF IntDecode, Amount, Here
<1>2. CASE value < limit
  <2>1. octets = <<value>>
    BY <1>2 DEF IntEncode
  <2> QED
    BY <1>1, <1>2, <2>1
<1>3. CASE ~(value < limit)
  <2>1. value - limit \in Nat
    BY <1>3
  <2>2. octets = <<limit>> \o Octets[value - limit]
    BY <1>3 DEF IntEncode
  <2>3. Octets[value - limit] \in Seq(Nat)
    BY <2>1, OctetsAre
  <2>4. octets[1] = limit
    BY <2>2, <2>3
  <2>5. <<limit>> \in Seq(Nat) /\ Len(<<limit>>) = 1
    OBVIOUS
  <2>6. Amount(octets)[1 + 1] = value - limit
    BY <2>1, <2>2, <2>5, OctetsAmount
  <2> HIDE DEF octets
  <2>7. IntDecode(octets, bits) = limit + (value - limit)
    BY <1>1, <2>4, <2>6
  <2>8. limit + (value - limit) = value
    OBVIOUS
  <2> QED
    BY <2>7, <2>8 DEF octets
<1> QED
  BY <1>2, <1>3

-----------------------------------------------------------------------------
(***************************************************************************)
(* Tables.  The decoder counts an unread string as empty, so that what it  *)
(* keeps is never larger than what the peer keeps, and is evicted no       *)
(* sooner.                                                                 *)
(***************************************************************************)
LEMMA EntrySizes ==
  ASSUME NEW entry \in Entries
  PROVE  EntrySize(entry) \in Nat
<1>1. entry.name \in Names \cup {Unread} /\ entry.text \in Texts \cup {Unread}
  BY DEF Entries
<1>2. Octet(entry.name) \in Nat /\ Octet(entry.text) \in Nat
  BY <1>1, HpackAssumption DEF Octet
<1> QED
  BY <1>2 DEF EntrySize, Overhead

\* The size of a beginning is that of the one before, and of an entry.
Totals(size, table, k) ==
  /\ size \in [0..Len(table) -> Nat] /\ size[0] = 0
  /\ \A n \in 1..k : size[n] = size[n - 1] + EntrySize(table[n])

LEMMA TotalsExist ==
  ASSUME NEW table \in Seq(Entries)
  PROVE  \E size : Totals(size, table, Len(table))
<1> PICK len \in Nat : len = Len(table)
  OBVIOUS
<1> DEFINE S == {k \in Nat : k <= len => \E size : Totals(size, table, k)}
<1>1. 0 \in S
  <2>1. Totals([n \in 0..len |-> 0], table, 0)
    BY DEF Totals
  <2> QED
    BY <2>1
<1>2. ASSUME NEW k \in Nat, k \in S PROVE k + 1 \in S
  <2> SUFFICES ASSUME k + 1 <= len PROVE \E size : Totals(size, table, k + 1)
    OBVIOUS
  <2> PICK size : Totals(size, table, k)
    BY <1>2
  <2>1. size \in [0..len -> Nat] /\ size[0] = 0 /\ \A n \in 1..k : size[n] = size[n - 1] + EntrySize(table[n])
    BY DEF Totals
  <2>2. table[k + 1] \in Entries
    OBVIOUS
  <2> PICK entry \in Nat : entry = EntrySize(table[k + 1])
    BY <2>2, EntrySizes
  <2> PICK total \in Nat : total = size[k] + entry
    BY <2>1
  <2> PICK more : more = [size EXCEPT ![k + 1] = total]
    OBVIOUS
  <2>3. more \in [0..len -> Nat] /\ more[k + 1] = total /\ \A n \in 0..len : n # k + 1 => more[n] = size[n]
    BY <2>1
  <2>4. \A n \in 1..k + 1 : more[n] = more[n - 1] + EntrySize(table[n])
    BY <2>1, <2>3
  <2>5. Totals(more, table, k + 1)
    BY <2>1, <2>3, <2>4 DEF Totals
  <2> QED
    BY <2>5
<1>3. len \in S
  <2> HIDE DEF S
  <2> QED
    BY <1>1, <1>2, SetInduction
<1> QED
  BY <1>3

LEMMA SizesAre ==
  ASSUME NEW table \in Seq(Entries)
  PROVE  Totals(Sizes(table), table, Len(table))
<1> DEFINE Fixed(f) == f = [n \in 0..Len(table) |-> IF n = 0 THEN 0 ELSE f[n - 1] + EntrySize(table[n])]
<1>1. \E f : Fixed(f)
  <2> PICK size : Totals(size, table, Len(table))
    BY TotalsExist
  <2>1. ASSUME NEW n \in 0..Len(table)
        PROVE  size[n] = IF n = 0 THEN 0 ELSE size[n - 1] + EntrySize(table[n])
    BY DEF Totals
  <2>2. size = [n \in 0..Len(table) |-> size[n]]
    BY DEF Totals
  <2> QED
    BY <2>1, <2>2
<1>2. Sizes(table) = CHOOSE f : Fixed(f)
  BY Zenon DEF Sizes
<1> HIDE DEF Fixed
<1>3. Fixed(Sizes(table))
  BY <1>1, <1>2, Zenon
<1> PICK size : size = Sizes(table)
  OBVIOUS
<1> PICK len \in Nat : len = Len(table)
  OBVIOUS
<1>4. size = [n \in 0..len |-> IF n = 0 THEN 0 ELSE size[n - 1] + EntrySize(table[n])]
  BY <1>3 DEF Fixed
<1>5. size[0] = 0 /\ \A n \in 1..len : size[n] = size[n - 1] + EntrySize(table[n])
  BY <1>4
<1> DEFINE S == {n \in Nat : n <= len => size[n] \in Nat}
<1>6. 0 \in S
  BY <1>5
<1>7. ASSUME NEW n \in Nat, n \in S PROVE n + 1 \in S
  <2> SUFFICES ASSUME n + 1 <= len PROVE size[n + 1] \in Nat
    OBVIOUS
  <2>1. table[n + 1] \in Entries
    OBVIOUS
  <2>2. EntrySize(table[n + 1]) \in Nat /\ size[n] \in Nat
    BY <1>7, <2>1, EntrySizes
  <2>3. size[n + 1] = size[n] + EntrySize(table[n + 1])
    BY <1>5
  <2> QED
    BY <2>2, <2>3
<1>8. Nat \subseteq S
  <2> HIDE DEF S
  <2> QED
    BY <1>6, <1>7, SetInduction
<1>9. size \in [0..len -> Nat]
  BY <1>4, <1>8
<1> QED
  BY <1>5, <1>9 DEF Totals

LEMMA NextTotal ==
  ASSUME NEW table \in Seq(Entries), NEW m \in Nat, m + 1 \in 1..Len(table)
  PROVE  /\ Sizes(table)[m] \in Nat
         /\ Sizes(table)[m + 1] = Sizes(table)[m] + EntrySize(table[m + 1])
<1> PICK len \in Nat : len = Len(table)
  OBVIOUS
<1> PICK size : size = Sizes(table)
  OBVIOUS
<1>1. size \in [0..len -> Nat] /\ \A n \in 1..len : size[n] = size[n - 1] + EntrySize(table[n])
  BY SizesAre DEF Totals
<1>2. m \in 0..len /\ m + 1 - 1 = m
  OBVIOUS
<1>3. size[m + 1] = size[m + 1 - 1] + EntrySize(table[m + 1])
  BY <1>1
<1> QED
  BY <1>1, <1>2, <1>3

\* What a table keeps of another: each of its entries, in its place.
Kept(table, kept) ==
  /\ Len(table) <= Len(kept)
  /\ \A i \in DOMAIN table : Survives(table[i], kept[i])

LEMMA KeptIsSmaller ==
  ASSUME NEW table \in Seq(Entries), NEW kept \in Seq(Entries), Kept(table, kept), NEW n \in 0..Len(table)
  PROVE  Sizes(kept)[n] <= Sizes(table)[n]
<1> PICK len \in Nat : len = Len(table)
  OBVIOUS
<1> DEFINE S == {m \in Nat : m <= len => Sizes(kept)[m] <= Sizes(table)[m]}
<1>1. 0 \in S
  BY SizesAre DEF Totals
<1>2. ASSUME NEW m \in Nat, m \in S PROVE m + 1 \in S
  <2> SUFFICES ASSUME m + 1 <= len PROVE Sizes(kept)[m + 1] <= Sizes(table)[m + 1]
    OBVIOUS
  <2>1. m + 1 \in 1..Len(table) /\ m + 1 \in 1..Len(kept)
    BY DEF Kept
  <2> PICK mine \in Entries, yours \in Entries : mine = kept[m + 1] /\ yours = table[m + 1]
    BY <2>1
  <2>2. Survives(yours, mine)
    BY <2>1 DEF Kept
  <2>3. EntrySize(mine) \in Nat /\ EntrySize(yours) \in Nat
    BY EntrySizes
  <2>4. EntrySize(mine) <= EntrySize(yours)
    <3>1. yours.name \in Names \cup {Unread} /\ yours.text \in Texts \cup {Unread}
      BY DEF Entries
    <3>2. Octet(yours.name) \in Nat /\ Octet(yours.text) \in Nat
      BY <3>1, HpackAssumption DEF Octet
    <3>3. Octet(mine.name) \in {Octet(yours.name), 0} /\ Octet(mine.text) \in {Octet(yours.text), 0}
      BY <2>2 DEF Survives, Octet
    <3> QED
      BY <3>2, <3>3 DEF EntrySize, Overhead
  <2>5. /\ Sizes(kept)[m + 1] = Sizes(kept)[m] + EntrySize(mine)
        /\ Sizes(table)[m + 1] = Sizes(table)[m] + EntrySize(yours)
        /\ Sizes(kept)[m] \in Nat /\ Sizes(table)[m] \in Nat
    BY <2>1, NextTotal
  <2>6. Sizes(kept)[m] <= Sizes(table)[m]
    BY <1>2
  <2> QED
    BY <2>3, <2>4, <2>5, <2>6
<1>3. n \in S
  <2> HIDE DEF S
  <2> QED
    BY <1>1, <1>2, SetInduction
<1> QED
  BY <1>3

Fitting(table, limit) == {n \in 0..Len(table) : Sizes(table)[n] <= limit}

LEMMA FittingMost ==
  ASSUME NEW table \in Seq(Entries), NEW limit \in Nat
  PROVE  /\ Max(Fitting(table, limit)) \in Fitting(table, limit)
         /\ \A n \in Fitting(table, limit) : n <= Max(Fitting(table, limit))
<1> PICK len \in Nat : len = Len(table)
  OBVIOUS
<1>1. 0 \in Fitting(table, limit)
  BY SizesAre DEF Totals, Fitting
<1>2. Fitting(table, limit) \subseteq Nat /\ \A n \in Fitting(table, limit) : n <= len
  BY DEF Fitting
<1> QED
  BY <1>1, <1>2, MaxIsGreatest

\* A table at its end is a beginning of what it was.
LEMMA EvictIs ==
  ASSUME NEW table \in Seq(Entries), NEW limit \in Nat
  PROVE  /\ Evict(table, limit) = SubSeq(table, 1, Max(Fitting(table, limit)))
         /\ PeerEvict(table, limit) = SubSeq(table, 1, Max(Fitting(table, limit)))
BY Zenon DEF Evict, PeerEvict, Fitting

\* What was kept is kept when both ends evict.
LEMMA EvictKeeps ==
  ASSUME NEW table \in Seq(Entries), NEW kept \in Seq(Entries), Kept(table, kept), NEW limit \in Nat
  PROVE  /\ Kept(PeerEvict(table, limit), Evict(kept, limit))
         /\ Evict(kept, limit) \in Seq(Entries)
<1> DEFINE fit == Max(Fitting(table, limit))
           most == Max(Fitting(kept, limit))
<1>1. fit \in 0..Len(table) /\ Sizes(table)[fit] <= limit
  BY FittingMost DEF Fitting
<1>2. most \in 0..Len(kept) /\ \A n \in Fitting(kept, limit) : n <= most
  BY FittingMost DEF Fitting
<1>3. fit \in 0..Len(kept)
  BY <1>1 DEF Kept
<1>4. Sizes(kept)[fit] <= Sizes(table)[fit]
  BY <1>1, KeptIsSmaller
<1>5. Sizes(kept)[fit] \in Nat /\ Sizes(table)[fit] \in Nat
  BY <1>1, <1>3, SizesAre DEF Totals
<1>6. Sizes(kept)[fit] <= limit
  BY <1>1, <1>4, <1>5
<1>7. fit <= most
  BY <1>2, <1>3, <1>6 DEF Fitting
<1>8. PeerEvict(table, limit) = SubSeq(table, 1, fit) /\ Evict(kept, limit) = SubSeq(kept, 1, most)
  BY EvictIs
<1> HIDE DEF fit, most
<1>9. Kept(SubSeq(table, 1, fit), SubSeq(kept, 1, most))
  BY <1>1, <1>2, <1>7 DEF Kept
<1>10. SubSeq(kept, 1, most) \in Seq(Entries)
  BY <1>2
<1> QED
  BY <1>8, <1>9, <1>10

LEMMA FieldsAreEntries ==
  ASSUME NEW table \in Seq(Fields)
  PROVE  table \in Seq(Entries)
<1>1. Fields \subseteq Entries
  BY DEF Fields, Entries
<1> QED
  BY <1>1

LEMMA PeerEvictTypes ==
  ASSUME NEW table \in Seq(Fields), NEW limit \in Nat
  PROVE  PeerEvict(table, limit) \in Seq(Fields)
<1>1. table \in Seq(Entries)
  BY FieldsAreEntries
<1> DEFINE fit == Max(Fitting(table, limit))
<1>2. fit \in 0..Len(table)
  BY <1>1, FittingMost DEF Fitting
<1>3. PeerEvict(table, limit) = SubSeq(table, 1, fit)
  BY <1>1, EvictIs
<1> HIDE DEF fit
<1> QED
  BY <1>2, <1>3

LEMMA InsertKeeps ==
  ASSUME NEW table \in Seq(Entries), NEW kept \in Seq(Entries), Kept(table, kept),
         NEW field \in Entries, NEW entry \in Entries, Survives(field, entry), NEW limit \in Nat
  PROVE  /\ Kept(PeerEvict(<<field>> \o table, limit), Insert(kept, entry, limit))
         /\ Insert(kept, entry, limit) \in Seq(Entries)
<1>1. <<field>> \in Seq(Entries) /\ <<entry>> \in Seq(Entries)
  OBVIOUS
<1> PICK longer : longer = <<field>> \o table
  OBVIOUS
<1> PICK mine : mine = <<entry>> \o kept
  OBVIOUS
<1>2. longer \in Seq(Entries) /\ mine \in Seq(Entries)
  BY <1>1
<1>3. Len(longer) <= Len(mine)
  BY <1>1 DEF Kept
<1>4. ASSUME NEW i \in DOMAIN longer
      PROVE  Survives(longer[i], mine[i])
  <2>1. CASE i = 1
    BY <1>1, <2>1
  <2>2. CASE i # 1
    <3>1. i - 1 \in DOMAIN table /\ longer[i] = table[i - 1] /\ mine[i] = kept[i - 1]
      BY <1>1, <1>4, <2>2 DEF Kept
    <3> QED
      BY <3>1 DEF Kept
  <2> QED
    BY <2>1, <2>2
<1>5. Kept(longer, mine)
  BY <1>3, <1>4 DEF Kept
<1>6. Kept(PeerEvict(longer, limit), Evict(mine, limit)) /\ Evict(mine, limit) \in Seq(Entries)
  BY <1>2, <1>5, EvictKeeps
<1> QED
  BY <1>6 DEF Insert

-----------------------------------------------------------------------------
(***************************************************************************)
(* Representations.  A decoder that kept what the peer keeps reads what    *)
(* was sent, and keeps what the peer keeps from then on.                   *)
(***************************************************************************)
InStep(table, limit, kept) ==
  /\ table \in Seq(Fields) /\ kept \in Seq(Entries) /\ limit \in 0..DefaultSize
  /\ Kept(table, kept)

Follows(table, limit, kept, rep) ==
  LET sent == PeerAfter(table, limit, rep)
      read == Decode(kept, limit, rep)
  IN  /\ InStep(sent.table, sent.limit, read.table)
      /\ read.limit = sent.limit
      /\ read.got # Bad
      /\ rep.kind # "update" => Survives(rep.field, read.got)

LEMMA Prefixes ==
  \A bits \in 4..7 : PrefixLimit(bits) \in Nat \ {0}
<1>1. PrefixLimit(4) \in Nat \ {0} /\ PrefixLimit(5) \in Nat \ {0}
  BY DEF PrefixLimit
<1>2. PrefixLimit(6) \in Nat \ {0} /\ PrefixLimit(7) \in Nat \ {0}
  BY DEF PrefixLimit
<1>3. 4..7 = {4, 5, 6, 7}
  OBVIOUS
<1> QED
  BY <1>1, <1>2, <1>3

LEMMA PrefixesSurvive ==
  ASSUME NEW value \in Nat, NEW bits \in 4..7
  PROVE  IntDecode(IntEncode(value, bits), bits) = value
BY Prefixes, IntegersSurvive

LEMMA FollowsFrom ==
  ASSUME NEW table, NEW limit, NEW kept, NEW rep, NEW table2, NEW limit2, NEW kept2, NEW got,
         PeerAfter(table, limit, rep) = [table |-> table2, limit |-> limit2],
         Decode(kept, limit, rep) = [table |-> kept2, limit |-> limit2, got |-> got],
         InStep(table2, limit2, kept2), got # Bad,
         rep.kind # "update" => Survives(rep.field, got)
  PROVE  Follows(table, limit, kept, rep)
<1>1. PeerAfter(table, limit, rep).table = table2 /\ PeerAfter(table, limit, rep).limit = limit2
  OBVIOUS
<1>2. /\ Decode(kept, limit, rep).table = kept2 /\ Decode(kept, limit, rep).limit = limit2
      /\ Decode(kept, limit, rep).got = got
  OBVIOUS
<1> QED
  BY <1>1, <1>2, Zenon DEF Follows

LEMMA LimitsInRange ==
  ASSUME NEW s \in TableSizes
  PROVE  s \in Nat /\ s \in 0..DefaultSize /\ s <= MaxTableSize
<1>1. PICK most \in Nat : most = MaxTableSize
  BY DEF MaxTableSize
<1>2. DefaultSize \in 0..most
  BY <1>1, HpackAssumption
<1>3. s \in 0..DefaultSize
  BY Http2Assumption
<1> QED
  BY <1>1, <1>2, <1>3

\* The index of an entry the peer has is that of an entry the decoder has.
LEMMA LookupFinds ==
  ASSUME NEW table \in Seq(Fields), NEW kept \in Seq(Entries), Kept(table, kept), NEW i \in DOMAIN table,
         NEW bits \in 4..7
  PROVE  LET found == Lookup(kept, IntDecode(IntEncode(Static + i, bits), bits))
         IN  found \in Entries /\ found # Bad /\ Survives(table[i], found)
<1> PICK index \in Nat : index = Static + i
  BY DEF Static
<1>1. index \in Static + 1 .. Static + Len(kept) /\ index - Static = i
  BY DEF Static, Kept
<1>2. IntDecode(IntEncode(index, bits), bits) = index
  BY PrefixesSurvive
<1>3. Lookup(kept, index) = kept[i]
  BY <1>1 DEF Lookup
<1>4. kept[i] \in Entries
  BY DEF Kept
<1>5. kept[i] # Bad
  BY <1>4, HpackAssumption DEF Entries, Bad, Unread
<1>6. Survives(table[i], kept[i])
  BY DEF Kept
<1> QED
  BY <1>2, <1>3, <1>4, <1>5, <1>6

\* And that of a static entry means the same to both.
LEMMA StaticFinds ==
  ASSUME NEW kept \in Seq(Entries), NEW i \in 1..Static
  PROVE  Lookup(kept, i) = StaticTable[i] /\ StaticTable[i] \in Fields /\ StaticTable[i] # Bad
<1>1. StaticTable[i] \in Fields
  BY HpackAssumption DEF Fields
<1>2. StaticTable[i] # Bad
  BY <1>1, HpackAssumption DEF Fields, Bad
<1>3. i \notin Static + 1 .. Static + Len(kept)
  BY DEF Static
<1>4. Lookup(kept, i) = StaticTable[i]
  BY <1>3, Zenon DEF Lookup
<1> QED
  BY <1>1, <1>2, <1>4

LEMMA IndexedFollows ==
  ASSUME NEW table, NEW limit, NEW kept, InStep(table, limit, kept), NEW rep \in Indexed(table)
  PROVE  rep.kind = "indexed" /\ Follows(table, limit, kept, rep)
<1> PICK i \in DOMAIN table : rep = Representation("indexed", IntEncode(Static + i, 7), table[i], FALSE, 0)
  BY DEF Indexed
<1>1. rep.kind = "indexed" /\ rep.index = IntEncode(Static + i, 7) /\ rep.field = table[i]
  BY DEF Representation
<1>2. PICK found : found = Lookup(kept, IntDecode(rep.index, 7))
  OBVIOUS
<1>3. found # Bad /\ Survives(rep.field, found)
  <2>1. 7 \in 4..7
    OBVIOUS
  <2> QED
    BY <1>1, <1>2, <2>1, LookupFinds DEF InStep
<1>4. PeerAfter(table, limit, rep) = [table |-> table, limit |-> limit]
  BY <1>1 DEF PeerAfter
<1>5. Decode(kept, limit, rep) = [table |-> kept, limit |-> limit, got |-> found]
  BY <1>1, <1>2 DEF Decode
<1> QED
  BY <1>1, <1>3, <1>4, <1>5, FollowsFrom

LEMMA UpdateFollows ==
  ASSUME NEW table, NEW limit, NEW kept, InStep(table, limit, kept), NEW rep \in Updates(TableSizes)
  PROVE  rep.kind = "update" /\ Follows(table, limit, kept, rep)
<1> PICK s \in TableSizes : rep = Representation("update", IntEncode(s, 5), NoField, FALSE, s)
  BY DEF Updates
<1>1. rep.kind = "update" /\ rep.index = IntEncode(s, 5) /\ rep.size = s
  BY DEF Representation
<1>2. s \in Nat /\ s \in 0..DefaultSize /\ s <= MaxTableSize
  BY LimitsInRange
<1>3. IntDecode(rep.index, 5) = s
  <2>1. 5 \in 4..7
    OBVIOUS
  <2> QED
    BY <1>1, <1>2, <2>1, PrefixesSurvive
<1>4. (IF s < MaxTableSize THEN s ELSE MaxTableSize) = s
  BY <1>2 DEF MaxTableSize
<1>5. PeerAfter(table, limit, rep) = [table |-> PeerEvict(table, s), limit |-> s]
  BY <1>1 DEF PeerAfter
<1>6. Decode(kept, limit, rep) = [table |-> Evict(kept, s), limit |-> s, got |-> NoField]
  BY <1>1, <1>3, <1>4 DEF Decode
<1>7. Kept(PeerEvict(table, s), Evict(kept, s)) /\ Evict(kept, s) \in Seq(Entries)
  BY <1>2, FieldsAreEntries, EvictKeeps DEF InStep
<1>8. PeerEvict(table, s) \in Seq(Fields)
  BY <1>2, PeerEvictTypes DEF InStep
<1>9. NoField # Bad
  BY DEF NoField, Bad, Unread
<1>10. InStep(PeerEvict(table, s), s, Evict(kept, s))
  BY <1>2, <1>7, <1>8 DEF InStep
<1> QED
  BY <1>1, <1>5, <1>6, <1>9, <1>10, FollowsFrom

\* What Decode makes of a literal.
IndexOf(rep) == IntDecode(rep.index, IF rep.kind = "insert" THEN 6 ELSE 4)

EntryOf(kept, rep) ==
  [name |-> IF IndexOf(rep) = 0 THEN Read(rep.field.name, rep.huffman) ELSE Lookup(kept, IndexOf(rep)).name,
   text |-> Read(rep.field.text, rep.huffman)]

\* Whatever it is named by, once the decoder has the name right.
LEMMA NamedFollows ==
  ASSUME NEW table, NEW limit, NEW kept, InStep(table, limit, kept),
         NEW rep, rep.kind \in {"insert", "literal"}, rep.field \in Fields,
         IndexOf(rep) # 0 => /\ Lookup(kept, IndexOf(rep)) # Bad
                             /\ Lookup(kept, IndexOf(rep)).name \in {rep.field.name, Unread}
  PROVE  Follows(table, limit, kept, rep)
<1> PICK entry : entry = EntryOf(kept, rep)
  OBVIOUS
<1>1. rep.field.name \in Names /\ rep.field.text \in Texts
  BY DEF Fields
<1>2. /\ entry.name \in {rep.field.name, Unread} /\ entry.text \in {rep.field.text, Unread}
      /\ entry = [name |-> entry.name, text |-> entry.text]
  BY DEF Read, EntryOf
<1>3. entry \in Entries /\ Survives(rep.field, entry)
  BY <1>1, <1>2 DEF Entries, Survives
<1>4. entry # Bad
  BY <1>3, HpackAssumption DEF Entries, Bad, Unread
<1>5. CASE rep.kind = "literal"
  <2>1. PeerAfter(table, limit, rep) = [table |-> table, limit |-> limit]
    BY <1>5 DEF PeerAfter
  <2>2. Decode(kept, limit, rep) = [table |-> kept, limit |-> limit, got |-> entry]
    BY <1>5 DEF Decode, IndexOf, EntryOf
  <2> QED
    BY <1>3, <1>4, <2>1, <2>2, FollowsFrom
<1>6. CASE rep.kind = "insert"
  <2> DEFINE sent == PeerEvict(<<rep.field>> \o table, limit)
             read == Insert(kept, entry, limit)
  <2>1. PeerAfter(table, limit, rep) = [table |-> sent, limit |-> limit]
    BY <1>6 DEF PeerAfter
  <2>2. Decode(kept, limit, rep) = [table |-> read, limit |-> limit, got |-> entry]
    BY <1>6 DEF Decode, IndexOf, EntryOf
  <2>3. limit \in Nat
    BY HpackAssumption DEF InStep
  <2>4. table \in Seq(Entries)
    BY FieldsAreEntries DEF InStep
  <2>5. rep.field \in Entries
    BY DEF Fields, Entries
  <2>6. Kept(sent, read) /\ read \in Seq(Entries)
    BY <1>3, <2>3, <2>4, <2>5, InsertKeeps DEF InStep
  <2>7. <<rep.field>> \o table \in Seq(Fields)
    <3>1. <<rep.field>> \in Seq(Fields)
      OBVIOUS
    <3> QED
      BY <3>1 DEF InStep
  <2>8. sent \in Seq(Fields)
    BY <2>3, <2>7, PeerEvictTypes
  <2> HIDE DEF sent, read
  <2>9. InStep(sent, limit, read)
    BY <2>6, <2>8 DEF InStep
  <2> QED
    BY <1>3, <1>4, <2>1, <2>2, <2>9, FollowsFrom
<1> QED
  BY <1>5, <1>6

LEMMA NamedIs ==
  ASSUME NEW index \in Nat, NEW name, NEW rep \in Named(index, name)
  PROVE  /\ rep.kind \in {"insert", "literal"} /\ IndexOf(rep) = index
         /\ \E string \in Texts : rep.field = [name |-> name, text |-> string]
<1> PICK bits : bits = IF rep.kind = "insert" THEN 6 ELSE 4
  OBVIOUS
<1>1. bits \in 4..7 /\ IndexOf(rep) = IntDecode(rep.index, bits)
  BY DEF IndexOf
<1>2. /\ rep.kind \in {"insert", "literal"} /\ rep.index = IntEncode(index, bits)
      /\ \E string \in Texts : rep.field = [name |-> name, text |-> string]
  BY DEF Named, Representation
<1> QED
  BY <1>1, <1>2, PrefixesSurvive

LEMMA LiteralFollows ==
  ASSUME NEW table, NEW limit, NEW kept, InStep(table, limit, kept), NEW rep \in Literals(table)
  PROVE  rep.kind \in {"insert", "literal"} /\ Follows(table, limit, kept, rep)
<1>1. ASSUME NEW name \in Names, rep \in Named(0, name)
      PROVE  rep.kind \in {"insert", "literal"} /\ Follows(table, limit, kept, rep)
  <2> PICK string \in Texts : rep.field = [name |-> name, text |-> string]
    BY <1>1, NamedIs
  <2>1. rep.field \in Fields
    BY DEF Fields
  <2>2. rep.kind \in {"insert", "literal"} /\ IndexOf(rep) = 0
    BY <1>1, NamedIs
  <2> QED
    BY <2>1, <2>2, NamedFollows
<1>2. ASSUME NEW i \in 1..Static, rep \in Named(i, StaticTable[i].name)
      PROVE  rep.kind \in {"insert", "literal"} /\ Follows(table, limit, kept, rep)
  <2>1. i \in Nat
    BY DEF Static
  <2> PICK string \in Texts : rep.field = [name |-> StaticTable[i].name, text |-> string]
    BY <1>2, <2>1, NamedIs
  <2>2. Lookup(kept, i) = StaticTable[i] /\ StaticTable[i] \in Fields /\ StaticTable[i] # Bad
    BY StaticFinds DEF InStep
  <2>3. rep.field \in Fields /\ rep.field.name = StaticTable[i].name
    BY <2>2 DEF Fields
  <2>4. rep.kind \in {"insert", "literal"} /\ IndexOf(rep) = i
    BY <1>2, <2>1, NamedIs
  <2> QED
    BY <2>2, <2>3, <2>4, NamedFollows
<1>3. ASSUME NEW i \in DOMAIN table, rep \in Named(Static + i, table[i].name)
      PROVE  rep.kind \in {"insert", "literal"} /\ Follows(table, limit, kept, rep)
  <2>1. table[i] \in Fields /\ Static + i \in Nat
    BY DEF InStep, Static
  <2> PICK string \in Texts : rep.field = [name |-> table[i].name, text |-> string]
    BY <1>3, <2>1, NamedIs
  <2>2. rep.field \in Fields /\ rep.field.name = table[i].name
    BY <2>1 DEF Fields
  <2>3. rep.kind \in {"insert", "literal"} /\ IndexOf(rep) = Static + i
    BY <1>3, <2>1, NamedIs
  <2>4. Lookup(kept, Static + i) # Bad /\ Survives(table[i], Lookup(kept, Static + i))
    <3>1. 6 \in 4..7 /\ IntDecode(IntEncode(Static + i, 6), 6) = Static + i
      BY <2>1, PrefixesSurvive
    <3> QED
      BY <3>1, LookupFinds DEF InStep
  <2>5. Lookup(kept, Static + i).name \in {rep.field.name, Unread}
    BY <2>2, <2>4 DEF Survives
  <2> QED
    BY <2>2, <2>3, <2>4, <2>5, NamedFollows
<1>4. \/ \E name \in Names : rep \in Named(0, name)
      \/ \E i \in 1..Static : rep \in Named(i, StaticTable[i].name)
      \/ \E i \in DOMAIN table : rep \in Named(Static + i, table[i].name)
  <2>1. rep \in Spelled => \E name \in Names : rep \in Named(0, name)
    BY Zenon DEF Spelled
  <2>2. rep \in NamedInStatic => \E i \in FirstOfName : rep \in Named(i, StaticTable[i].name)
    BY Zenon DEF NamedInStatic
  <2>3. rep \in NamedIn(table) => \E i \in DOMAIN table : rep \in Named(Static + i, table[i].name)
    BY Zenon DEF NamedIn
  <2>4. FirstOfName \subseteq 1..Static
    BY Zenon DEF FirstOfName
  <2>5. rep \in Spelled \/ rep \in NamedInStatic \/ rep \in NamedIn(table)
    BY Zenon DEF Literals
  <2> QED
    BY <2>1, <2>2, <2>3, <2>4, <2>5, Zenon
<1> QED
  BY <1>1, <1>2, <1>3, <1>4

LEMMA RepresentationFollows ==
  ASSUME NEW table, NEW limit, NEW kept, InStep(table, limit, kept),
         NEW rep \in Representations(table, TableSizes)
  PROVE  /\ rep.kind \in {"indexed", "insert", "literal", "update"}
         /\ Follows(table, limit, kept, rep)
BY IndexedFollows, UpdateFollows, LiteralFollows DEF Representations

\* Whatever a decoder takes octets for that were meant otherwise, it stays well-typed.
LEMMA ReadingTypes ==
  ASSUME NEW limit \in 0..DefaultSize, NEW kept \in Seq(Entries), NEW rep \in Updates(TableSizes) \cup Spelled
  PROVE  Decode(kept, limit, rep).table \in Seq(Entries) /\ Decode(kept, limit, rep).limit \in 0..DefaultSize
<1>1. InStep(<<>>, limit, kept)
  BY DEF InStep, Kept
<1>2. rep \in Representations(<<>>, TableSizes)
  BY DEF Representations, Literals
<1>3. Follows(<<>>, limit, kept, rep)
  BY <1>1, <1>2, RepresentationFollows
<1> QED
  BY <1>3 DEF Follows, InStep

-----------------------------------------------------------------------------
(***************************************************************************)
(* The connection.  Between two header blocks the decoder is in step with  *)
(* the peer; while one is on its way, it is in step with the peer as it    *)
(* was.  A peer that pushes is let off, for the promised block goes        *)
(* unread, and so is one that has octets to spare in its HEADERS, for they *)
(* are read.                                                               *)
(***************************************************************************)
Places == {"closed", "settings", "open", "waiting", "raised"}
Kinds == {"quiet", "settings", "control", "headers", "data", "abort"}
BlockKinds == {"static", "indexed", "insert", "literal", "update"}

StreamTypes == [open: BOOLEAN, begun: BOOLEAN, left: 0..MaxBody, window: 0..Window]

Clients ==
  [at: Places, requests: 0..MaxRequests, seen_headers: BOOLEAN,
   frames: 0..FrameLimit - 1, controls: 0..ControlLimit - 1]

ClientTypes == client \in Clients

Peers ==
  [table: Seq(Fields), limit: 0..DefaultSize, window: 0..Window, pushed: BOOLEAN,
   spared: BOOLEAN, streams: [Streams -> StreamTypes]]

PeerTypes == peer \in Peers

WireTypes ==
  /\ wire.kind \in Kinds
  /\ wire.kind \in {"headers", "data"} => wire.stream \in Streams /\ wire.end \in BOOLEAN
  /\ wire.kind = "headers" => wire.block.kind \in BlockKinds /\ wire.spare \in BOOLEAN
  /\ wire.kind = "data" => wire.size \in {0, 1}

DecoderTypes == decoder \in [table: Seq(Entries), limit: 0..DefaultSize]

Types == ClientTypes /\ PeerTypes /\ WireTypes /\ DecoderTypes

OwnFrame == wire.kind \in {"headers", "data"} /\ wire.stream = "own"

\* The response's frames: none but while it is awaited, none after its last, no DATA
\* before its head, and for a DATA frame on its way there is room in both windows.
Served ==
  /\ client.at \in {"closed", "settings", "open"} => ~peer.streams["own"].open /\ ~OwnFrame
  /\ OwnFrame /\ wire.end => ~peer.streams["own"].open
  /\ OwnFrame /\ wire.kind = "data" =>
       /\ peer.streams["own"].begun
       /\ peer.streams["own"].window + wire.size <= Window /\ peer.window + wire.size <= Window
  /\ client.at = "waiting" /\ peer.streams["own"].begun =>
       client.seen_headers \/ (wire.kind = "headers" /\ wire.stream = "own")

Coded == wire.kind = "headers" /\ wire.block.kind # "static"

Aligned == decoder.limit = peer.limit /\ InStep(peer.table, peer.limit, decoder.table)

Pending ==
  \E table, limit :
    /\ InStep(table, limit, decoder.table) /\ decoder.limit = limit
    /\ wire.block \in Representations(table, TableSizes)
    /\ peer.table = PeerAfter(table, limit, wire.block).table
    /\ peer.limit = PeerAfter(table, limit, wire.block).limit

Excused == peer.pushed \/ peer.spared

Understood ==
  /\ Excused => (Coded => wire.block.kind = "indexed")
  /\ ~Excused =>
       /\ wire.kind = "headers" => ~wire.spare
       /\ client.at # "raised" /\ ~peer.streams["push"].open
       /\ wire.kind \in {"headers", "data"} => wire.stream = "own"
       /\ Coded => Pending
       /\ ~Coded => Aligned

Http2Inv == Types /\ Served /\ Understood

LEMMA Limits ==
  /\ Window \in Nat \ {0} /\ FrameLimit \in Nat \ {0} /\ ControlLimit \in Nat \ {0}
  /\ MaxRequests \in Nat \ {0} /\ MaxBody \in Nat /\ DefaultSize \in Nat
<1>1. DefaultSize \in Nat
  <2>1. PICK most \in Nat : most = MaxTableSize
    BY DEF MaxTableSize
  <2>2. DefaultSize \in 0..most
    BY <2>1, HpackAssumption, Zenon
  <2> QED
    BY <2>2
<1> QED
  BY <1>1, Http2Assumption

LEMMA Apart ==
  "own" \in Streams /\ "push" \in Streams /\ "own" # "push"
BY DEF Streams

LEMMA ClosedType ==
  Closed \in Clients
BY Limits DEF Closed, Clients, Places

\* What the ends are when there is no connection.
AtRest == client = Closed /\ decoder = NewDecoder /\ wire = Quiet /\ peer = NewPeer

LEMMA RestIsSound ==
  AtRest => Http2Inv
<1> SUFFICES ASSUME AtRest PROVE Http2Inv
  OBVIOUS
<1>1. ClientTypes
  BY ClosedType DEF AtRest, ClientTypes
<1>2. PeerTypes
  <2>1. NoStream \in StreamTypes
    BY Limits DEF NoStream, StreamTypes
  <2>2. [s \in Streams |-> NoStream] \in [Streams -> StreamTypes]
    BY <2>1
  <2>3. <<>> \in Seq(Fields) /\ DefaultSize \in 0..DefaultSize /\ Window \in 0..Window
    BY Limits
  <2> HIDE DEF StreamTypes
  <2> QED
    BY <2>2, <2>3 DEF AtRest, PeerTypes, Peers, NewPeer
<1>3. WireTypes
  BY DEF AtRest, WireTypes, Quiet, Kinds
<1>4. DecoderTypes
  <2>1. <<>> \in Seq(Entries) /\ DefaultSize \in 0..DefaultSize
    BY Limits
  <2> QED
    BY <2>1 DEF AtRest, DecoderTypes, NewDecoder
<1>5. ~peer.pushed /\ ~peer.spared /\ ~peer.streams["own"].open /\ ~peer.streams["push"].open
  BY Apart DEF AtRest, NewPeer, NoStream
<1>6. wire.kind = "quiet" /\ client.at = "closed"
  BY DEF AtRest, Quiet, Closed
<1>7. Served
  BY <1>5, <1>6 DEF Served, OwnFrame
<1>8. Aligned
  <2>1. <<>> \in Seq(Fields) /\ <<>> \in Seq(Entries) /\ DefaultSize \in 0..DefaultSize
    BY Limits
  <2>2. Kept(<<>>, <<>>)
    BY DEF Kept
  <2>3. /\ decoder.table = <<>> /\ peer.table = <<>>
        /\ decoder.limit = DefaultSize /\ peer.limit = DefaultSize
    BY DEF AtRest, NewDecoder, NewPeer
  <2> QED
    BY <2>1, <2>2, <2>3 DEF Aligned, InStep
<1>9. Understood
  BY <1>5, <1>6, <1>8 DEF Understood, Excused, Coded
<1> QED
  BY <1>1, <1>2, <1>3, <1>4, <1>7, <1>9 DEF Http2Inv, Types

LEMMA CloseIsSound ==
  Close => Http2Inv'
<1>1. Close => AtRest'
  BY DEF Close, AtRest
<1>2. (AtRest => Http2Inv)'
  BY RestIsSound, PTL
<1> QED
  BY <1>1, <1>2

\* What a block leaves the peer with.
EncodesTo(block, spare, table, limit) ==
  /\ Encoded(block) = [peer EXCEPT !.table = table, !.limit = limit]
  /\ block.kind \in BlockKinds
  /\ block.kind = "static" \/ Excused \/ spare => table = peer.table /\ limit = peer.limit
  /\ (Excused \/ spare) /\ block.kind # "static" => block.kind = "indexed"
  /\ ~Excused /\ ~spare /\ block.kind # "static" =>
       /\ block \in Representations(peer.table, TableSizes)
       /\ table = PeerAfter(peer.table, peer.limit, block).table
       /\ limit = PeerAfter(peer.table, peer.limit, block).limit

\* Every block leaves the peer with a table and a limit.
LEMMA EncodedAre ==
  ASSUME Http2Inv, wire = Quiet, NEW spare \in BOOLEAN, NEW block \in Blocks(spare)
  PROVE  \E table \in Seq(Fields), limit \in 0..DefaultSize : EncodesTo(block, spare, table, limit)
<1>0. /\ peer.table \in Seq(Fields) /\ peer.limit \in 0..DefaultSize
      /\ peer = [peer EXCEPT !.table = peer.table, !.limit = peer.limit]
  BY DEF Http2Inv, Types, PeerTypes, Peers
<1>1. CASE block.kind = "static"
  BY <1>0, <1>1 DEF EncodesTo, Encoded, BlockKinds
<1>2. CASE block.kind # "static" /\ (Excused \/ spare)
  <2>1. block \in Indexed(peer.table)
    BY <1>2 DEF Blocks, Excused
  <2>2. block.kind = "indexed"
    BY <2>1 DEF Indexed, Representation
  <2>3. PeerAfter(peer.table, peer.limit, block) = [table |-> peer.table, limit |-> peer.limit]
    BY <2>2 DEF PeerAfter
  <2>4. Encoded(block) = [peer EXCEPT !.table = peer.table, !.limit = peer.limit]
    BY <2>2, <2>3 DEF Encoded
  <2> QED
    BY <1>0, <1>2, <2>2, <2>4 DEF EncodesTo, BlockKinds
<1>3. CASE block.kind # "static" /\ ~Excused /\ ~spare
  <2>1. block \in Representations(peer.table, TableSizes)
    BY <1>3 DEF Blocks, Excused
  <2>2. Aligned
    BY <1>3 DEF Http2Inv, Understood, Coded, Quiet
  <2>3. block.kind \in BlockKinds /\ Follows(peer.table, peer.limit, decoder.table, block)
    BY <2>1, <2>2, RepresentationFollows DEF Aligned, BlockKinds
  <2> PICK after : after = PeerAfter(peer.table, peer.limit, block)
    OBVIOUS
  <2>4. after.table \in Seq(Fields) /\ after.limit \in 0..DefaultSize
    BY <2>3 DEF Follows, InStep
  <2>5. Encoded(block) = [peer EXCEPT !.table = after.table, !.limit = after.limit]
    BY <1>3 DEF Encoded
  <2> QED
    BY <1>3, <2>1, <2>3, <2>4, <2>5 DEF EncodesTo
<1> QED
  BY <1>1, <1>2, <1>3

LEMMA PeerNotes ==
  ASSUME Http2Inv, PeerSettings \/ PeerControl \/ PeerAbort
  PROVE  Http2Inv'
<1>1. wire = Quiet /\ UNCHANGED <<client, decoder, peer>> /\ wire'.kind \in {"settings", "control", "abort"}
  BY DEF PeerSettings, PeerControl, PeerAbort, MaySend
<1>2. wire.kind = "quiet"
  BY <1>1 DEF Quiet
<1>3. Types'
  BY <1>1 DEF Http2Inv, Types, ClientTypes, PeerTypes, Peers, WireTypes, DecoderTypes, Kinds
<1>4. Served'
  BY <1>1, <1>2 DEF Http2Inv, Served, OwnFrame
<1>5. Understood'
  BY <1>1, <1>2 DEF Http2Inv, Understood, Excused, Coded, Aligned
<1> QED
  BY <1>3, <1>4, <1>5 DEF Http2Inv

\* A frame changes what the peer knows of its stream, and of no other.
HeadersOf(old, s, spared, begun, open) ==
  [old EXCEPT !.spared = spared, !.streams[s].begun = begun, !.streams[s].open = open]

DataOf(old, s, window, mine, left, open) ==
  [old EXCEPT !.window = window, !.streams[s].window = mine, !.streams[s].left = left, !.streams[s].open = open]

Others(new, old, s) ==
  /\ new.table = old.table /\ new.limit = old.limit /\ new.pushed = old.pushed
  /\ \A t \in Streams : t # s => new.streams[t] = old.streams[t]

HeadersMarked(new, old, s, spared, begun, open) ==
  /\ Others(new, old, s) /\ new.window = old.window /\ new.spared = spared
  /\ new.streams[s].open = open /\ new.streams[s].begun = begun

DataMarked(new, old, s, window, mine, open) ==
  /\ Others(new, old, s) /\ new.window = window /\ new.spared = old.spared
  /\ new.streams[s].window = mine /\ new.streams[s].open = open
  /\ new.streams[s].begun = old.streams[s].begun

LEMMA HeadersMark ==
  ASSUME NEW old \in Peers, NEW s \in Streams, NEW spared \in BOOLEAN, NEW begun \in BOOLEAN, NEW open \in BOOLEAN
  PROVE  /\ HeadersOf(old, s, spared, begun, open) \in Peers
         /\ HeadersMarked(HeadersOf(old, s, spared, begun, open), old, s, spared, begun, open)
<1> DEFINE new == HeadersOf(old, s, spared, begun, open)
<1>1. PICK one \in StreamTypes : one = [old.streams[s] EXCEPT !.begun = begun, !.open = open]
  BY DEF Peers, StreamTypes
<1>2. one.open = open /\ one.begun = begun
  BY <1>1 DEF Peers, StreamTypes
<1>3. PICK streams \in [Streams -> StreamTypes] : streams = [old.streams EXCEPT ![s] = one]
  BY DEF Peers
<1>4. streams[s] = one /\ \A t \in Streams : t # s => streams[t] = old.streams[t]
  BY <1>3 DEF Peers
<1>5. [old.streams EXCEPT ![s].begun = begun, ![s].open = open] = streams
  BY <1>1, <1>3 DEF Peers
<1>6. new = [old EXCEPT !.spared = spared,
                        !.streams = [old.streams EXCEPT ![s].begun = begun, ![s].open = open]]
  BY DEF HeadersOf, Peers
<1>7. new = [old EXCEPT !.spared = spared, !.streams = streams]
  BY <1>5, <1>6, Zenon
<1> QED
  <2>1. new \in Peers
    BY <1>7 DEF Peers
  <2> QED
    BY <1>2, <1>4, <1>7, <2>1 DEF Peers, Others, HeadersMarked

LEMMA DataMarks ==
  ASSUME NEW old \in Peers, NEW s \in Streams, NEW window \in 0..Window, NEW mine \in 0..Window,
         NEW left \in 0..MaxBody, NEW open \in BOOLEAN
  PROVE  DataOf(old, s, window, mine, left, open) \in Peers /\ DataMarked(DataOf(old, s, window, mine, left, open), old, s, window, mine, open)
<1> DEFINE new == DataOf(old, s, window, mine, left, open)
<1>1. PICK one \in StreamTypes : one = [old.streams[s] EXCEPT !.window = mine, !.left = left, !.open = open]
  BY DEF Peers, StreamTypes
<1>2. one.open = open /\ one.window = mine /\ one.begun = old.streams[s].begun
  BY <1>1 DEF Peers, StreamTypes
<1>3. PICK streams \in [Streams -> StreamTypes] : streams = [old.streams EXCEPT ![s] = one]
  BY DEF Peers
<1>4. streams[s] = one /\ \A t \in Streams : t # s => streams[t] = old.streams[t]
  BY <1>3 DEF Peers
<1>5. [old.streams EXCEPT ![s].window = mine, ![s].left = left, ![s].open = open] = streams
  BY <1>1, <1>3 DEF Peers
<1>6. new = [old EXCEPT !.window = window,
                        !.streams = [old.streams EXCEPT ![s].window = mine, ![s].left = left, ![s].open = open]]
  BY DEF DataOf, Peers
<1>7. new = [old EXCEPT !.window = window, !.streams = streams]
  BY <1>5, <1>6, Zenon
<1> QED
  <2>1. new \in Peers
    BY <1>7 DEF Peers
  <2> QED
    BY <1>2, <1>4, <1>7, <2>1 DEF Peers, Others, DataMarked

LEMMA HeadersSent ==
  ASSUME Http2Inv, NEW s \in Streams, NEW spare \in BOOLEAN, NEW block \in Blocks(spare),
         NEW final \in BOOLEAN, NEW end \in BOOLEAN, PeerHeaders(s, block, final, end, spare)
  PROVE  Http2Inv'
<1>0. wire = Quiet /\ wire.kind = "quiet" /\ client.at \in {"open", "waiting"} /\ UNCHANGED <<client, decoder>>
  BY DEF PeerHeaders, MaySend, Quiet
<1> PICK table \in Seq(Fields), limit \in 0..DefaultSize : EncodesTo(block, spare, table, limit)
  BY <1>0, EncodedAre
<1> USE DEF EncodesTo
<1>1. peer.streams[s].open
  BY DEF PeerHeaders
<1>2. /\ wire'.kind = "headers" /\ wire'.stream = s /\ wire'.block = block
      /\ wire'.end = end /\ wire'.spare = spare
  BY DEF PeerHeaders
<1> PICK begun \in BOOLEAN, open \in BOOLEAN, spared \in BOOLEAN :
      begun = (peer.streams[s].begun \/ final) /\ open = (~end) /\ spared = (peer.spared \/ spare)
  OBVIOUS
<1>3. peer' = HeadersOf(Encoded(block), s, spared, begun, open)
  <2>1. Encoded(block).streams = peer.streams /\ Encoded(block).spared = peer.spared
    BY DEF Http2Inv, Types, PeerTypes, Peers
  <2> QED
    BY <2>1 DEF PeerHeaders, HeadersOf
<1>4. Encoded(block) \in Peers
  BY DEF Http2Inv, Types, PeerTypes, Peers
<1>5. peer' \in Peers /\ HeadersMarked(peer', Encoded(block), s, spared, begun, open)
  BY <1>3, <1>4, HeadersMark, Zenon
<1>6. /\ peer'.table = table /\ peer'.limit = limit /\ peer'.window = peer.window
      /\ peer'.pushed = peer.pushed /\ peer'.spared = spared
  <2>1. /\ Encoded(block).table = table /\ Encoded(block).limit = limit
        /\ Encoded(block).window = peer.window /\ Encoded(block).pushed = peer.pushed
    BY DEF Http2Inv, Types, PeerTypes, Peers
  <2> QED
    BY <1>5, <2>1 DEF HeadersMarked, Others
<1>7. Types'
  BY <1>0, <1>2, <1>5 DEF Http2Inv, Types, PeerTypes, ClientTypes, WireTypes, DecoderTypes, Kinds
<1>8. /\ peer'.streams[s].open = open /\ peer'.streams[s].begun = begun
      /\ \A t \in Streams : t # s => peer'.streams[t] = peer.streams[t]
  <2>1. Encoded(block).streams = peer.streams
    BY DEF Http2Inv, Types, PeerTypes, Peers
  <2> QED
    BY <1>5, <2>1, Zenon DEF HeadersMarked, Others
<1>9. Served'
  <2>1. CASE s = "own"
    BY <1>0, <1>1, <1>2, <1>8, <2>1 DEF Http2Inv, Served, OwnFrame
  <2>2. CASE s # "own"
    BY <1>0, <1>2, <1>8, <2>2, Apart DEF Http2Inv, Served, OwnFrame
  <2> QED
    BY <2>1, <2>2
<1>10. Understood'
  <2>1. CASE Excused \/ spare
    BY <1>2, <1>6, <2>1 DEF Understood, Excused, Coded
  <2>2. CASE ~Excused /\ ~spare
    <3>1. Aligned /\ s = "own" /\ client.at # "raised" /\ ~peer.streams["push"].open
      BY <1>0, <1>1, <2>2 DEF Http2Inv, Understood, Coded, Streams
    <3>2. ~Excused' /\ ~peer'.streams["push"].open
      BY <1>6, <1>8, <2>2, <3>1, Apart DEF Excused
    <3>3. CASE block.kind = "static"
      <4>1. Aligned' /\ ~Coded'
        BY <1>0, <1>2, <1>6, <3>1, <3>3 DEF Aligned, Coded
      <4> QED
        BY <1>0, <1>2, <2>2, <3>1, <3>2, <4>1 DEF Understood
    <3>4. CASE block.kind # "static"
      <4>1. Pending'
        BY <1>0, <1>2, <1>6, <2>2, <3>1, <3>4 DEF Aligned, Pending
      <4>2. Coded'
        BY <1>2, <3>4 DEF Coded
      <4> QED
        BY <1>0, <1>2, <2>2, <3>1, <3>2, <4>1, <4>2 DEF Understood
    <3> QED
      BY <3>3, <3>4
  <2> QED
    BY <2>1, <2>2
<1> QED
  BY <1>7, <1>9, <1>10 DEF Http2Inv

LEMMA DataSent ==
  ASSUME Http2Inv, NEW s \in Streams, NEW size \in {0, 1}, NEW end \in BOOLEAN, PeerData(s, size, end)
  PROVE  Http2Inv'
<1>0. wire = Quiet /\ wire.kind = "quiet" /\ client.at \in {"open", "waiting"} /\ UNCHANGED <<client, decoder>>
  BY DEF PeerData, MaySend, Quiet
<1>1. wire'.kind = "data" /\ wire'.stream = s /\ wire'.end = end /\ wire'.size = size
  BY DEF PeerData
<1>2. peer \in Peers
  BY DEF Http2Inv, Types, PeerTypes, Peers
<1>3. /\ peer.streams[s].open /\ peer.streams[s].begun
      /\ size <= peer.streams[s].left /\ size <= peer.streams[s].window /\ size <= peer.window
  BY DEF PeerData
<1> PICK open \in BOOLEAN : open = (~end)
  OBVIOUS
<1> PICK window \in Nat, mine \in Nat, left \in Nat :
      window = peer.window - size /\ mine = peer.streams[s].window - size /\ left = peer.streams[s].left - size
  BY <1>2, <1>3 DEF Peers, StreamTypes
<1>4. /\ window \in 0..Window /\ mine \in 0..Window /\ left \in 0..MaxBody
      /\ window + size <= Window /\ mine + size <= Window
  <2>1. /\ peer.window \in 0..Window /\ peer.streams[s].window \in 0..Window
        /\ peer.streams[s].left \in 0..MaxBody
    BY <1>2 DEF Peers, StreamTypes
  <2>2. window \in 0..Window /\ window + size <= Window
    BY <1>3, <2>1, Limits
  <2>3. mine \in 0..Window /\ mine + size <= Window
    BY <1>3, <2>1, Limits
  <2>4. left \in 0..MaxBody
    BY <1>3, <2>1, Limits
  <2> QED
    BY <2>2, <2>3, <2>4
<1>5. peer' = DataOf(peer, s, window, mine, left, open)
  BY <1>2 DEF PeerData, DataOf, Peers
<1>6. peer' \in Peers /\ DataMarked(peer', peer, s, window, mine, open)
  BY <1>2, <1>4, <1>5, DataMarks, Zenon
<1>7. /\ peer'.table = peer.table /\ peer'.limit = peer.limit /\ peer'.window = window
      /\ peer'.pushed = peer.pushed /\ peer'.spared = peer.spared
      /\ peer'.streams[s].open = open /\ peer'.streams[s].begun = peer.streams[s].begun
      /\ peer'.streams[s].window = mine
      /\ \A t \in Streams : t # s => peer'.streams[t] = peer.streams[t]
  BY <1>6, Zenon DEF DataMarked, Others
<1>8. Types'
  BY <1>0, <1>1, <1>6 DEF Http2Inv, Types, PeerTypes, ClientTypes, WireTypes, DecoderTypes, Kinds
<1>9. Served'
  <2>1. CASE s = "own"
    BY <1>0, <1>1, <1>3, <1>4, <1>7, <2>1 DEF Http2Inv, Served, OwnFrame
  <2>2. CASE s # "own"
    BY <1>0, <1>1, <1>7, <2>2, Apart DEF Http2Inv, Served, OwnFrame
  <2> QED
    BY <2>1, <2>2
<1>10. Understood'
  <2>1. ~Coded /\ ~Coded'
    BY <1>0, <1>1 DEF Coded
  <2>2. CASE Excused
    BY <1>7, <2>1, <2>2 DEF Understood, Excused
  <2>3. CASE ~Excused
    <3>1. Aligned /\ s = "own" /\ client.at # "raised" /\ ~peer.streams["push"].open
      BY <1>3, <2>1, <2>3 DEF Http2Inv, Understood, Streams
    <3>2. Aligned' /\ ~peer'.streams["push"].open
      BY <1>0, <1>7, <3>1, Apart DEF Aligned
    <3> QED
      BY <1>0, <1>1, <1>7, <2>1, <3>1, <3>2 DEF Understood, Excused
  <2> QED
    BY <2>2, <2>3
<1> QED
  BY <1>8, <1>9, <1>10 DEF Http2Inv

LEMMA PushSent ==
  ASSUME Http2Inv, NEW block \in Blocks(FALSE), PeerPush(block)
  PROVE  Http2Inv'
<1>0. /\ wire = Quiet /\ wire.kind = "quiet" /\ client.at \in {"open", "waiting"} /\ UNCHANGED <<client, decoder>>
      /\ wire'.kind = "control"
  BY DEF PeerPush, MaySend, Quiet
<1> PICK table \in Seq(Fields), limit \in 0..DefaultSize :
      Encoded(block) = [peer EXCEPT !.table = table, !.limit = limit]
  <2>1. \E table \in Seq(Fields), limit \in 0..DefaultSize : EncodesTo(block, FALSE, table, limit)
    BY <1>0, EncodedAre, Zenon
  <2> QED
    BY <2>1, Zenon DEF EncodesTo
<1> PICK left \in 0..MaxBody :
      peer' = [Encoded(block) EXCEPT !.pushed = TRUE, !.streams["push"] = NewStream(left)]
  BY DEF PeerPush
<1>1. NewStream(left) \in StreamTypes
  BY Limits DEF NewStream, StreamTypes
<1>2. peer \in Peers
  BY DEF Http2Inv, Types, PeerTypes, Peers
<1>3. PeerTypes'
  BY <1>1, <1>2 DEF PeerTypes, Peers
<1>4. peer'.pushed /\ peer'.streams["own"] = peer.streams["own"] /\ peer'.window = peer.window
  BY <1>2, Apart
<1>5. Types'
  BY <1>0, <1>3 DEF Http2Inv, Types, ClientTypes, WireTypes, DecoderTypes, Kinds
<1>6. Served'
  BY <1>0, <1>4 DEF Http2Inv, Served, OwnFrame
<1>7. Understood'
  BY <1>0, <1>4 DEF Understood, Excused, Coded
<1> QED
  BY <1>5, <1>6, <1>7 DEF Http2Inv

LEMMA ConnectIsSound ==
  ASSUME Http2Inv, Connect
  PROVE  Http2Inv'
<1>1. client' = [Closed EXCEPT !.at = "settings"] /\ client.at = "closed" /\ UNCHANGED <<decoder, wire, peer>>
  BY DEF Connect
<1>2. ClientTypes' /\ client'.at = "settings"
  <2>1. Closed \in Clients /\ "settings" \in Places
    BY ClosedType DEF Places
  <2> QED
    BY <1>1, <2>1 DEF ClientTypes, Clients
<1>3. Types'
  BY <1>1, <1>2 DEF Http2Inv, Types, PeerTypes, Peers, WireTypes, DecoderTypes
<1>4. Served'
  BY <1>1, <1>2 DEF Http2Inv, Served, OwnFrame
<1>5. Understood'
  BY <1>1, <1>2 DEF Http2Inv, Understood, Excused, Coded, Aligned, Pending
<1> QED
  BY <1>3, <1>4, <1>5 DEF Http2Inv

LEMMA RequestIsSound ==
  ASSUME Http2Inv, FirstRequest \/ NextRequest
  PROVE  Http2Inv'
<1>1. /\ client.at \in {"settings", "open"} /\ Request /\ decoder' = decoder
      /\ wire' = wire \/ (wire.kind = "settings" /\ wire' = Quiet)
  BY DEF FirstRequest, NextRequest, Request
<1> PICK left \in 0..MaxBody : peer' = [peer EXCEPT !.streams["own"] = NewStream(left)]
  BY <1>1 DEF Request
<1>2. ClientTypes' /\ client'.at = "waiting"
  <2>1. client.requests + 1 \in 0..MaxRequests
    BY <1>1, Limits DEF Request, Http2Inv, Types, ClientTypes, Clients
  <2>2. client' = [Closed EXCEPT !.at = "waiting", !.requests = client.requests + 1]
    BY <1>1 DEF Request
  <2>3. Closed \in Clients /\ "waiting" \in Places
    BY ClosedType DEF Places
  <2> QED
    BY <2>1, <2>2, <2>3 DEF ClientTypes, Clients
<1>3. NewStream(left) \in StreamTypes /\ ~NewStream(left).begun
  BY Limits DEF NewStream, StreamTypes
<1>4. peer \in Peers
  BY DEF Http2Inv, Types, PeerTypes, Peers
<1>5. PeerTypes'
  BY <1>3, <1>4 DEF PeerTypes, Peers
<1>6. /\ ~peer'.streams["own"].begun /\ peer'.streams["push"] = peer.streams["push"]
      /\ peer'.table = peer.table /\ peer'.limit = peer.limit
      /\ peer'.pushed = peer.pushed /\ peer'.spared = peer.spared
  BY <1>3, <1>4, Apart DEF Peers
<1>7. Types'
  BY <1>1, <1>2, <1>5 DEF Http2Inv, Types, WireTypes, DecoderTypes, Quiet, Kinds
<1>8. ~OwnFrame /\ ~OwnFrame'
  BY <1>1 DEF Http2Inv, Served, OwnFrame, Quiet
<1>9. Served'
  BY <1>2, <1>6, <1>8 DEF Served
<1>10. Understood'
  <2>1. CASE wire' = wire
    BY <1>1, <1>2, <1>6, <2>1 DEF Http2Inv, Understood, Excused, Coded, Aligned, Pending
  <2>2. CASE wire.kind = "settings" /\ wire' = Quiet
    BY <1>1, <1>2, <1>6, <2>2 DEF Http2Inv, Understood, Excused, Coded, Aligned, Quiet
  <2> QED
    BY <1>1, <2>1, <2>2
<1> QED
  BY <1>7, <1>9, <1>10 DEF Http2Inv

LEMMA ControlRead ==
  ASSUME Http2Inv, ReadControl
  PROVE  Http2Inv'
<1>1. /\ client.at = "waiting" /\ wire.kind = "control" /\ wire' = Quiet /\ wire'.kind = "quiet"
      /\ client' = [client EXCEPT !.controls = @ + 1] /\ client.controls + 1 < ControlLimit
      /\ UNCHANGED <<decoder, peer>>
  BY DEF ReadControl, Arrived, Quiet
<1>2. ClientTypes'
  <2>1. client.controls + 1 \in 0..ControlLimit - 1
    BY <1>1, Limits DEF Http2Inv, Types, ClientTypes, Clients
  <2> QED
    BY <1>1, <2>1 DEF Http2Inv, Types, ClientTypes, Clients
<1>3. client'.at = "waiting" /\ client'.seen_headers = client.seen_headers
  BY <1>1 DEF Http2Inv, Types, ClientTypes, Clients
<1>4. Types'
  BY <1>1, <1>2 DEF Http2Inv, Types, PeerTypes, Peers, WireTypes, DecoderTypes, Kinds
<1>5. Served'
  BY <1>1, <1>3 DEF Http2Inv, Served, OwnFrame
<1>6. Understood'
  BY <1>1, <1>3 DEF Http2Inv, Understood, Excused, Coded, Aligned
<1> QED
  BY <1>4, <1>5, <1>6 DEF Http2Inv

\* A frame of the response, counted or the last.
LEMMA AfterIs ==
  ASSUME Http2Inv, client.at = "waiting", OwnFrame, MayGoOn, NEW after, after = After(wire)
  PROVE  /\ after \in Clients /\ after.at \in {"open", "waiting"}
         /\ after.at = "open" => wire.end
         /\ after.at = "waiting" /\ (client.seen_headers \/ wire.kind = "headers") => after.seen_headers
<1> PICK seen \in BOOLEAN : seen = (client.seen_headers \/ wire.kind = "headers")
  OBVIOUS
<1>0. client \in Clients
  BY DEF Http2Inv, Types, ClientTypes
<1>1. CASE wire.end /\ seen
  <2>1. after = [client EXCEPT !.at = "open", !.seen_headers = FALSE, !.frames = 0, !.controls = 0]
    BY <1>1, Zenon DEF After
  <2>2. 0 \in 0..FrameLimit - 1 /\ 0 \in 0..ControlLimit - 1 /\ "open" \in Places
    BY Limits DEF Places
  <2>3. after \in Clients
    BY <1>0, <2>1, <2>2 DEF Clients
  <2>4. after.at = "open"
    BY <1>0, <2>1 DEF Clients
  <2> QED
    BY <1>1, <2>3, <2>4
<1>2. CASE ~(wire.end /\ seen)
  <2>1. after = [client EXCEPT !.seen_headers = seen, !.frames = client.frames + 1, !.controls = 0]
    BY <1>2 DEF After
  <2>2. seen
    BY DEF Http2Inv, Served, OwnFrame
  <2>3. client.frames + 1 \in 0..FrameLimit - 1 /\ 0 \in 0..ControlLimit - 1
    BY <1>0, <1>2, <2>2, Limits DEF MayGoOn, Clients
  <2>4. after \in Clients
    BY <1>0, <2>1, <2>3 DEF Clients
  <2>5. after.at = "waiting" /\ after.seen_headers = seen
    BY <1>0, <2>1 DEF Clients
  <2> QED
    BY <2>2, <2>4, <2>5
<1> QED
  BY <1>1, <1>2

LEMMA HeadersRead ==
  ASSUME Http2Inv, ReadHeaders
  PROVE  Http2Inv'
<1>1. /\ client.at = "waiting" /\ wire.kind = "headers" /\ wire.stream = "own" /\ MayGoOn
      /\ wire' = Quiet /\ wire'.kind = "quiet" /\ peer' = peer
  BY DEF ReadHeaders, Arrived, Quiet
<1>2. OwnFrame
  BY <1>1 DEF OwnFrame
<1> PICK after : after = After(wire)
  OBVIOUS
<1>3. /\ after \in Clients /\ after.at \in {"open", "waiting"}
      /\ after.at = "open" => wire.end
      /\ after.at = "waiting" => after.seen_headers
  BY <1>1, <1>2, AfterIs
<1>4. ~Coded' /\ ~OwnFrame' /\ wire'.kind \notin {"headers", "data"}
  BY <1>1 DEF Coded, OwnFrame
<1>5. /\ ClientTypes /\ PeerTypes' /\ WireTypes'
      /\ peer'.pushed = peer.pushed /\ peer'.spared = peer.spared
  BY <1>1 DEF Http2Inv, Types, PeerTypes, Peers, WireTypes, Kinds
<1>6. after.at = "open" => ~peer'.streams["own"].open
  BY <1>1, <1>2, <1>3 DEF Http2Inv, Served
<1> PICK read \in Readings :
      /\ decoder' = [table |-> read.table, limit |-> read.limit]
      /\ client' = IF read.got = Bad THEN [client EXCEPT !.at = "raised"] ELSE after
  BY DEF ReadHeaders
<1>7. decoder'.table = read.table /\ decoder'.limit = read.limit
  OBVIOUS
<1>8. decoder.table \in Seq(Entries) /\ decoder.limit \in 0..DefaultSize
  BY DEF Http2Inv, Types, DecoderTypes
<1>9. CASE Excused
  <2>1. read.table \in Seq(Entries) /\ read.limit \in 0..DefaultSize
    <3> DEFINE untouched == [table |-> decoder.table, limit |-> decoder.limit, got |-> NoField]
    <3>1. CASE wire.spare
      <4>1. CASE read \in {untouched, [untouched EXCEPT !.got = Bad]}
        BY <1>8, <4>1
      <4>2. ASSUME NEW rep \in Updates(TableSizes) \cup Spelled, read = Decode(decoder.table, decoder.limit, rep)
            PROVE  read.table \in Seq(Entries) /\ read.limit \in 0..DefaultSize
        BY <1>8, <4>2, ReadingTypes
      <4> QED
        BY <3>1, <4>1, <4>2 DEF Readings
    <3>2. CASE ~wire.spare /\ wire.block.kind = "static"
      BY <1>8, <3>2 DEF Readings
    <3>3. CASE ~wire.spare /\ wire.block.kind # "static"
      <4>1. wire.block.kind = "indexed"
        BY <1>1, <1>9, <3>3 DEF Http2Inv, Understood, Coded
      <4>2. read = Decode(decoder.table, decoder.limit, wire.block)
        BY <3>3 DEF Readings
      <4>3. read.table = decoder.table /\ read.limit = decoder.limit
        BY <4>1, <4>2 DEF Decode
      <4> QED
        BY <1>8, <4>3
    <3> QED
      BY <3>1, <3>2, <3>3
  <2>2. DecoderTypes'
    BY <2>1 DEF DecoderTypes
  <2>3. /\ client' \in Clients /\ client'.at \in {"open", "waiting", "raised"}
        /\ client'.at = "open" => ~peer'.streams["own"].open
        /\ client'.at = "waiting" => client'.seen_headers
    <3>1. CASE read.got = Bad
      BY <1>5, <3>1 DEF ClientTypes, Clients, Places
    <3>2. CASE read.got # Bad
      BY <1>3, <1>6, <3>2
    <3> QED
      BY <3>1, <3>2
  <2>4. Types' /\ Served'
    BY <1>4, <1>5, <2>2, <2>3 DEF Types, ClientTypes, Served
  <2>5. Understood'
    BY <1>4, <1>5, <1>9 DEF Understood, Excused
  <2> QED
    BY <2>4, <2>5 DEF Http2Inv
<1>10. CASE ~Excused
  <2>1. ~wire.spare
    BY <1>1, <1>10 DEF Http2Inv, Understood
  <2>2. InStep(peer.table, peer.limit, read.table) /\ read.limit = peer.limit /\ read.got # Bad
    <3>1. CASE wire.block.kind = "static"
      <4>1. read = [table |-> decoder.table, limit |-> decoder.limit, got |-> NoField]
        BY <2>1, <3>1 DEF Readings
      <4>2. Aligned
        BY <1>10, <3>1 DEF Http2Inv, Understood, Coded
      <4> QED
        BY <4>1, <4>2 DEF Aligned, NoField, Bad, Unread
    <3>2. CASE wire.block.kind # "static"
      <4>1. read = Decode(decoder.table, decoder.limit, wire.block)
        BY <2>1, <3>2 DEF Readings
      <4> PICK table, limit :
            /\ InStep(table, limit, decoder.table) /\ decoder.limit = limit
            /\ wire.block \in Representations(table, TableSizes)
            /\ peer.table = PeerAfter(table, limit, wire.block).table
            /\ peer.limit = PeerAfter(table, limit, wire.block).limit
        BY <1>1, <1>10, <3>2 DEF Http2Inv, Understood, Pending, Coded
      <4>2. Follows(table, limit, decoder.table, wire.block)
        BY RepresentationFollows
      <4> QED
        BY <4>1, <4>2 DEF Follows
    <3> QED
      BY <3>1, <3>2
  <2>3. client' = after
    BY <2>2
  <2>4. Aligned'
    BY <1>1, <1>7, <2>2 DEF Aligned
  <2>5. DecoderTypes'
    BY <2>2 DEF DecoderTypes, InStep
  <2>6. Types' /\ Served'
    BY <1>3, <1>4, <1>5, <1>6, <2>3, <2>5 DEF Types, ClientTypes, Served
  <2>7. Understood'
    BY <1>1, <1>3, <1>4, <1>10, <2>3, <2>4 DEF Http2Inv, Understood, Excused
  <2> QED
    BY <2>6, <2>7 DEF Http2Inv
<1> QED
  BY <1>9, <1>10

LEMMA DataRead ==
  ASSUME Http2Inv, ReadData
  PROVE  Http2Inv'
<1>1. /\ client.at = "waiting" /\ wire.kind = "data" /\ wire.stream = "own" /\ MayGoOn
      /\ wire' = Quiet /\ wire'.kind = "quiet" /\ decoder' = decoder
      /\ client' = After(wire) /\ peer' = Credited("own")
  BY DEF ReadData, Arrived, Quiet
<1>2. OwnFrame
  BY <1>1 DEF OwnFrame
<1> PICK size \in {0, 1} : size = wire.size
  BY <1>1 DEF Http2Inv, Types, WireTypes
<1>3. client.seen_headers /\ peer.streams["own"].window + size <= Window /\ peer.window + size <= Window
  BY <1>1, <1>2 DEF Http2Inv, Served
<1>4. /\ client' \in Clients /\ client'.at \in {"open", "waiting"}
      /\ client'.at = "open" => wire.end
      /\ client'.at = "waiting" => client'.seen_headers
  BY <1>1, <1>2, <1>3, AfterIs
<1>5. peer \in Peers
  BY DEF Http2Inv, Types, PeerTypes, Peers
<1>6. peer.streams["own"] \in StreamTypes
  BY <1>5, Apart DEF Peers
<1>7. peer.window + size \in 0..Window /\ peer.streams["own"].window + size \in 0..Window
  <2> PICK whole \in 0..Window, mine \in 0..Window : whole = peer.window /\ mine = peer.streams["own"].window
    BY <1>5, <1>6 DEF Peers, StreamTypes
  <2>1. whole + size <= Window /\ mine + size <= Window
    BY <1>3
  <2>2. whole + size \in 0..Window /\ mine + size \in 0..Window
    BY <2>1, Limits
  <2> QED
    BY <2>2
<1> PICK own : own = [peer.streams["own"] EXCEPT !.window = peer.streams["own"].window + size]
  OBVIOUS
<1>8. own \in StreamTypes /\ own.open = peer.streams["own"].open /\ own.begun = peer.streams["own"].begun
  BY <1>6, <1>7 DEF StreamTypes
<1>9. peer' = [peer EXCEPT !.window = peer.window + size, !.streams = [peer.streams EXCEPT !["own"] = own]]
  BY <1>1, <1>5 DEF Credited, Peers
<1>10. PeerTypes'
  BY <1>5, <1>7, <1>8, <1>9 DEF PeerTypes, Peers
<1>11. /\ peer'.table = peer.table /\ peer'.limit = peer.limit
       /\ peer'.pushed = peer.pushed /\ peer'.spared = peer.spared
       /\ peer'.streams["own"] = own /\ peer'.streams["push"] = peer.streams["push"]
  BY <1>5, <1>9, Apart DEF Peers
<1>12. ~Coded /\ ~Coded' /\ ~OwnFrame' /\ wire'.kind \notin {"headers", "data"}
  BY <1>1 DEF Coded, OwnFrame
<1>13. Types'
  BY <1>1, <1>4, <1>10 DEF Http2Inv, Types, ClientTypes, WireTypes, DecoderTypes, Kinds
<1>14. Served'
  BY <1>2, <1>4, <1>8, <1>11, <1>12 DEF Http2Inv, Served
<1>15. Understood'
  BY <1>1, <1>4, <1>11, <1>12 DEF Http2Inv, Understood, Excused, Aligned
<1> QED
  BY <1>13, <1>14, <1>15 DEF Http2Inv

LEMMA OtherRead ==
  ASSUME Http2Inv, ReadOther
  PROVE  Http2Inv'
<1>1. /\ client.at = "waiting" /\ wire.kind \in {"headers", "data"} /\ wire.stream # "own"
      /\ client.frames + 1 < FrameLimit
      /\ wire' = Quiet /\ wire'.kind = "quiet" /\ UNCHANGED <<decoder, peer>>
      /\ client' = [client EXCEPT !.frames = client.frames + 1, !.controls = 0]
  BY DEF ReadOther, Arrived, Quiet
<1>2. client \in Clients
  BY DEF Http2Inv, Types, ClientTypes
<1>3. client' \in Clients /\ client'.at = "waiting" /\ client'.seen_headers = client.seen_headers
  <2>1. client.frames + 1 \in 0..FrameLimit - 1 /\ 0 \in 0..ControlLimit - 1
    BY <1>1, <1>2, Limits DEF Clients
  <2> QED
    BY <1>1, <1>2, <2>1 DEF Clients
<1>4. Types'
  BY <1>1, <1>3 DEF Http2Inv, Types, ClientTypes, PeerTypes, Peers, WireTypes, DecoderTypes, Kinds
<1>5. Served'
  BY <1>1, <1>3 DEF Http2Inv, Served, OwnFrame
<1>6. Understood'
  BY <1>1 DEF Http2Inv, Understood, Excused, Coded
<1> QED
  BY <1>4, <1>5, <1>6 DEF Http2Inv

LEMMA Http2Starts ==
  Http2Init => Http2Inv
BY RestIsSound DEF Http2Init, AtRest

LEMMA Http2Stays ==
  Http2Inv /\ [Http2Next]_http2vars => Http2Inv'
<1> SUFFICES ASSUME Http2Inv, [Http2Next]_http2vars PROVE Http2Inv'
  OBVIOUS
<1>1. CASE UNCHANGED http2vars
  BY <1>1 DEF http2vars, Http2Inv, Types, ClientTypes, PeerTypes, Peers, WireTypes, DecoderTypes,
              Served, OwnFrame, Understood, Excused, Coded, Aligned, Pending
<1>2. CASE PeerSettings \/ PeerControl \/ PeerAbort
  BY <1>2, PeerNotes
<1>3. CASE PeerResponds
  BY <1>3, HeadersSent, DataSent, Apart DEF PeerResponds
<1>4. CASE PeerPushes
  BY <1>4, PushSent, HeadersSent, DataSent, Apart DEF PeerPushes
<1>5. CASE Connect \/ NextRequest \/ FirstRequest
  BY <1>5, ConnectIsSound, RequestIsSound
<1>6. CASE ReadControl \/ ReadHeaders \/ ReadData \/ ReadOther
  BY <1>6, ControlRead, HeadersRead, DataRead, OtherRead
<1>7. CASE GiveUp \/ Done \/ Timeout
  BY <1>7, CloseIsSound DEF GiveUp, Done, Timeout
<1> QED
  BY <1>1, <1>2, <1>3, <1>4, <1>5, <1>6, <1>7 DEF Http2Next, ReadFrame

LEMMA Http2Sound ==
  Http2Spec => []Http2Inv
BY Http2Starts, Http2Stays, PTL DEF Http2Spec

\* hpack.py keeps unread strings in its table "so subsequent indices stay in sync": a
\* field on its way is read as it was sent, or not at all, whatever either end has
\* evicted, for every table, limit, length and index (_lookup, _add, _evict, decode),
\* short of a push or of HEADERS that are padded or prioritised.
THEOREM FieldsAreRead ==
  Http2Spec => []FieldsSurvive
<1>1. Http2Inv => FieldsSurvive
  <2> SUFFICES ASSUME Http2Inv, ~peer.pushed, ~peer.spared, wire.kind = "headers", wire.block.kind \in {"indexed", "insert", "literal"}
               PROVE  Survives(wire.block.field, Decode(decoder.table, decoder.limit, wire.block).got)
    BY DEF FieldsSurvive
  <2>1. PICK table, limit : /\ InStep(table, limit, decoder.table) /\ decoder.limit = limit
                            /\ wire.block \in Representations(table, TableSizes)
    BY DEF Http2Inv, Understood, Excused, Coded, Pending
  <2>2. Follows(table, limit, decoder.table, wire.block)
    BY <2>1, RepresentationFollows
  <2> QED
    BY <2>1, <2>2 DEF Follows
<1> QED
  BY Http2Sound, <1>1, PTL

\* Both ends evict by their own count of the octets; the decoder's, which takes an
\* unread string for none, never makes it drop what the peer still refers to.  Pushes
\* and HEADERS with octets to spare are excepted as before.
THEOREM TablesStayInStep ==
  Http2Spec => []PeerTableKept
<1>1. Http2Inv => PeerTableKept
  BY DEF Http2Inv, Understood, Excused, Coded, Aligned, InStep, Kept, PeerTableKept
<1> QED
  BY Http2Sound, <1>1, PTL

\* An HpackError escapes the probe and costs the player the rungs still to be tried.
\* However the two tables diverge in what they count and evict, that causes none: only
\* a service that has pushed, or sent HEADERS that were padded or had a priority, can.
THEOREM NoErrorUncaused ==
  Http2Spec => []RaisedForCause
<1>1. Http2Inv => RaisedForCause
  BY DEF Http2Inv, Understood, Excused, RaisedForCause
<1> QED
  BY Http2Sound, <1>1, PTL

LEMMA Http2Types ==
  Http2Inv => Http2TypeOK
BY DEF Http2Inv, Types, ClientTypes, Clients, Places, PeerTypes, Peers, StreamTypes, WireTypes, Kinds, DecoderTypes, Http2TypeOK

-----------------------------------------------------------------------------
(***************************************************************************)
(* The two clients side by side.  One of them rests while the other works, *)
(* and what holds of each holds of both.                                   *)
(***************************************************************************)
LEMMA ProbersSound ==
  ProberSpec => [](Http1Inv /\ Http2Inv)
<1>1. ProberInit => Http1Inv /\ Http2Inv
  BY Http1Starts, Http2Starts DEF ProberInit
<1>2. Http1Inv /\ Http2Inv /\ [ProberNext]_probervars => (Http1Inv /\ Http2Inv)'
  <2> SUFFICES ASSUME Http1Inv, Http2Inv, [ProberNext]_probervars
               PROVE  Http1Inv' /\ Http2Inv'
    OBVIOUS
  <2>1. [Http1Next]_http1vars /\ [Http2Next]_http2vars
    BY DEF ProberNext, probervars, http1vars, http2vars
  <2> QED
    BY <2>1, Http1Stays, Http2Stays
<1> QED
  BY <1>1, <1>2, PTL DEF ProberSpec

\* Whichever version is probed, both clients, their connections and what the services
\* send stay within their types and limits.
THEOREM ProbersWellTyped ==
  ProberSpec => []ProberTypeOK
<1>1. Http1Inv /\ Http2Inv => ProberTypeOK
  BY Http1Types, Http2Types DEF ProberTypeOK
<1> QED
  BY ProbersSound, <1>1, PTL
=============================================================================
