------------------------- MODULE GiuInterim_proofs -------------------------
(***************************************************************************)
(* For every number of queues on either side (of the guest, in the         *)
(* direction "in", as many as the arrays of giu_gpio_post_gie have entries *)
(* for: ArraysFit), every length of the rings and every mix of packets:    *)
(* what one queue sends to another arrives complete and in order, whether  *)
(* the descriptors of a packet go together or not, and, where the guest    *)
(* has one queue, descriptors are given back only when they are consumed   *)
(* and packets whose descriptors have one hash stay whole.                 *)
(*                                                                         *)
(* A flow (Flow) is what one source sends to one destination and is not    *)
(* taken yet.  A pass moves the middle of it from the source ring to the   *)
(* destination ring; that it never changes is shown of the sequence, by    *)
(* facts about the elements of a sequence that have a value in a field     *)
(* (Those).  One source: the copies are at consecutive indices, and those  *)
(* the GIE has not consumed are the last ones (Placed), so none of them is *)
(* retired; a head that is sent without its rest stays the last descriptor *)
(* of the source ring (HeadsOut).                                          *)
(***************************************************************************)
EXTENDS GiuInterim, SequenceTheorems, WellFoundedInduction, TLAPS

-----------------------------------------------------------------------------
(* Sets of natural numbers.  The library states induction for a predicate, *)
(* which no prover here can instantiate.                                   *)

Less == {x \in Nat \X Nat : x[1] < x[2]}

LEMMA LessWellFounded == IsWellFoundedOn(Less, Nat)
<1>1. IsWellFoundedOn(OpToRel(<, Nat), Nat)
  BY NatLessThanWellFounded, Zenon
<1>2. OpToRel(<, Nat) = {ss \in Nat \X Nat : ss[1] < ss[2]}
  BY DEF OpToRel
<1> QED
  BY <1>1, <1>2 DEF Less

\* A set of natural numbers that is not empty has a least element.
LEMMA NatMin ==
  ASSUME NEW S \in SUBSET Nat, S # {}
  PROVE  \E x \in S : \A y \in S : x <= y
<1>1. \E x \in S : \A y \in S : ~ (<<y, x>> \in Less)
  BY LessWellFounded, WFMin, Zenon
<1>2. ASSUME NEW x \in Nat, NEW y \in Nat, ~ (<<y, x>> \in Less)
      PROVE  x <= y
  BY <1>2 DEF Less
<1> QED
  BY <1>1, <1>2

\* Induction, for the set of the numbers something holds of.
LEMMA NatInduct ==
  ASSUME NEW S \in SUBSET Nat, 0 \in S, \A n \in S : n + 1 \in S
  PROVE  S = Nat
<1> DEFINE T == Nat \ S
<1>1. SUFFICES ASSUME T # {} PROVE FALSE
  OBVIOUS
<1>2. PICK x \in T : \A y \in T : x <= y
  <2> HIDE DEF T
  <2>1. T \in SUBSET Nat
    BY DEF T
  <2> QED BY <1>1, <2>1, NatMin
<1>3. x \in Nat /\ x # 0 /\ x - 1 \in Nat
  BY <1>2
<1>4. x - 1 \in S
  BY <1>2, <1>3
<1>5. (x - 1) + 1 \in S
  BY <1>4
<1> QED
  BY <1>3, <1>5, <1>2

-----------------------------------------------------------------------------
(* Remainders. *)

\* What is a multiple of L and less than L is 0.
LEMMA SmallMultiple ==
  ASSUME NEW L \in Nat \ {0}, NEW k \in Int, NEW d \in Int, d = k * L, d < L, -L < d
  PROVE  k = 0 /\ d = 0
<1>1. k >= 1 => k * L >= L
  BY SMTT(30)
<1>2. k <= -1 => k * L <= -L
  BY SMTT(30)
<1> QED BY <1>1, <1>2

\* A number is its remainder and a multiple.
LEMMA ModRange ==
  ASSUME NEW L \in Nat \ {0}, NEW x \in Nat
  PROVE  x % L \in 0 .. L - 1 /\ \E k \in Nat : x = k * L + (x % L)
<1>1. x % L \in 0 .. L - 1
  BY SMTT(30)
<1>2. x = (x \div L) * L + (x % L) /\ x \div L \in Nat
  BY SMTT(30)
<1> QED BY <1>1, <1>2

\* Only the remainder is left when a multiple is taken away.
LEMMA ModUnique ==
  ASSUME NEW L \in Nat \ {0}, NEW x \in Nat, NEW r \in 0 .. L - 1, NEW k \in Int, x = k * L + r
  PROVE  x % L = r
<1>1. PICK m \in Nat : x = m * L + (x % L)
  BY ModRange
<1> DEFINE s == x % L
<1>2. s \in 0 .. L - 1
  BY ModRange
<1> HIDE DEF s
<1>3. (m - k) * L = r - s
  <2>1. m * L \in Int /\ k * L \in Int /\ (m - k) * L = m * L - k * L
    OBVIOUS
  <2> QED BY <1>1, <1>2, <2>1 DEF s
<1>4. r - s = 0
  BY <1>2, <1>3, SmallMultiple
<1> QED BY <1>2, <1>4 DEF s

LEMMA SmallMod ==
  ASSUME NEW L \in Nat \ {0}, NEW r \in 0 .. L - 1
  PROVE  r % L = r
<1> DEFINE k == 0
<1>1. k \in Int /\ r = k * L + r /\ r \in Nat
  OBVIOUS
<1> HIDE DEF k
<1> QED BY <1>1, ModUnique

\* A remainder may be advanced instead of the number.
LEMMA AddMod ==
  ASSUME NEW L \in Nat \ {0}, NEW x \in Nat, NEW n \in Nat
  PROVE  ((x % L) + n) % L = (x + n) % L
<1>1. PICK k \in Nat : x = k * L + (x % L)
  BY ModRange
<1> DEFINE r == x % L
<1>2. r \in 0 .. L - 1
  BY ModRange
<1> HIDE DEF r
<1> DEFINE z == r + n
<1> DEFINE t == z % L
<1>z. z \in Nat
  BY <1>2
<1>3. PICK m \in Nat : z = m * L + t
  <2> HIDE DEF z
  <2> QED BY <1>z, ModRange
<1>4. t \in 0 .. L - 1
  <2> HIDE DEF z
  <2> QED BY <1>z, ModRange
<1> HIDE DEF t
<1>5. x + n = (k + m) * L + t /\ k + m \in Int
  <2>1. k * L \in Int /\ m * L \in Int /\ (k + m) * L = k * L + m * L
    OBVIOUS
  <2> QED BY <1>1, <1>2, <1>3, <1>4, <2>1 DEF r, z
<1> DEFINE w == x + n
<1> DEFINE km == k + m
<1>6. w % L = t
  <2>1. w \in Nat /\ km \in Int /\ w = km * L + t
    BY <1>5
  <2> HIDE DEF w, km
  <2> QED BY <1>4, <2>1, ModUnique
<1>7. (r + n) % L = t
  BY DEF t, z
<1> QED BY <1>6, <1>7 DEF r

-----------------------------------------------------------------------------
(* The elements of a sequence with a value in a field. *)

Choice(f, s, k, v) == IF s[k] = v THEN Append(f, s) ELSE f
PickOne(f, s, k, v, i) == IF i = 0 THEN <<>> ELSE Choice(f[i - 1], s[i], k, v)

LEMMA PickRec ==
  ASSUME NEW s, NEW k, NEW v, NEW n \in Nat
  PROVE  \E f : f = [i \in 0 .. n |-> PickOne(f, s, k, v, i)]
<1> DEFINE Has(m) == \E f : f = [i \in 0 .. m |-> PickOne(f, s, k, v, i)]
<1> DEFINE S == {m \in Nat : Has(m)}
<1>1. 0 \in S
  <2> DEFINE f == [i \in 0 .. 0 |-> <<>>]
  <2>1. \A i \in 0 .. 0 : f[i] = PickOne(f, s, k, v, i)
    BY DEF PickOne
  <2>2. f = [i \in 0 .. 0 |-> PickOne(f, s, k, v, i)]
    BY <2>1
  <2> HIDE DEF f
  <2> QED BY <2>2
<1>2. ASSUME NEW m \in S PROVE m + 1 \in S
  <2>1. PICK f : f = [i \in 0 .. m |-> PickOne(f, s, k, v, i)]
    BY <1>2
  <2> DEFINE next == Choice(f[m], s[m + 1], k, v)
             g == [i \in 0 .. m + 1 |-> IF i <= m THEN f[i] ELSE next]
  <2>2. \A i \in 0 .. m + 1 : g[i] = PickOne(g, s, k, v, i)
    <3> TAKE i \in 0 .. m + 1
    <3>1. CASE i = 0
      <4>1. g[i] = f[i] /\ f[i] = PickOne(f, s, k, v, i)
        BY <2>1, <3>1
      <4> HIDE DEF g
      <4> QED BY <3>1, <4>1 DEF PickOne
    <3>2. CASE i # 0 /\ i <= m
      <4>1. g[i] = f[i] /\ g[i - 1] = f[i - 1] /\ i \in 0 .. m
        BY <3>2
      <4>2. f[i] = PickOne(f, s, k, v, i)
        BY <2>1, <4>1
      <4> HIDE DEF g
      <4> QED BY <3>2, <4>1, <4>2 DEF PickOne
    <3>3. CASE i = m + 1
      <4>1. g[i] = next /\ g[i - 1] = f[m] /\ i # 0
        BY <3>3
      <4> HIDE DEF g
      <4> QED BY <3>3, <4>1 DEF PickOne
    <3> QED BY <3>1, <3>2, <3>3
  <2>3. g = [i \in 0 .. m + 1 |-> PickOne(g, s, k, v, i)]
    BY <2>2
  <2> HIDE DEF g
  <2> QED BY <2>3, <1>2
<1> HIDE DEF Has
<1>3. S = Nat
  <2> HIDE DEF S
  <2>1. S \in SUBSET Nat
    BY DEF S
  <2> QED BY <1>1, <1>2, <2>1, NatInduct
<1>4. Has(n)
  BY <1>3
<1> QED BY <1>4 DEF Has

\* The equation of the recursive function.
LEMMA ThoseSteps ==
  ASSUME NEW s, Len(s) \in Nat, NEW k, NEW v
  PROVE  \E f : /\ f[0] = <<>> /\ Those(s, k, v) = f[Len(s)]
                /\ \A i \in 1 .. Len(s) : f[i] = Choice(f[i - 1], s[i], k, v)
<1> DEFINE n == Len(s)
           f == CHOOSE f : f = [i \in 0 .. n |-> IF i = 0 THEN <<>>
                                ELSE IF s[i][k] = v THEN Append(f[i - 1], s[i])
                                ELSE f[i - 1]]
<1>1. f = [i \in 0 .. n |-> IF i = 0 THEN <<>>
                                ELSE IF s[i][k] = v THEN Append(f[i - 1], s[i])
                                ELSE f[i - 1]]
  <2> HIDE DEF n
  <2>1. \E g : g = [i \in 0 .. n |-> PickOne(g, s, k, v, i)]
    BY PickRec DEF n
  <2>2. \E g : g = [i \in 0 .. n |-> IF i = 0 THEN <<>>
                                ELSE IF s[i][k] = v THEN Append(g[i - 1], s[i])
                                ELSE g[i - 1]]
    BY <2>1, Zenon DEF PickOne, Choice
  <2> QED BY <2>2, Zenon
<1>2. Those(s, k, v) = f[n]
  BY Zenon DEF Those
<1> HIDE DEF f
<1>3. f[0] = <<>> /\ \A i \in 1 .. n : f[i] = Choice(f[i - 1], s[i], k, v)
  <2> HIDE DEF n
  <2>1. n \in Nat /\ 0 \in 0 .. n
    BY DEF n
  <2>2. f[0] = <<>>
    BY <1>1, <2>1
  <2>3. ASSUME NEW i \in 1 .. n PROVE f[i] = Choice(f[i - 1], s[i], k, v)
    <3>1. i \in 0 .. n /\ i # 0
      BY <2>1
    <3> QED BY <1>1, <3>1 DEF Choice
  <2> QED BY <2>2, <2>3
<1> QED BY <1>2, <1>3

LEMMA ThoseEmpty ==
  ASSUME NEW k, NEW v
  PROVE  Those(<<>>, k, v) = <<>>
BY ThoseSteps

LEMMA ThoseAppend ==
  ASSUME NEW S, NEW s \in Seq(S), NEW e \in S, NEW k, NEW v
  PROVE  Those(Append(s, e), k, v) = Choice(Those(s, k, v), e, k, v)
<1> DEFINE t == Append(s, e)
           n == Len(s)
<1>1. n \in Nat /\ Len(t) = n + 1 /\ t[n + 1] = e /\ \A i \in 1 .. n : t[i] = s[i]
  OBVIOUS
<1> HIDE DEF t, n
<1>2. PICK f : /\ f[0] = <<>> /\ Those(s, k, v) = f[n]
               /\ \A i \in 1 .. n : f[i] = Choice(f[i - 1], s[i], k, v)
  BY <1>1, ThoseSteps DEF n
<1>3. PICK g : /\ g[0] = <<>> /\ Those(t, k, v) = g[n + 1]
               /\ \A i \in 1 .. n + 1 : g[i] = Choice(g[i - 1], t[i], k, v)
  BY <1>1, ThoseSteps
<1> DEFINE A == {i \in Nat : i <= n => g[i] = f[i]}
<1>4. A = Nat
  <2>1. 0 \in A
    BY <1>2, <1>3
  <2>2. ASSUME NEW i \in A PROVE i + 1 \in A
    <3>1. SUFFICES ASSUME i + 1 <= n PROVE g[i + 1] = f[i + 1]
      OBVIOUS
    <3>2. i \in Nat /\ g[i] = f[i] /\ i + 1 \in 1 .. n /\ i + 1 \in 1 .. n + 1 /\ (i + 1) - 1 = i
      BY <1>1, <3>1
    <3>3. f[i + 1] = Choice(f[(i + 1) - 1], s[i + 1], k, v)
      BY <1>2, <3>2
    <3>4. g[i + 1] = Choice(g[(i + 1) - 1], t[i + 1], k, v)
      BY <1>3, <3>2
    <3> QED BY <1>1, <3>2, <3>3, <3>4
  <2>3. A \in SUBSET Nat
    OBVIOUS
  <2> HIDE DEF A
  <2> QED BY <2>1, <2>2, <2>3, NatInduct
<1>5. g[n] = f[n]
  BY <1>1, <1>4
<1>6. g[n + 1] = Choice(g[n], e, k, v)
  <2>1. n + 1 \in 1 .. n + 1 /\ (n + 1) - 1 = n
    BY <1>1
  <2> QED BY <1>1, <1>3, <2>1
<1> QED BY <1>2, <1>3, <1>5, <1>6 DEF t

\* Induction, for a set of sequences.
LEMMA SeqInduct ==
  ASSUME NEW S, NEW A, A \subseteq Seq(S), <<>> \in A, \A s \in A : \A e \in S : Append(s, e) \in A
  PROVE  A = Seq(S)
<1> DEFINE B == {n \in Nat : \A s \in Seq(S) : Len(s) = n => s \in A}
<1>1. 0 \in B
  <2>1. ASSUME NEW s \in Seq(S), Len(s) = 0 PROVE s \in A
    <3>1. s = <<>>
      BY <2>1
    <3> QED BY <3>1
  <2> QED BY <2>1
<1>2. ASSUME NEW n \in B PROVE n + 1 \in B
  <2>1. ASSUME NEW s \in Seq(S), Len(s) = n + 1 PROVE s \in A
    <3> DEFINE r == SubSeq(s, 1, n)
               e == s[n + 1]
    <3>1. n \in Nat /\ n + 1 \in 1 .. Len(s)
      BY <2>1
    <3>2. e \in S
      BY <2>1, <3>1
    <3>3. r \in Seq(S) /\ Len(r) = n
      BY <2>1, <3>1
    <3>4. s = Append(r, e)
      <4>1. Append(r, e) \in Seq(S) /\ Len(Append(r, e)) = n + 1
        <5> HIDE DEF r, e
        <5> QED BY ONLY <3>1, <3>2, <3>3
      <4>2. \A i \in 1 .. n : r[i] = s[i]
        BY <2>1, <3>1
      <4>3. \A i \in 1 .. n + 1 : Append(r, e)[i] = s[i]
        <5>1. e = s[n + 1]
          OBVIOUS
        <5> HIDE DEF r, e
        <5> QED BY ONLY <3>1, <3>2, <3>3, <4>2, <5>1
      <4> HIDE DEF r, e
      <4> QED BY <2>1, <4>1, <4>3, SeqEqual
    <3>5. r \in A
      <4> HIDE DEF r
      <4> QED BY <3>3
    <3> HIDE DEF r, e
    <3> QED BY <3>2, <3>4, <3>5
  <2> QED BY <2>1
<1>3. B = Nat
  <2>1. B \in SUBSET Nat
    OBVIOUS
  <2> HIDE DEF B
  <2> QED BY <1>1, <1>2, <2>1, NatInduct
<1>4. ASSUME NEW s \in Seq(S) PROVE s \in A
  <2>1. Len(s) \in B
    BY <1>3
  <2> QED BY <2>1
<1> QED BY <1>4

LEMMA ThoseTyped ==
  ASSUME NEW S, NEW s \in Seq(S), NEW k, NEW v
  PROVE  /\ Those(s, k, v) \in Seq(S) /\ Len(Those(s, k, v)) <= Len(s)
         /\ \A i \in 1 .. Len(Those(s, k, v)) : \E j \in 1 .. Len(s) : Those(s, k, v)[i] = s[j] /\ s[j][k] = v
<1> DEFINE Fine(x, y) == /\ y \in Seq(S) /\ Len(y) <= Len(x)
                         /\ \A i \in 1 .. Len(y) : \E j \in 1 .. Len(x) : y[i] = x[j] /\ x[j][k] = v
           A == {x \in Seq(S) : Fine(x, Those(x, k, v))}
<1>1. <<>> \in A
  <2>1. <<>> \in Seq(S) /\ Fine(<<>>, <<>>)
    OBVIOUS
  <2>2. Those(<<>>, k, v) = <<>>
    BY ThoseEmpty
  <2> HIDE DEF Fine
  <2> QED BY <2>1, <2>2
<1>2. ASSUME NEW x \in A, NEW e \in S PROVE Append(x, e) \in A
  <2> DEFINE y == Those(x, k, v)
             z == Those(Append(x, e), k, v)
  <2>1. x \in Seq(S) /\ Fine(x, y)
    OBVIOUS
  <2>2. z = Choice(y, e, k, v)
    BY <2>1, ThoseAppend
  <2> HIDE DEF y, z
  <2>3. Append(x, e) \in Seq(S) /\ Len(Append(x, e)) = Len(x) + 1 /\ Append(x, e)[Len(x) + 1] = e
        /\ Len(x) \in Nat /\ \A j \in 1 .. Len(x) : Append(x, e)[j] = x[j]
    BY <2>1
  <2>4. CASE e[k] = v
    <3>1. z = Append(y, e)
      BY <2>2, <2>4 DEF Choice
    <3>2. z \in Seq(S) /\ Len(z) = Len(y) + 1 /\ Len(z) <= Len(x) + 1
      BY <2>1, <2>3, <3>1
    <3>3. ASSUME NEW i \in 1 .. Len(z)
          PROVE  \E j \in 1 .. Len(x) + 1 : z[i] = Append(x, e)[j] /\ Append(x, e)[j][k] = v
      <4>1. CASE i = Len(y) + 1
        <5>1. z[i] = e
          BY <2>1, <3>1, <4>1
        <5>2. Len(x) + 1 \in 1 .. Len(x) + 1
          BY <2>3
        <5> QED BY <2>3, <2>4, <5>1, <5>2
      <4>2. CASE i \in 1 .. Len(y)
        <5>1. z[i] = y[i]
          BY <2>1, <3>1, <4>2
        <5>2. PICK j \in 1 .. Len(x) : y[i] = x[j] /\ x[j][k] = v
          BY <2>1, <4>2
        <5>3. j \in 1 .. Len(x) + 1 /\ Append(x, e)[j] = x[j]
          BY <2>3
        <5> QED BY <5>1, <5>2, <5>3
      <4>3. i = Len(y) + 1 \/ i \in 1 .. Len(y)
        <5>1. Len(y) \in Nat
          BY <2>1
        <5> QED BY ONLY <5>1, <3>2, i \in 1 .. Len(z)
      <4> QED BY <4>1, <4>2, <4>3
    <3> QED BY <2>3, <3>2, <3>3 DEF z
  <2>5. CASE e[k] # v
    <3>1. z = y
      BY <2>2, <2>5 DEF Choice
    <3>2. ASSUME NEW i \in 1 .. Len(z)
          PROVE  \E j \in 1 .. Len(x) + 1 : z[i] = Append(x, e)[j] /\ Append(x, e)[j][k] = v
      <4>1. PICK j \in 1 .. Len(x) : y[i] = x[j] /\ x[j][k] = v
        BY <2>1, <3>1
      <4>2. j \in 1 .. Len(x) + 1 /\ Append(x, e)[j] = x[j]
        BY <2>3
      <4> QED BY <3>1, <4>1, <4>2
    <3>3. z \in Seq(S) /\ Len(z) <= Len(x) + 1
      BY <2>1, <2>3, <3>1
    <3> QED BY <2>3, <3>2, <3>3 DEF z
  <2> QED BY <2>4, <2>5
<1>3. A = Seq(S)
  <2>1. A \subseteq Seq(S)
    OBVIOUS
  <2> HIDE DEF A
  <2> QED BY <1>1, <1>2, <2>1, SeqInduct
<1> QED BY <1>3

LEMMA ThoseJoin ==
  ASSUME NEW S, NEW s \in Seq(S), NEW t \in Seq(S), NEW k, NEW v
  PROVE  Those(s \o t, k, v) = Those(s, k, v) \o Those(t, k, v)
<1> DEFINE Y(x) == Those(x, k, v)
           A == {x \in Seq(S) : Y(s \o x) = Y(s) \o Y(x)}
<1>0. \A x \in Seq(S) : Y(x) \in Seq(S)
  BY ThoseTyped
<1>1. <<>> \in A
  <2>1. Y(<<>>) = <<>>
    BY ThoseEmpty
  <2>2. Y(s) \in Seq(S)
    BY <1>0
  <2> HIDE DEF Y
  <2>3. s \o <<>> = s /\ Y(s) \o <<>> = Y(s)
    BY <2>2
  <2>4. Y(s \o <<>>) = Y(s) /\ Y(s) \o Y(<<>>) = Y(s)
    BY <2>1, <2>3, Zenon
  <2>5. <<>> \in Seq(S) /\ Y(s \o <<>>) = Y(s) \o Y(<<>>)
    BY <2>4
  <2> QED BY <2>5
<1>2. ASSUME NEW x \in A, NEW e \in S PROVE Append(x, e) \in A
  <2>1. x \in Seq(S) /\ s \o x \in Seq(S) /\ Append(x, e) \in Seq(S) /\ s \o Append(x, e) = Append(s \o x, e)
    OBVIOUS
  <2>2. Y(Append(x, e)) = Choice(Y(x), e, k, v) /\ Y(Append(s \o x, e)) = Choice(Y(s \o x), e, k, v)
    <3>1. Y(Append(x, e)) = Choice(Y(x), e, k, v)
      BY <2>1, ThoseAppend
    <3> DEFINE w == s \o x
    <3>2. w \in Seq(S)
      BY <2>1
    <3> HIDE DEF w
    <3>3. Y(Append(w, e)) = Choice(Y(w), e, k, v)
      BY <3>2, ThoseAppend
    <3> QED BY <3>1, <3>3 DEF w
  <2>3. Y(s \o x) = Y(s) \o Y(x) /\ Y(s) \in Seq(S) /\ Y(x) \in Seq(S)
    BY <1>0, <2>1
  <2> HIDE DEF Y
  <2>4. Append(Y(s) \o Y(x), e) = Y(s) \o Append(Y(x), e)
    <3> DEFINE a == Y(s)
               b == Y(x)
    <3>1. a \in Seq(S) /\ b \in Seq(S)
      BY <2>3
    <3> HIDE DEF a, b
    <3>2. Append(a \o b, e) = a \o Append(b, e)
      <4>1. Append(a \o b, e) \in Seq(S) /\ Len(Append(a \o b, e)) = Len(a) + Len(b) + 1
        BY ONLY <3>1, e \in S
      <4>2. a \o Append(b, e) \in Seq(S) /\ Len(a \o Append(b, e)) = Len(a) + Len(b) + 1
        BY ONLY <3>1, e \in S
      <4>3. \A i \in 1 .. Len(a) + Len(b) + 1 : Append(a \o b, e)[i] = (a \o Append(b, e))[i]
        BY ONLY <3>1, e \in S
      <4> QED BY ONLY <4>1, <4>2, <4>3, SeqEqual
    <3> QED BY <3>2 DEF a, b
  <2>5. Y(s \o Append(x, e)) = Y(s) \o Y(Append(x, e))
    BY <2>1, <2>2, <2>3, <2>4 DEF Choice
  <2> QED BY <2>1, <2>5
<1>3. A = Seq(S)
  <2>1. A \subseteq Seq(S)
    OBVIOUS
  <2> HIDE DEF A
  <2> QED BY <1>1, <1>2, <2>1, SeqInduct
<1> QED BY <1>3

\* Where all elements have the value, or none.
LEMMA ThoseAll ==
  ASSUME NEW S, NEW s \in Seq(S), NEW k, NEW v, \A j \in 1 .. Len(s) : s[j][k] = v
  PROVE  Those(s, k, v) = s
<1> DEFINE A == {x \in Seq(S) : (\A j \in 1 .. Len(x) : x[j][k] = v) => Those(x, k, v) = x}
<1>1. <<>> \in A
  BY ThoseEmpty
<1>2. ASSUME NEW x \in A, NEW e \in S PROVE Append(x, e) \in A
  <2>1. x \in Seq(S) /\ Append(x, e) \in Seq(S) /\ Len(Append(x, e)) = Len(x) + 1 /\ Len(x) \in Nat
        /\ Append(x, e)[Len(x) + 1] = e /\ \A j \in 1 .. Len(x) : Append(x, e)[j] = x[j]
    OBVIOUS
  <2>2. ASSUME \A j \in 1 .. Len(x) + 1 : Append(x, e)[j][k] = v
        PROVE  Those(Append(x, e), k, v) = Append(x, e)
    <3>1. e[k] = v /\ \A j \in 1 .. Len(x) : x[j][k] = v
      <4>1. Len(x) + 1 \in 1 .. Len(x) + 1 /\ \A j \in 1 .. Len(x) : j \in 1 .. Len(x) + 1
        BY <2>1
      <4>2. ASSUME NEW j \in 1 .. Len(x) PROVE x[j][k] = v
        BY <2>1, <2>2, <4>1
      <4> QED BY <2>1, <2>2, <4>1, <4>2
    <3>2. Those(x, k, v) = x
      BY <3>1, x \in A
    <3>3. Those(Append(x, e), k, v) = Choice(Those(x, k, v), e, k, v)
      BY <2>1, ThoseAppend
    <3> QED BY <3>1, <3>2, <3>3 DEF Choice
  <2> QED BY <2>1, <2>2
<1>3. A = Seq(S)
  <2>1. A \subseteq Seq(S)
    OBVIOUS
  <2> HIDE DEF A
  <2> QED BY <1>1, <1>2, <2>1, SeqInduct
<1> QED BY <1>3

LEMMA ThoseNone ==
  ASSUME NEW S, NEW s \in Seq(S), NEW k, NEW v, \A j \in 1 .. Len(s) : s[j][k] # v
  PROVE  Those(s, k, v) = <<>>
<1> DEFINE y == Those(s, k, v)
<1>1. y \in Seq(S) /\ \A i \in 1 .. Len(y) : \E j \in 1 .. Len(s) : y[i] = s[j] /\ s[j][k] = v
  BY ThoseTyped
<1> HIDE DEF y
<1>2. Len(y) = 0
  <2>1. SUFFICES ASSUME Len(y) # 0 PROVE FALSE
    OBVIOUS
  <2>2. 1 \in 1 .. Len(y)
    BY <1>1, <2>1
  <2> QED BY <1>1, <2>2
<1>3. y = <<>>
  BY <1>1, <1>2
<1> QED BY <1>3 DEF y

\* A sequence from its first elements and the rest.
LEMMA Parts ==
  ASSUME NEW S, NEW s \in Seq(S), NEW m \in 0 .. Len(s)
  PROVE  /\ SubSeq(s, 1, m) \in Seq(S) /\ Len(SubSeq(s, 1, m)) = m
         /\ SubSeq(s, m + 1, Len(s)) \in Seq(S) /\ Len(SubSeq(s, m + 1, Len(s))) = Len(s) - m
         /\ \A i \in 1 .. m : SubSeq(s, 1, m)[i] = s[i]
         /\ \A i \in 1 .. Len(s) - m : SubSeq(s, m + 1, Len(s))[i] = s[m + i]
         /\ s = SubSeq(s, 1, m) \o SubSeq(s, m + 1, Len(s))
<1> DEFINE a == SubSeq(s, 1, m)
           b == SubSeq(s, m + 1, Len(s))
<1>1. a \in Seq(S) /\ Len(a) = m /\ \A i \in 1 .. m : a[i] = s[i]
  OBVIOUS
<1>2. b \in Seq(S) /\ Len(b) = Len(s) - m /\ \A i \in 1 .. Len(s) - m : b[i] = s[m + i]
  OBVIOUS
<1> HIDE DEF a, b
<1>3. a \o b \in Seq(S) /\ Len(a \o b) = Len(s) /\ m \in Nat /\ Len(s) \in Nat
  <2>1. m \in Nat /\ Len(s) \in Nat /\ m <= Len(s)
    OBVIOUS
  <2> QED BY ONLY <1>1, <1>2, <2>1
<1>4. \A i \in 1 .. Len(s) : (a \o b)[i] = s[i]
  <2> TAKE i \in 1 .. Len(s)
  <2>1. CASE i <= m
    BY <1>1, <1>2, <2>1
  <2>2. CASE i > m
    <3>1. (a \o b)[i] = b[i - m]
      BY <1>1, <1>2, <2>2
    <3>2. i - m \in 1 .. Len(s) - m /\ m + (i - m) = i
      BY <1>3, <2>2
    <3> QED BY <1>2, <3>1, <3>2
  <2> QED BY <1>3, <2>1, <2>2
<1>5. s = a \o b
  BY ONLY <1>3, <1>4, s \in Seq(S), SeqEqual
<1> QED BY <1>1, <1>2, <1>5 DEF a, b

LEMMA PrefixStep ==
  ASSUME NEW S, NEW s \in Seq(S), NEW m \in 1 .. Len(s)
  PROVE  SubSeq(s, 1, m) = Append(SubSeq(s, 1, m - 1), s[m])
<1> DEFINE a == SubSeq(s, 1, m)
           b == SubSeq(s, 1, m - 1)
           e == s[m]
<1>1. m - 1 \in 0 .. Len(s) /\ m \in 0 .. Len(s) /\ m \in Nat /\ e \in S
  OBVIOUS
<1>2. a \in Seq(S) /\ Len(a) = m /\ \A i \in 1 .. m : a[i] = s[i]
  BY <1>1, Parts
<1>3. b \in Seq(S) /\ Len(b) = m - 1 /\ \A i \in 1 .. m - 1 : b[i] = s[i]
  BY <1>1, Parts
<1>4. e = s[m]
  OBVIOUS
<1> HIDE DEF a, b, e
<1>5. Append(b, e) \in Seq(S) /\ Len(Append(b, e)) = m /\ \A i \in 1 .. m : Append(b, e)[i] = s[i]
  BY ONLY <1>1, <1>3, <1>4
<1>6. a = Append(b, e)
  BY ONLY <1>2, <1>5, SeqEqual
<1> QED BY <1>6 DEF a, b, e

\* Sequences with the elements in question in the same places.
SameAt(s, t, k, v, l, w) == Len(t) = Len(s) /\ \A j \in 1 .. Len(s) : s[j][k] = v <=> t[j][l] = w

LEMMA ThoseAlong ==
  ASSUME NEW S, NEW T, NEW s \in Seq(S), NEW t \in Seq(T), NEW k, NEW v, NEW l, NEW w,
         SameAt(s, t, k, v, l, w)
  PROVE  /\ Len(Those(t, l, w)) = Len(Those(s, k, v))
         /\ \A i \in 1 .. Len(Those(s, k, v)) : \E p \in 1 .. Len(s) :
              /\ s[p][k] = v /\ Those(s, k, v)[i] = s[p] /\ Those(t, l, w)[i] = t[p]
              /\ Len(Those(SubSeq(s, 1, p - 1), k, v)) = i - 1
<1> DEFINE Y(n) == Those(SubSeq(s, 1, n), k, v)
           Z(n) == Those(SubSeq(t, 1, n), l, w)
           Goal(n) == /\ Len(Z(n)) = Len(Y(n))
                      /\ \A i \in 1 .. Len(Y(n)) : \E p \in 1 .. n :
                           /\ s[p][k] = v /\ Y(n)[i] = s[p] /\ Z(n)[i] = t[p] /\ Len(Y(p - 1)) = i - 1
           A == {n \in Nat : n <= Len(s) => Goal(n)}
<1>0. Len(t) = Len(s) /\ \A j \in 1 .. Len(s) : s[j][k] = v <=> t[j][l] = w
  BY DEF SameAt
<1> USE <1>0
<1>1. \A n \in 0 .. Len(s) : Y(n) \in Seq(S) /\ Z(n) \in Seq(T)
  <2> TAKE n \in 0 .. Len(s)
  <2>1. SubSeq(s, 1, n) \in Seq(S) /\ SubSeq(t, 1, n) \in Seq(T)
    BY Parts
  <2> QED BY <2>1, ThoseTyped
<1>2. Y(0) = <<>> /\ Z(0) = <<>>
  <2>1. SubSeq(s, 1, 0) = <<>> /\ SubSeq(t, 1, 0) = <<>>
    OBVIOUS
  <2> QED BY <2>1, ThoseEmpty
<1>3. \A n \in 1 .. Len(s) : /\ Y(n) = Choice(Y(n - 1), s[n], k, v)
                             /\ Z(n) = Choice(Z(n - 1), t[n], l, w)
  <2> TAKE n \in 1 .. Len(s)
  <2>1. /\ SubSeq(s, 1, n) = Append(SubSeq(s, 1, n - 1), s[n])
        /\ SubSeq(t, 1, n) = Append(SubSeq(t, 1, n - 1), t[n])
    BY PrefixStep
  <2>2. SubSeq(s, 1, n - 1) \in Seq(S) /\ SubSeq(t, 1, n - 1) \in Seq(T) /\ s[n] \in S /\ t[n] \in T
    <3>1. n - 1 \in 0 .. Len(s)
      OBVIOUS
    <3> QED BY <3>1, Parts
  <2> DEFINE a == SubSeq(s, 1, n - 1)
             b == SubSeq(t, 1, n - 1)
  <2>5. a \in Seq(S) /\ b \in Seq(T) /\ s[n] \in S /\ t[n] \in T
    BY <2>2
  <2>3. Those(Append(a, s[n]), k, v) = Choice(Those(a, k, v), s[n], k, v)
    <3> HIDE DEF a, b
    <3> QED BY <2>5, ThoseAppend
  <2>4. Those(Append(b, t[n]), l, w) = Choice(Those(b, l, w), t[n], l, w)
    <3> HIDE DEF a, b
    <3> QED BY <2>5, ThoseAppend
  <2> QED BY <2>1, <2>3, <2>4
<1> HIDE DEF Y, Z
<1>4. 0 \in A
  BY <1>2
<1>5. ASSUME NEW n \in A PROVE n + 1 \in A
  <2>1. SUFFICES ASSUME n + 1 <= Len(s) PROVE Goal(n + 1)
    <3> HIDE DEF Goal
    <3> QED OBVIOUS
  <2> DEFINE m == n + 1
  <2>2. n \in Nat /\ m \in 1 .. Len(s) /\ m - 1 = n /\ n \in 0 .. Len(s) /\ Goal(n)
    BY <2>1
  <2>3. Y(m) = Choice(Y(n), s[m], k, v) /\ Z(m) = Choice(Z(n), t[m], l, w)
    BY <1>3, <2>2
  <2>4. Y(n) \in Seq(S) /\ Z(n) \in Seq(T) /\ s[m] \in S /\ t[m] \in T /\ (s[m][k] = v <=> t[m][l] = w)
    BY <1>1, <2>2
  <2> HIDE DEF m
  <2>5. CASE s[m][k] = v
    <3>1. Y(m) = Append(Y(n), s[m]) /\ Z(m) = Append(Z(n), t[m])
      BY <2>3, <2>4, <2>5 DEF Choice
    <3>2. Len(Y(m)) = Len(Y(n)) + 1 /\ Len(Z(m)) = Len(Z(n)) + 1 /\ Len(Y(n)) \in Nat
      BY <2>4, <3>1
    <3>3. ASSUME NEW i \in 1 .. Len(Y(m))
          PROVE  \E p \in 1 .. m : /\ s[p][k] = v /\ Y(m)[i] = s[p] /\ Z(m)[i] = t[p]
                                   /\ Len(Y(p - 1)) = i - 1
      <4>1. CASE i = Len(Y(n)) + 1
        <5>1. Y(m)[i] = s[m] /\ Z(m)[i] = t[m]
          BY <2>2, <2>4, <3>1, <4>1
        <5>2. m \in 1 .. m
          BY <2>2
        <5>3. Len(Y(m - 1)) = i - 1
          BY <2>2, <3>2, <4>1
        <5> QED BY <2>5, <5>1, <5>2, <5>3
      <4>2. CASE i \in 1 .. Len(Y(n))
        <5>1. Y(m)[i] = Y(n)[i] /\ Z(m)[i] = Z(n)[i]
          BY <2>2, <2>4, <3>1, <4>2
        <5>2. PICK p \in 1 .. n : /\ s[p][k] = v /\ Y(n)[i] = s[p] /\ Z(n)[i] = t[p]
                                  /\ Len(Y(p - 1)) = i - 1
          BY <2>2, <4>2
        <5>3. p \in 1 .. m
          BY <2>2
        <5> QED BY <5>1, <5>2, <5>3
      <4> QED BY <3>2, <4>1, <4>2
    <3>4. Len(Z(m)) = Len(Y(m))
      BY <2>2, <3>2
    <3> QED BY <3>3, <3>4 DEF m
  <2>6. CASE s[m][k] # v
    <3>1. Y(m) = Y(n) /\ Z(m) = Z(n)
      BY <2>3, <2>4, <2>6 DEF Choice
    <3>2. ASSUME NEW i \in 1 .. Len(Y(m))
          PROVE  \E p \in 1 .. m : /\ s[p][k] = v /\ Y(m)[i] = s[p] /\ Z(m)[i] = t[p]
                                   /\ Len(Y(p - 1)) = i - 1
      <4>1. PICK p \in 1 .. n : /\ s[p][k] = v /\ Y(n)[i] = s[p] /\ Z(n)[i] = t[p]
                                /\ Len(Y(p - 1)) = i - 1
        BY <2>2, <3>1
      <4>2. p \in 1 .. m
        BY <2>2
      <4> QED BY <3>1, <4>1, <4>2
    <3>3. Len(Z(m)) = Len(Y(m))
      BY <2>2, <3>1
    <3> QED BY <3>2, <3>3 DEF m
  <2> QED BY <2>5, <2>6
<1>6. A = Nat
  <2>1. A \in SUBSET Nat
    OBVIOUS
  <2> HIDE DEF A
  <2> QED BY <1>4, <1>5, <2>1, NatInduct
<1>7. Goal(Len(s))
  <2>1. Len(s) \in Nat /\ Len(s) <= Len(s)
    OBVIOUS
  <2>2. Len(s) \in A
    BY <1>6, <2>1
  <2> HIDE DEF Goal
  <2> QED BY <2>1, <2>2
<1>8. Y(Len(s)) = Those(s, k, v) /\ Z(Len(s)) = Those(t, l, w)
  <2>1. SubSeq(s, 1, Len(s)) = s /\ SubSeq(t, 1, Len(s)) = t
    BY SubSeqFull
  <2> QED BY <2>1 DEF Y, Z
<1> QED BY <1>7, <1>8 DEF Y

\* The place an element gets.
LEMMA ThoseAt ==
  ASSUME NEW S, NEW s \in Seq(S), NEW k, NEW v, NEW p \in 1 .. Len(s), s[p][k] = v
  PROVE  /\ Len(Those(SubSeq(s, 1, p - 1), k, v)) + 1 \in 1 .. Len(Those(s, k, v))
         /\ Those(s, k, v)[Len(Those(SubSeq(s, 1, p - 1), k, v)) + 1] = s[p]
<1> DEFINE b == SubSeq(s, 1, p - 1)
           a == SubSeq(s, 1, p)
           r == SubSeq(s, p + 1, Len(s))
           e == s[p]
           y == Those(b, k, v)
           z == Those(r, k, v)
<1>1. b \in Seq(S) /\ a \in Seq(S) /\ r \in Seq(S) /\ e \in S /\ s = a \o r
  <2>1. p \in 0 .. Len(s) /\ p - 1 \in 0 .. Len(s)
    OBVIOUS
  <2> QED BY <2>1, Parts
<1>2. a = Append(b, e)
  BY PrefixStep
<1>3. e[k] = v
  OBVIOUS
<1> HIDE DEF a, b, r, e
<1>4. y \in Seq(S) /\ z \in Seq(S)
  BY <1>1, ThoseTyped
<1>5. Those(a, k, v) = Append(y, e)
  BY <1>1, <1>2, <1>3, ThoseAppend DEF Choice
<1>6. Those(s, k, v) = Append(y, e) \o z
  <2>1. Those(a \o r, k, v) = Those(a, k, v) \o z
    BY <1>1, ThoseJoin DEF z
  <2> QED BY <1>1, <1>5, <2>1
<1> HIDE DEF y, z
<1>7. Len(y) + 1 \in 1 .. Len(Append(y, e) \o z) /\ (Append(y, e) \o z)[Len(y) + 1] = e
  BY <1>1, <1>4
<1> QED BY <1>6, <1>7 DEF b, e, y

-----------------------------------------------------------------------------
(* The invariant. *)

Counts == {1, 2}
Ring(S) == [buf : Seq(S), cons : Nat]
Desc == [d : Dsts, n : Int, size : Counts]
Copy == [q : Srcs, n : Int, size : Counts]
Place == [d : Dsts, idx : Nat]
Passes == [on : {TRUE}, turn : Nat, break : BOOLEAN, free : [Dsts -> Int],
           prod : [Dsts -> Nat], cons : [Dsts -> Nat], new : [Dsts -> Seq(Copy)]]

TypeOK ==
  /\ dir \in Dirs
  /\ src \in [Srcs -> Ring(Desc)] /\ dst \in [Dsts -> Ring(Copy)]
  /\ shadow \in [Srcs -> Seq(Place)]
  /\ last \in Srcs /\ pass \in Passes \cup {NoPass}
  /\ enabled \in BOOLEAN /\ sending \in BOOLEAN
  /\ sent \in [Srcs -> [Dsts -> Int]]

\* The shadow is of descriptors that still wait, in the direction "out".
ShadowFits ==
  \A q \in Srcs : Len(shadow[q]) <= Len(src[q].buf) /\ (dir = "in" => shadow[q] = <<>>)

\* The numbers of a flow, from its destination to its source.
Flow(q, d) == Held(q, d) \o ToDst(Fresh(q), d)
Numbered(fl, n) == n = Len(fl) /\ \A j \in 1 .. Len(fl) : fl[j].n = j - 1
Fifo == \A q \in Srcs, d \in Dsts : Numbered(Flow(q, d), sent[q][d])

FlowInv == TypeOK /\ ShadowFits /\ Fifo

\* The guest has one queue.
OneSource == "out" \in Dirs => NumSrc["out"] = 1

\* One source: what has been copied to d and, as far as the pass or its beginning
\* tells, not been consumed, is at the indices from the consumer index on.
Delivered(d) == dst[d].buf \o (IF pass.on THEN pass.new[d] ELSE <<>>)
Unseen(d) == IF pass.on THEN DstLen - 1 - pass.free[d] ELSE Len(dst[d].buf)
SeenCons(d) == IF pass.on THEN pass.cons[d] ELSE dst[d].cons
Copies(d) == ToDst(shadow[0], d)

\* The last u elements of c are at the indices from s on; l of them are still in
\* the ring, from w on.
PlacedAt(c, u, s, l, w) ==
  /\ l <= u /\ u <= Len(c) /\ s < DstLen
  /\ \A i \in Nat : i < u => c[(Len(c) - u) + (i + 1)].idx = (s + i) % DstLen
  /\ w = (s + (u - l)) % DstLen

Placed(d) ==
  /\ PlacedAt(Copies(d), Unseen(d), SeenCons(d), Len(Delivered(d)), dst[d].cons)
  /\ pass.on => pass.prod[d] = (SeenCons(d) + Unseen(d)) % DstLen

\* One source: a head without the rest is the last descriptor that was sent.
Open(f) == Len(f) > 0 /\ f[Len(f)].size > 1
Pairs(f) == \A j \in 1 .. Len(f) : j < Len(f) /\ f[j].size > 1 => f[j + 1].size = 1
Pending(d) == Open(src[0].buf) /\ src[0].buf[Len(src[0].buf)].d = d
HeadsOut(d) == Pairs(Flow(0, d)) /\ (Open(Flow(0, d)) => Pending(d))

\* In the other direction packets are whole wherever they are.
Whole(s, k) ==
  \A j \in 1 .. Len(s) :
    s[j].size > 1 => /\ j < Len(s) /\ s[j + 1].size = 1
                     /\ s[j + 1][k] = s[j][k] /\ s[j + 1].n = s[j].n + 1
HeadsIn ==
  /\ \A q \in Srcs : Whole(src[q].buf, "d")
  /\ \A d \in Dsts : Whole(dst[d].buf, "q") /\ (pass.on => Whole(pass.new[d], "q"))

OutHeads == \A d \in Dsts : HeadsOut(d)
InInv == dir = "in" /\ hash = "packet" => HeadsIn

-----------------------------------------------------------------------------
(* Operators of the model. *)

\* The longest prefix of 1 .. n in a set.
LEMMA Longest ==
  ASSUME NEW n \in Nat, NEW P
  PROVE  \E k \in 0 .. n : (\A j \in 1 .. k : j \in P) /\ (k < n => k + 1 \notin P)
<1> DEFINE B == {i \in Nat : i = n \/ i + 1 \notin P}
<1>1. n \in B /\ B \subseteq Nat
  OBVIOUS
<1>2. PICK k \in B : \A i \in B : k <= i
  <2> HIDE DEF B
  <2> QED BY <1>1, NatMin
<1>3. k \in 0 .. n /\ (k < n => k + 1 \notin P)
  BY <1>1, <1>2
<1>4. ASSUME NEW j \in 1 .. k PROVE j \in P
  <2>1. SUFFICES ASSUME j \notin P PROVE FALSE
    OBVIOUS
  <2>2. j - 1 \in Nat /\ (j - 1) + 1 = j /\ k \in Nat
    BY <1>2
  <2>3. j - 1 \in B
    BY <2>1, <2>2
  <2>4. k <= j - 1
    BY <1>2, <2>3
  <2> QED BY <2>2, <2>4
<1> QED BY <1>3, <1>4

LEMMA RetiredIs ==
  ASSUME NEW q, Len(shadow[q]) \in Nat
  PROVE  /\ Retired(q) \in 0 .. Len(shadow[q])
         /\ \A j \in 1 .. Retired(q) : Consumed(shadow[q][j])
<1> DEFINE n == Len(shadow[q])
           P == {j \in 1 .. n : Consumed(shadow[q][j])}
           Good(k) == /\ \A j \in 1 .. k : Consumed(shadow[q][j])
                      /\ k < n => ~Consumed(shadow[q][k + 1])
<1>1. \E k \in 0 .. n : (\A j \in 1 .. k : j \in P) /\ (k < n => k + 1 \notin P)
  <2> HIDE DEF P
  <2> QED BY Longest
<1>2. \E k \in 0 .. n : Good(k)
  <2>1. PICK k \in 0 .. n : (\A j \in 1 .. k : j \in P) /\ (k < n => k + 1 \notin P)
    BY <1>1
  <2>2. k < n => k + 1 \in 1 .. n
    OBVIOUS
  <2> QED BY <2>1, <2>2
<1>3. Retired(q) = CHOOSE k \in 0 .. n : Good(k)
  BY Zenon DEF Retired
<1> HIDE DEF n, Good
<1>4. Retired(q) \in 0 .. n /\ Good(Retired(q))
  BY <1>2, <1>3
<1> QED BY <1>4 DEF n, Good

LEMMA CopiedIs ==
  ASSUME NEW f, Len(f) \in Nat
  PROVE  /\ Copied(f) \in 0 .. Len(f)
         /\ \A j \in 1 .. Copied(f) : Fits(f, j)
         /\ Copied(f) < Len(f) => ~Fits(f, Copied(f) + 1)
<1> DEFINE n == Len(f)
           P == {j \in 1 .. n : Fits(f, j)}
           Good(k) == /\ \A j \in 1 .. k : Fits(f, j)
                      /\ k < n => ~Fits(f, k + 1)
<1>1. \E k \in 0 .. n : (\A j \in 1 .. k : j \in P) /\ (k < n => k + 1 \notin P)
  <2> HIDE DEF P
  <2> QED BY Longest
<1>2. \E k \in 0 .. n : Good(k)
  <2>1. PICK k \in 0 .. n : (\A j \in 1 .. k : j \in P) /\ (k < n => k + 1 \notin P)
    BY <1>1
  <2>2. k < n => k + 1 \in 1 .. n
    OBVIOUS
  <2> QED BY <2>1, <2>2
<1>3. Copied(f) = CHOOSE k \in 0 .. n : Good(k)
  BY Zenon DEF Copied
<1> HIDE DEF n, Good
<1>4. Copied(f) \in 0 .. n /\ Good(Copied(f))
  BY <1>2, <1>3
<1> QED BY <1>4 DEF n, Good

LEMMA IndexIs ==
  ASSUME NEW i \in Nat, NEW len \in Nat \ {0}
  PROVE  /\ Index(i, len) \in Nat
         /\ dir = "out" => Index(i, len) = i % len /\ i % len < len
<1>1. i % len \in 0 .. len - 1
  BY ModRange
<1> QED BY <1>1 DEF Index

LEMMA NumSrcIs ==
  ASSUME dir \in Dirs
  PROVE  /\ NumSrc[dir] \in Nat \ {0} /\ NumDst[dir] \in Nat \ {0}
         /\ SrcLen \in Nat \ {0, 1} /\ DstLen \in Nat \ {0, 1}
BY InterimAssumption

LEMMA RotateIs ==
  ASSUME dir \in Dirs, NEW l \in Srcs, NEW turn \in Nat
  PROVE  Rotate(l, turn) \in Srcs
<1> DEFINE n == NumSrc[dir]
           t == l + turn
<1>1. n \in Nat \ {0} /\ t \in Nat
  BY NumSrcIs DEF Srcs
<1> HIDE DEF n, t
<1>2. t % n \in 0 .. n - 1
  BY <1>1, ModRange
<1> QED BY <1>2 DEF Rotate, Srcs, n, t

LEMMA FreshIs ==
  ASSUME TypeOK, ShadowFits, NEW q \in Srcs
  PROVE  /\ Fresh(q) \in Seq(Desc) /\ Len(Fresh(q)) = Len(src[q].buf) - Len(shadow[q])
         /\ \A j \in 1 .. Len(Fresh(q)) : Fresh(q)[j] = src[q].buf[Len(shadow[q]) + j]
         /\ Len(shadow[q]) \in Nat /\ src[q].buf \in Seq(Desc)
<1>1. src[q].buf \in Seq(Desc) /\ shadow[q] \in Seq(Place)
  BY DEF TypeOK, Ring
<1> DEFINE s == src[q].buf
           m == Len(shadow[q])
<1>2. m \in 0 .. Len(s)
  BY <1>1 DEF ShadowFits
<1> HIDE DEF s, m
<1>3. s \in Seq(Desc)
  BY <1>1 DEF s
<1> DEFINE f == SubSeq(s, m + 1, Len(s))
<1>4. f \in Seq(Desc) /\ Len(f) = Len(s) - m /\ \A i \in 1 .. Len(s) - m : f[i] = s[m + i]
  BY <1>2, <1>3, Parts
<1>5. Fresh(q) = f
  BY DEF Fresh, s, m
<1> HIDE DEF f
<1> QED BY <1>2, <1>3, <1>4, <1>5 DEF s, m

-----------------------------------------------------------------------------
(* Flows. *)

Elt == Copy \cup Desc

LEMMA SameDir ==
  ASSUME dir' = dir
  PROVE  /\ Srcs' = Srcs /\ Dsts' = Dsts
         /\ Desc' = Desc /\ Copy' = Copy /\ Place' = Place /\ Passes' = Passes /\ Elt' = Elt
<1>1. Srcs' = Srcs /\ Dsts' = Dsts
  BY DEF Srcs, Dsts
<1>2. Desc' = Desc /\ Copy' = Copy /\ Place' = Place
  BY <1>1 DEF Desc, Copy, Place
<1> QED BY <1>1, <1>2 DEF Passes, Elt

LEMMA Widen ==
  ASSUME NEW S, NEW T, NEW s \in Seq(S), S \subseteq T
  PROVE  s \in Seq(T)
<1>1. Len(s) \in Nat /\ s = [i \in 1 .. Len(s) |-> s[i]] /\ \A i \in 1 .. Len(s) : s[i] \in T
  OBVIOUS
<1> QED BY ONLY <1>1, IsASeq

LEMMA JoinIs ==
  ASSUME NEW S, NEW f \in Seq(S), NEW g \in Seq(S)
  PROVE  /\ f \o g \in Seq(S) /\ Len(f \o g) = Len(f) + Len(g) /\ Len(f) \in Nat /\ Len(g) \in Nat
         /\ \A j \in 1 .. Len(f) : (f \o g)[j] = f[j]
         /\ \A j \in 1 .. Len(g) : (f \o g)[Len(f) + j] = g[j]
OBVIOUS

LEMMA NumberedAppend ==
  ASSUME NEW S, NEW f \in Seq(S), NEW g \in Seq(S), NEW n, Numbered(f, n),
         \A j \in 1 .. Len(g) : g[j].n = n + (j - 1)
  PROVE  Numbered(f \o g, n + Len(g))
<1> DEFINE h == f \o g
<1>1. /\ Len(h) = Len(f) + Len(g) /\ Len(f) \in Nat /\ Len(g) \in Nat
      /\ \A j \in 1 .. Len(f) : h[j] = f[j]
      /\ \A j \in 1 .. Len(g) : h[Len(f) + j] = g[j]
  BY JoinIs
<1>2. n = Len(f) /\ \A j \in 1 .. Len(f) : f[j].n = j - 1
  BY DEF Numbered
<1> HIDE DEF h
<1>3. ASSUME NEW j \in 1 .. Len(h) PROVE h[j].n = j - 1
  <2>1. CASE j \in 1 .. Len(f)
    BY <1>1, <1>2, <2>1
  <2>2. CASE j \notin 1 .. Len(f)
    <3> DEFINE i == j - Len(f)
    <3>1. i \in 1 .. Len(g) /\ j = Len(f) + i
      BY <1>1, <2>2
    <3> HIDE DEF i
    <3>2. h[j] = g[i] /\ g[i].n = n + (i - 1)
      BY <1>1, <3>1
    <3> QED BY <1>1, <1>2, <3>1, <3>2
  <2> QED BY <2>1, <2>2
<1> QED BY <1>1, <1>2, <1>3 DEF Numbered, h

\* What is not in the first m elements of s, if there is more behind s.
LEMMA DropJoin ==
  ASSUME NEW S, NEW s \in Seq(S), NEW t \in Seq(S), NEW m \in 0 .. Len(s)
  PROVE  SubSeq(s \o t, m + 1, Len(s \o t)) = SubSeq(s, m + 1, Len(s)) \o t
<1> DEFINE w == s \o t
           a == SubSeq(w, m + 1, Len(w))
           b == SubSeq(s, m + 1, Len(s))
<1>1. w \in Seq(S) /\ Len(w) = Len(s) + Len(t) /\ Len(s) \in Nat /\ Len(t) \in Nat
      /\ (\A j \in 1 .. Len(s) : w[j] = s[j]) /\ \A j \in 1 .. Len(t) : w[Len(s) + j] = t[j]
  BY JoinIs
<1> HIDE DEF w
<1>0. m \in Nat /\ m <= Len(s)
  OBVIOUS
<1>2. a \in Seq(S) /\ Len(a) = Len(w) - m /\ \A i \in 1 .. Len(w) - m : a[i] = w[m + i]
  <2>1. m \in 0 .. Len(w)
    BY <1>1
  <2> QED BY <1>1, <2>1, Parts
<1>3. b \in Seq(S) /\ Len(b) = Len(s) - m /\ \A i \in 1 .. Len(s) - m : b[i] = s[m + i]
  BY Parts
<1> HIDE DEF a, b
<1>4. b \o t \in Seq(S) /\ Len(b \o t) = Len(b) + Len(t)
      /\ (\A j \in 1 .. Len(b) : (b \o t)[j] = b[j]) /\ \A j \in 1 .. Len(t) : (b \o t)[Len(b) + j] = t[j]
  <2>1. b \in Seq(S)
    BY <1>3
  <2> QED BY ONLY <2>1, t \in Seq(S), JoinIs
<1>5. \A i \in 1 .. Len(a) : a[i] = (b \o t)[i]
  <2> TAKE i \in 1 .. Len(a)
  <2>1. a[i] = w[m + i]
    BY <1>1, <1>2
  <2>2. CASE i <= Len(b)
    <3>1. w[m + i] = s[m + i] /\ b[i] = s[m + i]
      BY <1>0, <1>1, <1>2, <1>3, <2>2
    <3>2. i \in 1 .. Len(b)
      BY <1>0, <1>1, <1>2, <1>3, <2>2
    <3> QED BY <1>4, <2>1, <3>1, <3>2
  <2>3. CASE i > Len(b)
    <3> DEFINE j == i - Len(b)
    <3>1. j \in 1 .. Len(t) /\ i = Len(b) + j /\ m + i = Len(s) + j
      BY <1>0, <1>1, <1>2, <1>3, <2>3
    <3> HIDE DEF j
    <3>2. (b \o t)[i] = t[j] /\ w[m + i] = t[j]
      BY <1>1, <1>4, <3>1
    <3> QED BY <2>1, <3>2
  <2>4. i <= Len(b) \/ i > Len(b)
    <3>1. i \in Nat /\ Len(b) \in Nat
      BY <1>2, <1>3
    <3> QED BY <3>1
  <2> QED BY <2>2, <2>3, <2>4
<1>6. Len(a) = Len(b \o t)
  BY <1>0, <1>1, <1>2, <1>3, <1>4
<1> QED BY ONLY <1>2, <1>4, <1>5, <1>6, SeqEqual DEF a, b, w

LEMMA DropDrop ==
  ASSUME NEW S, NEW s \in Seq(S), NEW k \in 0 .. Len(s), NEW m \in 0 .. Len(s) - k
  PROVE  LET a == SubSeq(s, k + 1, Len(s)) IN
         SubSeq(a, m + 1, Len(a)) = SubSeq(s, (k + m) + 1, Len(s))
<1> DEFINE a == SubSeq(s, k + 1, Len(s))
           b == SubSeq(a, m + 1, Len(a))
           c == SubSeq(s, (k + m) + 1, Len(s))
           n == k + m
<1>0. k \in Nat /\ m \in Nat /\ n \in 0 .. Len(s) /\ Len(s) \in Nat /\ n = k + m
  OBVIOUS
<1>1. a \in Seq(S) /\ Len(a) = Len(s) - k /\ \A i \in 1 .. Len(s) - k : a[i] = s[k + i]
  BY Parts
<1> HIDE DEF n
<1>2. c \in Seq(S) /\ Len(c) = Len(s) - n /\ \A i \in 1 .. Len(s) - n : c[i] = s[n + i]
  <2>1. c = SubSeq(s, n + 1, Len(s))
    BY DEF n
  <2> QED BY <1>0, <2>1, Parts
<1> HIDE DEF a, c
<1>3. b \in Seq(S) /\ Len(b) = Len(a) - m /\ \A i \in 1 .. Len(a) - m : b[i] = a[m + i]
  <2>1. m \in 0 .. Len(a)
    BY <1>1
  <2> QED BY <1>1, <2>1, Parts
<1> HIDE DEF b
<1>4. Len(b) = Len(c)
  BY <1>0, <1>1, <1>2, <1>3
<1>5. \A i \in 1 .. Len(b) : b[i] = c[i]
  <2> TAKE i \in 1 .. Len(b)
  <2>1. i \in 1 .. Len(a) - m /\ m + i \in 1 .. Len(s) - k /\ k + (m + i) = n + i /\ i \in 1 .. Len(s) - n
    BY <1>0, <1>1, <1>3
  <2> QED BY <1>1, <1>2, <1>3, <2>1
<1> QED BY ONLY <1>2, <1>3, <1>4, <1>5, SeqEqual DEF a, b, c

LEMMA PassIs ==
  ASSUME TypeOK
  PROVE  pass.on \in BOOLEAN /\ (pass.on => pass \in Passes) /\ (~pass.on => pass = NoPass)
<1>1. CASE pass \in Passes
  BY <1>1 DEF Passes
<1>2. CASE pass = NoPass
  BY <1>2 DEF NoPass
<1> QED BY <1>1, <1>2 DEF TypeOK

LEMMA FlowTyped ==
  ASSUME TypeOK, ShadowFits, NEW q \in Srcs, NEW d \in Dsts
  PROVE  /\ Delivered(d) \in Seq(Copy) /\ Held(q, d) = OfFlow(Delivered(d), q)
         /\ Held(q, d) \in Seq(Elt) /\ ToDst(Fresh(q), d) \in Seq(Elt) /\ Flow(q, d) \in Seq(Elt)
         /\ Len(Flow(q, d)) = Len(Held(q, d)) + Len(ToDst(Fresh(q), d))
<1>1. Delivered(d) \in Seq(Copy)
  <2>1. dst[d].buf \in Seq(Copy) /\ (pass.on => pass.new[d] \in Seq(Copy))
    <3>1. dst[d].buf \in Seq(Copy)
      BY DEF TypeOK, Ring
    <3>2. pass.on => pass.new[d] \in Seq(Copy)
      BY PassIs DEF Passes
    <3> QED BY <3>1, <3>2
  <2>2. <<>> \in Seq(Copy)
    OBVIOUS
  <2> QED BY <2>1, <2>2, JoinIs DEF Delivered
<1>2. Held(q, d) = OfFlow(Delivered(d), q)
  BY DEF Held, Delivered
<1>3. Held(q, d) \in Seq(Copy)
  BY <1>1, <1>2, ThoseTyped DEF OfFlow
<1>4. ToDst(Fresh(q), d) \in Seq(Desc)
  BY FreshIs, ThoseTyped DEF ToDst
<1>5. Held(q, d) \in Seq(Elt) /\ ToDst(Fresh(q), d) \in Seq(Elt)
  BY <1>3, <1>4, Widen DEF Elt
<1> QED BY <1>1, <1>2, <1>5, JoinIs DEF Flow

LEMMA FifoIs ==
  ASSUME TypeOK, ShadowFits
  PROVE  FlowsFifo <=> Fifo
<1>1. ASSUME NEW q \in Srcs, NEW d \in Dsts PROVE DOMAIN Flow(q, d) = 1 .. Len(Flow(q, d))
  BY FlowTyped
<1> QED BY <1>1 DEF FlowsFifo, Fifo, Numbered, Flow

-----------------------------------------------------------------------------
(* What the actions do to the flows. *)

LEMMA InitFlow ==
  ASSUME Init
  PROVE  FlowInv
<1>0. dir \in Dirs
  BY DEF Init
<1>1. <<>> \in Seq(Desc) /\ <<>> \in Seq(Copy) /\ <<>> \in Seq(Place)
  OBVIOUS
<1>2. EmptyRing \in Ring(Desc) /\ EmptyRing \in Ring(Copy)
  BY <1>1 DEF EmptyRing, Ring
<1>3. TypeOK
  <2>1. 0 \in Srcs
    BY <1>0, NumSrcIs DEF Srcs
  <2>2. sent \in [Srcs -> [Dsts -> Int]]
    BY DEF Init, Zero
  <2> HIDE DEF EmptyRing, Ring, Desc, Copy, Place, Srcs, Dsts, NoPass
  <2> QED BY <1>0, <1>1, <1>2, <2>1, <2>2 DEF TypeOK, Init
<1>4. ASSUME NEW q \in Srcs PROVE src[q].buf = <<>> /\ shadow[q] = <<>>
  BY DEF Init, EmptyRing
<1>5. ShadowFits
  BY <1>4 DEF ShadowFits
<1>6. ASSUME NEW q \in Srcs, NEW d \in Dsts PROVE Numbered(Flow(q, d), sent[q][d])
  <2>1. Len(Fresh(q)) = 0
    BY <1>3, <1>4, <1>5, FreshIs
  <2>2. Fresh(q) = <<>>
    BY <1>3, <1>5, <2>1, FreshIs
  <2>3. Delivered(d) = <<>>
    BY <1>3, PassIs DEF Delivered, Init, EmptyRing, NoPass
  <2>4. Held(q, d) = <<>> /\ ToDst(Fresh(q), d) = <<>>
    BY <1>3, <1>5, <2>2, <2>3, FlowTyped, ThoseEmpty DEF OfFlow, ToDst
  <2>5. Flow(q, d) = <<>> /\ sent[q][d] = 0
    BY <2>4 DEF Flow, Init, Zero
  <2> QED BY <2>5 DEF Numbered
<1> QED BY <1>3, <1>5, <1>6 DEF FlowInv, Fifo

NumberedFrom(s, n) == \A j \in 1 .. Len(s) : s[j].n = n + (j - 1)

LEMMA PutFlow ==
  ASSUME FlowInv, NEW q \in Srcs, NEW descs \in Seq(Desc), Put(q, descs),
         \A d \in Dsts : NumberedFrom(ToDst(descs, d), sent[q][d])
  PROVE  /\ FlowInv'
         /\ \A d \in Dsts : Flow(q, d)' = Flow(q, d) \o ToDst(descs, d)
         /\ \A r \in Srcs \ {q}, d \in Dsts : Flow(r, d)' = Flow(r, d)
<1>0. TypeOK /\ ShadowFits /\ dir' = dir
  BY DEF FlowInv, Put
<1>1. /\ Srcs' = Srcs /\ Dsts' = Dsts
      /\ Desc' = Desc /\ Copy' = Copy /\ Place' = Place /\ Passes' = Passes /\ Elt' = Elt
  BY <1>0, SameDir
<1>2. src[q].buf \in Seq(Desc) /\ src \in [Srcs -> Ring(Desc)]
  BY <1>0 DEF TypeOK, Ring
<1>3. /\ src'[q].buf = src[q].buf \o descs /\ \A r \in Srcs \ {q} : src'[r] = src[r]
      /\ src' \in [Srcs -> Ring(Desc)]
  <2>1. src[q].buf \o descs \in Seq(Desc)
    BY <1>2
  <2>2. src' = [src EXCEPT ![q].buf = @ \o descs]
    BY DEF Put
  <2>3. src' = [src EXCEPT ![q] = [src[q] EXCEPT !.buf = src[q].buf \o descs]]
    BY <2>2
  <2>4. [src[q] EXCEPT !.buf = src[q].buf \o descs] \in Ring(Desc)
    BY <1>2, <2>1 DEF Ring
  <2>5. src[q] \in Ring(Desc)
    BY <1>2
  <2>6. [src[q] EXCEPT !.buf = src[q].buf \o descs].buf = src[q].buf \o descs
    BY <2>5 DEF Ring
  <2> QED BY <1>2, <2>3, <2>4, <2>6
<1>t. \A d \in Dsts : ToDst(descs, d) \in Seq(Desc) /\ Len(ToDst(descs, d)) \in Nat
  BY ThoseTyped DEF ToDst
<1> DEFINE more == [d \in Dsts |-> sent[q][d] + Len(ToDst(descs, d))]
<1>4. sent' \in [Srcs -> [Dsts -> Int]] /\ sent' = [sent EXCEPT ![q] = more]
  <2>1. sent' = [sent EXCEPT ![q] = more]
    BY Zenon DEF Put
  <2>2. more \in [Dsts -> Int]
    BY <1>0, <1>t DEF TypeOK
  <2> HIDE DEF more
  <2> QED BY <1>0, <2>1, <2>2 DEF TypeOK
<1>m. /\ \A d \in Dsts : sent'[q][d] = sent[q][d] + Len(ToDst(descs, d))
      /\ \A r \in Srcs \ {q} : sent'[r] = sent[r]
  <2>1. \A d \in Dsts : more[d] = sent[q][d] + Len(ToDst(descs, d))
    OBVIOUS
  <2> HIDE DEF more
  <2> QED BY <1>0, <1>4, <2>1 DEF TypeOK
<1> HIDE DEF more
<1>5. UNCHANGED <<dir, dst, shadow, last, pass, enabled, sending>>
  BY DEF Put
<1>6. TypeOK'
  <2> HIDE DEF Ring
  <2> QED BY <1>0, <1>1, <1>3, <1>4, <1>5 DEF TypeOK, NoPass
<1>7. ShadowFits'
  <2>1. ASSUME NEW r \in Srcs PROVE Len(shadow[r]) <= Len(src'[r].buf)
    <3>1. Len(shadow[r]) <= Len(src[r].buf) /\ Len(shadow[r]) \in Nat
      BY <1>0, FreshIs DEF ShadowFits
    <3>2. CASE r = q
      <4>1. Len(src'[q].buf) = Len(src[q].buf) + Len(descs) /\ Len(descs) \in Nat /\ Len(src[q].buf) \in Nat
        BY <1>2, <1>3, JoinIs
      <4> QED BY <3>1, <3>2, <4>1
    <3>3. CASE r # q
      BY <1>3, <3>1, <3>3
    <3> QED BY <3>2, <3>3
  <2> QED BY <1>0, <1>1, <1>5, <2>1 DEF ShadowFits
<1>8. Fresh(q)' = Fresh(q) \o descs /\ \A r \in Srcs \ {q} : Fresh(r)' = Fresh(r)
  <2> DEFINE m == Len(shadow[q])
             s == src[q].buf
  <2>1. m \in 0 .. Len(s)
    BY <1>0, FreshIs DEF ShadowFits
  <2>2. SubSeq(s \o descs, m + 1, Len(s \o descs)) = SubSeq(s, m + 1, Len(s)) \o descs
    <3>1. s \in Seq(Desc)
      BY <1>2
    <3> HIDE DEF m, s
    <3> QED BY <2>1, <3>1, DropJoin
  <2>3. Fresh(q)' = SubSeq(s \o descs, m + 1, Len(s \o descs))
    BY <1>3, <1>5 DEF Fresh
  <2>4. ASSUME NEW r \in Srcs \ {q} PROVE Fresh(r)' = Fresh(r)
    BY <1>3, <1>5 DEF Fresh
  <2> QED BY <2>2, <2>3, <2>4 DEF Fresh
<1>9. \A r \in Srcs, e \in Dsts : Held(r, e)' = Held(r, e)
  BY <1>5 DEF Held
<1>10. ASSUME NEW d \in Dsts
       PROVE  Flow(q, d)' = Flow(q, d) \o ToDst(descs, d)
  <2> DEFINE new == ToDst(descs, d)
  <2>1. Fresh(q) \in Seq(Desc)
    BY <1>0, FreshIs
  <2>2. ToDst(Fresh(q) \o descs, d) = ToDst(Fresh(q), d) \o new
    BY <2>1, ThoseJoin DEF ToDst
  <2>4. ToDst(Fresh(q), d)' = ToDst(Fresh(q), d) \o new
    BY <1>8, <2>2 DEF ToDst
  <2>5. Held(q, d) \in Seq(Elt) /\ ToDst(Fresh(q), d) \in Seq(Elt) /\ new \in Seq(Elt)
    BY <1>0, <1>t, FlowTyped, Widen DEF Elt
  <2> HIDE DEF new
  <2> DEFINE a == Held(q, d)
             b == ToDst(Fresh(q), d)
  <2>6. (a \o b) \o new = a \o (b \o new)
    <3>1. a \in Seq(Elt) /\ b \in Seq(Elt) /\ new \in Seq(Elt)
      BY <2>5
    <3> HIDE DEF a, b
    <3> QED BY ONLY <3>1, ConcatAssociative
  <2> HIDE DEF a, b
  <2>7. Flow(q, d)' = Flow(q, d) \o new
    BY <1>9, <2>4, <2>6 DEF Flow, a, b
  <2> QED BY <2>7 DEF new
<1>11. ASSUME NEW r \in Srcs \ {q}, NEW d \in Dsts
       PROVE  Flow(r, d)' = Flow(r, d)
  BY <1>8, <1>9 DEF Flow, ToDst
<1>12. ASSUME NEW r \in Srcs, NEW d \in Dsts PROVE Numbered(Flow(r, d)', sent'[r][d])
  <2>1. Numbered(Flow(r, d), sent[r][d])
    BY DEF FlowInv, Fifo
  <2>2. CASE r # q
    BY <1>11, <1>m, <2>1, <2>2
  <2>3. CASE r = q
    <3> DEFINE new == ToDst(descs, d)
    <3>1. Flow(q, d) \in Seq(Elt) /\ new \in Seq(Elt)
      BY <1>0, <1>t, FlowTyped, Widen DEF Elt
    <3>2. \A j \in 1 .. Len(new) : new[j].n = sent[q][d] + (j - 1)
      BY DEF NumberedFrom
    <3>3. sent'[q][d] = sent[q][d] + Len(new) /\ Flow(q, d)' = Flow(q, d) \o new
      BY <1>10, <1>m
    <3> HIDE DEF new
    <3>4. Numbered(Flow(q, d) \o new, sent[q][d] + Len(new))
      BY <2>1, <2>3, <3>1, <3>2, NumberedAppend
    <3> QED BY <2>3, <3>3, <3>4
  <2> QED BY <2>2, <2>3
<1>13. Fifo'
  BY <1>1, <1>12 DEF Fifo, Numbered
<1> QED BY <1>6, <1>7, <1>10, <1>11, <1>13 DEF FlowInv

Descs(d, n, size, k) == [j \in 1 .. k |-> [d |-> d, n |-> n + (j - 1), size |-> IF j = 1 THEN size ELSE 1]]

LEMMA DescsTyped ==
  ASSUME NEW d, NEW n, NEW size, NEW k, d \in Dsts, n \in Int, size \in Counts, k \in Nat
  PROVE  /\ Descs(d, n, size, k) \in Seq(Desc) /\ Len(Descs(d, n, size, k)) = k
         /\ \A j \in 1 .. k : /\ Descs(d, n, size, k)[j].d = d /\ Descs(d, n, size, k)[j].n = n + (j - 1)
                              /\ Descs(d, n, size, k)[j].size = IF j = 1 THEN size ELSE 1
<1> DEFINE e(j) == [d |-> d, n |-> n + (j - 1), size |-> IF j = 1 THEN size ELSE 1]
           s == Descs(d, n, size, k)
<1>1. s = [j \in 1 .. k |-> e(j)]
  BY DEF Descs
<1>2. \A j \in 1 .. k : e(j) \in Desc /\ e(j).d = d /\ e(j).n = n + (j - 1)
                        /\ e(j).size = IF j = 1 THEN size ELSE 1
  BY DEF Desc, Counts
<1> HIDE DEF e, s
<1>3. s \in Seq(Desc) /\ Len(s) = k /\ \A j \in 1 .. k : s[j] = e(j)
  BY <1>1, <1>2
<1> QED BY <1>2, <1>3 DEF s

LEMMA DescsLen ==
  ASSUME NEW d, NEW n, NEW size, NEW k, d \in Dsts, n \in Int, size \in Counts, k \in Nat
  PROVE  Descs(d, n, size, k) \in Seq(Desc) /\ Len(Descs(d, n, size, k)) = k
BY DescsTyped

LEMMA PacketIs ==
  ASSUME TypeOK, NEW q \in Srcs, NEW d \in Dsts, NEW e \in Dsts, NEW size \in Counts, NEW k \in 1 .. size,
         NEW p, p = SubSeq(Packet(q, d, e, size), 1, k)
  PROVE  /\ p \in Seq(Desc) /\ Len(p) = k /\ p[1] = Descriptor(d, sent[q][d], size)
         /\ k = 2 => p[2] = Descriptor(e, sent[q][e] + (IF e = d THEN 1 ELSE 0), 1)
<1> DEFINE x == Descriptor(d, sent[q][d], size)
           y == Descriptor(e, sent[q][e] + (IF e = d THEN 1 ELSE 0), 1)
           s == <<x, y>>
           u == SubSeq(s, 1, size)
<1>1. x \in Desc /\ y \in Desc
  <2>1. sent[q][d] \in Int /\ sent[q][e] \in Int
    BY DEF TypeOK
  <2> QED BY <2>1 DEF Descriptor, Desc, Counts
<1>2. size \in 0 .. 2 /\ k \in 0 .. size /\ size \in Nat
  BY DEF Counts
<1>3. p = SubSeq(u, 1, k)
  BY DEF Packet
<1> HIDE DEF x, y
<1>4. s \in Seq(Desc) /\ Len(s) = 2 /\ s[1] = x /\ s[2] = y
  BY <1>1
<1> HIDE DEF s
<1>5. u \in Seq(Desc) /\ Len(u) = size /\ \A i \in 1 .. size : u[i] = s[i]
  <2>1. size \in 0 .. Len(s)
    BY <1>2, <1>4
  <2>2. s \in Seq(Desc)
    BY <1>4
  <2> QED BY ONLY <2>1, <2>2, Parts
<1> HIDE DEF u
<1>6. p \in Seq(Desc) /\ Len(p) = k /\ \A i \in 1 .. k : p[i] = u[i]
  <2>1. u \in Seq(Desc) /\ k \in 0 .. Len(u)
    BY ONLY <1>2, <1>5
  <2> QED BY ONLY <2>1, <1>3, Parts
<1>7. p[1] = x /\ (k = 2 => p[2] = y)
  <2>1. k \in 1 .. size
    OBVIOUS
  <2>2. 1 \in 1 .. k /\ 1 \in 1 .. size
    BY ONLY <1>2, <2>1
  <2>3. k = 2 => 2 \in 1 .. k /\ 2 \in 1 .. size
    BY ONLY <1>2, <2>1
  <2> QED BY ONLY <2>2, <2>3, <1>4, <1>5, <1>6
<1> QED BY <1>6, <1>7 DEF x, y

\* A packet that goes to one destination, or what there is room for of it.
LEMMA JoinedIs ==
  ASSUME TypeOK, NEW q \in Srcs, NEW d \in Dsts, NEW e \in Dsts, NEW size \in Counts, NEW k \in 1 .. size,
         k = 1 \/ e = d
  PROVE  SubSeq(Packet(q, d, e, size), 1, k) = Descs(d, sent[q][d], size, k)
<1> DEFINE p == SubSeq(Packet(q, d, e, size), 1, k)
           n == sent[q][d]
           t == Descs(d, n, size, k)
<1>1. n \in Int /\ k \in Nat /\ (k = 1 \/ k = 2)
  BY DEF TypeOK, Counts
<1>2. /\ p \in Seq(Desc) /\ Len(p) = k /\ p[1] = Descriptor(d, n, size)
      /\ k = 2 => p[2] = Descriptor(e, sent[q][e] + (IF e = d THEN 1 ELSE 0), 1)
  <2>1. p = SubSeq(Packet(q, d, e, size), 1, k)
    OBVIOUS
  <2> HIDE DEF p
  <2>2. /\ p \in Seq(Desc) /\ Len(p) = k /\ p[1] = Descriptor(d, sent[q][d], size)
        /\ k = 2 => p[2] = Descriptor(e, sent[q][e] + (IF e = d THEN 1 ELSE 0), 1)
    <3>1. TypeOK /\ q \in Srcs /\ d \in Dsts /\ e \in Dsts /\ size \in Counts /\ k \in 1 .. size
      OBVIOUS
    <3> QED BY ONLY <3>1, <2>1, PacketIs
  <2> QED BY <2>2
<1> HIDE DEF p
<1>3. k = 2 => p[2] = Descriptor(d, n + 1, 1)
  BY <1>2
<1> HIDE DEF n
<1>4. t \in Seq(Desc) /\ Len(t) = k
  <2>1. n \in Int /\ k \in Nat
    BY <1>1
  <2> QED BY <2>1, DescsLen
<1>5. t[1] = Descriptor(d, n, size) /\ (k = 2 => t[2] = Descriptor(d, n + 1, 1))
  BY <1>1 DEF Descs, Descriptor
<1> HIDE DEF t
<1>6. \A i \in 1 .. k : p[i] = t[i]
  BY <1>1, <1>2, <1>3, <1>5
<1>7. p = t
  BY ONLY <1>2, <1>4, <1>6, SeqEqual
<1> QED BY <1>7 DEF p, t, n

\* Two descriptors with hashes of their own, that go to different destinations.
SplitIs(q, d, e, p) ==
  /\ p \in Seq(Desc) /\ Len(p) = 2 /\ d # e
  /\ p[1].d = d /\ p[1].n = sent[q][d] /\ p[2].d = e /\ p[2].n = sent[q][e]

\* What is sent.
LEMMA SendIs ==
  ASSUME TypeOK, NEW q \in Srcs, NEW d \in Dsts, NEW e \in Dsts, NEW size \in Sizes, Send(q, d, e, size)
  PROVE  /\ size \in Counts
         /\ \/ \E k \in 1 .. size : Put(q, Descs(d, sent[q][d], size, k)) /\ (dir = "in" => k = size)
            \/ hash # "packet" /\ \E p \in Seq(Desc) : SplitIs(q, d, e, p) /\ Put(q, p)
<1>1. size \in Counts /\ SrcLen \in Nat /\ sent[q][d] \in Int
  BY InterimAssumption DEF TypeOK, Counts
<1>2. Room(q) \in Int /\ Room(q) > 0
  <2>1. src[q].buf \in Seq(Desc)
    BY DEF TypeOK, Ring
  <2>2. Len(src[q].buf) \in Nat
    BY <2>1
  <2>3. Room(q) > 0
    BY DEF Send
  <2> DEFINE l == Len(src[q].buf)
  <2>4. l \in Nat /\ SrcLen \in Nat
    BY <1>1, <2>2
  <2> HIDE DEF l
  <2>5. SrcLen - 1 - l \in Int
    BY ONLY <2>4
  <2> QED BY <2>3, <2>5 DEF Room, l
<1> DEFINE k == IF size <= Room(q) THEN size ELSE Room(q)
           p == SubSeq(Packet(q, d, e, size), 1, k)
<1>3. k \in 1 .. size /\ (dir = "in" => k = size) /\ (k = 1 \/ k = 2) /\ (size = 1 => k = 1)
  BY <1>1, <1>2 DEF Send, Counts
<1>4. Put(q, p) /\ (size = 1 \/ (hash = "packet" => e = d))
  BY DEF Send
<1> HIDE DEF k
<1>5. CASE k = 1 \/ e = d
  <2>1. p = Descs(d, sent[q][d], size, k)
    BY <1>1, <1>3, <1>5, JoinedIs
  <2> HIDE DEF p
  <2> QED BY <1>1, <1>3, <1>4, <2>1
<1>6. CASE k = 2 /\ e # d
  <2>1. /\ p \in Seq(Desc) /\ Len(p) = 2 /\ p[1] = Descriptor(d, sent[q][d], size)
        /\ p[2] = Descriptor(e, sent[q][e] + (IF e = d THEN 1 ELSE 0), 1)
    <3>1. p = SubSeq(Packet(q, d, e, size), 1, k) /\ k \in 1 .. size /\ size \in Counts
      BY <1>1, <1>3
    <3> HIDE DEF p
    <3>2. /\ p \in Seq(Desc) /\ Len(p) = k /\ p[1] = Descriptor(d, sent[q][d], size)
          /\ k = 2 => p[2] = Descriptor(e, sent[q][e] + (IF e = d THEN 1 ELSE 0), 1)
      BY <3>1, PacketIs
    <3> QED BY <1>6, <3>2
  <2> HIDE DEF p
  <2>2. sent[q][e] + 0 = sent[q][e]
    BY DEF TypeOK
  <2>3. SplitIs(q, d, e, p)
    BY <1>6, <2>1, <2>2 DEF SplitIs, Descriptor
  <2> QED BY <1>1, <1>3, <1>4, <1>6, <2>1, <2>3
<1> QED BY <1>3, <1>5, <1>6

LEMMA RestIs ==
  ASSUME TypeOK, NEW q \in Srcs, NEW d \in Dsts, SendRest(q, d)
  PROVE  /\ src[q].buf # <<>> /\ Last(src[q].buf).size > 1
         /\ hash = "packet" => d = Last(src[q].buf).d
         /\ Put(q, Descs(d, sent[q][d], 1, 1))
<1>1. src[q].buf # <<>> /\ Last(src[q].buf).size > 1 /\ (hash = "packet" => d = Last(src[q].buf).d)
  BY DEF SendRest, Middle
<1>2. Put(q, <<Descriptor(d, sent[q][d], 1)>>)
  BY DEF SendRest
<1> DEFINE n == sent[q][d]
<1>3. n \in Int
  BY DEF TypeOK
<1> HIDE DEF n
<1>4. <<Descriptor(d, n, 1)>> = Descs(d, n, 1, 1)
  <2> DEFINE s == <<Descriptor(d, n, 1)>>
             one == 1
             t == Descs(d, n, one, one)
  <2>1. one \in Counts /\ one \in Nat
    BY DEF Counts
  <2>2. Descriptor(d, n, 1) \in Desc
    BY <1>3 DEF Descriptor, Desc, Counts
  <2>3. s \in Seq(Desc) /\ Len(s) = 1 /\ s[1] = Descriptor(d, n, 1)
    BY <2>2
  <2> HIDE DEF s
  <2>4. t \in Seq(Desc) /\ Len(t) = 1
    <3>1. Descs(d, n, one, one) \in Seq(Desc) /\ Len(Descs(d, n, one, one)) = one
      <4> HIDE DEF one
      <4> QED BY <1>3, <2>1, DescsTyped
    <3> QED BY <3>1
  <2>5. t[1] = Descriptor(d, n, 1)
    BY <1>3 DEF Descs, Descriptor
  <2> HIDE DEF t
  <2>6. s = t
    <3>1. \A i \in 1 .. 1 : s[i] = t[i]
      BY <2>3, <2>5
    <3> QED BY <2>3, <2>4, <3>1, SeqEqual
  <2> QED BY <2>6 DEF s, t
<1> QED BY <1>1, <1>2, <1>4 DEF n

LEMMA SendFlow ==
  ASSUME FlowInv, NEW q \in Srcs, NEW d \in Dsts, NEW size \in Counts, NEW k \in Nat,
         Put(q, Descs(d, sent[q][d], size, k))
  PROVE  /\ FlowInv'
         /\ Flow(q, d)' = Flow(q, d) \o Descs(d, sent[q][d], size, k)
         /\ \A e \in Dsts \ {d} : Flow(q, e)' = Flow(q, e)
<1> DEFINE descs == Descs(d, sent[q][d], size, k)
<1>0. TypeOK /\ ShadowFits
  BY DEF FlowInv
<1>1. descs \in Seq(Desc) /\ \A j \in 1 .. Len(descs) : descs[j].d = d /\ descs[j].n = sent[q][d] + (j - 1)
  <2>1. sent[q][d] \in Int /\ k \in Nat
    BY DEF FlowInv, TypeOK
  <2> DEFINE n == sent[q][d]
  <2>2. n \in Int /\ k \in Nat
    BY <2>1
  <2> HIDE DEF n
  <2>3. Descs(d, n, size, k) \in Seq(Desc) /\ Len(Descs(d, n, size, k)) = k
    BY <2>2, DescsTyped
  <2>4. \A j \in 1 .. k : /\ Descs(d, n, size, k)[j].d = d /\ Descs(d, n, size, k)[j].n = n + (j - 1)
    BY <2>2, DescsTyped
  <2> QED BY <2>3, <2>4 DEF n
<1>2. Put(q, descs)
  OBVIOUS
<1> HIDE DEF descs
<1>3. ToDst(descs, d) = descs
  BY <1>1, ThoseAll DEF ToDst
<1>4. \A e \in Dsts \ {d} : ToDst(descs, e) = <<>>
  <2> TAKE e \in Dsts \ {d}
  <2>1. \A j \in 1 .. Len(descs) : descs[j]["d"] # e
    BY <1>1
  <2> QED BY <1>1, <2>1, ThoseNone DEF ToDst
<1>5. \A e \in Dsts : NumberedFrom(ToDst(descs, e), sent[q][e])
  <2> TAKE e \in Dsts
  <2>1. CASE e = d
    BY <1>1, <1>3, <2>1 DEF NumberedFrom
  <2>2. CASE e # d
    BY <1>4, <2>2 DEF NumberedFrom
  <2> QED BY <2>1, <2>2
<1>6. FlowInv' /\ \A e \in Dsts : Flow(q, e)' = Flow(q, e) \o ToDst(descs, e)
  BY <1>1, <1>2, <1>5, PutFlow
<1>7. ASSUME NEW e \in Dsts \ {d}
      PROVE  Flow(q, e)' = Flow(q, e)
  <2>1. Flow(q, e) \in Seq(Elt)
    BY <1>0, FlowTyped
  <2>2. Flow(q, e) \o <<>> = Flow(q, e)
    BY <2>1
  <2> QED BY <1>4, <1>6, <2>2
<1> QED BY <1>3, <1>6, <1>7 DEF descs

LEMMA SplitFlow ==
  ASSUME FlowInv, NEW q \in Srcs, NEW d \in Dsts, NEW e \in Dsts, NEW p, SplitIs(q, d, e, p), Put(q, p)
  PROVE  FlowInv'
<1>1. p \in Seq(Desc) /\ Len(p) = 2 /\ d # e /\ p[1].d = d /\ p[2].d = e
      /\ p[1].n = sent[q][d] /\ p[2].n = sent[q][e] /\ sent[q][d] \in Int /\ sent[q][e] \in Int
  BY DEF SplitIs, FlowInv, TypeOK
<1> DEFINE x == p[1]
           y == p[2]
           one == Append(<<>>, x)
<1>2. x \in Desc /\ y \in Desc /\ x["d"] = d /\ y["d"] = e /\ x.n = sent[q][d] /\ y.n = sent[q][e]
  <2>1. p[1] \in Desc /\ p[2] \in Desc
    <3>1. p \in Seq(Desc) /\ 1 \in 1 .. Len(p) /\ 2 \in 1 .. Len(p)
      BY <1>1
    <3> HIDE DEF Desc
    <3> QED BY ONLY <3>1, ElementOfSeq
  <2> QED BY <1>1, <2>1
<1>3. p = Append(Append(<<>>, x), y)
  BY <1>1
<1> HIDE DEF x, y
<1>4. one \in Seq(Desc) /\ <<>> \in Seq(Desc)
  BY <1>2
<1>5. ASSUME NEW c \in Dsts
      PROVE  ToDst(p, c) = Choice(Choice(<<>>, x, "d", c), y, "d", c)
  <2>1. Those(one, "d", c) = Choice(Those(<<>>, "d", c), x, "d", c)
    BY <1>2, <1>4, ThoseAppend
  <2>2. Those(Append(one, y), "d", c) = Choice(Those(one, "d", c), y, "d", c)
    <3> HIDE DEF one
    <3> QED BY <1>2, <1>4, ThoseAppend
  <2> QED BY <1>3, <2>1, <2>2, ThoseEmpty DEF ToDst
<1>6. ASSUME NEW c \in Dsts
      PROVE  NumberedFrom(ToDst(p, c), sent[q][c])
  <2>1. CASE c = d
    <3>1. ToDst(p, c) = <<x>>
      BY <1>1, <1>2, <1>5, <2>1 DEF Choice
    <3>2. x.n = sent[q][c] /\ sent[q][c] + (1 - 1) = sent[q][c]
      BY <1>1, <1>2, <2>1
    <3> QED BY <3>1, <3>2 DEF NumberedFrom
  <2>2. CASE c = e
    <3>1. ToDst(p, c) = <<y>>
      BY <1>1, <1>2, <1>5, <2>2 DEF Choice
    <3>2. y.n = sent[q][c] /\ sent[q][c] + (1 - 1) = sent[q][c]
      BY <1>1, <1>2, <2>2
    <3> QED BY <3>1, <3>2 DEF NumberedFrom
  <2>3. CASE c # d /\ c # e
    <3>1. ToDst(p, c) = <<>>
      BY <1>2, <1>5, <2>3 DEF Choice
    <3> QED BY <3>1 DEF NumberedFrom
  <2> QED BY <2>1, <2>2, <2>3
<1> QED BY <1>1, <1>6, PutFlow

\* A descriptor is taken: its flow is numbered anew.
Lower(x) == [x EXCEPT !.n = @ - 1]
Renum(s, k, v) == [j \in DOMAIN s |-> IF s[j][k] = v THEN Lower(s[j]) ELSE s[j]]

LEMMA LowerIs ==
  /\ \A x \in Copy : Lower(x) \in Copy /\ Lower(x).n = x.n - 1 /\ Lower(x).size = x.size /\ Lower(x)["q"] = x["q"]
  /\ \A x \in Desc : Lower(x) \in Desc /\ Lower(x).n = x.n - 1 /\ Lower(x).size = x.size /\ Lower(x)["d"] = x["d"]
<1>1. ASSUME NEW x \in Copy
      PROVE  Lower(x) \in Copy /\ Lower(x).n = x.n - 1 /\ Lower(x).size = x.size /\ Lower(x)["q"] = x["q"]
  BY DEF Lower, Copy
<1>2. ASSUME NEW x \in Desc
      PROVE  Lower(x) \in Desc /\ Lower(x).n = x.n - 1 /\ Lower(x).size = x.size /\ Lower(x)["d"] = x["d"]
  BY DEF Lower, Desc
<1> QED BY <1>1, <1>2

\* t is s with the elements numbered anew whose field k is v.
Lowered(s, t, k, v) ==
  /\ Len(t) = Len(s)
  /\ \A j \in 1 .. Len(s) :
       /\ t[j][k] = s[j][k] /\ t[j].size = s[j].size
       /\ s[j][k] = v => t[j].n = s[j].n - 1
       /\ s[j][k] # v => t[j] = s[j]

LEMMA RenumIs ==
  ASSUME NEW S, NEW s \in Seq(S), NEW k, NEW v,
         \A x \in S : Lower(x) \in S /\ Lower(x).n = x.n - 1 /\ Lower(x).size = x.size /\ Lower(x)[k] = x[k]
  PROVE  Renum(s, k, v) \in Seq(S) /\ Lowered(s, Renum(s, k, v), k, v)
<1> DEFINE e(j) == IF s[j][k] = v THEN Lower(s[j]) ELSE s[j]
           t == Renum(s, k, v)
<1>1. DOMAIN s = 1 .. Len(s) /\ Len(s) \in Nat /\ \A j \in 1 .. Len(s) : s[j] \in S
  OBVIOUS
<1>2. t = [j \in 1 .. Len(s) |-> e(j)]
  BY <1>1 DEF Renum
<1>3. \A j \in 1 .. Len(s) : /\ e(j) \in S /\ e(j)[k] = s[j][k] /\ e(j).size = s[j].size
                             /\ (s[j][k] = v => e(j).n = s[j].n - 1)
                             /\ (s[j][k] # v => e(j) = s[j])
  BY <1>1
<1> HIDE DEF e, t
<1>4. t \in Seq(S) /\ Len(t) = Len(s) /\ \A j \in 1 .. Len(s) : t[j] = e(j)
  BY <1>1, <1>2, <1>3
<1>5. Lowered(s, t, k, v)
  BY <1>3, <1>4 DEF Lowered
<1> QED BY <1>4, <1>5 DEF t

LEMMA LoweredThose ==
  ASSUME NEW S, NEW s \in Seq(S), NEW t \in Seq(S), NEW k, NEW v, Lowered(s, t, k, v)
  PROVE  /\ Len(Those(t, k, v)) = Len(Those(s, k, v))
         /\ \A i \in 1 .. Len(Those(s, k, v)) : /\ Those(t, k, v)[i].n = Those(s, k, v)[i].n - 1
                                               /\ Those(t, k, v)[i].size = Those(s, k, v)[i].size
         /\ \A w : w # v => Those(t, k, w) = Those(s, k, w)
<1>1. Len(t) = Len(s) /\ \A j \in 1 .. Len(s) : t[j][k] = s[j][k]
  BY DEF Lowered
<1>2. \A w : /\ Len(Those(t, k, w)) = Len(Those(s, k, w))
             /\ \A i \in 1 .. Len(Those(s, k, w)) : \E p \in 1 .. Len(s) :
                  s[p][k] = w /\ Those(s, k, w)[i] = s[p] /\ Those(t, k, w)[i] = t[p]
  <2> TAKE w
  <2>1. \A j \in 1 .. Len(s) : s[j][k] = w <=> t[j][k] = w
    BY <1>1
  <2>2. Len(t) = Len(s)
    BY <1>1
  <2>4. SameAt(s, t, k, w, k, w)
    BY <2>1, <2>2 DEF SameAt
  <2>3. /\ Len(Those(t, k, w)) = Len(Those(s, k, w))
        /\ \A i \in 1 .. Len(Those(s, k, w)) : \E p \in 1 .. Len(s) :
             /\ s[p][k] = w /\ Those(s, k, w)[i] = s[p] /\ Those(t, k, w)[i] = t[p]
             /\ Len(Those(SubSeq(s, 1, p - 1), k, w)) = i - 1
    BY <2>4, ThoseAlong
  <2> QED BY <2>3, Zenon
<1>3. ASSUME NEW i \in 1 .. Len(Those(s, k, v))
      PROVE  Those(t, k, v)[i].n = Those(s, k, v)[i].n - 1 /\ Those(t, k, v)[i].size = Those(s, k, v)[i].size
  <2>1. PICK p \in 1 .. Len(s) : s[p][k] = v /\ Those(s, k, v)[i] = s[p] /\ Those(t, k, v)[i] = t[p]
    BY <1>2
  <2> QED BY <2>1 DEF Lowered
<1>4. ASSUME NEW w, w # v PROVE Those(t, k, w) = Those(s, k, w)
  <2> DEFINE a == Those(t, k, w)
             b == Those(s, k, w)
  <2>1. a \in Seq(S) /\ b \in Seq(S)
    BY ThoseTyped
  <2>2. Len(a) = Len(b)
    BY <1>2
  <2>3. ASSUME NEW i \in 1 .. Len(b) PROVE a[i] = b[i]
    <3>1. PICK p \in 1 .. Len(s) : s[p][k] = w /\ b[i] = s[p] /\ a[i] = t[p]
      BY <1>2
    <3> QED BY <1>4, <3>1 DEF Lowered
  <2> HIDE DEF a, b
  <2>4. a = b
    BY ONLY <2>1, <2>2, <2>3, SeqEqual
  <2> QED BY <2>4 DEF a, b
<1> QED BY <1>2, <1>3, <1>4

LEMMA LoweredJoin ==
  ASSUME NEW S, NEW s \in Seq(S), NEW t \in Seq(S), NEW u \in Seq(S), NEW w \in Seq(S), NEW k, NEW v,
         Lowered(s, t, k, v), Lowered(u, w, k, v)
  PROVE  Lowered(s \o u, t \o w, k, v)
<1> DEFINE x == s \o u
           y == t \o w
<1>1. /\ Len(x) = Len(s) + Len(u) /\ Len(s) \in Nat /\ Len(u) \in Nat
      /\ (\A j \in 1 .. Len(s) : x[j] = s[j]) /\ \A j \in 1 .. Len(u) : x[Len(s) + j] = u[j]
  BY JoinIs
<1>2. /\ Len(y) = Len(t) + Len(w)
      /\ (\A j \in 1 .. Len(t) : y[j] = t[j]) /\ \A j \in 1 .. Len(w) : y[Len(t) + j] = w[j]
  BY JoinIs
<1>3. Len(t) = Len(s) /\ Len(w) = Len(u)
  BY DEF Lowered
<1> HIDE DEF x, y
<1>4. ASSUME NEW j \in 1 .. Len(x)
      PROVE  /\ y[j][k] = x[j][k] /\ y[j].size = x[j].size
             /\ x[j][k] = v => y[j].n = x[j].n - 1
             /\ x[j][k] # v => y[j] = x[j]
  <2>1. CASE j \in 1 .. Len(s)
    <3>1. x[j] = s[j] /\ y[j] = t[j]
      BY <1>1, <1>2, <1>3, <2>1
    <3> QED BY <2>1, <3>1 DEF Lowered
  <2>2. CASE j \notin 1 .. Len(s)
    <3> DEFINE i == j - Len(s)
    <3>1. i \in 1 .. Len(u) /\ j = Len(s) + i
      BY <1>1, <2>2
    <3> HIDE DEF i
    <3>2. x[j] = u[i] /\ y[j] = w[i]
      BY <1>1, <1>2, <1>3, <3>1
    <3> QED BY <3>1, <3>2 DEF Lowered
  <2> QED BY <2>1, <2>2
<1> QED BY <1>1, <1>2, <1>3, <1>4 DEF Lowered, x, y

LEMMA LoweredRest ==
  ASSUME NEW S, NEW s \in Seq(S), NEW t \in Seq(S), NEW k, NEW v, Lowered(s, t, k, v), NEW m \in 0 .. Len(s)
  PROVE  Lowered(SubSeq(s, m + 1, Len(s)), SubSeq(t, m + 1, Len(t)), k, v)
<1> DEFINE a == SubSeq(s, m + 1, Len(s))
           b == SubSeq(t, m + 1, Len(t))
<1>0. Len(t) = Len(s) /\ Len(s) \in Nat /\ m \in Nat /\ m <= Len(s)
  BY DEF Lowered
<1>1. Len(a) = Len(s) - m /\ \A i \in 1 .. Len(s) - m : a[i] = s[m + i]
  BY Parts
<1>2. Len(b) = Len(s) - m /\ \A i \in 1 .. Len(s) - m : b[i] = t[m + i]
  <2>1. m \in 0 .. Len(t)
    BY <1>0
  <2>2. Len(b) = Len(t) - m /\ \A i \in 1 .. Len(t) - m : b[i] = t[m + i]
    BY <2>1, Parts
  <2> QED BY <1>0, <2>2
<1> HIDE DEF a, b
<1>3. \A i \in 1 .. Len(s) - m : m + i \in 1 .. Len(s)
  BY <1>0
<1> QED BY SMTT(30), <1>1, <1>2, <1>3 DEF Lowered, a, b

PutFirst(e, k, v, s) == IF e[k] = v THEN <<e>> \o s ELSE s

LEMMA ThoseFirst ==
  ASSUME NEW S, NEW e \in S, NEW x \in Seq(S), NEW k, NEW v
  PROVE  Those(<<e>> \o x, k, v) = PutFirst(e, k, v, Those(x, k, v))
<1> DEFINE o == <<e>>
<1>1. o \in Seq(S) /\ Len(o) = 1 /\ o[1] = e
  OBVIOUS
<1> HIDE DEF o
<1>2. Those(o \o x, k, v) = Those(o, k, v) \o Those(x, k, v) /\ Those(x, k, v) \in Seq(S)
  <2>1. Those(x, k, v) \in Seq(S)
    BY ThoseTyped
  <2>2. o \in Seq(S) /\ x \in Seq(S)
    BY <1>1
  <2> QED BY ONLY <2>1, <2>2, ThoseJoin
<1>3. CASE e[k] = v
  <2>1. \A j \in 1 .. Len(o) : o[j][k] = v
    BY <1>1, <1>3
  <2>2. Those(o, k, v) = o
    BY <1>1, <2>1, ThoseAll
  <2> QED BY <1>2, <1>3, <2>2 DEF o, PutFirst
<1>4. CASE e[k] # v
  <2>1. \A j \in 1 .. Len(o) : o[j][k] # v
    BY <1>1, <1>4
  <2>2. Those(o, k, v) = <<>>
    BY <1>1, <2>1, ThoseNone
  <2> DEFINE y == Those(x, k, v)
  <2>3. y \in Seq(S)
    BY <1>2
  <2> HIDE DEF y
  <2>4. <<>> \o y = y
    BY ONLY <2>3
  <2>5. Those(o \o x, k, v) = y
    BY <1>2, <2>2, <2>4 DEF y
  <2> QED BY <1>4, <2>5 DEF y, o, PutFirst
<1> QED BY <1>3, <1>4

\* g is f without its first element, numbered anew.
Behind(f, g) ==
  Len(g) + 1 = Len(f) /\ \A j \in 1 .. Len(g) : g[j].n = f[j + 1].n - 1 /\ g[j].size = f[j + 1].size

LEMMA NumberedBehind ==
  ASSUME NEW S, NEW f \in Seq(S), NEW g \in Seq(S), Behind(f, g), NEW n, Numbered(f, n)
  PROVE  Numbered(g, n - 1)
<1>1. Len(f) \in Nat /\ Len(g) \in Nat /\ Len(g) + 1 = Len(f) /\ n = Len(f)
  BY DEF Behind, Numbered
<1>2. ASSUME NEW j \in 1 .. Len(g) PROVE g[j].n = j - 1
  <2>1. j + 1 \in 1 .. Len(f)
    BY <1>1
  <2>2. f[j + 1].n = (j + 1) - 1
    BY <2>1 DEF Numbered
  <2>3. g[j].n = f[j + 1].n - 1
    BY DEF Behind
  <2> QED BY <2>2, <2>3
<1> QED BY <1>1, <1>2 DEF Numbered

LEMMA OneLess ==
  ASSUME NEW x, NEW y, NEW f \in Nat, NEW g \in Nat, NEW a \in Nat, g + 1 = f, x = f + a, y = g + a
  PROVE  /\ y + 1 = x
         /\ \A j \in 1 .. y : j \notin 1 .. g => j - g \in 1 .. a /\ j = g + (j - g) /\ j + 1 = f + (j - g)
OBVIOUS

LEMMA BehindJoin ==
  ASSUME NEW S, NEW f \in Seq(S), NEW g \in Seq(S), NEW a \in Seq(S), NEW b \in Seq(S), Behind(f, g),
         Len(b) = Len(a), \A i \in 1 .. Len(a) : b[i].n = a[i].n - 1 /\ b[i].size = a[i].size
  PROVE  Behind(f \o a, g \o b)
<1> DEFINE x == f \o a
           y == g \o b
<1>1. /\ Len(x) = Len(f) + Len(a) /\ Len(f) \in Nat /\ Len(a) \in Nat
      /\ (\A j \in 1 .. Len(f) : x[j] = f[j]) /\ \A j \in 1 .. Len(a) : x[Len(f) + j] = a[j]
  BY JoinIs
<1>2. /\ Len(y) = Len(g) + Len(b) /\ Len(g) \in Nat
      /\ (\A j \in 1 .. Len(g) : y[j] = g[j]) /\ \A j \in 1 .. Len(b) : y[Len(g) + j] = b[j]
  BY ONLY g \in Seq(S), b \in Seq(S), JoinIs
<1> HIDE DEF x, y
<1>3. Len(g) + 1 = Len(f) /\ Len(b) = Len(a) /\ Len(x) = Len(f) + Len(a) /\ Len(y) = Len(g) + Len(a)
      /\ Len(f) \in Nat /\ Len(a) \in Nat /\ Len(g) \in Nat
  BY <1>1, <1>2 DEF Behind
<1>5. /\ Len(y) + 1 = Len(x)
      /\ \A j \in 1 .. Len(y) : j \notin 1 .. Len(g) =>
           j - Len(g) \in 1 .. Len(a) /\ j = Len(g) + (j - Len(g)) /\ j + 1 = Len(f) + (j - Len(g))
  BY ONLY <1>3, OneLess
<1>4. ASSUME NEW j \in 1 .. Len(y) PROVE y[j].n = x[j + 1].n - 1 /\ y[j].size = x[j + 1].size
  <2>1. CASE j \in 1 .. Len(g)
    <3>1. j + 1 \in 1 .. Len(f)
      BY <1>1, <1>2, <1>3, <2>1
    <3>2. y[j] = g[j] /\ x[j + 1] = f[j + 1]
      BY <1>1, <1>2, <2>1, <3>1
    <3> QED BY <2>1, <3>2 DEF Behind
  <2>2. CASE j \notin 1 .. Len(g)
    <3> DEFINE i == j - Len(g)
    <3>1. i \in 1 .. Len(a) /\ j = Len(g) + i /\ j + 1 = Len(f) + i
      BY <1>5, <2>2
    <3> HIDE DEF i
    <3>2. y[j] = b[i] /\ x[j + 1] = a[i]
      BY <1>1, <1>2, <1>3, <3>1
    <3> QED BY <3>1, <3>2
  <2> QED BY <2>1, <2>2
<1> QED BY <1>4, <1>5 DEF Behind, x, y

\* What is taken, and what becomes of the sequences.
New(d) == IF pass.on THEN pass.new[d] ELSE <<>>
Taken(d) == Head(dst[d].buf)
AfterTake(d) == Tail(dst[d].buf) \o New(d)

LEMMA TakeIs ==
  ASSUME FlowInv, NEW d \in Dsts, Take(d)
  PROVE  /\ dir' = dir /\ UNCHANGED <<shadow, last, enabled, sending>> /\ pass'.on = pass.on
         /\ Taken(d) \in Copy /\ Taken(d).q \in Srcs
         /\ dst[d].buf \in Seq(Copy) /\ Tail(dst[d].buf) \in Seq(Copy) /\ New(d) \in Seq(Copy)
         /\ dst[d].buf = <<Taken(d)>> \o Tail(dst[d].buf)
         /\ dst' = [dst EXCEPT ![d] = [buf |-> Renum(Tail(dst[d].buf), "q", Taken(d).q),
                                       cons |-> Index(dst[d].cons + 1, DstLen)]]
         /\ pass' = IF pass.on THEN [pass EXCEPT !.new = [@ EXCEPT ![d] = Renum(New(d), "q", Taken(d).q)]] ELSE pass
         /\ src' = [src EXCEPT ![Taken(d).q] = [@ EXCEPT !.buf = Renum(src[Taken(d).q].buf, "d", d)]]
         /\ sent' = [sent EXCEPT ![Taken(d).q][d] = @ - 1]
<1>0. TypeOK
  BY SMTT(30) DEF FlowInv
<1>1. dst[d].buf \in Seq(Copy) /\ dst[d].buf # <<>>
  BY ZenonT(30), <1>0 DEF TypeOK, Ring, Take
<1>2. Taken(d) \in Copy /\ Tail(dst[d].buf) \in Seq(Copy) /\ dst[d].buf = <<Taken(d)>> \o Tail(dst[d].buf)
  <2> DEFINE s == dst[d].buf
             h == Head(s)
             t == Tail(s)
  <2>1. s \in Seq(Copy) /\ s # <<>>
    BY <1>1
  <2> HIDE DEF s
  <2>2. h \in Copy /\ t \in Seq(Copy) /\ Len(t) = Len(s) - 1 /\ h = s[1] /\ \A i \in 1 .. Len(t) : t[i] = s[i + 1]
    BY <2>1
  <2>3. <<h>> \o t \in Seq(Copy) /\ Len(<<h>> \o t) = Len(s) /\ \A i \in 1 .. Len(s) : (<<h>> \o t)[i] = s[i]
    <3>1. Len(s) \in Nat
      BY <2>1
    <3> HIDE DEF h, t
    <3>2. <<h>> \in Seq(Copy) /\ Len(<<h>>) = 1 /\ <<h>>[1] = h
      BY <2>2
    <3> DEFINE o == <<h>>
    <3>3. o \in Seq(Copy) /\ Len(o) = 1 /\ o[1] = h
      BY <3>2
    <3> HIDE DEF o
    <3>4. o \o t \in Seq(Copy) /\ Len(o \o t) = 1 + Len(t) /\ (o \o t)[1] = o[1]
          /\ \A j \in 1 .. Len(t) : (o \o t)[1 + j] = t[j]
      <4>1. o \in Seq(Copy) /\ t \in Seq(Copy)
        BY <2>2, <3>3
      <4>2. /\ o \o t \in Seq(Copy) /\ Len(o \o t) = Len(o) + Len(t)
            /\ \A j \in 1 .. Len(o) : (o \o t)[j] = o[j]
            /\ \A j \in 1 .. Len(t) : (o \o t)[Len(o) + j] = t[j]
        BY ONLY <4>1, JoinIs
      <4> QED BY <3>3, <4>2
    <3>5. ASSUME NEW i \in 1 .. Len(s) PROVE (o \o t)[i] = s[i]
      <4>1. CASE i = 1
        BY <2>2, <3>3, <3>4, <4>1
      <4>2. CASE i # 1
        <5> DEFINE j == i - 1
        <5>1. j \in 1 .. Len(t) /\ i = 1 + j /\ i = j + 1
          BY <2>2, <3>1, <4>2
        <5> HIDE DEF j
        <5> QED BY <2>2, <3>4, <5>1
      <4> QED BY <4>1, <4>2
    <3> QED BY <2>2, <3>1, <3>4, <3>5 DEF o
  <2>4. s = <<h>> \o t
    BY ONLY <2>1, <2>3, SeqEqual
  <2> QED BY <2>2, <2>4 DEF s, Taken
<1>3. Taken(d).q \in Srcs
  BY <1>2 DEF Copy
<1>4. New(d) \in Seq(Copy)
  <2>1. pass.on => pass.new[d] \in Seq(Copy)
    BY <1>0, PassIs DEF Passes
  <2> QED BY <2>1 DEF New
<1>5. /\ dst' = [dst EXCEPT ![d] = [buf |-> Renum(Tail(dst[d].buf), "q", Taken(d).q),
                                    cons |-> Index(dst[d].cons + 1, DstLen)]]
      /\ src' = [src EXCEPT ![Taken(d).q].buf = Renum(src[Taken(d).q].buf, "d", d)]
  <2> HIDE DEF Index
  <2>1. dst' = [dst EXCEPT ![d] = [buf |-> Renum(Tail(@.buf), "q", Taken(d).q), cons |-> Index(@.cons + 1, DstLen)]]
    BY Zenon DEF Take, Renum, Lower, Taken
  <2>2. src' = [src EXCEPT ![Taken(d).q].buf = Renum(@, "d", d)]
    BY Zenon DEF Take, Renum, Lower, Taken
  <2>3. src[Taken(d).q] \in Ring(Desc)
    BY <1>0, <1>3 DEF TypeOK
  <2> QED BY <2>1, <2>2
<1>6. pass' = IF pass.on THEN [pass EXCEPT !.new = [@ EXCEPT ![d] = Renum(New(d), "q", Taken(d).q)]] ELSE pass
  <2>1. pass' = IF pass.on THEN [pass EXCEPT !.new[d] = Renum(@, "q", Taken(d).q)] ELSE pass
    BY Zenon DEF Take, Renum, Lower, Taken
  <2> QED BY <2>1 DEF New
<1>7. pass'.on = pass.on
  <2>1. pass.on => pass \in Passes
    BY SMTT(30), <1>0, PassIs
  <2> QED BY <1>6, <2>1 DEF Passes
<1>8. dir' = dir /\ UNCHANGED <<shadow, last, enabled, sending>> /\ sent' = [sent EXCEPT ![Taken(d).q][d] = @ - 1]
  BY ZenonT(30) DEF Take, Taken
<1> QED BY <1>1, <1>2, <1>3, <1>4, <1>5, <1>6, <1>7, <1>8

LEMMA TakeParts ==
  ASSUME FlowInv, NEW d \in Dsts, Take(d), NEW q, q = Taken(d).q
  PROVE  /\ TypeOK' /\ ShadowFits'
         /\ AfterTake(d) \in Seq(Copy) /\ Delivered(d)' \in Seq(Copy)
         /\ Delivered(d) = <<Taken(d)>> \o AfterTake(d)
         /\ Lowered(AfterTake(d), Delivered(d)', "q", q)
         /\ \A c \in Dsts \ {d} : Delivered(c)' = Delivered(c)
         /\ Fresh(q)' \in Seq(Desc) /\ Lowered(Fresh(q), Fresh(q)', "d", d)
         /\ \A r \in Srcs \ {q} : Fresh(r)' = Fresh(r)
<1> DEFINE t == Tail(dst[d].buf)
           t2 == Renum(t, "q", q)
           n == New(d)
           n2 == Renum(n, "q", q)
           b == src[q].buf
           b2 == Renum(b, "d", d)
<1>0. TypeOK /\ ShadowFits /\ Taken(d) \in Copy /\ q \in Srcs /\ t \in Seq(Copy) /\ n \in Seq(Copy) /\ b \in Seq(Desc)
  <2>1. TypeOK /\ ShadowFits /\ Taken(d) \in Copy /\ q \in Srcs /\ t \in Seq(Copy) /\ n \in Seq(Copy)
    BY TakeIs DEF FlowInv
  <2> QED BY <2>1 DEF TypeOK, Ring
<1>a. dir' = dir /\ UNCHANGED <<shadow, last, enabled, sending>> /\ pass'.on = pass.on
  BY TakeIs
<1>b. dst' = [dst EXCEPT ![d] = [buf |-> t2, cons |-> Index(dst[d].cons + 1, DstLen)]]
  BY TakeIs
<1>c. pass' = IF pass.on THEN [pass EXCEPT !.new = [@ EXCEPT ![d] = n2]] ELSE pass
  BY TakeIs
<1>d. src' = [src EXCEPT ![q] = [@ EXCEPT !.buf = b2]]
  BY TakeIs
<1>e. sent' = [sent EXCEPT ![q][d] = @ - 1]
  BY TakeIs
<1>f. dst[d].buf = <<Taken(d)>> \o t
  BY TakeIs
<1>1. t2 \in Seq(Copy) /\ Lowered(t, t2, "q", q) /\ n2 \in Seq(Copy) /\ Lowered(n, n2, "q", q)
  <2> HIDE DEF t, n
  <2>1. \A x \in Copy : Lower(x) \in Copy /\ Lower(x).n = x.n - 1 /\ Lower(x).size = x.size /\ Lower(x)["q"] = x["q"]
    BY LowerIs
  <2>2. t \in Seq(Copy) /\ n \in Seq(Copy)
    BY <1>0
  <2> QED BY <2>1, <2>2, RenumIs
<1>2. b2 \in Seq(Desc) /\ Lowered(b, b2, "d", d)
  <2> HIDE DEF b
  <2>1. \A x \in Desc : Lower(x) \in Desc /\ Lower(x).n = x.n - 1 /\ Lower(x).size = x.size /\ Lower(x)["d"] = x["d"]
    BY LowerIs
  <2>2. b \in Seq(Desc)
    BY <1>0
  <2> QED BY <2>1, <2>2, RenumIs
<1> HIDE DEF t, t2, n, n2, b, b2
<1>3. /\ Srcs' = Srcs /\ Dsts' = Dsts
      /\ Desc' = Desc /\ Copy' = Copy /\ Place' = Place /\ Passes' = Passes /\ Elt' = Elt
  BY <1>a, SameDir
<1>4. /\ dst \in [Dsts -> Ring(Copy)] /\ src \in [Srcs -> Ring(Desc)] /\ sent \in [Srcs -> [Dsts -> Int]]
      /\ pass \in Passes \cup {NoPass}
  BY <1>0 DEF TypeOK
<1>5. src' \in [Srcs -> Ring(Desc)] /\ src'[q].buf = b2 /\ \A r \in Srcs \ {q} : src'[r] = src[r]
  <2>1. [src[q] EXCEPT !.buf = b2] \in Ring(Desc) /\ [src[q] EXCEPT !.buf = b2].buf = b2
    BY <1>0, <1>2, <1>4 DEF Ring
  <2> QED BY <1>0, <1>4, <1>d, <2>1
<1>6. dst' \in [Dsts -> Ring(Copy)] /\ dst'[d].buf = t2 /\ \A c \in Dsts \ {d} : dst'[c] = dst[c]
  <2>1. dst[d].cons \in Nat
    BY <1>4 DEF Ring
  <2>2. DstLen \in Nat \ {0} /\ dst[d].cons + 1 \in Nat
    BY <2>1, InterimAssumption
  <2> DEFINE i == dst[d].cons + 1
  <2>3. i \in Nat
    BY <2>2
  <2> HIDE DEF i
  <2>4. Index(i, DstLen) \in Nat
    BY <2>2, <2>3, IndexIs
  <2>5. [buf |-> t2, cons |-> Index(i, DstLen)] \in Ring(Copy)
    BY <1>1, <2>4 DEF Ring
  <2>6. dst' = [dst EXCEPT ![d] = [buf |-> t2, cons |-> Index(i, DstLen)]]
    BY <1>b DEF i
  <2> QED BY <1>4, <2>5, <2>6
<1>7. pass' \in Passes \cup {NoPass} /\ (pass.on => pass'.new[d] = n2 /\ \A c \in Dsts \ {d} : pass'.new[c] = pass.new[c])
  <2>1. CASE pass.on
    <3>1. pass \in Passes
      BY <1>0, <2>1, PassIs
    <3> DEFINE w == [pass.new EXCEPT ![d] = n2]
    <3>2. pass.new \in [Dsts -> Seq(Copy)]
      BY <3>1 DEF Passes
    <3>3. w \in [Dsts -> Seq(Copy)] /\ w[d] = n2 /\ \A c \in Dsts \ {d} : w[c] = pass.new[c]
      BY <1>1, <3>2
    <3>4. pass' = [pass EXCEPT !.new = w]
      BY <1>c, <2>1
    <3> HIDE DEF w
    <3>5. pass' \in Passes /\ pass'.new = w
      BY <3>1, <3>3, <3>4 DEF Passes
    <3> QED BY <3>3, <3>5
  <2>2. CASE ~pass.on
    BY <1>4, <1>c, <2>2
  <2> QED BY <2>1, <2>2
<1>8. sent' \in [Srcs -> [Dsts -> Int]]
  BY <1>0, <1>4, <1>e
<1>9. TypeOK'
  <2> HIDE DEF Ring
  <2> QED BY <1>0, <1>3, <1>5, <1>6, <1>7, <1>8, <1>a DEF TypeOK, NoPass
<1>10. ShadowFits'
  <2>1. ASSUME NEW r \in Srcs PROVE Len(src'[r].buf) = Len(src[r].buf)
    <3>1. Len(b2) = Len(b)
      BY <1>2 DEF Lowered
    <3> QED BY <1>5, <3>1 DEF b
  <2> QED BY <1>0, <1>3, <1>a, <2>1 DEF ShadowFits
<1>11. AfterTake(d) = t \o n
  BY DEF AfterTake, t, n
<1>12. Delivered(d) = <<Taken(d)>> \o AfterTake(d)
  <2>1. Delivered(d) = (<<Taken(d)>> \o t) \o n
    BY <1>f DEF Delivered, n, New
  <2> DEFINE o == <<Taken(d)>>
  <2>2. o \in Seq(Copy) /\ t \in Seq(Copy) /\ n \in Seq(Copy)
    BY <1>0
  <2>3. (o \o t) \o n = o \o (t \o n)
    <3> HIDE DEF o
    <3> QED BY ONLY <2>2, ConcatAssociative
  <2> QED BY <1>11, <2>1, <2>3
<1>13. Delivered(d)' = t2 \o n2
  <2>1. CASE pass.on
    BY <1>6, <1>7, <1>a, <2>1 DEF Delivered
  <2>2. CASE ~pass.on
    <3>1. n = <<>>
      BY <2>2 DEF n, New
    <3>2. Len(n2) = 0
      BY <1>1, <3>1 DEF Lowered
    <3>3. n2 = <<>>
      BY <1>1, <3>2
    <3> QED BY <1>6, <1>a, <2>2, <3>3 DEF Delivered
  <2> QED BY <2>1, <2>2
<1>14. AfterTake(d) \in Seq(Copy) /\ Delivered(d)' \in Seq(Copy)
  BY <1>0, <1>1, <1>11, <1>13
<1>15. Lowered(AfterTake(d), Delivered(d)', "q", q)
  <2>1. Lowered(t \o n, t2 \o n2, "q", q)
    BY ONLY <1>0, <1>1, LoweredJoin
  <2> QED BY <1>11, <1>13, <2>1
<1>16. ASSUME NEW c \in Dsts \ {d} PROVE Delivered(c)' = Delivered(c)
  BY <1>6, <1>7, <1>a DEF Delivered
<1>17. Fresh(q)' \in Seq(Desc) /\ Lowered(Fresh(q), Fresh(q)', "d", d)
  <2> DEFINE m == Len(shadow[q])
  <2>1. m \in 0 .. Len(b)
    BY <1>0, FreshIs DEF ShadowFits, b
  <2> HIDE DEF m
  <2>2. Lowered(SubSeq(b, m + 1, Len(b)), SubSeq(b2, m + 1, Len(b2)), "d", d)
    <3>1. b \in Seq(Desc) /\ b2 \in Seq(Desc) /\ Lowered(b, b2, "d", d)
      BY <1>0, <1>2
    <3> QED BY ONLY <2>1, <3>1, LoweredRest
  <2>3. Fresh(q) = SubSeq(b, m + 1, Len(b)) /\ Fresh(q)' = SubSeq(b2, m + 1, Len(b2))
    <3>1. shadow' = shadow /\ src'[q].buf = b2
      BY <1>5, <1>a
    <3> QED BY <3>1, <1>a DEF Fresh, m, b
  <2>4. m \in 0 .. Len(b2)
    BY <1>2, <2>1 DEF Lowered
  <2>5. SubSeq(b2, m + 1, Len(b2)) \in Seq(Desc)
    BY ONLY <1>2, <2>4, Parts
  <2> QED BY <2>2, <2>3, <2>5
<1>18. ASSUME NEW r \in Srcs \ {q} PROVE Fresh(r)' = Fresh(r)
  BY <1>5, <1>a DEF Fresh
<1> QED BY <1>9, <1>10, <1>12, <1>14, <1>15, <1>16, <1>17, <1>18

FlowTypes ==
  \A r \in Srcs, c \in Dsts :
    /\ Delivered(c) \in Seq(Copy) /\ Held(r, c) = OfFlow(Delivered(c), r)
    /\ Held(r, c) \in Seq(Elt) /\ ToDst(Fresh(r), c) \in Seq(Elt) /\ Flow(r, c) \in Seq(Elt)

LEMMA FlowsTyped == TypeOK /\ ShadowFits => FlowTypes
BY FlowTyped DEF FlowTypes

LEMMA FlowsTypedNext == (TypeOK /\ ShadowFits)' => FlowTypes'
BY FlowsTyped, PTL

LEMMA TakeFlow ==
  ASSUME FlowInv, NEW d \in Dsts, Take(d), NEW q, q = Taken(d).q
  PROVE  /\ FlowInv' /\ Behind(Flow(q, d), Flow(q, d)')
         /\ \A r \in Srcs, c \in Dsts : <<r, c>> # <<q, d>> => Flow(r, c)' = Flow(r, c)
<1> DEFINE e == Taken(d)
           x == AfterTake(d)
           y == Delivered(d)'
           f == Fresh(q)
           g == Fresh(q)'
<1>0. TypeOK /\ ShadowFits /\ TypeOK' /\ ShadowFits' /\ dir' = dir
  BY TakeParts, TakeIs DEF FlowInv
<1>1. q \in Srcs /\ e \in Copy /\ e["q"] = q
  BY TakeIs
<1>2. /\ x \in Seq(Copy) /\ y \in Seq(Copy) /\ Delivered(d) = <<e>> \o x /\ Lowered(x, y, "q", q)
      /\ g \in Seq(Desc) /\ Lowered(f, g, "d", d)
  BY TakeParts
<1>3. /\ \A c \in Dsts \ {d} : Delivered(c)' = Delivered(c)
      /\ \A r \in Srcs \ {q} : Fresh(r)' = Fresh(r)
  BY TakeParts
<1>4. f \in Seq(Desc)
  BY <1>0, <1>1, FreshIs
<1>5. /\ Srcs' = Srcs /\ Dsts' = Dsts /\ Elt' = Elt
  BY <1>0, SameDir
<1> HIDE DEF e, x, y, f, g
<1>6. ASSUME NEW r \in Srcs, NEW c \in Dsts
      PROVE  /\ Held(r, c) = Those(Delivered(c), "q", r) /\ Held(r, c)' = Those(Delivered(c)', "q", r)
             /\ Held(r, c) \in Seq(Elt) /\ Held(r, c)' \in Seq(Elt)
             /\ ToDst(Fresh(r), c) \in Seq(Elt) /\ ToDst(Fresh(r), c)' \in Seq(Elt)
             /\ Flow(r, c) \in Seq(Elt) /\ Flow(r, c)' \in Seq(Elt)
  <2>1. /\ Held(r, c) = Those(Delivered(c), "q", r)
        /\ Held(r, c) \in Seq(Elt) /\ ToDst(Fresh(r), c) \in Seq(Elt) /\ Flow(r, c) \in Seq(Elt)
    BY <1>0, FlowTyped DEF OfFlow
  <2>2. FlowTypes'
    BY <1>0, FlowsTypedNext
  <2> QED BY <1>5, <2>1, <2>2 DEF FlowTypes, OfFlow
<1>7. \A c \in Dsts \ {d}, r \in Srcs : Held(r, c)' = Held(r, c)
  BY <1>3, <1>6
<1>8. \A r \in Srcs \ {q} : Held(r, d)' = Held(r, d)
  <2> TAKE r \in Srcs \ {q}
  <2>1. Those(<<e>> \o x, "q", r) = Those(x, "q", r)
    BY <1>1, <1>2, ThoseFirst DEF PutFirst
  <2>2. Those(y, "q", r) = Those(x, "q", r)
    BY <1>2, LoweredThose
  <2> QED BY <1>2, <1>6, <2>1, <2>2 DEF y
<1>9. Behind(Held(q, d), Held(q, d)')
  <2>1. Those(<<e>> \o x, "q", q) = <<e>> \o Those(x, "q", q)
    <3>1. e \in Copy /\ x \in Seq(Copy)
      BY <1>1, <1>2
    <3>2. Those(<<e>> \o x, "q", q) = PutFirst(e, "q", q, Those(x, "q", q))
      BY ONLY <3>1, ThoseFirst
    <3> QED BY <1>1, <3>2 DEF PutFirst
  <2> DEFINE v == Those(x, "q", q)
             w == Those(y, "q", q)
  <2>2. Len(w) = Len(v) /\ \A i \in 1 .. Len(v) : w[i].n = v[i].n - 1 /\ w[i].size = v[i].size
    <3>1. x \in Seq(Copy) /\ y \in Seq(Copy) /\ Lowered(x, y, "q", q)
      BY <1>2
    <3> QED BY ONLY <3>1, LoweredThose
  <2>3. v \in Seq(Copy)
    BY <1>2, ThoseTyped
  <2>4. Held(q, d) = <<e>> \o v /\ Held(q, d)' = w
    BY <1>1, <1>2, <1>6, <2>1 DEF y
  <2> HIDE DEF v, w
  <2> DEFINE o == <<e>>
  <2>5. o \in Seq(Copy) /\ Len(o) = 1
    BY <1>1
  <2> HIDE DEF o
  <2>6. Len(o \o v) = 1 + Len(v) /\ Len(v) \in Nat /\ \A j \in 1 .. Len(v) : (o \o v)[1 + j] = v[j]
    BY <2>3, <2>5, JoinIs
  <2>7. \A j \in 1 .. Len(v) : j + 1 = 1 + j
    BY <2>6
  <2>8. Behind(o \o v, w)
    BY <2>2, <2>6, <2>7 DEF Behind
  <2> QED BY <2>4, <2>8 DEF o
<1>10. /\ \A c \in Dsts \ {d} : ToDst(Fresh(q), c)' = ToDst(Fresh(q), c)
       /\ Len(ToDst(Fresh(q), d)') = Len(ToDst(Fresh(q), d))
       /\ \A i \in 1 .. Len(ToDst(Fresh(q), d)) : /\ ToDst(Fresh(q), d)'[i].n = ToDst(Fresh(q), d)[i].n - 1
                                                 /\ ToDst(Fresh(q), d)'[i].size = ToDst(Fresh(q), d)[i].size
  <2>1. /\ Len(Those(g, "d", d)) = Len(Those(f, "d", d))
        /\ \A i \in 1 .. Len(Those(f, "d", d)) : /\ Those(g, "d", d)[i].n = Those(f, "d", d)[i].n - 1
                                                 /\ Those(g, "d", d)[i].size = Those(f, "d", d)[i].size
        /\ \A w : w # d => Those(g, "d", w) = Those(f, "d", w)
    BY <1>2, <1>4, LoweredThose
  <2>2. \A c : ToDst(Fresh(q), c)' = Those(g, "d", c') /\ ToDst(Fresh(q), c) = Those(f, "d", c)
    BY DEF ToDst, f, g
  <2> QED BY <2>1, <2>2
<1>11. Behind(Flow(q, d), Flow(q, d)')
  <2> DEFINE h == Held(q, d)
             h2 == Held(q, d)'
             s == ToDst(Fresh(q), d)
             s2 == ToDst(Fresh(q), d)'
  <2>1. h \in Seq(Elt) /\ h2 \in Seq(Elt) /\ s \in Seq(Elt) /\ s2 \in Seq(Elt)
    BY <1>1, <1>6
  <2>2. Behind(h, h2) /\ Len(s2) = Len(s) /\ \A i \in 1 .. Len(s) : s2[i].n = s[i].n - 1 /\ s2[i].size = s[i].size
    BY <1>9, <1>10
  <2>3. Flow(q, d) = h \o s /\ Flow(q, d)' = h2 \o s2
    BY DEF Flow
  <2> HIDE DEF h, h2, s, s2
  <2>4. Behind(h \o s, h2 \o s2)
    BY ONLY <2>1, <2>2, BehindJoin
  <2> QED BY <2>3, <2>4
<1>12. ASSUME NEW r \in Srcs, NEW c \in Dsts, <<r, c>> # <<q, d>> PROVE Flow(r, c)' = Flow(r, c)
  <2>1. Held(r, c)' = Held(r, c)
    BY <1>7, <1>8, <1>12
  <2>2. ToDst(Fresh(r), c)' = ToDst(Fresh(r), c)
    <3>1. CASE r = q
      BY <1>10, <1>12, <3>1
    <3>2. CASE r # q
      BY <1>3, <3>2 DEF ToDst
    <3> QED BY <3>1, <3>2
  <2> QED BY <2>1, <2>2 DEF Flow
<1>13. ASSUME NEW r \in Srcs, NEW c \in Dsts PROVE Numbered(Flow(r, c)', sent'[r][c])
  <2>1. Numbered(Flow(r, c), sent[r][c])
    BY DEF FlowInv, Fifo
  <2>2. sent' = [sent EXCEPT ![q][d] = @ - 1] /\ sent \in [Srcs -> [Dsts -> Int]]
    BY <1>0, TakeIs DEF TypeOK
  <2>3. CASE <<r, c>> # <<q, d>>
    <3>1. sent'[r][c] = sent[r][c]
      BY <2>2, <2>3
    <3> QED BY <1>12, <2>1, <2>3, <3>1
  <2>4. CASE r = q /\ c = d
    <3>1. sent'[q][d] = sent[q][d] - 1
      BY <1>1, <2>2
    <3>2. Flow(q, d) \in Seq(Elt) /\ Flow(q, d)' \in Seq(Elt)
      BY <1>1, <1>6
    <3>3. Numbered(Flow(q, d)', sent[q][d] - 1)
      BY <1>11, <2>1, <2>4, <3>2, NumberedBehind
    <3> QED BY <2>4, <3>1, <3>3
  <2> QED BY <2>3, <2>4
<1>14. Fifo'
  BY <1>5, <1>13 DEF Fifo, Numbered
<1> QED BY <1>0, <1>11, <1>12, <1>14 DEF FlowInv

\* What a turn copies, and gives back.
CopiedTo(q, d) == ToDst(SubSeq(Fresh(q), 1, Copied(Fresh(q))), d)
Done(q) == IF dir = "out" THEN Retired(q) ELSE Copied(Fresh(q))
PlaceOf(q, j) == [d |-> Fresh(q)[j].d,
                  idx |-> (pass.prod[Fresh(q)[j].d] + Before(Fresh(q), j)) % DstLen]
Places(q) == [j \in 1 .. Copied(Fresh(q)) |-> PlaceOf(q, j)]
CopyOf(q, e) == [q |-> q, n |-> e.n, size |-> e.size]
NewCopies(q, d) == [j \in DOMAIN CopiedTo(q, d) |-> CopyOf(q, CopiedTo(q, d)[j])]

LEMMA VisitIs ==
  ASSUME FlowInv, Visit, NEW q, q = Rotate(last, pass.turn)
  PROVE  /\ pass.on /\ pass \in Passes /\ q \in Srcs /\ pass.turn < Turns /\ ~pass.break
         /\ dir' = dir /\ last' = q /\ UNCHANGED <<dst, enabled, sending, sent>>
         /\ src' = [src EXCEPT ![q] = [buf |-> SubSeq(src[q].buf, Done(q) + 1, Len(src[q].buf)),
                                       cons |-> Index(src[q].cons + Done(q), SrcLen)]]
         /\ shadow' = IF dir = "out"
                      THEN [shadow EXCEPT ![q] = SubSeq(shadow[q], Done(q) + 1, Len(shadow[q])) \o Places(q)]
                      ELSE shadow
         /\ pass' = [pass EXCEPT
                       !.turn = pass.turn + 1,
                       !.break = Copied(Fresh(q)) < Len(Fresh(q)),
                       !.free = [d \in Dsts |-> pass.free[d] - Len(CopiedTo(q, d))],
                       !.prod = [d \in Dsts |-> Index(pass.prod[d] + Len(CopiedTo(q, d)), DstLen)],
                       !.new = [d \in Dsts |-> pass.new[d] \o NewCopies(q, d)]]
<1>0. TypeOK /\ pass.on
  BY ZenonT(30) DEF FlowInv, Visit
<1>1. pass \in Passes
  BY <1>0, PassIs
<1>2. q \in Srcs
  BY SMTT(30), <1>0, <1>1, RotateIs DEF TypeOK, Passes
<1>3. pass.turn < Turns /\ ~pass.break /\ dir' = dir /\ last' = q /\ UNCHANGED <<dst, enabled, sending, sent>>
  BY ZenonT(30) DEF Visit
<1>4. src' = [src EXCEPT ![q] = [buf |-> SubSeq(@.buf, Done(q) + 1, Len(@.buf)),
                                 cons |-> Index(@.cons + Done(q), SrcLen)]]
  BY Zenon DEF Visit, Done
<1>5. shadow' = IF dir = "out"
                THEN [shadow EXCEPT ![q] = SubSeq(@, Done(q) + 1, Len(@)) \o Places(q)]
                ELSE shadow
  BY Zenon DEF Visit, Done, Places, PlaceOf
<1>6. pass' = [pass EXCEPT
                 !.turn = @ + 1,
                 !.break = Copied(Fresh(q)) < Len(Fresh(q)),
                 !.free = [d \in Dsts |-> @[d] - Len(CopiedTo(q, d))],
                 !.prod = [d \in Dsts |-> Index(@[d] + Len(CopiedTo(q, d)), DstLen)],
                 !.new = [d \in Dsts |-> @[d] \o NewCopies(q, d)]]
  BY Zenon DEF Visit, CopiedTo, NewCopies, CopyOf
<1>7. src' = [src EXCEPT ![q] = [buf |-> SubSeq(src[q].buf, Done(q) + 1, Len(src[q].buf)),
                                 cons |-> Index(src[q].cons + Done(q), SrcLen)]]
  BY <1>4, Zenon
<1>8. shadow' = IF dir = "out"
                THEN [shadow EXCEPT ![q] = SubSeq(shadow[q], Done(q) + 1, Len(shadow[q])) \o Places(q)]
                ELSE shadow
  BY <1>5, Zenon
<1>9. pass' = [pass EXCEPT
                 !.turn = pass.turn + 1,
                 !.break = Copied(Fresh(q)) < Len(Fresh(q)),
                 !.free = [d \in Dsts |-> pass.free[d] - Len(CopiedTo(q, d))],
                 !.prod = [d \in Dsts |-> Index(pass.prod[d] + Len(CopiedTo(q, d)), DstLen)],
                 !.new = [d \in Dsts |-> pass.new[d] \o NewCopies(q, d)]]
  BY <1>6, Zenon
<1> QED BY SMTT(30), <1>0, <1>1, <1>2, <1>3, <1>7, <1>8, <1>9

\* The same numbers and sizes.
Alike(f, g) == Len(g) = Len(f) /\ \A j \in 1 .. Len(f) : g[j].n = f[j].n /\ g[j].size = f[j].size

LEMMA AlikeJoin ==
  ASSUME NEW S, NEW f \in Seq(S), NEW g \in Seq(S), NEW a \in Seq(S), NEW b \in Seq(S), Alike(f, g), Alike(a, b)
  PROVE  Alike(f \o a, g \o b)
<1> DEFINE x == f \o a
           y == g \o b
<1>1. /\ Len(x) = Len(f) + Len(a) /\ Len(f) \in Nat /\ Len(a) \in Nat
      /\ (\A j \in 1 .. Len(f) : x[j] = f[j]) /\ \A j \in 1 .. Len(a) : x[Len(f) + j] = a[j]
  BY JoinIs
<1>2. /\ Len(y) = Len(g) + Len(b)
      /\ (\A j \in 1 .. Len(g) : y[j] = g[j]) /\ \A j \in 1 .. Len(b) : y[Len(g) + j] = b[j]
  BY ONLY g \in Seq(S), b \in Seq(S), JoinIs
<1>3. Len(g) = Len(f) /\ Len(b) = Len(a)
  BY DEF Alike
<1> HIDE DEF x, y
<1>4. ASSUME NEW j \in 1 .. Len(x) PROVE y[j].n = x[j].n /\ y[j].size = x[j].size
  <2>1. CASE j \in 1 .. Len(f)
    <3>1. y[j] = g[j] /\ x[j] = f[j]
      BY <1>1, <1>2, <1>3, <2>1
    <3> QED BY <2>1, <3>1 DEF Alike
  <2>2. CASE j \notin 1 .. Len(f)
    <3> DEFINE i == j - Len(f)
    <3>1. i \in 1 .. Len(a) /\ j = Len(f) + i
      BY <1>1, <2>2
    <3> HIDE DEF i
    <3>2. y[j] = b[i] /\ x[j] = a[i]
      BY <1>1, <1>2, <1>3, <3>1
    <3> QED BY <3>1, <3>2 DEF Alike
  <2> QED BY <2>1, <2>2
<1> QED BY <1>1, <1>2, <1>3, <1>4 DEF Alike, x, y

LEMMA NumberedAlike ==
  ASSUME NEW f, NEW g, Alike(f, g), NEW n, Numbered(f, n)
  PROVE  Numbered(g, n)
BY DEF Alike, Numbered

LEMMA BeforeIs ==
  ASSUME NEW f \in Seq(Desc), NEW j \in 1 .. Len(f)
  PROVE  Before(f, j) \in Nat
<1> DEFINE g == SubSeq(f, 1, j - 1)
<1>1. j - 1 \in 0 .. Len(f)
  OBVIOUS
<1>2. g \in Seq(Desc)
  BY <1>1, Parts
<1> HIDE DEF g
<1>3. Those(g, "d", f[j].d) \in Seq(Desc)
  BY <1>2, ThoseTyped
<1>4. Len(Those(g, "d", f[j].d)) \in Nat
  BY <1>3
<1> QED BY <1>4 DEF Before, ToDst, g

\* The numbers of a turn.
LEMMA TurnIs ==
  ASSUME TypeOK, ShadowFits, pass.on, NEW q \in Srcs
  PROVE  /\ Copied(Fresh(q)) \in 0 .. Len(Fresh(q)) /\ Len(Fresh(q)) \in Nat /\ Fresh(q) \in Seq(Desc)
         /\ Done(q) \in 0 .. Len(src[q].buf) /\ (dir = "out" => Done(q) \in 0 .. Len(shadow[q]))
         /\ Places(q) \in Seq(Place) /\ Len(Places(q)) = Copied(Fresh(q))
         /\ \A j \in 1 .. Copied(Fresh(q)) : Places(q)[j] = PlaceOf(q, j)
         /\ \A d \in Dsts : /\ CopiedTo(q, d) \in Seq(Desc) /\ NewCopies(q, d) \in Seq(Copy)
                            /\ Len(NewCopies(q, d)) = Len(CopiedTo(q, d))
                            /\ \A j \in 1 .. Len(CopiedTo(q, d)) : NewCopies(q, d)[j] = CopyOf(q, CopiedTo(q, d)[j])
<1> DEFINE f == Fresh(q)
           m == Copied(f)
<1>1. f \in Seq(Desc) /\ Len(f) = Len(src[q].buf) - Len(shadow[q]) /\ Len(shadow[q]) \in Nat /\ src[q].buf \in Seq(Desc)
  BY FreshIs
<1>2. pass \in Passes
  BY PassIs
<1>3. f \in Seq(Desc) /\ Len(f) \in Nat /\ m \in 0 .. Len(f)
  <2> HIDE DEF f
  <2>1. Len(f) \in Nat
    BY <1>1
  <2>2. Copied(f) \in 0 .. Len(f)
    BY <2>1, CopiedIs
  <2> QED BY <1>1, <2>1, <2>2
<1>4. Len(src[q].buf) \in Nat /\ Len(shadow[q]) <= Len(src[q].buf) /\ (dir = "in" => Len(shadow[q]) = 0)
  BY <1>1 DEF ShadowFits
<1>5. Done(q) \in 0 .. Len(src[q].buf) /\ (dir = "out" => Done(q) \in 0 .. Len(shadow[q]))
  <2>1. CASE dir = "out"
    <3>1. Done(q) = Retired(q) /\ Retired(q) \in 0 .. Len(shadow[q])
      BY <1>1, <2>1, RetiredIs DEF Done
    <3> QED BY <1>1, <1>4, <3>1
  <2>2. CASE dir # "out"
    <3>1. dir = "in"
      BY <2>2, InterimAssumption DEF TypeOK
    <3>2. Done(q) = m
      BY <2>2 DEF Done
    <3> HIDE DEF m, f
    <3> QED BY <1>1, <1>3, <1>4, <2>2, <3>1, <3>2 DEF f
  <2> QED BY <2>1, <2>2
<1>6. \A j \in 1 .. m : PlaceOf(q, j) \in Place
  <2> TAKE j \in 1 .. m
  <2> HIDE DEF m
  <2>1. j \in 1 .. Len(f)
    BY <1>3
  <2>2. f[j] \in Desc /\ Before(f, j) \in Nat
    <3> HIDE DEF f
    <3> QED BY <1>3, <2>1, BeforeIs
  <2> DEFINE d == f[j].d
             b == Before(f, j)
  <2>3. d \in Dsts /\ b \in Nat
    BY <2>2 DEF Desc
  <2> HIDE DEF d, b
  <2>4. pass.prod[d] + b \in Nat
    BY <1>2, <2>3 DEF Passes
  <2> DEFINE i == pass.prod[d] + b
  <2>5. DstLen \in Nat \ {0} /\ i \in Nat
    BY <2>4, InterimAssumption
  <2> HIDE DEF i
  <2>6. i % DstLen \in Nat
    <3>1. i % DstLen \in 0 .. DstLen - 1
      BY <2>5, ModRange
    <3> QED BY <2>5, <3>1
  <2>7. PlaceOf(q, j) = [d |-> d, idx |-> i % DstLen]
    BY DEF PlaceOf, d, b, i
  <2> QED BY <2>3, <2>6, <2>7 DEF Place
<1>7. Places(q) \in Seq(Place) /\ Len(Places(q)) = m /\ \A j \in 1 .. m : Places(q)[j] = PlaceOf(q, j)
  <2>1. Places(q) = [j \in 1 .. m |-> PlaceOf(q, j)]
    BY DEF Places
  <2>2. m \in Nat
    BY <1>3
  <2> HIDE DEF m
  <2> QED BY <1>6, <2>1, <2>2
<1>8. ASSUME NEW d \in Dsts
      PROVE  /\ CopiedTo(q, d) \in Seq(Desc) /\ NewCopies(q, d) \in Seq(Copy)
             /\ Len(NewCopies(q, d)) = Len(CopiedTo(q, d))
             /\ \A j \in 1 .. Len(CopiedTo(q, d)) : NewCopies(q, d)[j] = CopyOf(q, CopiedTo(q, d)[j])
  <2> DEFINE c == CopiedTo(q, d)
  <2>1. c \in Seq(Desc)
    <3> DEFINE g == SubSeq(f, 1, m)
    <3>1. g \in Seq(Desc)
      <4> HIDE DEF m, f
      <4> QED BY <1>3, Parts
    <3> HIDE DEF g
    <3>2. Those(g, "d", d) \in Seq(Desc)
      BY <3>1, ThoseTyped
    <3> QED BY <3>2 DEF g, CopiedTo, ToDst
  <2>2. NewCopies(q, d) = [j \in DOMAIN c |-> CopyOf(q, c[j])]
    BY DEF NewCopies
  <2> HIDE DEF c
  <2>3. DOMAIN c = 1 .. Len(c) /\ Len(c) \in Nat /\ \A j \in 1 .. Len(c) : c[j] \in Desc
    BY <2>1
  <2>4. \A j \in 1 .. Len(c) : CopyOf(q, c[j]) \in Copy
    BY <2>3 DEF CopyOf, Copy, Desc
  <2> DEFINE o == NewCopies(q, d)
             e(j) == CopyOf(q, c[j])
  <2>5. o = [j \in 1 .. Len(c) |-> e(j)] /\ \A j \in 1 .. Len(c) : e(j) \in Copy
    BY <2>2, <2>3, <2>4
  <2> HIDE DEF o, e
  <2>6. o \in Seq(Copy) /\ Len(o) = Len(c) /\ \A j \in 1 .. Len(c) : o[j] = e(j)
    BY <2>3, <2>5
  <2> QED BY <2>1, <2>6 DEF o, c, e
<1> QED BY <1>3, <1>5, <1>7, <1>8

Stepped(p, t, b, f, r, w) == [p EXCEPT !.turn = t, !.break = b, !.free = f, !.prod = r, !.new = w]

LEMMA PassStep ==
  ASSUME NEW p \in Passes, NEW t \in Nat, NEW b \in BOOLEAN, NEW f \in [Dsts -> Int], NEW r \in [Dsts -> Nat],
         NEW w \in [Dsts -> Seq(Copy)]
  PROVE  LET s == Stepped(p, t, b, f, r, w)
         IN /\ s \in Passes /\ s.turn = t /\ s.break = b /\ s.free = f /\ s.prod = r
            /\ s.cons = p.cons /\ s.new = w
<1> DEFINE A == [Dsts -> Int]
           B == [Dsts -> Nat]
           C == [Dsts -> Seq(Copy)]
<1>1. p \in [on : {TRUE}, turn : Nat, break : BOOLEAN, free : A, prod : B, cons : B, new : C]
  BY DEF Passes
<1>2. f \in A /\ r \in B /\ w \in C
  OBVIOUS
<1> HIDE DEF A, B, C
<1> DEFINE All == [on : {TRUE}, turn : Nat, break : BOOLEAN, free : A, prod : B, cons : B, new : C]
           p1 == [p EXCEPT !.turn = t]
           p2 == [p1 EXCEPT !.break = b]
           p3 == [p2 EXCEPT !.free = f]
           p4 == [p3 EXCEPT !.prod = r]
           p5 == [p4 EXCEPT !.new = w]
<1>3. p1 \in All /\ p1.on /\ p1.cons = p.cons /\ p1.turn = t
  BY <1>1, <1>2
<1> HIDE DEF p1
<1>4. p2 \in All /\ p2.on /\ p2.cons = p.cons /\ p2.turn = t /\ p2.break = b
  BY <1>3, <1>2
<1> HIDE DEF p2
<1>5. p3 \in All /\ p3.on /\ p3.cons = p.cons /\ p3.turn = t /\ p3.break = b /\ p3.free = f
  BY <1>4, <1>2
<1> HIDE DEF p3
<1>6. p4 \in All /\ p4.on /\ p4.cons = p.cons /\ p4.turn = t /\ p4.break = b /\ p4.free = f /\ p4.prod = r
  BY <1>5, <1>2
<1> HIDE DEF p4
<1>7. p5 \in All /\ p5.on /\ p5.cons = p.cons /\ p5.turn = t /\ p5.break = b /\ p5.free = f /\ p5.prod = r /\ p5.new = w
  BY <1>6, <1>2
<1> HIDE DEF p5
<1>9. Stepped(p, t, b, f, r, w) = p5
  BY Zenon DEF Stepped, p1, p2, p3, p4, p5
<1> QED BY <1>7, <1>9 DEF A, B, C, Passes

LEMMA StepCons ==
  ASSUME NEW p \in Passes, NEW t, NEW b, NEW f, NEW r, NEW w
  PROVE  Stepped(p, t, b, f, r, w).cons = p.cons
<1> DEFINE A == [Dsts -> Int]
           B == [Dsts -> Nat]
           C == [Dsts -> Seq(Copy)]
<1>1. p \in [on : {TRUE}, turn : Nat, break : BOOLEAN, free : A, prod : B, cons : B, new : C]
  BY DEF Passes
<1> HIDE DEF A, B, C
<1> QED BY <1>1 DEF Stepped

LEMMA VisitParts ==
  ASSUME FlowInv, Visit, NEW q, q = Rotate(last, pass.turn)
  PROVE  /\ TypeOK' /\ ShadowFits'
         /\ Fresh(q)' = SubSeq(Fresh(q), Copied(Fresh(q)) + 1, Len(Fresh(q)))
         /\ \A r \in Srcs \ {q} : Fresh(r)' = Fresh(r)
         /\ \A d \in Dsts : Delivered(d)' = Delivered(d) \o NewCopies(q, d)
         /\ pass'.on /\ pass'.cons = pass.cons
         /\ pass'.free = [d \in Dsts |-> pass.free[d] - Len(CopiedTo(q, d))]
         /\ pass'.prod = [d \in Dsts |-> Index(pass.prod[d] + Len(CopiedTo(q, d)), DstLen)]
         /\ pass'.new = [d \in Dsts |-> pass.new[d] \o NewCopies(q, d)]
<1> DEFINE f == Fresh(q)
           m == Copied(f)
           b == src[q].buf
           s == shadow[q]
           k == Done(q)
           b2 == SubSeq(b, k + 1, Len(b))
           s2 == SubSeq(s, k + 1, Len(s)) \o Places(q)
<1>0. TypeOK /\ ShadowFits /\ pass.on /\ pass \in Passes /\ q \in Srcs
  BY VisitIs DEF FlowInv
<1>a. dir' = dir /\ last' = q /\ UNCHANGED <<dst, enabled, sending, sent>>
  BY VisitIs
<1>b. src' = [src EXCEPT ![q] = [buf |-> b2, cons |-> Index(src[q].cons + k, SrcLen)]]
  BY VisitIs
<1>c. shadow' = IF dir = "out" THEN [shadow EXCEPT ![q] = s2] ELSE shadow
  BY VisitIs
<1>d. pass' = [pass EXCEPT
                 !.turn = pass.turn + 1,
                 !.break = Copied(Fresh(q)) < Len(Fresh(q)),
                 !.free = [d \in Dsts |-> pass.free[d] - Len(CopiedTo(q, d))],
                 !.prod = [d \in Dsts |-> Index(pass.prod[d] + Len(CopiedTo(q, d)), DstLen)],
                 !.new = [d \in Dsts |-> pass.new[d] \o NewCopies(q, d)]]
  BY ZenonT(30), VisitIs
<1>1. /\ m \in 0 .. Len(f) /\ Len(f) \in Nat /\ f \in Seq(Desc)
      /\ k \in 0 .. Len(b) /\ (dir = "out" => k \in 0 .. Len(s))
      /\ Places(q) \in Seq(Place) /\ Len(Places(q)) = m
      /\ \A d \in Dsts : CopiedTo(q, d) \in Seq(Desc) /\ NewCopies(q, d) \in Seq(Copy)
  BY <1>0, TurnIs
<1>2. /\ Srcs' = Srcs /\ Dsts' = Dsts
      /\ Desc' = Desc /\ Copy' = Copy /\ Place' = Place /\ Passes' = Passes /\ Elt' = Elt
  BY <1>a, SameDir
<1>3. /\ src \in [Srcs -> Ring(Desc)] /\ b \in Seq(Desc) /\ s \in Seq(Place) /\ src[q].cons \in Nat
      /\ shadow \in [Srcs -> Seq(Place)] /\ dir \in {"in", "out"}
  BY <1>0, InterimAssumption DEF TypeOK, Ring
<1>4. Len(f) = Len(b) - Len(s) /\ Len(s) \in Nat /\ Len(b) \in Nat /\ Len(s) <= Len(b) /\ (dir = "in" => s = <<>>)
      /\ (dir = "in" => k = m) /\ (dir = "in" => Len(s) = 0)
  <2>1. Len(f) = Len(b) - Len(s)
    BY <1>0, FreshIs
  <2>2. Len(s) <= Len(b) /\ (dir = "in" => s = <<>>)
    BY <1>0 DEF ShadowFits
  <2>3. dir = "in" => k = m
    BY DEF Done
  <2>4. Len(s) \in Nat /\ Len(b) \in Nat
    BY <1>3
  <2> HIDE DEF f, m, b, s, k
  <2> QED BY <2>1, <2>2, <2>3, <2>4
<1>5. f = SubSeq(b, Len(s) + 1, Len(b))
  BY DEF Fresh
<1> HIDE DEF f, m, b, s, k
<1>6. b2 \in Seq(Desc) /\ Len(b2) = Len(b) - k
  BY <1>1, <1>3, Parts
<1>7. dir = "out" => s2 \in Seq(Place) /\ Len(s2) = (Len(s) - k) + m
  <2> DEFINE r == SubSeq(s, k + 1, Len(s))
             p == Places(q)
  <2>1. dir = "out" => r \in Seq(Place) /\ Len(r) = Len(s) - k
    BY <1>1, <1>3, Parts
  <2>2. p \in Seq(Place) /\ Len(p) = m
    BY <1>1
  <2> HIDE DEF r, p
  <2>3. dir = "out" => r \o p \in Seq(Place) /\ Len(r \o p) = Len(r) + Len(p)
    BY ONLY <2>1, <2>2, JoinIs
  <2> QED BY <2>1, <2>2, <2>3 DEF r, p
<1> HIDE DEF b2, s2
<1>8. src' \in [Srcs -> Ring(Desc)] /\ src'[q].buf = b2 /\ \A r \in Srcs \ {q} : src'[r] = src[r]
  <2> DEFINE i == src[q].cons + k
  <2>1. i \in Nat /\ SrcLen \in Nat \ {0}
    BY <1>1, <1>3, <1>4, InterimAssumption
  <2>2. src' = [src EXCEPT ![q] = [buf |-> b2, cons |-> Index(i, SrcLen)]]
    BY <1>b
  <2> HIDE DEF i
  <2>3. Index(i, SrcLen) \in Nat
    BY <2>1, IndexIs
  <2>4. [buf |-> b2, cons |-> Index(i, SrcLen)] \in Ring(Desc)
    BY <1>6, <2>3 DEF Ring
  <2> QED BY <1>0, <1>3, <2>2, <2>4
<1>9. /\ shadow' \in [Srcs -> Seq(Place)] /\ \A r \in Srcs \ {q} : shadow'[r] = shadow[r]
      /\ shadow'[q] = IF dir = "out" THEN s2 ELSE s
  <2>1. CASE dir = "out"
    BY <1>0, <1>3, <1>7, <1>c, <2>1
  <2>2. CASE dir # "out"
    BY <1>3, <1>c, <2>2 DEF s
  <2> QED BY <2>1, <2>2
<1>10. Len(shadow'[q]) = (Len(s) - k) + m \/ (dir = "in" /\ Len(shadow'[q]) = 0)
  BY <1>3, <1>4, <1>7, <1>9
<1>11. /\ pass' \in Passes
         /\ pass'.on /\ pass'.cons = pass.cons
         /\ pass'.free = [d \in Dsts |-> pass.free[d] - Len(CopiedTo(q, d))]
         /\ pass'.prod = [d \in Dsts |-> Index(pass.prod[d] + Len(CopiedTo(q, d)), DstLen)]
         /\ pass'.new = [d \in Dsts |-> pass.new[d] \o NewCopies(q, d)]
  <2> DEFINE br == Copied(Fresh(q)) < Len(Fresh(q))
             fr == [d \in Dsts |-> pass.free[d] - Len(CopiedTo(q, d))]
             pr == [d \in Dsts |-> Index(pass.prod[d] + Len(CopiedTo(q, d)), DstLen)]
             nw == [d \in Dsts |-> pass.new[d] \o NewCopies(q, d)]
  <2>0. pass.free \in [Dsts -> Int] /\ pass.prod \in [Dsts -> Nat] /\ pass.new \in [Dsts -> Seq(Copy)] /\ pass.turn \in Nat
    BY <1>0 DEF Passes
  <2>1. br \in BOOLEAN
    OBVIOUS
  <2>2. \A d \in Dsts : Len(CopiedTo(q, d)) \in Nat
    BY <1>1
  <2>3. fr \in [Dsts -> Int]
    BY <2>0, <2>2
  <2>4. pr \in [Dsts -> Nat]
    <3>1. ASSUME NEW d \in Dsts PROVE Index(pass.prod[d] + Len(CopiedTo(q, d)), DstLen) \in Nat
      <4> DEFINE i == pass.prod[d] + Len(CopiedTo(q, d))
      <4>1. i \in Nat /\ DstLen \in Nat \ {0}
        BY <2>0, <2>2, InterimAssumption
      <4> HIDE DEF i
      <4>2. Index(i, DstLen) \in Nat
        BY <4>1, IndexIs
      <4> QED BY <4>2 DEF i
    <3> QED BY <3>1
  <2>5. nw \in [Dsts -> Seq(Copy)]
    <3>1. ASSUME NEW d \in Dsts PROVE pass.new[d] \o NewCopies(q, d) \in Seq(Copy)
      BY <1>1, <2>0
    <3> QED BY <3>1
  <2>6. pass' = [pass EXCEPT !.turn = pass.turn + 1, !.break = br, !.free = fr, !.prod = pr, !.new = nw]
    BY <1>d
  <2> HIDE DEF br, fr, pr, nw
  <2>7. /\ pass'.new = nw /\ pass' \in Passes /\ pass'.on
        /\ pass'.cons = pass.cons /\ pass'.free = fr /\ pass'.prod = pr
    <3> DEFINE tu == pass.turn + 1
    <3>1. tu \in Nat
      BY <2>0
    <3>2. pass' = Stepped(pass, tu, br, fr, pr, nw)
      BY <2>6 DEF Stepped
    <3> HIDE DEF tu
    <3> DEFINE z == Stepped(pass, tu, br, fr, pr, nw)
    <3>0. pass \in Passes
      BY <1>0
    <3>3. z \in Passes
      BY ONLY <3>0, <2>1, <2>3, <2>4, <2>5, <3>1, PassStep
    <3>4. z.new = nw
      BY ONLY <3>0, <2>1, <2>3, <2>4, <2>5, <3>1, PassStep
    <3>5. z.cons = pass.cons
      BY ONLY <3>0, StepCons
    <3>7. z.free = fr
      BY ONLY <3>0, <2>1, <2>3, <2>4, <2>5, <3>1, PassStep
    <3>8. z.prod = pr
      BY ONLY <3>0, <2>1, <2>3, <2>4, <2>5, <3>1, PassStep
    <3>6. z.on
      BY <3>3 DEF Passes
    <3> HIDE DEF z
    <3> QED BY ONLY <3>2, <3>3, <3>4, <3>5, <3>6, <3>7, <3>8 DEF z
  <2> QED BY <2>7 DEF nw, fr, pr
<1>12. TypeOK'
  <2> HIDE DEF Ring
  <2> QED BY <1>0, <1>2, <1>8, <1>9, <1>11, <1>a DEF TypeOK
<1>13. ShadowFits'
  <2>1. Len(shadow'[q]) <= Len(b2) /\ (dir = "in" => shadow'[q] = <<>>)
    <3>1. CASE dir = "out"
      BY <1>1, <1>4, <1>6, <1>7, <1>9, <3>1
    <3>2. CASE dir = "in"
      BY <1>1, <1>4, <1>6, <1>9, <3>2
    <3> QED BY <1>3, <3>1, <3>2
  <2>2. ASSUME NEW r \in Srcs PROVE Len(shadow'[r]) <= Len(src'[r].buf) /\ (dir = "in" => shadow'[r] = <<>>)
    <3>1. CASE r = q
      BY <1>8, <2>1, <3>1
    <3>2. CASE r # q
      BY <1>0, <1>8, <1>9, <3>2 DEF ShadowFits
    <3> QED BY <3>1, <3>2
  <2> QED BY <1>2, <1>a, <2>2 DEF ShadowFits
<1>14. Fresh(q)' = SubSeq(f, m + 1, Len(f))
  <2> DEFINE l == Len(shadow'[q])
  <2>1. Fresh(q)' = SubSeq(b2, l + 1, Len(b2))
    BY <1>8 DEF Fresh
  <2>2. k \in 0 .. Len(b) /\ l \in 0 .. Len(b) - k /\ k + l = Len(s) + m /\ Len(s) \in 0 .. Len(b) /\ m \in 0 .. Len(b) - Len(s)
    <3>1. CASE dir = "out"
      BY <1>1, <1>4, <1>7, <1>9, <3>1
    <3>2. CASE dir = "in"
      BY <1>1, <1>4, <1>9, <3>2
    <3> QED BY <1>3, <3>1, <3>2
  <2> HIDE DEF l
  <2>3. SubSeq(b2, l + 1, Len(b2)) = SubSeq(b, (k + l) + 1, Len(b))
    BY ONLY <1>3, <2>2, DropDrop DEF b2
  <2> DEFINE n == Len(s)
  <2>4. SubSeq(f, m + 1, Len(f)) = SubSeq(b, (n + m) + 1, Len(b))
    <3>1. n \in 0 .. Len(b) /\ m \in 0 .. Len(b) - n /\ b \in Seq(Desc) /\ f = SubSeq(b, n + 1, Len(b))
      BY <1>3, <1>5, <2>2
    <3> HIDE DEF n
    <3> QED BY ONLY <3>1, DropDrop
  <2> QED BY <2>1, <2>2, <2>3, <2>4
<1>15. ASSUME NEW r \in Srcs \ {q} PROVE Fresh(r)' = Fresh(r)
  BY <1>8, <1>9 DEF Fresh
<1>16. ASSUME NEW d \in Dsts PROVE Delivered(d)' = Delivered(d) \o NewCopies(q, d)
  <2> DEFINE x == dst[d].buf
             y == pass.new[d]
             z == NewCopies(q, d)
  <2>1. x \in Seq(Copy) /\ y \in Seq(Copy) /\ z \in Seq(Copy)
    BY <1>0, <1>1 DEF TypeOK, Ring, Passes
  <2>2. Delivered(d) = x \o y /\ Delivered(d)' = x \o (y \o z)
    <3>1. pass'.new[d] = y \o z
      BY <1>11
    <3>2. dst' = dst
      BY <1>a
    <3> QED BY <1>0, <1>11, <3>1, <3>2 DEF Delivered
  <2> HIDE DEF x, y, z
  <2>3. (x \o y) \o z = x \o (y \o z)
    BY ONLY <2>1, ConcatAssociative
  <2> QED BY <2>2, <2>3 DEF z
<1> QED BY <1>11, <1>12, <1>13, <1>14, <1>15, <1>16 DEF f, m

LEMMA VisitFlow ==
  ASSUME FlowInv, Visit, NEW q, q = Rotate(last, pass.turn)
  PROVE  /\ FlowInv'
         /\ \A d \in Dsts : /\ Alike(Flow(q, d), Flow(q, d)')
                            /\ \A r \in Srcs \ {q} : Flow(r, d)' = Flow(r, d)
                            /\ Held(q, d)' = Held(q, d) \o NewCopies(q, d)
<1> DEFINE f == Fresh(q)
           m == Copied(f)
           g == SubSeq(f, m + 1, Len(f))
           p == SubSeq(f, 1, m)
<1>0. TypeOK /\ ShadowFits /\ pass.on /\ q \in Srcs /\ dir' = dir /\ sent' = sent /\ TypeOK' /\ ShadowFits'
  BY VisitIs, VisitParts DEF FlowInv
<1>1. /\ Srcs' = Srcs /\ Dsts' = Dsts /\ Elt' = Elt
  BY <1>0, SameDir
<1>2. /\ \A d \in Dsts : /\ CopiedTo(q, d) \in Seq(Desc) /\ NewCopies(q, d) \in Seq(Copy)
                         /\ Len(NewCopies(q, d)) = Len(CopiedTo(q, d))
                         /\ \A j \in 1 .. Len(CopiedTo(q, d)) : NewCopies(q, d)[j] = CopyOf(q, CopiedTo(q, d)[j])
      /\ f \in Seq(Desc) /\ m \in 0 .. Len(f)
  BY <1>0, TurnIs
<1>c. \A e : CopyOf(q, e)["q"] = q /\ CopyOf(q, e).n = e.n /\ CopyOf(q, e).size = e.size
  BY DEF CopyOf
<1>3. /\ \A r \in Srcs \ {q} : Fresh(r)' = Fresh(r)
      /\ \A d \in Dsts : Delivered(d)' = Delivered(d) \o NewCopies(q, d)
      /\ Fresh(q)' = g
  BY VisitParts
<1>4. g \in Seq(Desc) /\ p \in Seq(Desc) /\ f = p \o g
  <2> HIDE DEF f, m
  <2> QED BY ZenonT(30), <1>2, Parts
<1>5. \A d : CopiedTo(q, d) = Those(p, "d", d)
  BY DEF CopiedTo, ToDst
<1>6. \A d : ToDst(Fresh(q), d) = Those(f, "d", d)
  BY DEF ToDst
<1> HIDE DEF f, m, g, p
<1>7. FlowTypes /\ FlowTypes'
  BY <1>0, FlowsTyped, FlowsTypedNext
<1>8. ASSUME NEW r \in Srcs, NEW d \in Dsts
      PROVE  /\ Held(r, d) = Those(Delivered(d), "q", r) /\ Held(r, d)' = Those(Delivered(d)', "q", r)
             /\ Delivered(d) \in Seq(Copy)
             /\ Held(r, d) \in Seq(Elt) /\ Held(r, d)' \in Seq(Elt)
             /\ ToDst(Fresh(r), d) \in Seq(Elt) /\ ToDst(Fresh(r), d)' \in Seq(Elt)
             /\ Flow(r, d) \in Seq(Elt) /\ Flow(r, d)' \in Seq(Elt)
  BY <1>1, <1>7 DEF FlowTypes, OfFlow
<1>9. ASSUME NEW d \in Dsts
      PROVE  /\ Held(q, d)' = Held(q, d) \o NewCopies(q, d)
             /\ \A r \in Srcs \ {q} : Held(r, d)' = Held(r, d)
  <2> DEFINE D == Delivered(d)
             z == NewCopies(q, d)
  <2>1. D \in Seq(Copy) /\ z \in Seq(Copy) /\ Delivered(d)' = D \o z
    BY <1>0, <1>2, <1>3, <1>8
  <2>2. \A j \in 1 .. Len(z) : z[j]["q"] = q
    BY <1>2, <1>c
  <2> HIDE DEF z, D
  <2>3. \A r : Those(D \o z, "q", r) = Those(D, "q", r) \o Those(z, "q", r)
    BY <2>1, ThoseJoin
  <2>4. Those(z, "q", q) = z
    BY <2>1, <2>2, ThoseAll
  <2>5. Held(q, d)' = Held(q, d) \o z
    BY <1>0, <1>8, <2>1, <2>3, <2>4 DEF D
  <2>6. ASSUME NEW r \in Srcs \ {q} PROVE Held(r, d)' = Held(r, d)
    <3>1. \A j \in 1 .. Len(z) : z[j]["q"] # r
      BY <2>2
    <3>2. Those(z, "q", r) = <<>>
      BY <2>1, <3>1, ThoseNone
    <3> DEFINE h == Those(D, "q", r)
    <3>3. h \in Seq(Copy)
      BY <2>1, ThoseTyped
    <3> HIDE DEF h
    <3>4. h \o <<>> = h
      BY ONLY <3>3
    <3>5. Those(D \o z, "q", r) = h
      BY <2>3, <3>2, <3>4 DEF h
    <3> QED BY <1>8, <2>1, <3>5 DEF h, D
  <2> QED BY <2>5, <2>6 DEF z
<1>10. ASSUME NEW d \in Dsts
       PROVE  /\ Alike(Flow(q, d), Flow(q, d)')
              /\ \A r \in Srcs \ {q} : Flow(r, d)' = Flow(r, d)
  <2> DEFINE h == Held(q, d)
             c == CopiedTo(q, d)
             z == NewCopies(q, d)
             t == Those(g, "d", d)
  <2>1. ToDst(Fresh(q), d) = c \o t /\ ToDst(Fresh(q), d)' = t
    <3>1. Those(p \o g, "d", d) = Those(p, "d", d) \o Those(g, "d", d)
      BY <1>4, ThoseJoin
    <3> QED BY <1>3, <1>4, <1>5, <1>6, <3>1 DEF ToDst
  <2>2. Flow(q, d) = h \o (c \o t) /\ Flow(q, d)' = (h \o z) \o t
    BY <1>9, <2>1 DEF Flow
  <2>3. h \in Seq(Elt) /\ c \in Seq(Elt) /\ z \in Seq(Elt) /\ t \in Seq(Elt)
    <3>1. c \in Seq(Desc) /\ z \in Seq(Copy) /\ t \in Seq(Desc)
      BY <1>2, <1>4, ThoseTyped
    <3> HIDE DEF c, z, t
    <3> QED BY <1>0, <1>8, <3>1, Widen DEF Elt
  <2>4. Alike(c, z)
    BY <1>2, <1>c DEF Alike
  <2> HIDE DEF h, c, z, t
  <2>5. h \o (c \o t) = (h \o c) \o t /\ h \o c \in Seq(Elt) /\ h \o z \in Seq(Elt)
    BY ONLY <2>3, ConcatAssociative, JoinIs
  <2>6. Alike(h, h) /\ Alike(t, t)
    BY DEF Alike
  <2>7. Alike(h \o c, h \o z)
    BY ONLY <2>3, <2>4, <2>6, AlikeJoin
  <2> DEFINE x == h \o c
             y == h \o z
  <2>8. Alike(x \o t, y \o t)
    <3>1. x \in Seq(Elt) /\ y \in Seq(Elt) /\ Alike(x, y)
      BY <2>5, <2>7
    <3> HIDE DEF x, y
    <3> QED BY ONLY <2>3, <2>6, <3>1, AlikeJoin
  <2>9. Alike(Flow(q, d), Flow(q, d)')
    BY <2>2, <2>5, <2>8
  <2>10. ASSUME NEW r \in Srcs \ {q} PROVE Flow(r, d)' = Flow(r, d)
    BY <1>3, <1>9 DEF Flow, ToDst
  <2> QED BY <2>9, <2>10
<1>11. ASSUME NEW r \in Srcs, NEW d \in Dsts PROVE Numbered(Flow(r, d)', sent'[r][d])
  <2>1. Numbered(Flow(r, d), sent[r][d])
    BY DEF FlowInv, Fifo
  <2>2. CASE r = q
    BY <1>0, <1>10, <2>1, <2>2, NumberedAlike
  <2>3. CASE r # q
    BY <1>0, <1>10, <2>1, <2>3
  <2> QED BY <2>2, <2>3
<1>12. Fifo'
  BY <1>1, <1>11 DEF Fifo, Numbered
<1> QED BY <1>0, <1>9, <1>10, <1>12 DEF FlowInv

LEMMA SameFlow ==
  ASSUME FlowInv, TypeOK', dir' = dir, UNCHANGED <<src, shadow, sent>>,
         \A d \in Dsts : Delivered(d)' = Delivered(d)
  PROVE  FlowInv' /\ \A q \in Srcs, d \in Dsts : Flow(q, d)' = Flow(q, d) /\ Held(q, d)' = Held(q, d)
<1>1. TypeOK /\ ShadowFits /\ Srcs' = Srcs /\ Dsts' = Dsts
  BY SameDir DEF FlowInv
<1>2. ShadowFits'
  BY <1>1 DEF ShadowFits
<1>3. FlowTypes /\ FlowTypes'
  BY <1>1, <1>2, FlowsTyped, FlowsTypedNext
<1>4. ASSUME NEW q \in Srcs, NEW d \in Dsts PROVE Flow(q, d)' = Flow(q, d) /\ Held(q, d)' = Held(q, d)
  <2>1. Held(q, d)' = Held(q, d)
    BY <1>1, <1>3 DEF FlowTypes, OfFlow
  <2>2. ToDst(Fresh(q), d)' = ToDst(Fresh(q), d)
    BY DEF ToDst, Fresh
  <2> QED BY <2>1, <2>2 DEF Flow
<1>5. Fifo'
  <2>1. \A q \in Srcs, d \in Dsts : Numbered(Flow(q, d)', sent'[q][d])
    BY <1>4 DEF FlowInv, Fifo
  <2> QED BY <1>1, <2>1 DEF Fifo, Numbered
<1> QED BY <1>1, <1>2, <1>4, <1>5 DEF FlowInv

LEMMA BeginIs ==
  ASSUME FlowInv, PassBegin
  PROVE  /\ ~pass.on /\ pass'.on /\ dir' = dir /\ UNCHANGED <<src, dst, shadow, last, enabled, sending, sent>>
         /\ pass' \in Passes
         /\ \A d \in Dsts : /\ pass'.free[d] = DstLen - 1 - Len(dst[d].buf)
                            /\ pass'.prod[d] = Index(dst[d].cons + Len(dst[d].buf), DstLen)
                            /\ pass'.cons[d] = dst[d].cons /\ pass'.new[d] = <<>>
                            /\ Delivered(d) = dst[d].buf /\ Delivered(d)' = dst[d].buf
<1>0. TypeOK
  BY DEF FlowInv
<1>1. ~pass.on /\ dir' = dir /\ UNCHANGED <<src, dst, shadow, last, enabled, sending, sent>>
  BY DEF PassBegin
<1>2. \A d \in Dsts : dst[d].buf \in Seq(Copy) /\ dst[d].cons \in Nat /\ Len(dst[d].buf) \in Nat
  BY <1>0 DEF TypeOK, Ring
<1> DEFINE A == [Dsts -> Int]
           B == [Dsts -> Nat]
           C == [Dsts -> Seq(Copy)]
           fr == [d \in Dsts |-> DstLen - 1 - Len(dst[d].buf)]
           pr == [d \in Dsts |-> Index(dst[d].cons + Len(dst[d].buf), DstLen)]
           co == [d \in Dsts |-> dst[d].cons]
           nw == [d \in Dsts |-> <<>>]
<1>3. fr \in A /\ co \in B /\ nw \in C
  <2>1. fr \in A
    <3>1. DstLen \in Nat
      BY InterimAssumption
    <3> QED BY <1>2, <3>1
  <2>2. co \in B
    BY <1>2
  <2>3. nw \in C
    <3>1. <<>> \in Seq(Copy)
      OBVIOUS
    <3> QED BY <3>1
  <2> QED BY <2>1, <2>2, <2>3
<1>4. pr \in B
  <2>1. ASSUME NEW d \in Dsts PROVE Index(dst[d].cons + Len(dst[d].buf), DstLen) \in Nat
    <3> DEFINE i == dst[d].cons + Len(dst[d].buf)
    <3>1. i \in Nat /\ DstLen \in Nat \ {0}
      BY <1>2, InterimAssumption
    <3> HIDE DEF i
    <3>2. Index(i, DstLen) \in Nat
      BY <3>1, IndexIs
    <3> QED BY <3>2 DEF i
  <2> QED BY <2>1
<1>5. pass' = [on |-> TRUE, turn |-> 0, break |-> FALSE, free |-> fr, prod |-> pr, cons |-> co, new |-> nw]
  BY DEF PassBegin
<1>6. \A d \in Dsts : /\ fr[d] = DstLen - 1 - Len(dst[d].buf)
                      /\ pr[d] = Index(dst[d].cons + Len(dst[d].buf), DstLen)
                      /\ co[d] = dst[d].cons /\ nw[d] = <<>>
  OBVIOUS
<1> HIDE DEF A, B, C, fr, pr, co, nw
<1>7. /\ pass' \in [on : {TRUE}, turn : Nat, break : BOOLEAN, free : A, prod : B, cons : B, new : C]
      /\ pass'.on /\ pass'.free = fr /\ pass'.prod = pr /\ pass'.cons = co /\ pass'.new = nw
  BY <1>3, <1>4, <1>5
<1>8. pass' \in Passes
  <2>1. Dsts' = Dsts
    BY <1>1, SameDir
  <2> QED BY <1>7 DEF Passes, A, B, C
<1>9. ASSUME NEW d \in Dsts PROVE Delivered(d) = dst[d].buf /\ Delivered(d)' = dst[d].buf
  <2> DEFINE b == dst[d].buf
  <2>1. b \in Seq(Copy)
    BY <1>2
  <2>2. Delivered(d) = b \o <<>>
    BY <1>1 DEF Delivered
  <2>3. Delivered(d)' = b \o <<>>
    <3>1. pass'.new[d] = <<>> /\ dst' = dst
      BY <1>1, <1>6, <1>7
    <3> QED BY <1>7, <3>1 DEF Delivered
  <2> HIDE DEF b
  <2>4. b \o <<>> = b
    BY ONLY <2>1
  <2> QED BY <2>2, <2>3, <2>4 DEF b
<1> QED BY <1>1, <1>6, <1>7, <1>8, <1>9

LEMMA BeginFlow ==
  ASSUME FlowInv, PassBegin
  PROVE  FlowInv' /\ \A q \in Srcs, d \in Dsts : Flow(q, d)' = Flow(q, d) /\ Held(q, d)' = Held(q, d)
<1>1. /\ Srcs' = Srcs /\ Dsts' = Dsts
      /\ Desc' = Desc /\ Copy' = Copy /\ Place' = Place /\ Passes' = Passes /\ Elt' = Elt
  BY BeginIs, SameDir
<1>2. TypeOK'
  <2> HIDE DEF Ring
  <2>1. UNCHANGED <<src, dst, shadow, last, enabled, sending, sent>> /\ dir' = dir /\ pass' \in Passes
    BY BeginIs
  <2> QED BY <1>1, <2>1 DEF TypeOK, FlowInv
<1>3. dir' = dir /\ UNCHANGED <<src, shadow, sent>> /\ \A d \in Dsts : Delivered(d)' = Delivered(d)
  BY BeginIs
<1> QED BY <1>2, <1>3, SameFlow

LEMMA EndIs ==
  ASSUME FlowInv, PassEnd
  PROVE  /\ pass.on /\ ~pass'.on /\ pass' = NoPass /\ dir' = dir
         /\ UNCHANGED <<src, shadow, last, enabled, sending, sent>>
         /\ \A d \in Dsts : /\ dst'[d].cons = dst[d].cons /\ dst'[d].buf = Delivered(d)
                            /\ Delivered(d)' = Delivered(d)
         /\ TypeOK'
<1>0. TypeOK /\ pass.on /\ dir' = dir /\ UNCHANGED <<src, shadow, last, enabled, sending, sent>> /\ pass' = NoPass
  BY DEF FlowInv, PassEnd
<1>1. ~pass'.on
  BY <1>0 DEF NoPass
<1>2. pass \in Passes
  BY <1>0, PassIs
<1>3. ASSUME NEW d \in Dsts
      PROVE  /\ Delivered(d) \in Seq(Copy) /\ dst'[d].cons = dst[d].cons /\ dst'[d].buf = Delivered(d)
             /\ dst'[d] \in Ring(Copy) /\ Delivered(d)' = Delivered(d)
  <2> DEFINE b == dst[d].buf
             n == pass.new[d]
             w == b \o n
  <2>1. b \in Seq(Copy) /\ n \in Seq(Copy) /\ dst[d] \in Ring(Copy)
    BY <1>0, <1>2 DEF TypeOK, Ring, Passes
  <2>2. Delivered(d) = w
    BY <1>0 DEF Delivered
  <2>3. w \in Seq(Copy)
    BY <2>1
  <2>4. dst'[d] = [dst[d] EXCEPT !.buf = w]
    BY DEF PassEnd
  <2> HIDE DEF w, b, n
  <2>5. dst'[d].cons = dst[d].cons /\ dst'[d].buf = w /\ dst'[d] \in Ring(Copy)
    BY <2>1, <2>3, <2>4 DEF Ring
  <2>6. w \o <<>> = w
    BY ONLY <2>3
  <2>7. Delivered(d)' = w
    BY <1>1, <2>5, <2>6 DEF Delivered
  <2> QED BY <2>2, <2>3, <2>5, <2>7
<1>4. /\ Srcs' = Srcs /\ Dsts' = Dsts
      /\ Desc' = Desc /\ Copy' = Copy /\ Place' = Place /\ Passes' = Passes /\ Elt' = Elt
  BY <1>0, SameDir
<1>5. dst' \in [Dsts -> Ring(Copy)]
  <2>1. dst' = [d \in Dsts |-> [dst[d] EXCEPT !.buf = @ \o pass.new[d]]]
    BY DEF PassEnd
  <2>2. dst' = [d \in Dsts |-> dst'[d]]
    BY <2>1
  <2> QED BY <1>3, <2>2
<1>6. TypeOK'
  <2> HIDE DEF Ring
  <2> QED BY <1>0, <1>4, <1>5 DEF TypeOK, NoPass
<1> QED BY <1>0, <1>1, <1>3, <1>6

LEMMA EndFlow ==
  ASSUME FlowInv, PassEnd
  PROVE  FlowInv' /\ \A q \in Srcs, d \in Dsts : Flow(q, d)' = Flow(q, d) /\ Held(q, d)' = Held(q, d)
BY EndIs, SameFlow

LEMMA StillFlow ==
  ASSUME FlowInv, UNCHANGED <<dir, src, dst, shadow, last, pass, sent>>, enabled' \in BOOLEAN, sending' \in BOOLEAN
  PROVE  FlowInv' /\ \A q \in Srcs, d \in Dsts : Flow(q, d)' = Flow(q, d) /\ Held(q, d)' = Held(q, d)
<1>1. /\ Srcs' = Srcs /\ Dsts' = Dsts
      /\ Desc' = Desc /\ Copy' = Copy /\ Place' = Place /\ Passes' = Passes /\ Elt' = Elt
  BY SameDir
<1>2. TypeOK'
  <2> HIDE DEF Ring
  <2> QED BY <1>1 DEF TypeOK, FlowInv, NoPass
<1>3. \A d \in Dsts : Delivered(d)' = Delivered(d)
  BY DEF Delivered
<1> QED BY <1>2, <1>3, SameFlow

\* A guest that starts again finds nothing of the one before.
LEMMA RestartFlow ==
  ASSUME FlowInv, Restart, Drained \/ "out" \notin Dirs
  PROVE  /\ FlowInv' /\ dir' = dir /\ pass' = pass /\ ~pass.on
         /\ \A q \in Srcs : src'[q].buf = <<>> /\ shadow'[q] = <<>>
         /\ \A d \in Dsts : /\ dst'[d].buf = <<>> /\ Delivered(d)' = <<>>
                            /\ (dir = "out" => dst'[d] = dst[d])
         /\ \A q \in Srcs, d \in Dsts : Flow(q, d)' = <<>> /\ Held(q, d)' = <<>>
<1>0. TypeOK /\ ~pass.on /\ dir' = dir /\ UNCHANGED <<last, pass, sending>> /\ enabled' = FALSE
  BY DEF FlowInv, Restart
<1>1. /\ Srcs' = Srcs /\ Dsts' = Dsts
      /\ Desc' = Desc /\ Copy' = Copy /\ Place' = Place /\ Passes' = Passes /\ Elt' = Elt
  BY <1>0, SameDir
<1>2. <<>> \in Seq(Desc) /\ <<>> \in Seq(Copy) /\ <<>> \in Seq(Place)
  OBVIOUS
<1>3. EmptyRing \in Ring(Desc) /\ EmptyRing \in Ring(Copy) /\ EmptyRing.buf = <<>>
  BY <1>2 DEF EmptyRing, Ring
<1>4. dir \in Dirs /\ dst \in [Dsts -> Ring(Copy)]
  BY <1>0 DEF TypeOK
<1>5. /\ src' \in [Srcs -> Ring(Desc)] /\ shadow' \in [Srcs -> Seq(Place)] /\ sent' \in [Srcs -> [Dsts -> Int]]
      /\ dst' \in [Dsts -> Ring(Copy)]
      /\ \A q \in Srcs : src'[q].buf = <<>> /\ shadow'[q] = <<>> /\ \A d \in Dsts : sent'[q][d] = 0
  <2>1. src' = [q \in Srcs |-> EmptyRing] /\ shadow' = [q \in Srcs |-> <<>>] /\ sent' = Zero
        /\ dst' = IF dir = "in" THEN [d \in Dsts |-> EmptyRing] ELSE dst
    BY DEF Restart
  <2> HIDE DEF EmptyRing, Ring
  <2>2. src' \in [Srcs -> Ring(Desc)] /\ \A q \in Srcs : src'[q].buf = <<>>
    BY <1>3, <2>1
  <2>3. shadow' \in [Srcs -> Seq(Place)] /\ \A q \in Srcs : shadow'[q] = <<>>
    BY <1>2, <2>1
  <2>4. sent' \in [Srcs -> [Dsts -> Int]] /\ \A q \in Srcs, d \in Dsts : sent'[q][d] = 0
    BY <2>1 DEF Zero
  <2>5. dst' \in [Dsts -> Ring(Copy)]
    BY <1>3, <1>4, <2>1
  <2> QED BY <2>2, <2>3, <2>4, <2>5
<1>6. ASSUME NEW d \in Dsts PROVE dst'[d].buf = <<>> /\ (dir = "out" => dst'[d] = dst[d])
  <2>1. CASE dir = "in"
    BY <1>3, <2>1 DEF Restart
  <2>2. CASE dir = "out"
    BY <1>4, <2>2 DEF Restart
  <2> QED BY <1>4, <2>1, <2>2, InterimAssumption
<1>7. TypeOK'
  <2> HIDE DEF Ring
  <2> QED BY <1>0, <1>1, <1>5 DEF TypeOK, NoPass
<1>8. ShadowFits'
  BY <1>1, <1>5 DEF ShadowFits
<1>9. FlowTypes'
  BY <1>7, <1>8, FlowsTypedNext
<1>10. ASSUME NEW d \in Dsts PROVE Delivered(d)' = <<>>
  BY <1>0, <1>6 DEF Delivered
<1>11. ASSUME NEW q \in Srcs, NEW d \in Dsts PROVE Flow(q, d)' = <<>> /\ Held(q, d)' = <<>>
  <2>1. Held(q, d)' = <<>>
    BY <1>1, <1>9, <1>10, ThoseEmpty DEF FlowTypes, OfFlow
  <2>2. Fresh(q)' = <<>>
    BY <1>5 DEF Fresh
  <2>3. ToDst(Fresh(q), d)' = <<>>
    BY <2>2, ThoseEmpty DEF ToDst
  <2> QED BY <2>1, <2>3 DEF Flow
<1>12. Fifo'
  <2>1. Numbered(<<>>, 0)
    BY DEF Numbered
  <2>2. ASSUME NEW q \in Srcs, NEW d \in Dsts PROVE Flow(q, d)' = <<>> /\ sent'[q][d] = 0
    BY <1>5, <1>11
  <2>3. \A q \in Srcs, d \in Dsts : Numbered(Flow(q, d)', sent'[q][d])
    BY <2>1, <2>2
  <2> QED BY <1>1, <2>3 DEF Fifo, Numbered
<1> QED BY <1>0, <1>5, <1>6, <1>7, <1>8, <1>10, <1>11, <1>12 DEF FlowInv

LEMMA NextFlow ==
  ASSUME FlowInv, [Next]_vars, Drained \/ "out" \notin Dirs
  PROVE  FlowInv'
<1>1. ASSUME NEW q \in Srcs, NEW d \in Dsts, NEW e \in Dsts, NEW size \in Sizes, Send(q, d, e, size)
      PROVE  FlowInv'
  <2>1. TypeOK
    BY DEF FlowInv
  <2>2. size \in Counts
    BY <1>1, <2>1, SendIs
  <2>3. ASSUME NEW k \in 1 .. size, Put(q, Descs(d, sent[q][d], size, k))
        PROVE  FlowInv'
    <3>1. k \in Nat
      BY <2>2 DEF Counts
    <3> QED BY <2>2, <2>3, <3>1, SendFlow
  <2>4. ASSUME NEW p, SplitIs(q, d, e, p), Put(q, p)
        PROVE  FlowInv'
    BY <2>4, SplitFlow
  <2> QED BY <1>1, <2>1, <2>3, <2>4, SendIs
<1>2. ASSUME NEW q \in Srcs, NEW d \in Dsts, SendRest(q, d) PROVE FlowInv'
  <2>1. TypeOK
    BY DEF FlowInv
  <2>2. Put(q, Descs(d, sent[q][d], 1, 1))
    BY <1>2, <2>1, RestIs
  <2> DEFINE one == 1
  <2>3. one \in Counts /\ one \in Nat /\ Put(q, Descs(d, sent[q][d], one, one))
    BY <2>2 DEF Counts
  <2> HIDE DEF one
  <2> QED BY <2>3, SendFlow
<1>3. ASSUME NEW d \in Dsts, Take(d) PROVE FlowInv'
  BY <1>3, TakeFlow
<1>4. CASE Stop
  BY <1>4, StillFlow DEF Stop, FlowInv, TypeOK
<1>5. CASE PassBegin
  BY <1>5, BeginFlow
<1>6. CASE Visit
  BY <1>6, VisitFlow
<1>7. CASE PassEnd
  BY <1>7, EndFlow
<1>8. CASE Enable
  BY <1>8, StillFlow DEF Enable, FlowInv, TypeOK
<1>9. CASE Restart
  BY <1>9, RestartFlow
<1>10. CASE UNCHANGED vars
  BY <1>10, StillFlow DEF vars, FlowInv, TypeOK
<1> QED BY <1>1, <1>2, <1>3, <1>4, <1>5, <1>6, <1>7, <1>8, <1>9, <1>10 DEF Next

\* What one queue sends to another arrives complete and in order (giu_gpio.c:415-463,
\* 528-568), also the descriptors of a packet that is split, where no guest starts again
\* before the queues of the GIE are empty; in the direction "in" for as many queues of
\* the guest as it has traffic classes (ArraysFit, giu_gpio.c:504-515).
THEOREM InOrder ==
  ASSUME Drained \/ "out" \notin Dirs
  PROVE  Spec => []FlowsFifo
<1>1. Init => FlowInv
  BY InitFlow
<1>2. FlowInv /\ [Next]_vars => FlowInv'
  BY NextFlow
<1>3. FlowInv => FlowsFifo
  BY FifoIs DEF FlowInv
<1> QED BY <1>1, <1>2, <1>3, PTL DEF Spec

-----------------------------------------------------------------------------
(* One source: where the copies are. *)

LEMMA SeenAnew ==
  ASSUME NEW c \in Seq(Place), NEW u \in Nat, NEW s \in Nat, NEW l \in Nat, NEW w, PlacedAt(c, u, s, l, w)
  PROVE  PlacedAt(c, l, w, l, w) /\ w \in Nat
<1>0. DstLen \in Nat \ {0} /\ Len(c) \in Nat
  BY InterimAssumption
<1> DEFINE k == u - l
           x == s + k
           n == Len(c)
<1>1. k \in Nat /\ x \in Nat /\ w = x % DstLen /\ n \in Nat /\ u <= n /\ l <= u /\ k = u - l /\ x = s + k
  BY <1>0 DEF PlacedAt
<1>2. \A i \in Nat : i < u => c[(n - u) + (i + 1)].idx = (s + i) % DstLen
  BY DEF PlacedAt
<1> HIDE DEF k, x, n
<1>3. w \in 0 .. DstLen - 1
  BY <1>0, <1>1, ModRange
<1>4. w \in Nat /\ w < DstLen
  BY <1>0, <1>3
<1>5. ASSUME NEW i \in Nat, i < l PROVE c[(n - l) + (i + 1)].idx = (w + i) % DstLen
  <2> DEFINE j == k + i
  <2>1. j \in Nat /\ j < u /\ (n - u) + (j + 1) = (n - l) + (i + 1) /\ s + j = x + i
    BY <1>1, <1>5
  <2>2. c[(n - u) + (j + 1)].idx = (s + j) % DstLen
    <3> HIDE DEF j
    <3> QED BY <1>2, <2>1
  <2>3. ((x % DstLen) + i) % DstLen = (x + i) % DstLen
    BY <1>0, <1>1, AddMod
  <2> HIDE DEF j
  <2> QED BY <1>1, <2>1, <2>2, <2>3
<1>6. w = (w + (l - l)) % DstLen
  <2>1. ((x % DstLen) + 0) % DstLen = (x + 0) % DstLen
    BY <1>0, <1>1, AddMod
  <2>2. x + 0 = x /\ w + 0 = w /\ l - l = 0
    BY <1>1, <1>4
  <2> QED BY <1>1, <2>1, <2>2
<1>7. l <= l /\ l <= n
  BY <1>1
<1> QED BY <1>4, <1>5, <1>6, <1>7 DEF PlacedAt, n

LEMMA OneTaken ==
  ASSUME NEW c \in Seq(Place), NEW u \in Nat, NEW s \in Nat, NEW l \in Nat, NEW w, PlacedAt(c, u, s, l + 1, w)
  PROVE  PlacedAt(c, u, s, l, (w + 1) % DstLen)
<1>0. DstLen \in Nat \ {0} /\ Len(c) \in Nat
  BY InterimAssumption
<1>1. l + 1 <= u /\ w = (s + (u - (l + 1))) % DstLen
  BY DEF PlacedAt
<1> DEFINE x == s + (u - (l + 1))
<1>2. x \in Nat /\ x + 1 = s + (u - l) /\ l <= u
  BY <1>1
<1> HIDE DEF x
<1>3. ((x % DstLen) + 1) % DstLen = (x + 1) % DstLen
  BY <1>0, <1>2, AddMod
<1>4. (w + 1) % DstLen = (s + (u - l)) % DstLen
  BY <1>1, <1>2, <1>3 DEF x
<1> QED BY <1>2, <1>4 DEF PlacedAt

LEMMA MoreCopied ==
  ASSUME NEW c \in Seq(Place), NEW u \in Nat, NEW s \in Nat, NEW l \in Nat, NEW w, PlacedAt(c, u, s, l, w),
         NEW b \in Seq(Place), NEW g \in Seq(Place), NEW n \in Nat, Len(g) = n,
         NEW p \in Nat, p + u <= Len(c), Len(b) + p = Len(c), \A i \in 1 .. Len(b) : b[i] = c[p + i],
         \A i \in Nat : i < n => g[i + 1].idx = (s + (u + i)) % DstLen
  PROVE  PlacedAt(b \o g, u + n, s, l + n, w)
<1>0. DstLen \in Nat \ {0} /\ Len(c) \in Nat /\ Len(b) \in Nat
  BY InterimAssumption
<1> DEFINE y == b \o g
<1>1. /\ Len(y) = Len(b) + n
      /\ \A j \in 1 .. Len(b) : y[j] = b[j]
      /\ \A j \in 1 .. n : y[Len(b) + j] = g[j]
  <2>1. /\ Len(y) = Len(b) + Len(g)
        /\ \A j \in 1 .. Len(b) : y[j] = b[j]
        /\ \A j \in 1 .. Len(g) : y[Len(b) + j] = g[j]
    BY ONLY b \in Seq(Place), g \in Seq(Place), JoinIs
  <2> QED BY <2>1
<1> HIDE DEF y
<1>2. ASSUME NEW i \in Nat, i < u + n
      PROVE  y[(Len(y) - (u + n)) + (i + 1)].idx = (s + i) % DstLen
  <2>1. CASE i < u
    <3> DEFINE j == (Len(b) - u) + (i + 1)
    <3>0. Len(b) \in Nat /\ Len(c) \in Nat /\ Len(y) = Len(b) + n /\ Len(b) + p = Len(c) /\ p + u <= Len(c)
      BY <1>0, <1>1
    <3>1. j \in 1 .. Len(b) /\ (Len(y) - (u + n)) + (i + 1) = j /\ p + j = (Len(c) - u) + (i + 1)
      BY ONLY <3>0, <2>1, i \in Nat, u \in Nat, n \in Nat, p \in Nat
    <3> HIDE DEF j
    <3>2. y[j] = c[p + j]
      BY <1>1, <3>1
    <3>3. c[(Len(c) - u) + (i + 1)].idx = (s + i) % DstLen
      BY <2>1 DEF PlacedAt
    <3> QED BY <3>1, <3>2, <3>3
  <2>2. CASE i >= u
    <3> DEFINE j == i - u
    <3>1. j \in Nat /\ j < n /\ j + 1 \in 1 .. n /\ (Len(y) - (u + n)) + (i + 1) = Len(b) + (j + 1) /\ u + j = i
      BY <1>0, <1>1, <1>2, <2>2
    <3> HIDE DEF j
    <3>2. y[Len(b) + (j + 1)] = g[j + 1]
      BY <1>1, <3>1
    <3>3. g[j + 1].idx = (s + (u + j)) % DstLen
      BY <3>1
    <3> QED BY <3>1, <3>2, <3>3
  <2> QED BY <2>1, <2>2
<1>3. l + n <= u + n /\ u + n <= Len(y) /\ (u + n) - (l + n) = u - l /\ s < DstLen
  BY SMTT(30), <1>0, <1>1 DEF PlacedAt
<1>4. w = (s + ((u + n) - (l + n))) % DstLen
  BY <1>3 DEF PlacedAt
<1> QED BY <1>2, <1>3, <1>4 DEF PlacedAt, y

LEMMA NoneCopied ==
  ASSUME NEW s \in Nat, s < DstLen
  PROVE  PlacedAt(<<>>, 0, s, 0, s)
<1>1. DstLen \in Nat \ {0} /\ s \in 0 .. DstLen - 1
  BY InterimAssumption
<1>2. s % DstLen = s
  BY <1>1, SmallMod
<1>3. s + (0 - 0) = s
  OBVIOUS
<1> QED BY <1>2, <1>3 DEF PlacedAt


LEMMA OutSrcs ==
  ASSUME TypeOK, dir = "out", OneSource
  PROVE  Srcs = {0}
<1>1. NumSrc[dir] = 1
  BY DEF TypeOK, OneSource
<1> QED BY <1>1 DEF Srcs

LEMMA PlacedTyped ==
  ASSUME FlowInv, dir = "out", OneSource, NEW d \in Dsts, Placed(d)
  PROVE  /\ Copies(d) \in Seq(Place) /\ SeenCons(d) \in Nat /\ Len(Delivered(d)) \in Nat
         /\ Unseen(d) \in Nat /\ dst[d].cons \in Nat /\ dst[d].buf \in Seq(Copy) /\ shadow[0] \in Seq(Place)
         /\ DstLen \in Nat \ {0, 1} /\ Delivered(d) \in Seq(Copy)
<1>1. TypeOK /\ ShadowFits /\ 0 \in Srcs
  BY OutSrcs DEF FlowInv
<1>2. shadow[0] \in Seq(Place) /\ dst[d].cons \in Nat /\ dst[d].buf \in Seq(Copy) /\ DstLen \in Nat \ {0, 1}
  BY <1>1, InterimAssumption DEF TypeOK, Ring
<1>3. Copies(d) \in Seq(Place)
  BY <1>2, ThoseTyped DEF Copies, ToDst
<1>4. Delivered(d) \in Seq(Copy)
  BY <1>1, FlowTyped
<1>5. SeenCons(d) \in Nat
  <2>1. pass.on => pass.cons[d] \in Nat
    BY <1>1, PassIs DEF Passes
  <2> QED BY <1>2, <2>1 DEF SeenCons
<1>6. Unseen(d) \in Int
  <2>1. pass.on => pass.free[d] \in Int
    BY <1>1, PassIs DEF Passes
  <2>2. Len(dst[d].buf) \in Int
    BY <1>2
  <2> QED BY <1>2, <2>1, <2>2 DEF Unseen
<1>7. Len(Delivered(d)) <= Unseen(d) /\ Len(Delivered(d)) \in Nat
  BY <1>4 DEF Placed, PlacedAt
<1> QED BY <1>2, <1>3, <1>4, <1>5, <1>6, <1>7

LEMMA StillPlaced ==
  ASSUME UNCHANGED <<dst, shadow, pass>>, NEW d \in Dsts, Placed(d)
  PROVE  Placed(d)'
BY DEF Placed, PlacedAt, Copies, Unseen, SeenCons, Delivered, ToDst

LEMMA TakePlaced ==
  ASSUME FlowInv, dir = "out", OneSource, NEW e \in Dsts, Take(e), NEW d \in Dsts, Placed(d)
  PROVE  Placed(d)'
<1>0. TypeOK /\ dst \in [Dsts -> Ring(Copy)] /\ dir' = dir
  BY TakeIs DEF FlowInv, TypeOK
<1>1. /\ Copies(d) \in Seq(Place) /\ SeenCons(d) \in Nat /\ Len(Delivered(d)) \in Nat
      /\ Unseen(d) \in Nat /\ dst[d].cons \in Nat /\ DstLen \in Nat \ {0, 1}
  BY PlacedTyped
<1>2. shadow' = shadow /\ pass'.on = pass.on
  BY TakeIs
<1>3. pass.on => pass'.free = pass.free /\ pass'.cons = pass.cons /\ pass'.prod = pass.prod
  <2>1. PICK w : pass.on => pass' = [pass EXCEPT !.new = w]
    BY TakeIs
  <2> QED BY <1>0, <2>1, PassIs DEF Passes
<1>4. Copies(d)' = Copies(d)
  BY <1>2 DEF Copies, ToDst
<1>5. CASE d # e
  <2>1. Delivered(d)' = Delivered(d)
    BY <1>5, TakeParts
  <2>2. dst'[d] = dst[d]
    BY <1>0, <1>5, TakeIs
  <2>3. Unseen(d)' = Unseen(d) /\ SeenCons(d)' = SeenCons(d)
    BY <1>2, <1>3, <2>2 DEF Unseen, SeenCons
  <2>4. pass'.on => pass'.prod[d] = pass.prod[d]
    BY <1>2, <1>3
  <2> QED BY <1>2, <1>4, <2>1, <2>2, <2>3, <2>4 DEF Placed, PlacedAt
<1>6. CASE d = e
  <2> DEFINE l == Len(Delivered(d)')
             w == dst[d].cons
             u == Unseen(d)
             s == SeenCons(d)
             c == Copies(d)
             w2 == (w + 1) % DstLen
  <2>1. l \in Nat /\ Len(Delivered(d)) = l + 1
    <3> DEFINE o == <<Taken(d)>>
               x == AfterTake(d)
               y == Delivered(d)'
    <3>1. x \in Seq(Copy) /\ y \in Seq(Copy) /\ Delivered(d) = o \o x /\ Len(y) = Len(x)
      BY <1>6, TakeParts DEF Lowered
    <3>2. o \in Seq(Copy) /\ Len(o) = 1
      <4>1. Taken(d) \in Copy
        BY <1>6, TakeIs
      <4> QED BY ONLY <4>1
    <3> HIDE DEF o, x, y
    <3>3. Len(o \o x) = Len(o) + Len(x) /\ Len(x) \in Nat
      BY <3>1, <3>2, JoinIs
    <3>4. Len(y) \in Nat /\ Len(Delivered(d)) = Len(y) + 1
      BY <3>1, <3>2, <3>3
    <3> QED BY <3>4 DEF y
  <2>2. dst'[d].cons = w2
    <3>1. dst'[d].cons = Index(dst[d].cons + 1, DstLen)
      <4> DEFINE v == [buf |-> Renum(Tail(dst[d].buf), "q", Taken(d).q), cons |-> Index(dst[d].cons + 1, DstLen)]
      <4>1. dst' = [dst EXCEPT ![d] = v]
        BY <1>6, TakeIs
      <4>2. dst'[d] = v
        <5> HIDE DEF v
        <5> QED BY ONLY <1>0, <4>1, d \in Dsts
      <4> QED BY <4>2
    <3> QED BY <3>1 DEF Index
  <2>3. PlacedAt(c, u, s, l + 1, w) /\ c \in Seq(Place) /\ u \in Nat /\ s \in Nat /\ w \in Nat
    BY <1>1, <2>1 DEF Placed
  <2>4. w2 \in Nat
    <3> DEFINE x == w + 1
    <3>1. x \in Nat /\ DstLen \in Nat \ {0}
      BY <1>1
    <3> HIDE DEF x
    <3>2. x % DstLen \in 0 .. DstLen - 1
      BY <3>1, ModRange
    <3> QED BY <3>2 DEF x
  <2> HIDE DEF l, c, u, s, w
  <2>5. PlacedAt(c, u, s, l, w2)
    BY <2>1, <2>3, OneTaken
  <2> HIDE DEF w2
  <2>6. CASE pass.on
    <3>1. Unseen(d)' = u /\ SeenCons(d)' = s /\ pass'.prod[d] = pass.prod[d]
      BY <1>2, <1>3, <2>6 DEF Unseen, SeenCons, u, s
    <3>2. pass.prod[d] = (s + u) % DstLen
      BY <2>6 DEF Placed, u, s
    <3>3. PlacedAt(Copies(d)', Unseen(d)', SeenCons(d)', Len(Delivered(d)'), dst'[d].cons)
      BY <1>4, <2>2, <2>5, <3>1 DEF c, l
    <3> QED BY <3>1, <3>2, <3>3 DEF Placed, PlacedAt
  <2>7. CASE ~pass.on
    <3>1. PlacedAt(c, l, w2, l, w2)
      BY <2>1, <2>3, <2>4, <2>5, SeenAnew
    <3>2. Delivered(d)' = dst'[d].buf \o <<>> /\ dst'[d].buf \in Seq(Copy)
      <4>1. Delivered(d)' = dst'[d].buf \o <<>>
        BY <1>2, <2>7 DEF Delivered
      <4>2. TypeOK'
        BY TakeParts
      <4>3. Copy' = Copy /\ Dsts' = Dsts
        BY <1>0, SameDir
      <4> QED BY <4>1, <4>2, <4>3 DEF TypeOK, Ring
    <3> DEFINE b == dst'[d].buf
    <3>3. b \o <<>> = b
      <4>1. b \in Seq(Copy)
        BY <3>2
      <4> HIDE DEF b
      <4> QED BY ONLY <4>1
    <3>4. Unseen(d)' = l /\ SeenCons(d)' = w2
      BY <1>2, <2>2, <2>7, <3>2, <3>3 DEF Unseen, SeenCons, l
    <3>5. PlacedAt(Copies(d)', Unseen(d)', SeenCons(d)', Len(Delivered(d)'), dst'[d].cons)
      BY <1>4, <2>2, <3>1, <3>4 DEF c, l
    <3> QED BY <1>2, <2>7, <3>5 DEF Placed, PlacedAt
  <2> QED BY <2>6, <2>7
<1> QED BY <1>5, <1>6

LEMMA InitPlaced ==
  ASSUME Init, NEW d \in Dsts
  PROVE  Placed(d)
<1>1. /\ shadow[0] = <<>> /\ dst[d].buf = <<>> /\ dst[d].cons = 0 /\ ~pass.on
  <2>1. dir \in Dirs
    BY DEF Init
  <2>2. 0 \in Srcs
    BY <2>1, NumSrcIs DEF Srcs
  <2> QED BY <2>2 DEF Init, EmptyRing, NoPass
<1>2. Copies(d) = <<>> /\ Unseen(d) = 0 /\ SeenCons(d) = 0
  BY <1>1, ThoseEmpty DEF Copies, ToDst, Unseen, SeenCons
<1>3. Len(Delivered(d)) = 0
  BY <1>1 DEF Delivered
<1>4. 0 < DstLen
  BY InterimAssumption
<1>5. PlacedAt(<<>>, 0, 0, 0, 0)
  BY <1>4, NoneCopied
<1> QED BY <1>1, <1>2, <1>3, <1>5 DEF Placed

LEMMA BeginPlaced ==
  ASSUME FlowInv, dir = "out", OneSource, PassBegin, NEW d \in Dsts, Placed(d)
  PROVE  Placed(d)'
<1>1. /\ Copies(d) \in Seq(Place) /\ SeenCons(d) \in Nat /\ Len(Delivered(d)) \in Nat
      /\ Unseen(d) \in Nat /\ dst[d].cons \in Nat /\ DstLen \in Nat \ {0, 1} /\ dst[d].buf \in Seq(Copy)
  BY PlacedTyped
<1>2. /\ ~pass.on /\ pass'.on /\ dir' = dir /\ UNCHANGED <<src, dst, shadow>>
      /\ pass'.free[d] = DstLen - 1 - Len(dst[d].buf)
      /\ pass'.prod[d] = Index(dst[d].cons + Len(dst[d].buf), DstLen)
      /\ pass'.cons[d] = dst[d].cons
      /\ Delivered(d) = dst[d].buf /\ Delivered(d)' = dst[d].buf
  BY BeginIs
<1>3. Copies(d)' = Copies(d)
  BY <1>2 DEF Copies, ToDst
<1>4. Unseen(d) = Len(dst[d].buf) /\ SeenCons(d) = dst[d].cons
  BY <1>2 DEF Unseen, SeenCons
<1>5. Unseen(d)' = Len(dst[d].buf) /\ SeenCons(d)' = dst[d].cons
  <2> DEFINE l == Len(dst[d].buf)
  <2>1. l \in Nat /\ pass'.free[d] = DstLen - 1 - l
    BY <1>1, <1>2
  <2>2. Unseen(d)' = DstLen - 1 - pass'.free[d]
    BY <1>2 DEF Unseen
  <2> HIDE DEF l
  <2>3. Unseen(d)' = l
    BY <1>1, <2>1, <2>2
  <2> QED BY <1>2, <2>3 DEF SeenCons, l
<1>6. pass'.prod[d] = (dst[d].cons + Len(dst[d].buf)) % DstLen
  BY <1>2 DEF Index
<1>7. PlacedAt(Copies(d)', Unseen(d)', SeenCons(d)', Len(Delivered(d)'), dst'[d].cons)
  BY <1>2, <1>3, <1>4, <1>5 DEF Placed
<1> QED BY <1>2, <1>5, <1>6, <1>7 DEF Placed, PlacedAt

LEMMA EndPlaced ==
  ASSUME FlowInv, dir = "out", OneSource, PassEnd, NEW d \in Dsts, Placed(d)
  PROVE  Placed(d)'
<1>1. /\ Copies(d) \in Seq(Place) /\ SeenCons(d) \in Nat /\ Len(Delivered(d)) \in Nat
      /\ Unseen(d) \in Nat /\ dst[d].cons \in Nat
  BY PlacedTyped
<1>2. /\ ~pass'.on /\ UNCHANGED <<src, shadow>>
      /\ dst'[d].cons = dst[d].cons /\ dst'[d].buf = Delivered(d)
      /\ Delivered(d)' = Delivered(d)
  BY EndIs
<1>3. Copies(d)' = Copies(d)
  BY <1>2 DEF Copies, ToDst
<1>4. Unseen(d)' = Len(Delivered(d)) /\ SeenCons(d)' = dst[d].cons
  BY <1>2 DEF Unseen, SeenCons
<1>5. PlacedAt(Copies(d), Len(Delivered(d)), dst[d].cons, Len(Delivered(d)), dst[d].cons)
  <2> DEFINE l == Len(Delivered(d))
             c == Copies(d)
             u == Unseen(d)
             s == SeenCons(d)
             w == dst[d].cons
  <2>1. l \in Nat /\ c \in Seq(Place) /\ u \in Nat /\ s \in Nat /\ PlacedAt(c, u, s, l, w)
    BY <1>1 DEF Placed
  <2> HIDE DEF l, c, u, s, w
  <2>2. PlacedAt(c, l, w, l, w)
    BY <2>1, SeenAnew
  <2> QED BY <2>2 DEF l, c, w
<1> QED BY <1>2, <1>3, <1>4, <1>5 DEF Placed, PlacedAt

LEMMA RestartPlaced ==
  ASSUME FlowInv, dir = "out", OneSource, Drained \/ "out" \notin Dirs, Restart, NEW d \in Dsts, Placed(d)
  PROVE  Placed(d)'
<1>1. dst[d].cons \in Nat
  BY PlacedTyped
<1>2. ~pass'.on /\ ~pass.on /\ shadow'[0] = <<>> /\ dst'[d].buf = <<>> /\ Delivered(d)' = <<>> /\ dst'[d] = dst[d]
  <2>1. 0 \in Srcs
    BY OutSrcs DEF FlowInv
  <2> QED BY <2>1, RestartFlow
<1>3. Copies(d)' = <<>> /\ Unseen(d)' = 0 /\ SeenCons(d)' = dst[d].cons
  BY <1>2, ThoseEmpty DEF Copies, ToDst, Unseen, SeenCons
<1>4. dst[d].cons < DstLen
  BY <1>2 DEF Placed, PlacedAt, SeenCons
<1>5. PlacedAt(<<>>, 0, dst[d].cons, 0, dst[d].cons)
  BY <1>1, <1>4, NoneCopied
<1>6. Len(Delivered(d)') = 0
  BY <1>2
<1> QED BY <1>2, <1>3, <1>5, <1>6 DEF Placed, PlacedAt

LEMMA PrefixOfPrefix ==
  ASSUME NEW S, NEW s \in Seq(S), NEW m \in 0 .. Len(s), NEW n \in 0 .. m
  PROVE  SubSeq(SubSeq(s, 1, m), 1, n) = SubSeq(s, 1, n)
<1> DEFINE a == SubSeq(s, 1, m)
           b == SubSeq(a, 1, n)
           c == SubSeq(s, 1, n)
<1>0. m \in Nat /\ n \in Nat /\ n <= m /\ n \in 0 .. Len(s)
  OBVIOUS
<1>1. a \in Seq(S) /\ Len(a) = m /\ \A i \in 1 .. m : a[i] = s[i]
  BY Parts
<1>2. c \in Seq(S) /\ Len(c) = n /\ \A i \in 1 .. n : c[i] = s[i]
  BY <1>0, Parts
<1> HIDE DEF a, c
<1>3. b \in Seq(S) /\ Len(b) = n /\ \A i \in 1 .. n : b[i] = a[i]
  BY <1>1, Parts
<1> HIDE DEF b
<1>4. \A i \in 1 .. n : b[i] = c[i]
  <2>1. \A i \in 1 .. n : i \in 1 .. m
    BY <1>0
  <2> QED BY <1>1, <1>2, <1>3, <2>1
<1> QED BY ONLY <1>2, <1>3, <1>4, SeqEqual DEF a, b, c

\* What a turn adds to the copies for d.
LEMMA AddedPlaces ==
  ASSUME TypeOK, ShadowFits, pass.on, NEW q \in Srcs, NEW d \in Dsts
  PROVE  LET g == Those(Places(q), "d", d)
         IN /\ g \in Seq(Place) /\ Len(g) = Len(CopiedTo(q, d))
            /\ \A i \in Nat : i < Len(g) => g[i + 1].idx = (pass.prod[d] + i) % DstLen
<1> DEFINE f == Fresh(q)
           m == Copied(f)
           s == SubSeq(f, 1, m)
           t == Places(q)
           g == Those(t, "d", d)
           c == Those(s, "d", d)
<1>1. /\ f \in Seq(Desc) /\ m \in 0 .. Len(f) /\ Len(f) \in Nat
      /\ t \in Seq(Place) /\ Len(t) = m /\ \A j \in 1 .. m : t[j] = PlaceOf(q, j)
  BY TurnIs
<1>2. \A j : PlaceOf(q, j)["d"] = f[j].d /\ PlaceOf(q, j).idx = (pass.prod[f[j].d] + Before(f, j)) % DstLen
  BY DEF PlaceOf
<1>3. CopiedTo(q, d) = c
  BY DEF CopiedTo, ToDst
<1>4. \A j : Before(f, j) = Len(Those(SubSeq(f, 1, j - 1), "d", f[j].d))
  BY DEF Before, ToDst
<1> HIDE DEF f, m, t
<1>5. s \in Seq(Desc) /\ Len(s) = m /\ \A j \in 1 .. m : s[j] = f[j]
  BY <1>1, Parts
<1>6. \A p \in 1 .. m : SubSeq(s, 1, p - 1) = SubSeq(f, 1, p - 1)
  <2> TAKE p \in 1 .. m
  <2>1. p - 1 \in 0 .. m
    BY <1>1
  <2> QED BY <1>1, <2>1, PrefixOfPrefix
<1> HIDE DEF s
<1>7. SameAt(s, t, "d", d, "d", d)
  BY <1>1, <1>2, <1>5 DEF SameAt
<1>8. /\ Len(g) = Len(c)
      /\ \A i \in 1 .. Len(c) : \E p \in 1 .. Len(s) :
           /\ s[p]["d"] = d /\ c[i] = s[p] /\ g[i] = t[p]
           /\ Len(Those(SubSeq(s, 1, p - 1), "d", d)) = i - 1
  <2>1. s \in Seq(Desc) /\ t \in Seq(Place)
    BY <1>1, <1>5
  <2> QED BY ONLY <2>1, <1>7, ThoseAlong
<1>9. g \in Seq(Place) /\ c \in Seq(Desc)
  BY <1>1, <1>5, ThoseTyped
<1> HIDE DEF g, c
<1>10. ASSUME NEW i \in Nat, i < Len(g) PROVE g[i + 1].idx = (pass.prod[d] + i) % DstLen
  <2>1. i + 1 \in 1 .. Len(c) /\ (i + 1) - 1 = i
    BY <1>8, <1>9, <1>10
  <2>2. PICK p \in 1 .. Len(s) : /\ s[p]["d"] = d /\ g[i + 1] = t[p]
                                 /\ Len(Those(SubSeq(s, 1, p - 1), "d", d)) = (i + 1) - 1
    BY <1>8, <2>1
  <2>3. p \in 1 .. m /\ t[p] = PlaceOf(q, p) /\ f[p].d = d
    BY <1>1, <1>5, <2>2
  <2>4. Before(f, p) = i
    BY <1>4, <1>6, <2>1, <2>2, <2>3
  <2>5. PlaceOf(q, p).idx = (pass.prod[f[p].d] + Before(f, p)) % DstLen
    BY <1>2
  <2> QED BY <2>2, <2>3, <2>4, <2>5
<1> QED BY <1>3, <1>8, <1>9, <1>10 DEF g, t

\* The copies the GIE may not have consumed are not retired.
LEMMA NotRetired ==
  ASSUME FlowInv, dir = "out", OneSource, pass.on, NEW d \in Dsts, Placed(d),
         NEW a \in Seq(Place), NEW b \in Seq(Place), Copies(d) = a \o b,
         \A i \in 1 .. Len(a) : a[i].d = d /\ Consumed(a[i])
  PROVE  Len(a) + Unseen(d) <= Len(Copies(d))
<1> DEFINE c == Copies(d)
           u == Unseen(d)
           s == SeenCons(d)
<1>1. c \in Seq(Place) /\ s \in Nat /\ u \in Nat /\ DstLen \in Nat \ {0}
  BY PlacedTyped
<1>2. s < DstLen /\ u <= Len(c) /\ \A i \in Nat : i < u => c[(Len(c) - u) + (i + 1)].idx = (s + i) % DstLen
  BY DEF Placed, PlacedAt
<1>3. c = a \o b
  OBVIOUS
<1>4. s = pass.cons[d]
  BY DEF SeenCons
<1> HIDE DEF c, u, s
<1>5. Len(c) = Len(a) + Len(b) /\ Len(a) \in Nat /\ Len(b) \in Nat /\ \A j \in 1 .. Len(a) : c[j] = a[j]
  BY <1>3, JoinIs
<1>6. SUFFICES ASSUME ~(Len(a) + u <= Len(c)) PROVE FALSE
  BY DEF u, c
<1> DEFINE x == (Len(c) - u) + (0 + 1)
<1>7. x \in 1 .. Len(a) /\ 0 < u /\ 0 \in Nat
  BY <1>1, <1>2, <1>5, <1>6
<1>8. c[x].idx = (s + 0) % DstLen
  BY <1>2, <1>7
<1> HIDE DEF x
<1>9. s % DstLen = s
  <2>1. s \in 0 .. DstLen - 1
    BY <1>1, <1>2
  <2> QED BY <1>1, <2>1, SmallMod
<1>10. c[x].idx = s
  <2>1. s + 0 = s
    BY <1>1
  <2> QED BY <1>8, <1>9, <2>1
<1>11. c[x] = a[x] /\ a[x].d = d /\ Consumed(a[x])
  BY <1>5, <1>7
<1>12. (s - s) % SrcLen # 0
  BY <1>4, <1>10, <1>11 DEF Consumed
<1>13. SrcLen \in Nat \ {0}
  BY InterimAssumption
<1>14. s - s = 0 /\ 0 \in 0 .. SrcLen - 1
  BY <1>1, <1>13
<1>15. 0 % SrcLen = 0
  BY <1>13, <1>14, SmallMod
<1> QED BY <1>12, <1>14, <1>15

LEMMA VisitPlaced ==
  ASSUME FlowInv, dir = "out", OneSource, Visit, NEW d \in Dsts, Placed(d)
  PROVE  Placed(d)'
<1>1. PICK q : q = Rotate(last, pass.turn)
  OBVIOUS
<1>2. TypeOK /\ ShadowFits /\ pass.on /\ pass \in Passes /\ q \in Srcs /\ UNCHANGED <<dst>>
  BY <1>1, VisitIs DEF FlowInv
<1>3. q = 0
  BY <1>2, OutSrcs
<1> DEFINE s == shadow[0]
           k == Retired(0)
           x == SubSeq(s, 1, k)
           r == SubSeq(s, k + 1, Len(s))
           t == Places(0)
           a == Those(x, "d", d)
           b == Those(r, "d", d)
           g == Those(t, "d", d)
           c == Copies(d)
           u == Unseen(d)
           z == SeenCons(d)
           l == Len(Delivered(d))
           w == dst[d].cons
           n == Len(g)
<1>4. /\ c \in Seq(Place) /\ z \in Nat /\ l \in Nat /\ u \in Nat /\ w \in Nat /\ s \in Seq(Place)
      /\ DstLen \in Nat \ {0} /\ Delivered(d) \in Seq(Copy)
  BY PlacedTyped
<1>5. k \in 0 .. Len(s) /\ \A j \in 1 .. k : Consumed(s[j])
  <2>1. Len(shadow[0]) \in Nat
    BY <1>4
  <2> QED BY <2>1, RetiredIs
<1>6. t \in Seq(Place)
  BY <1>2, <1>3, TurnIs
<1>7. shadow'[0] = r \o t
  <2>1. shadow' = [shadow EXCEPT ![0] = SubSeq(shadow[0], Done(0) + 1, Len(shadow[0])) \o Places(0)]
    BY <1>1, <1>3, VisitIs
  <2>2. Done(0) = k
    BY DEF Done
  <2>3. shadow \in [Srcs -> Seq(Place)]
    BY <1>2 DEF TypeOK
  <2> QED BY <1>2, <1>3, <2>1, <2>2, <2>3
<1>8. x \in Seq(Place) /\ r \in Seq(Place) /\ s = x \o r /\ Len(x) = k /\ \A j \in 1 .. k : x[j] = s[j]
  <2> HIDE DEF s, k
  <2> QED BY ZenonT(30), <1>4, <1>5, Parts
<1>9. c = Those(s, "d", d) /\ Copies(d)' = Those(r \o t, "d", d)
  BY <1>7 DEF Copies, ToDst
<1>10. /\ g \in Seq(Place) /\ Len(g) = Len(CopiedTo(0, d))
       /\ \A i \in Nat : i < Len(g) => g[i + 1].idx = (pass.prod[d] + i) % DstLen
  BY <1>2, <1>3, AddedPlaces
<1>11. /\ l + n = Len(Delivered(d)') /\ Delivered(d)' = Delivered(d) \o NewCopies(0, d)
  <2> DEFINE D == Delivered(d)
             y == NewCopies(0, d)
  <2>1. D \in Seq(Copy) /\ y \in Seq(Copy) /\ Len(y) = n
    BY <1>2, <1>3, <1>4, <1>10, TurnIs
  <2>2. Delivered(d)' = D \o y
    BY <1>1, <1>3, VisitParts
  <2> HIDE DEF D, y
  <2>3. Len(D \o y) = Len(D) + Len(y)
    BY ONLY <2>1, JoinIs
  <2> QED BY <2>1, <2>2, <2>3 DEF D, y
<1>12. /\ pass'.on /\ pass'.cons = pass.cons /\ pass'.free[d] = pass.free[d] - n
       /\ pass'.prod[d] = Index(pass.prod[d] + n, DstLen)
  <2> DEFINE fr == [e \in Dsts |-> pass.free[e] - Len(CopiedTo(0, e))]
             pr == [e \in Dsts |-> Index(pass.prod[e] + Len(CopiedTo(0, e)), DstLen)]
  <2>1. pass'.on /\ pass'.cons = pass.cons /\ pass'.free = fr /\ pass'.prod = pr
    BY <1>1, <1>3, VisitParts
  <2>2. fr[d] = pass.free[d] - n /\ pr[d] = Index(pass.prod[d] + n, DstLen)
    BY <1>10
  <2> HIDE DEF fr, pr
  <2> QED BY <2>1, <2>2
<1>13. u = DstLen - 1 - pass.free[d] /\ z = pass.cons[d]
  BY <1>2 DEF Unseen, SeenCons
<1>14. Unseen(d)' = DstLen - 1 - pass'.free[d] /\ SeenCons(d)' = z
  BY <1>12, <1>13 DEF Unseen, SeenCons
<1>15. PlacedAt(c, u, z, l, w) /\ pass.prod[d] = (z + u) % DstLen
  BY <1>2 DEF Placed
<1>16. pass.free[d] \in Int
  BY <1>2 DEF Passes
<1>17. Copies(d) = c /\ Unseen(d) = u /\ dst'[d].cons = w
  BY <1>2
<1>18. pass'.prod[d] = (pass.prod[d] + n) % DstLen
  BY <1>12 DEF Index
<1> HIDE DEF s, k, x, r, t, c, u, z, l, w
<1>19. c = a \o b /\ Copies(d)' = b \o g
  <2>1. Those(x \o r, "d", d) = Those(x, "d", d) \o Those(r, "d", d)
    BY ONLY <1>8, ThoseJoin
  <2>2. Those(r \o t, "d", d) = Those(r, "d", d) \o Those(t, "d", d)
    BY ONLY <1>6, <1>8, ThoseJoin
  <2> QED BY <1>8, <1>9, <2>1, <2>2
<1>20. /\ a \in Seq(Place) /\ b \in Seq(Place)
       /\ \A i \in 1 .. Len(a) : \E j \in 1 .. Len(x) : a[i] = x[j] /\ x[j]["d"] = d
  BY <1>8, ThoseTyped
<1> HIDE DEF a, b, g
<1>21. n \in Nat
  BY <1>10
<1> HIDE DEF n
<1>22. \A i \in 1 .. Len(a) : a[i].d = d /\ Consumed(a[i])
  BY <1>5, <1>8, <1>20
<1>23. Len(a) + u <= Len(c)
  BY <1>2, <1>17, <1>19, <1>20, <1>22, NotRetired
<1>24. Len(c) = Len(a) + Len(b) /\ Len(a) \in Nat /\ Len(b) \in Nat /\ \A i \in 1 .. Len(b) : b[i] = c[Len(a) + i]
  BY <1>19, <1>20, JoinIs
<1>25. ASSUME NEW i \in Nat, i < n PROVE g[i + 1].idx = (z + (u + i)) % DstLen
  <2> DEFINE e == z + u
  <2>1. e \in Nat /\ e + i = z + (u + i)
    BY <1>4
  <2>2. g[i + 1].idx = (pass.prod[d] + i) % DstLen
    BY <1>10, <1>25 DEF n
  <2>3. pass.prod[d] = e % DstLen
    BY <1>15
  <2> HIDE DEF e
  <2>4. ((e % DstLen) + i) % DstLen = (e + i) % DstLen
    BY <1>4, <2>1, AddMod
  <2> QED BY <2>1, <2>2, <2>3, <2>4
<1>26. PlacedAt(b \o g, u + n, z, l + n, w)
  <2> DEFINE p == Len(a)
  <2>1. p \in Nat /\ p + u <= Len(c) /\ Len(b) + p = Len(c) /\ \A i \in 1 .. Len(b) : b[i] = c[p + i]
    BY <1>23, <1>24
  <2>2. Len(g) = n
    BY DEF n
  <2> HIDE DEF p
  <2> QED BY <1>4, <1>10, <1>15, <1>20, <1>21, <1>25, <2>1, <2>2, MoreCopied
<1>27. Unseen(d)' = u + n
  BY <1>4, <1>12, <1>13, <1>14, <1>16, <1>21
<1>28. pass'.prod[d] = (z + (u + n)) % DstLen
  <2> DEFINE e == z + u
  <2>1. e \in Nat /\ e + n = z + (u + n)
    BY <1>4, <1>21
  <2>2. pass.prod[d] = e % DstLen
    BY <1>15
  <2> HIDE DEF e
  <2>3. ((e % DstLen) + n) % DstLen = (e + n) % DstLen
    BY <1>4, <1>21, <2>1, AddMod
  <2> QED BY <1>18, <2>1, <2>2, <2>3
<1>29. PlacedAt(Copies(d)', Unseen(d)', SeenCons(d)', Len(Delivered(d)'), dst'[d].cons)
  BY <1>11, <1>14, <1>17, <1>19, <1>26, <1>27
<1> QED BY <1>14, <1>27, <1>28, <1>29 DEF Placed, PlacedAt

PlacedInv == dir = "out" => \A d \in Dsts : Placed(d)

LEMMA NextPlaced ==
  ASSUME FlowInv, PlacedInv, [Next]_vars, OneSource, Drained \/ "out" \notin Dirs
  PROVE  PlacedInv'
<1>1. dir' = dir
  <2>1. ASSUME NEW d \in Dsts, Take(d) PROVE dir' = dir
    BY ZenonT(30), <2>1 DEF Take
  <2>2. CASE Visit
    BY <2>2, VisitIs
  <2> QED BY ZenonT(30), <2>1, <2>2 DEF Next, vars, Send, SendRest, Put, Stop, PassBegin, PassEnd, Enable, Restart
<1>2. Dsts' = Dsts
  BY <1>1, SameDir
<1>3. SUFFICES ASSUME dir = "out", NEW d \in Dsts PROVE Placed(d)'
  BY <1>1, <1>2 DEF PlacedInv
<1>4. Placed(d)
  BY <1>3 DEF PlacedInv
<1>5. CASE UNCHANGED <<dst, shadow, pass>>
  BY <1>3, <1>4, <1>5, StillPlaced
<1>6. ASSUME NEW e \in Dsts, Take(e) PROVE Placed(d)'
  BY <1>3, <1>4, <1>6, TakePlaced
<1>7. CASE PassBegin
  BY <1>3, <1>4, <1>7, BeginPlaced
<1>8. CASE Visit
  BY <1>3, <1>4, <1>8, VisitPlaced
<1>9. CASE PassEnd
  BY <1>3, <1>4, <1>9, EndPlaced
<1>10. CASE Restart
  BY <1>3, <1>4, <1>10, RestartPlaced
<1>11. ASSUME NEW q \in Srcs, NEW e \in Dsts, NEW c \in Dsts, NEW size \in Sizes, Send(q, e, c, size)
       PROVE  UNCHANGED <<dst, shadow, pass>>
  BY <1>11 DEF Send, Put
<1>12. ASSUME NEW q \in Srcs, NEW e \in Dsts, SendRest(q, e) PROVE UNCHANGED <<dst, shadow, pass>>
  BY <1>12 DEF SendRest, Put
<1>13. Stop \/ Enable \/ UNCHANGED vars => UNCHANGED <<dst, shadow, pass>>
  BY DEF Stop, Enable, vars
<1> QED BY <1>5, <1>6, <1>7, <1>8, <1>9, <1>10, <1>11, <1>12, <1>13 DEF Next

LEMMA PlacedTaken ==
  ASSUME FlowInv, PlacedInv, OneSource
  PROVE  DoneIsTaken
<1>1. SUFFICES ASSUME dir = "out", NEW q \in Srcs, NEW d \in Dsts
               PROVE  Len(Held(q, d)) <= Len(ToDst(shadow[q], d))
  BY DEF DoneIsTaken
<1>2. q = 0 /\ Placed(d) /\ TypeOK /\ ShadowFits
  BY <1>1, OutSrcs DEF FlowInv, PlacedInv
<1>3. Delivered(d) \in Seq(Copy) /\ Held(q, d) = OfFlow(Delivered(d), q) /\ Len(Delivered(d)) \in Nat
      /\ Unseen(d) \in Nat /\ Copies(d) \in Seq(Place)
  BY <1>1, <1>2, FlowTyped, PlacedTyped
<1>4. Len(Held(q, d)) <= Len(Delivered(d))
  BY <1>3, ThoseTyped DEF OfFlow
<1>5. Len(Delivered(d)) <= Unseen(d) /\ Unseen(d) <= Len(Copies(d)) /\ Len(Copies(d)) \in Nat
  BY <1>2, <1>3 DEF Placed, PlacedAt
<1>6. Len(Held(q, d)) \in Nat
  <2>1. Held(q, d) \in Seq(Elt)
    BY <1>1, <1>2, FlowTyped
  <2> QED BY <2>1
<1>7. Copies(d) = ToDst(shadow[q], d)
  BY <1>2 DEF Copies
<1> QED BY <1>3, <1>4, <1>5, <1>6, <1>7

\* A descriptor is given back to the guest (giu_gpio.c:408) only when the GIE has
\* consumed its copy, where the guest has one queue.
THEOREM TakenFirst ==
  ASSUME Drained \/ "out" \notin Dirs, OneSource
  PROVE  Spec => []DoneIsTaken
<1>1. Init => FlowInv /\ PlacedInv
  BY InitFlow, InitPlaced DEF PlacedInv
<1>2. FlowInv /\ PlacedInv /\ [Next]_vars => FlowInv' /\ PlacedInv'
  BY NextFlow, NextPlaced
<1>3. FlowInv /\ PlacedInv => DoneIsTaken
  BY PlacedTaken
<1> QED BY <1>1, <1>2, <1>3, PTL DEF Spec

-----------------------------------------------------------------------------
(* Packets, in the direction "in". *)

LEMMA WholeJoin ==
  ASSUME NEW S, NEW a \in Seq(S), NEW b \in Seq(S), NEW k, Whole(a, k), Whole(b, k)
  PROVE  Whole(a \o b, k)
<1> DEFINE x == a \o b
<1>1. /\ Len(x) = Len(a) + Len(b) /\ Len(a) \in Nat /\ Len(b) \in Nat
      /\ (\A j \in 1 .. Len(a) : x[j] = a[j]) /\ \A j \in 1 .. Len(b) : x[Len(a) + j] = b[j]
  BY JoinIs
<1> HIDE DEF x
<1>2. ASSUME NEW j \in 1 .. Len(x), x[j].size > 1
      PROVE  j < Len(x) /\ x[j + 1].size = 1 /\ x[j + 1][k] = x[j][k] /\ x[j + 1].n = x[j].n + 1
  <2>1. CASE j \in 1 .. Len(a)
    <3>1. x[j] = a[j]
      BY <1>1, <2>1
    <3>2. j < Len(a) /\ a[j + 1].size = 1 /\ a[j + 1][k] = a[j][k] /\ a[j + 1].n = a[j].n + 1
      BY <1>2, <2>1, <3>1 DEF Whole
    <3>3. j + 1 \in 1 .. Len(a) /\ j < Len(x)
      BY <1>1, <3>2
    <3>4. x[j + 1] = a[j + 1]
      BY <1>1, <3>3
    <3> QED BY <3>1, <3>2, <3>3, <3>4
  <2>2. CASE j \notin 1 .. Len(a)
    <3> DEFINE i == j - Len(a)
    <3>1. i \in 1 .. Len(b) /\ j = Len(a) + i
      BY <1>1, <2>2
    <3> HIDE DEF i
    <3>2. x[j] = b[i]
      BY <1>1, <3>1
    <3>3. i < Len(b) /\ b[i + 1].size = 1 /\ b[i + 1][k] = b[i][k] /\ b[i + 1].n = b[i].n + 1
      BY <1>2, <3>1, <3>2 DEF Whole
    <3>4. i + 1 \in 1 .. Len(b) /\ j < Len(x) /\ j + 1 = Len(a) + (i + 1)
      BY SMTT(30), <1>1, <3>1, <3>3
    <3>5. x[j + 1] = b[i + 1]
      BY <1>1, <3>4
    <3> QED BY <3>2, <3>3, <3>4, <3>5
  <2> QED BY <2>1, <2>2
<1> QED BY <1>2 DEF Whole, x

LEMMA WholeRest ==
  ASSUME NEW S, NEW a \in Seq(S), NEW b \in Seq(S), NEW k, Whole(a \o b, k)
  PROVE  Whole(b, k)
<1> DEFINE x == a \o b
<1>1. /\ Len(x) = Len(a) + Len(b) /\ Len(a) \in Nat /\ Len(b) \in Nat
      /\ \A j \in 1 .. Len(b) : x[Len(a) + j] = b[j]
  BY JoinIs
<1>2. Whole(x, k)
  OBVIOUS
<1> HIDE DEF x
<1>3. ASSUME NEW i \in 1 .. Len(b), b[i].size > 1
      PROVE  i < Len(b) /\ b[i + 1].size = 1 /\ b[i + 1][k] = b[i][k] /\ b[i + 1].n = b[i].n + 1
  <2> DEFINE j == Len(a) + i
  <2>1. j \in 1 .. Len(x) /\ j + 1 = Len(a) + (i + 1) /\ x[j] = b[i]
    BY <1>1
  <2>0. j = Len(a) + i
    OBVIOUS
  <2> HIDE DEF j
  <2>2. j < Len(x) /\ x[j + 1].size = 1 /\ x[j + 1][k] = x[j][k] /\ x[j + 1].n = x[j].n + 1
    BY <1>2, <1>3, <2>1 DEF Whole
  <2>3. i + 1 \in 1 .. Len(b) /\ i < Len(b)
    BY <1>1, <2>0, <2>2
  <2>4. x[j + 1] = b[i + 1]
    BY <1>1, <2>1, <2>3
  <2> QED BY <2>1, <2>2, <2>3, <2>4
<1> QED BY <1>3 DEF Whole

LEMMA WholeLowered ==
  ASSUME NEW S, NEW s \in Seq(S), NEW t \in Seq(S), NEW k, NEW v, Lowered(s, t, k, v), Whole(s, k),
         \A x \in S : x.n \in Int
  PROVE  Whole(t, k)
<1>1. Len(t) = Len(s) /\ Len(s) \in Nat
  BY DEF Lowered
<1>2. ASSUME NEW j \in 1 .. Len(t), t[j].size > 1
      PROVE  j < Len(t) /\ t[j + 1].size = 1 /\ t[j + 1][k] = t[j][k] /\ t[j + 1].n = t[j].n + 1
  <2>1. j \in 1 .. Len(s) /\ s[j].size > 1 /\ t[j][k] = s[j][k]
    BY <1>1, <1>2 DEF Lowered
  <2>2. j < Len(s) /\ s[j + 1].size = 1 /\ s[j + 1][k] = s[j][k] /\ s[j + 1].n = s[j].n + 1
    BY <2>1 DEF Whole
  <2> DEFINE i == j + 1
  <2>3. i \in 1 .. Len(s)
    BY <1>1, <2>1, <2>2
  <2>4. s[i].size = 1 /\ s[i][k] = s[j][k] /\ s[i].n = s[j].n + 1
    BY <2>2
  <2> HIDE DEF i
  <2>5. t[i].size = s[i].size /\ t[i][k] = s[i][k]
    BY <2>3 DEF Lowered
  <2>6. s[i] \in S /\ s[j] \in S
    BY <2>1, <2>3
  <2>7. s[i].n \in Int /\ s[j].n \in Int
    BY <2>6
  <2>8. t[i].n = t[j].n + 1
    <3>1. CASE s[j][k] = v
      <4>1. t[j].n = s[j].n - 1 /\ t[i].n = s[i].n - 1
        BY <2>1, <2>3, <2>4, <3>1 DEF Lowered
      <4> QED BY <2>4, <2>7, <4>1
    <3>2. CASE s[j][k] # v
      <4>1. t[j] = s[j] /\ t[i] = s[i]
        BY <2>1, <2>3, <2>4, <3>2 DEF Lowered
      <4> QED BY <2>4, <4>1
    <3> QED BY <3>1, <3>2
  <2> QED BY <1>1, <2>1, <2>2, <2>4, <2>5, <2>8 DEF i
<1> QED BY <1>2 DEF Whole

LEMMA WholeThose ==
  ASSUME NEW S, NEW s \in Seq(S), NEW k, NEW v, Whole(s, k)
  PROVE  Whole(Those(s, k, v), k)
<1> DEFINE c == Those(s, k, v)
<1>1. c \in Seq(S)
  BY ThoseTyped
<1>2. SameAt(s, s, k, v, k, v)
  BY DEF SameAt
<1>3. \A i \in 1 .. Len(c) : \E p \in 1 .. Len(s) :
        s[p][k] = v /\ c[i] = s[p] /\ Len(Those(SubSeq(s, 1, p - 1), k, v)) = i - 1
  BY ONLY s \in Seq(S), <1>2, ThoseAlong
<1>4. ASSUME NEW i \in 1 .. Len(c), c[i].size > 1
      PROVE  i < Len(c) /\ c[i + 1].size = 1 /\ c[i + 1][k] = c[i][k] /\ c[i + 1].n = c[i].n + 1
  <2>1. PICK p \in 1 .. Len(s) : s[p][k] = v /\ c[i] = s[p] /\ Len(Those(SubSeq(s, 1, p - 1), k, v)) = i - 1
    BY <1>3
  <2>2. p < Len(s) /\ s[p + 1].size = 1 /\ s[p + 1][k] = s[p][k] /\ s[p + 1].n = s[p].n + 1
    BY <1>4, <2>1 DEF Whole
  <2> DEFINE r == p + 1
             a == SubSeq(s, 1, p - 1)
             y == Those(a, k, v)
             e == s[p]
  <2>3. r \in 1 .. Len(s) /\ s[r][k] = v /\ r - 1 = p
    BY <2>1, <2>2
  <2>4. a \in Seq(S) /\ e \in S
    <3>1. p - 1 \in 0 .. Len(s)
      OBVIOUS
    <3> QED BY <3>1, Parts
  <2>5. SubSeq(s, 1, p) = Append(a, e)
    BY PrefixStep
  <2>6. e[k] = v /\ Len(y) = i - 1
    BY <2>1
  <2> HIDE DEF a, e
  <2>7. Those(Append(a, e), k, v) = Append(y, e)
    BY <2>4, <2>6, ThoseAppend DEF Choice
  <2>8. y \in Seq(S)
    BY <2>4, ThoseTyped
  <2> HIDE DEF y
  <2>9. Len(Those(SubSeq(s, 1, p), k, v)) = i
    <3>0. e \in S
      BY <2>4
    <3>1. Len(Append(y, e)) = Len(y) + 1
      BY ONLY <3>0, <2>8
    <3>2. i - 1 + 1 = i
      OBVIOUS
    <3> QED BY <2>5, <2>6, <2>7, <3>1, <3>2
  <2>10. SubSeq(s, 1, r - 1) = SubSeq(s, 1, p)
    BY <2>3
  <2> HIDE DEF r
  <2>11. /\ Len(Those(SubSeq(s, 1, r - 1), k, v)) + 1 \in 1 .. Len(Those(s, k, v))
         /\ Those(s, k, v)[Len(Those(SubSeq(s, 1, r - 1), k, v)) + 1] = s[r]
    BY <2>3, ThoseAt
  <2>12. i + 1 \in 1 .. Len(c) /\ c[i + 1] = s[r]
    BY <2>9, <2>10, <2>11
  <2>13. s[r].size = 1 /\ s[r][k] = s[p][k] /\ s[r].n = s[p].n + 1
    BY <2>2 DEF r
  <2> QED BY <1>1, <2>1, <2>12, <2>13
<1> QED BY <1>4 DEF Whole

LEMMA DescsWhole ==
  ASSUME NEW d \in Dsts, NEW n \in Int, NEW size \in Counts
  PROVE  Whole(Descs(d, n, size, size), "d")
<1> DEFINE x == Descs(d, n, size, size)
<1>1. size \in Nat /\ (size = 1 \/ size = 2)
  BY DEF Counts
<1>2. /\ Len(x) = size
      /\ \A j \in 1 .. size : x[j].d = d /\ x[j].n = n + (j - 1) /\ x[j].size = IF j = 1 THEN size ELSE 1
  <2>1. size \in Nat
    BY <1>1
  <2>2. Len(x) = size
    BY <2>1, DescsTyped
  <2>3. \A j \in 1 .. size : x[j].d = d /\ x[j].n = n + (j - 1)
    BY <2>1, DescsTyped
  <2>4. \A j \in 1 .. size : x[j].size = IF j = 1 THEN size ELSE 1
    BY <2>1, DescsTyped
  <2> QED BY <2>2, <2>3, <2>4
<1> HIDE DEF x
<1>3. ASSUME NEW j \in 1 .. Len(x), x[j].size > 1
      PROVE  j < Len(x) /\ x[j + 1].size = 1 /\ x[j + 1]["d"] = x[j]["d"] /\ x[j + 1].n = x[j].n + 1
  <2>1. j = 1 /\ size = 2
    BY <1>1, <1>2, <1>3
  <2>2. x[1].d = d /\ x[1].n = n /\ x[2].d = d /\ x[2].n = n + 1 /\ x[2].size = 1
    BY <1>2, <2>1
  <2> QED BY <1>2, <2>1, <2>2
<1> QED BY <1>3 DEF Whole, x

LEMMA WholeNone ==
  ASSUME NEW k
  PROVE  Whole(<<>>, k)
BY DEF Whole

LEMMA PutWhole ==
  ASSUME FlowInv, HeadsIn, NEW q \in Srcs, NEW descs \in Seq(Desc), Whole(descs, "d"),
         Put(q, descs)
  PROVE  HeadsIn'
<1>1. dir' = dir /\ src' = [src EXCEPT ![q].buf = src[q].buf \o descs] /\ UNCHANGED <<dst, pass>>
  BY DEF Put
<1>2. Srcs' = Srcs /\ Dsts' = Dsts
  BY <1>1, SameDir
<1>3. src \in [Srcs -> Ring(Desc)]
  BY DEF FlowInv, TypeOK
<1>4. ASSUME NEW r \in Srcs
      PROVE  Whole(src'[r].buf, "d")
  <2>1. CASE r = q
    <3>1. src'[q].buf = src[q].buf \o descs
      BY <1>1, <1>3 DEF Ring
    <3>2. src[q].buf \in Seq(Desc)
      BY <1>3 DEF Ring
    <3>3. Whole(src[q].buf, "d")
      BY DEF HeadsIn
    <3> QED BY <2>1, <3>1, <3>2, <3>3, WholeJoin
  <2>2. CASE r # q
    <3>1. src'[r] = src[r]
      BY <1>1, <1>3, <2>2
    <3> QED BY <3>1 DEF HeadsIn
  <2> QED BY <2>1, <2>2
<1> QED BY <1>1, <1>2, <1>4 DEF HeadsIn

LEMMA TakeWhole ==
  ASSUME FlowInv, HeadsIn, NEW d \in Dsts, Take(d)
  PROVE  HeadsIn'
<1> DEFINE q == Taken(d).q
<1>1. /\ dir' = dir /\ pass'.on = pass.on
      /\ Taken(d) \in Copy /\ q \in Srcs
      /\ dst[d].buf \in Seq(Copy) /\ Tail(dst[d].buf) \in Seq(Copy) /\ New(d) \in Seq(Copy)
      /\ dst[d].buf = <<Taken(d)>> \o Tail(dst[d].buf)
      /\ dst' = [dst EXCEPT ![d] = [buf |-> Renum(Tail(dst[d].buf), "q", q),
                                    cons |-> Index(dst[d].cons + 1, DstLen)]]
      /\ pass' = IF pass.on THEN [pass EXCEPT !.new = [@ EXCEPT ![d] = Renum(New(d), "q", q)]] ELSE pass
      /\ src' = [src EXCEPT ![q] = [@ EXCEPT !.buf = Renum(src[q].buf, "d", d)]]
  BY TakeIs
<1> HIDE DEF q
<1>2. Srcs' = Srcs /\ Dsts' = Dsts
  BY <1>1, SameDir
<1>3. src \in [Srcs -> Ring(Desc)] /\ dst \in [Dsts -> Ring(Copy)] /\ (pass.on => pass \in Passes)
  BY PassIs DEF FlowInv, TypeOK
<1>c. ASSUME NEW s \in Seq(Copy), Whole(s, "q")
      PROVE  Whole(Renum(s, "q", q), "q")
  <2>1. Renum(s, "q", q) \in Seq(Copy) /\ Lowered(s, Renum(s, "q", q), "q", q)
    BY ONLY LowerIs, RenumIs, s \in Seq(Copy)
  <2>2. \A x \in Copy : x.n \in Int
    BY DEF Copy
  <2> QED BY <1>c, <2>1, <2>2, WholeLowered
<1>e. ASSUME NEW s \in Seq(Desc), Whole(s, "d")
      PROVE  Whole(Renum(s, "d", d), "d")
  <2>1. Renum(s, "d", d) \in Seq(Desc) /\ Lowered(s, Renum(s, "d", d), "d", d)
    BY ONLY LowerIs, RenumIs, s \in Seq(Desc)
  <2>2. \A x \in Desc : x.n \in Int
    BY DEF Desc
  <2> QED BY <1>e, <2>1, <2>2, WholeLowered
<1>4. ASSUME NEW r \in Srcs
      PROVE  Whole(src'[r].buf, "d")
  <2>1. CASE r = q
    <3>1. src'[q].buf = Renum(src[q].buf, "d", d)
      BY <1>1, <1>3 DEF Ring
    <3>2. src[q].buf \in Seq(Desc)
      BY <1>1, <1>3 DEF Ring
    <3>3. Whole(src[q].buf, "d")
      BY <1>1 DEF HeadsIn
    <3> QED BY <2>1, <3>1, <3>2, <3>3, <1>e
  <2>2. CASE r # q
    <3>1. src'[r] = src[r]
      BY <1>1, <1>3, <2>2
    <3> QED BY <3>1 DEF HeadsIn
  <2> QED BY <2>1, <2>2
<1>5. ASSUME NEW e \in Dsts
      PROVE  Whole(dst'[e].buf, "q")
  <2>1. CASE e = d
    <3>1. dst'[d].buf = Renum(Tail(dst[d].buf), "q", q)
      BY <1>1, <1>3
    <3>2. Whole(dst[d].buf, "q")
      BY DEF HeadsIn
    <3> DEFINE h == <<Taken(d)>>
    <3>3. h \in Seq(Copy)
      BY <1>1
    <3>5. dst[d].buf = h \o Tail(dst[d].buf)
      BY <1>1
    <3> HIDE DEF h
    <3>6. Whole(h \o Tail(dst[d].buf), "q")
      BY <3>2, <3>5
    <3>4. Whole(Tail(dst[d].buf), "q")
      BY <1>1, <3>3, <3>6, WholeRest
    <3> QED BY <1>1, <2>1, <3>1, <3>4, <1>c
  <2>2. CASE e # d
    <3>1. dst'[e] = dst[e]
      BY <1>1, <1>3, <2>2
    <3> QED BY <3>1 DEF HeadsIn
  <2> QED BY <2>1, <2>2
<1>6. ASSUME pass.on, NEW e \in Dsts
      PROVE  Whole(pass'.new[e], "q")
  <2>0. pass \in Passes /\ pass.new \in [Dsts -> Seq(Copy)]
    BY <1>3, <1>6 DEF Passes
  <2>1. pass'.new = [pass.new EXCEPT ![d] = Renum(New(d), "q", q)]
    BY <1>1, <1>6, <2>0 DEF Passes
  <2>2. New(d) = pass.new[d]
    BY <1>6 DEF New
  <2>3. CASE e = d
    <3>1. Whole(New(d), "q")
      BY <1>6, <2>2 DEF HeadsIn
    <3>2. pass'.new[d] = Renum(New(d), "q", q)
      BY <2>0, <2>1
    <3> QED BY <1>1, <2>3, <3>1, <3>2, <1>c
  <2>4. CASE e # d
    <3>1. pass'.new[e] = pass.new[e]
      BY <2>0, <2>1, <2>4
    <3> QED BY <1>6, <3>1 DEF HeadsIn
  <2> QED BY <2>3, <2>4
<1> QED BY <1>1, <1>2, <1>4, <1>5, <1>6 DEF HeadsIn

LEMMA WholePrefix ==
  ASSUME NEW S, NEW s \in Seq(S), NEW k, Whole(s, k), NEW m \in 0 .. Len(s),
         m > 0 => ~(s[m].size > 1)
  PROVE  Whole(SubSeq(s, 1, m), k)
<1> DEFINE p == SubSeq(s, 1, m)
<1>1. Len(p) = m /\ \A i \in 1 .. m : p[i] = s[i]
  BY Parts
<1> HIDE DEF p
<1>2. ASSUME NEW j \in 1 .. Len(p), p[j].size > 1
      PROVE  j < Len(p) /\ p[j + 1].size = 1 /\ p[j + 1][k] = p[j][k] /\ p[j + 1].n = p[j].n + 1
  <2>1. j \in 1 .. m /\ j \in 1 .. Len(s) /\ p[j] = s[j] /\ j # m
    BY <1>1, <1>2
  <2>2. j + 1 \in 1 .. m /\ j < m
    BY <2>1
  <2>3. p[j + 1] = s[j + 1]
    BY <1>1, <2>2
  <2>4. s[j].size > 1
    BY <1>2, <2>1
  <2>5. s[j + 1].size = 1 /\ s[j + 1][k] = s[j][k] /\ s[j + 1].n = s[j].n + 1
    BY <2>1, <2>4 DEF Whole
  <2> QED BY <1>1, <2>1, <2>2, <2>3, <2>5
<1> QED BY <1>2 DEF Whole, p

\* A turn copies no head without the rest: room for the head was room for both.
LEMMA CopiedWhole ==
  ASSUME TypeOK, ShadowFits, pass.on, NEW q \in Srcs, Whole(Fresh(q), "d")
  PROVE  Whole(SubSeq(Fresh(q), 1, Copied(Fresh(q))), "d")
<1> DEFINE f == Fresh(q)
           m == Copied(f)
<1>1. f \in Seq(Desc) /\ Len(f) \in Nat /\ m \in 0 .. Len(f)
  BY TurnIs
<1>2. /\ \A j \in 1 .. m : Fits(f, j)
      /\ m < Len(f) => ~Fits(f, m + 1)
  BY <1>1, CopiedIs
<1>3. Whole(f, "d")
  OBVIOUS
<1> HIDE DEF f, m
<1>4. ASSUME m > 0, f[m].size > 1
      PROVE  FALSE
  <2>1. m \in 1 .. Len(f) /\ m \in 1 .. m
    BY <1>1, <1>4
  <2>2. m < Len(f) /\ f[m + 1].size = 1 /\ f[m + 1].d = f[m].d
    BY <1>3, <1>4, <2>1 DEF Whole
  <2> DEFINE e == f[m]
             v == e.d
             a == SubSeq(f, 1, m - 1)
             y == Those(a, "d", v)
  <2>3. e \in Desc
    BY <1>1, <2>1
  <2>4. v \in Dsts /\ e.size \in Counts /\ e["d"] = v
    BY <2>3 DEF Desc
  <2>5. a \in Seq(Desc)
    <3>1. m - 1 \in 0 .. Len(f)
      BY <2>1, <1>1
    <3> QED BY <1>1, <3>1, Parts
  <2>6. SubSeq(f, 1, m) = Append(a, e)
    BY <1>1, <2>1, PrefixStep
  <2>7. Before(f, m) = Len(y)
    BY DEF Before, ToDst
  <2>8. Before(f, m + 1) = Len(Those(Append(a, e), "d", v))
    <3>1. (m + 1) - 1 = m
      BY <2>1
    <3>2. Before(f, m + 1) = Len(Those(SubSeq(f, 1, (m + 1) - 1), "d", f[m + 1].d))
      BY DEF Before, ToDst
    <3> QED BY <2>2, <2>6, <3>1, <3>2
  <2>9. Fits(f, m) /\ ~Fits(f, m + 1)
    BY <1>2, <2>1, <2>2
  <2>10. e.size = 2
    BY <1>4, <2>4 DEF Counts
  <2>11. pass.free[v] >= Before(f, m) + 2 /\ ~(pass.free[v] >= Before(f, m + 1) + 1)
    BY <2>2, <2>9, <2>10 DEF Fits
  <2>12. pass.free[v] \in Int
    BY <2>4, PassIs DEF Passes
  <2> HIDE DEF a, e, v
  <2>13. Those(Append(a, e), "d", v) = Append(y, e)
    BY <2>3, <2>4, <2>5, ThoseAppend DEF Choice
  <2>14. y \in Seq(Desc)
    BY <2>5, ThoseTyped
  <2> HIDE DEF y
  <2>15. Len(Append(y, e)) = Len(y) + 1 /\ Len(y) \in Nat
    BY ONLY <2>3, <2>14
  <2> QED BY <2>7, <2>8, <2>11, <2>12, <2>13, <2>15
<1>5. m > 0 => ~(f[m].size > 1)
  BY <1>4
<1>6. Whole(SubSeq(f, 1, m), "d")
  BY <1>1, <1>3, <1>5, WholePrefix
<1> QED BY <1>6 DEF f, m

\* The copies of a turn are of whole packets.
LEMMA NewWhole ==
  ASSUME TypeOK, ShadowFits, pass.on, NEW q \in Srcs, Whole(Fresh(q), "d"), NEW d \in Dsts
  PROVE  Whole(NewCopies(q, d), "q")
<1> DEFINE f == Fresh(q)
           p == SubSeq(f, 1, Copied(f))
           c == CopiedTo(q, d)
           w == NewCopies(q, d)
<1>1. f \in Seq(Desc) /\ Len(f) \in Nat /\ Copied(f) \in 0 .. Len(f)
  BY TurnIs
<1>2. p \in Seq(Desc)
  <2> HIDE DEF f
  <2> QED BY <1>1, Parts
<1>3. Whole(p, "d")
  BY CopiedWhole
<1>4. c = Those(p, "d", d)
  BY DEF CopiedTo, ToDst
<1>5. Whole(c, "d")
  <2> HIDE DEF p, c
  <2> QED BY <1>2, <1>3, <1>4, WholeThose
<1>6. c \in Seq(Desc) /\ Len(w) = Len(c) /\ \A j \in 1 .. Len(c) : w[j] = CopyOf(q, c[j])
  BY TurnIs
<1> HIDE DEF c, w
<1>7. Len(c) \in Nat /\ \A j \in 1 .. Len(c) : w[j].q = q /\ w[j].n = c[j].n /\ w[j].size = c[j].size
  <2>1. \A e : CopyOf(q, e).q = q /\ CopyOf(q, e).n = e.n /\ CopyOf(q, e).size = e.size
    BY DEF CopyOf
  <2>2. Len(c) \in Nat
    BY <1>6
  <2> QED BY <1>6, <2>1, <2>2
<1>8. ASSUME NEW j \in 1 .. Len(w), w[j].size > 1
      PROVE  j < Len(w) /\ w[j + 1].size = 1 /\ w[j + 1]["q"] = w[j]["q"] /\ w[j + 1].n = w[j].n + 1
  <2>1. j \in 1 .. Len(c) /\ c[j].size > 1
    BY <1>6, <1>7, <1>8
  <2>2. j < Len(c) /\ c[j + 1].size = 1 /\ c[j + 1].n = c[j].n + 1
    BY <1>5, <2>1 DEF Whole
  <2>3. j + 1 \in 1 .. Len(c)
    BY <1>7, <2>1, <2>2
  <2> QED BY <1>6, <1>7, <2>1, <2>2, <2>3
<1> QED BY <1>8 DEF Whole, w

LEMMA VisitWhole ==
  ASSUME FlowInv, HeadsIn, dir = "in", Visit
  PROVE  HeadsIn'
<1> DEFINE q == Rotate(last, pass.turn)
<1>1. /\ pass.on /\ pass \in Passes /\ q \in Srcs /\ dir' = dir /\ UNCHANGED dst
      /\ src' = [src EXCEPT ![q] = [buf |-> SubSeq(src[q].buf, Done(q) + 1, Len(src[q].buf)),
                                    cons |-> Index(src[q].cons + Done(q), SrcLen)]]
  BY VisitIs
<1>2. pass'.on /\ pass'.new = [d \in Dsts |-> pass.new[d] \o NewCopies(q, d)]
  BY VisitParts
<1> HIDE DEF q
<1>3. Srcs' = Srcs /\ Dsts' = Dsts
  BY <1>1, SameDir
<1>4. TypeOK /\ ShadowFits /\ src \in [Srcs -> Ring(Desc)]
  BY DEF FlowInv, TypeOK
<1> DEFINE b == src[q].buf
           f == Fresh(q)
           m == Copied(f)
<1>5. b \in Seq(Desc) /\ f = b /\ Whole(b, "d")
  <2>1. b \in Seq(Desc) /\ Whole(b, "d")
    BY <1>1, <1>4 DEF Ring, HeadsIn
  <2>2. shadow[q] = <<>>
    BY <1>1, <1>4 DEF ShadowFits
  <2>3. f = SubSeq(b, 1, Len(b))
    BY <2>2 DEF Fresh
  <2>4. SubSeq(b, 1, Len(b)) = b
    <3> HIDE DEF b
    <3> QED BY ONLY <2>1
  <2> QED BY <2>1, <2>3, <2>4
<1>6. m \in 0 .. Len(f) /\ Done(q) = m
  BY <1>1, <1>4, TurnIs DEF Done
<1>7. Whole(SubSeq(b, m + 1, Len(b)), "d")
  <2> HIDE DEF b, f, m
  <2>1. m \in 0 .. Len(b)
    BY <1>5, <1>6
  <2>2. /\ SubSeq(b, 1, m) \in Seq(Desc) /\ SubSeq(b, m + 1, Len(b)) \in Seq(Desc)
        /\ b = SubSeq(b, 1, m) \o SubSeq(b, m + 1, Len(b))
    BY <1>5, <2>1, Parts
  <2> DEFINE x == SubSeq(b, 1, m)
             y == SubSeq(b, m + 1, Len(b))
  <2>3. x \in Seq(Desc) /\ y \in Seq(Desc) /\ b = x \o y
    BY <2>2
  <2> HIDE DEF x, y
  <2>4. Whole(x \o y, "d")
    BY <1>5, <2>3
  <2>5. Whole(y, "d")
    BY <2>3, <2>4, WholeRest
  <2> QED BY <2>5 DEF y
<1>8. ASSUME NEW r \in Srcs
      PROVE  Whole(src'[r].buf, "d")
  <2>1. CASE r = q
    <3>1. src'[q].buf = SubSeq(b, m + 1, Len(b))
      BY <1>1, <1>4, <1>6
    <3> QED BY <1>7, <2>1, <3>1
  <2>2. CASE r # q
    <3>1. src'[r] = src[r]
      BY <1>1, <1>4, <2>2
    <3> QED BY <3>1 DEF HeadsIn
  <2> QED BY <2>1, <2>2
<1>9. ASSUME NEW d \in Dsts
      PROVE  Whole(pass'.new[d], "q")
  <2>1. pass'.new[d] = pass.new[d] \o NewCopies(q, d)
    BY <1>2
  <2>2. pass.new[d] \in Seq(Copy)
    BY <1>1 DEF Passes
  <2>3. Whole(pass.new[d], "q")
    BY <1>1 DEF HeadsIn
  <2>4. Whole(f, "d")
    BY <1>5
  <2>5. Whole(NewCopies(q, d), "q")
    BY <1>1, <1>4, <2>4, NewWhole
  <2>6. NewCopies(q, d) \in Seq(Copy)
    BY <1>1, <1>4, TurnIs
  <2> QED BY <2>1, <2>2, <2>3, <2>5, <2>6, WholeJoin
<1> QED BY <1>1, <1>2, <1>3, <1>8, <1>9 DEF HeadsIn

LEMMA BeginWhole ==
  ASSUME FlowInv, HeadsIn, PassBegin
  PROVE  HeadsIn'
<1>1. /\ pass'.on /\ dir' = dir /\ UNCHANGED <<src, dst>>
      /\ \A d \in Dsts : pass'.new[d] = <<>>
  BY BeginIs
<1>2. Srcs' = Srcs /\ Dsts' = Dsts
  BY <1>1, SameDir
<1>3. \A d \in Dsts : Whole(pass'.new[d], "q")
  BY <1>1, WholeNone
<1> QED BY <1>1, <1>2, <1>3 DEF HeadsIn

LEMMA EndWhole ==
  ASSUME FlowInv, HeadsIn, PassEnd
  PROVE  HeadsIn'
<1>1. /\ pass.on /\ ~pass'.on /\ dir' = dir /\ UNCHANGED src
      /\ \A d \in Dsts : dst'[d].buf = Delivered(d)
  BY EndIs
<1>2. Srcs' = Srcs /\ Dsts' = Dsts
  BY <1>1, SameDir
<1>3. ASSUME NEW d \in Dsts
      PROVE  Whole(dst'[d].buf, "q")
  <2>1. dst'[d].buf = dst[d].buf \o pass.new[d]
    BY <1>1 DEF Delivered
  <2>2. dst[d].buf \in Seq(Copy) /\ pass.new[d] \in Seq(Copy)
    BY <1>1, PassIs DEF FlowInv, TypeOK, Ring, Passes
  <2>3. Whole(dst[d].buf, "q") /\ Whole(pass.new[d], "q")
    BY <1>1 DEF HeadsIn
  <2> QED BY <2>1, <2>2, <2>3, WholeJoin
<1> QED BY <1>1, <1>2, <1>3 DEF HeadsIn

LEMMA RestartWhole ==
  ASSUME FlowInv, HeadsIn, Restart, Drained \/ "out" \notin Dirs
  PROVE  HeadsIn'
<1>1. /\ dir' = dir /\ pass' = pass /\ ~pass.on
      /\ \A q \in Srcs : src'[q].buf = <<>>
      /\ \A d \in Dsts : dst'[d].buf = <<>>
  BY RestartFlow
<1>2. Srcs' = Srcs /\ Dsts' = Dsts
  BY <1>1, SameDir
<1>3. Whole(<<>>, "d") /\ Whole(<<>>, "q")
  BY WholeNone
<1> QED BY <1>1, <1>2, <1>3 DEF HeadsIn

LEMMA StillWhole ==
  ASSUME HeadsIn, UNCHANGED <<dir, src, dst, pass>>
  PROVE  HeadsIn'
<1>1. Srcs' = Srcs /\ Dsts' = Dsts
  BY SameDir
<1> QED BY <1>1 DEF HeadsIn

LEMMA SendWhole ==
  ASSUME FlowInv, HeadsIn, dir = "in", hash = "packet",
         NEW q \in Srcs, NEW d \in Dsts, NEW e \in Dsts, NEW size \in Sizes, Send(q, d, e, size)
  PROVE  HeadsIn'
<1>1. TypeOK
  BY DEF FlowInv
<1>2. size \in Counts /\ Put(q, Descs(d, sent[q][d], size, size))
  BY <1>1, SendIs
<1>3. sent[q][d] \in Int /\ size \in Nat
  BY <1>1, <1>2 DEF TypeOK, Counts
<1>4. Descs(d, sent[q][d], size, size) \in Seq(Desc) /\ Whole(Descs(d, sent[q][d], size, size), "d")
  <2> DEFINE n == sent[q][d]
  <2>1. n \in Int
    BY <1>3
  <2> HIDE DEF n
  <2>2. Descs(d, n, size, size) \in Seq(Desc) /\ Whole(Descs(d, n, size, size), "d")
    BY <1>2, <1>3, <2>1, DescsTyped, DescsWhole
  <2> QED BY <2>2 DEF n
<1> QED BY <1>2, <1>4, PutWhole

\* In the direction "in" there is always the rest of a packet.
LEMMA NoRest ==
  ASSUME FlowInv, HeadsIn, dir = "in", NEW q \in Srcs, NEW d \in Dsts, SendRest(q, d)
  PROVE  FALSE
<1> DEFINE b == src[q].buf
<1>1. TypeOK
  BY DEF FlowInv
<1>2. b # <<>> /\ Last(b).size > 1
  BY <1>1, RestIs
<1>3. b \in Seq(Desc) /\ Whole(b, "d")
  BY <1>1 DEF TypeOK, Ring, HeadsIn
<1> HIDE DEF b
<1>4. Len(b) \in 1 .. Len(b) /\ Last(b) = b[Len(b)]
  BY <1>2, <1>3 DEF Last
<1> QED BY <1>2, <1>3, <1>4 DEF Whole

LEMMA InitWhole ==
  ASSUME Init
  PROVE  HeadsIn
<1>1. \A q \in Srcs : src[q].buf = <<>>
  BY DEF Init, EmptyRing
<1>2. \A d \in Dsts : dst[d].buf = <<>>
  BY DEF Init, EmptyRing
<1>3. ~pass.on
  BY DEF Init, NoPass
<1> QED BY <1>1, <1>2, <1>3, WholeNone DEF HeadsIn

\* Neither the direction nor whose the hashes are ever changes.
LEMMA SameMode ==
  ASSUME FlowInv, [Next]_vars
  PROVE  dir' = dir /\ hash' = hash
<1>1. ASSUME NEW d \in Dsts, Take(d) PROVE dir' = dir /\ hash' = hash
  BY ZenonT(30), <1>1 DEF Take
<1>2. CASE Visit
  BY ZenonT(30), <1>2 DEF Visit
<1> QED BY ZenonT(30), <1>1, <1>2 DEF Next, vars, Send, SendRest, Put, Stop, PassBegin, PassEnd, Enable, Restart

LEMMA NextWhole ==
  ASSUME FlowInv, InInv, [Next]_vars, Drained \/ "out" \notin Dirs
  PROVE  InInv'
<1>1. SUFFICES ASSUME dir' = "in", hash' = "packet" PROVE HeadsIn'
  BY DEF InInv
<1>2. dir = "in" /\ hash = "packet" /\ HeadsIn
  BY <1>1, SameMode DEF InInv
<1>3. ASSUME NEW q \in Srcs, NEW d \in Dsts, NEW e \in Dsts, NEW size \in Sizes, Send(q, d, e, size)
      PROVE  HeadsIn'
  BY <1>2, <1>3, SendWhole
<1>4. ASSUME NEW q \in Srcs, NEW d \in Dsts, SendRest(q, d)
      PROVE  HeadsIn'
  BY ZenonT(30), <1>2, <1>4, NoRest
<1>5. ASSUME NEW d \in Dsts, Take(d)
      PROVE  HeadsIn'
  BY <1>2, <1>5, TakeWhole
<1>6. CASE Stop
  BY <1>2, <1>6, StillWhole DEF Stop
<1>7. CASE PassBegin
  BY <1>2, <1>7, BeginWhole
<1>8. CASE Visit
  BY <1>2, <1>8, VisitWhole
<1>9. CASE PassEnd
  BY <1>2, <1>9, EndWhole
<1>10. CASE Enable
  BY <1>2, <1>10, StillWhole DEF Enable
<1>11. CASE Restart
  BY <1>2, <1>11, RestartWhole
<1>12. CASE UNCHANGED vars
  BY <1>2, <1>12, StillWhole DEF vars
<1> QED
  BY <1>3, <1>4, <1>5, <1>6, <1>7, <1>8, <1>9, <1>10, <1>11, <1>12 DEF Next

-----------------------------------------------------------------------------
(* Packets, in the direction "out" with one source. *)

LEMMA PairsJoin ==
  ASSUME NEW S, NEW f \in Seq(S), NEW g \in Seq(S), Pairs(f), Pairs(g), Len(g) > 0,
         Open(f) => g[1].size = 1
  PROVE  Pairs(f \o g) /\ (Open(f \o g) => Open(g))
<1> DEFINE x == f \o g
<1>1. /\ Len(x) = Len(f) + Len(g) /\ Len(f) \in Nat /\ Len(g) \in Nat
      /\ (\A j \in 1 .. Len(f) : x[j] = f[j]) /\ \A j \in 1 .. Len(g) : x[Len(f) + j] = g[j]
  BY JoinIs
<1> HIDE DEF x
<1>2. ASSUME NEW j \in 1 .. Len(x), j < Len(x), x[j].size > 1
      PROVE  x[j + 1].size = 1
  <2>1. CASE j \in 1 .. Len(f) /\ j < Len(f)
    <3>1. j + 1 \in 1 .. Len(f)
      BY <1>1, <2>1
    <3>2. x[j] = f[j] /\ x[j + 1] = f[j + 1]
      BY <1>1, <2>1, <3>1
    <3> QED BY <1>2, <2>1, <3>2 DEF Pairs
  <2>2. CASE j = Len(f)
    <3>1. x[j] = f[Len(f)] /\ Len(f) > 0
      BY <1>1, <2>2
    <3>2. 1 \in 1 .. Len(g)
      BY <1>1
    <3>3. x[j + 1] = g[1]
      BY <1>1, <2>2, <3>2
    <3> QED BY <1>2, <3>1, <3>3 DEF Open
  <2>3. CASE j > Len(f)
    <3> DEFINE i == j - Len(f)
    <3>1. i \in 1 .. Len(g) /\ i + 1 \in 1 .. Len(g) /\ i < Len(g) /\ j = Len(f) + i /\ j + 1 = Len(f) + (i + 1)
      BY <1>1, <1>2, <2>3
    <3> HIDE DEF i
    <3>2. x[j] = g[i] /\ x[j + 1] = g[i + 1]
      BY <1>1, <3>1
    <3> QED BY <1>2, <3>1, <3>2 DEF Pairs
  <2> QED BY <1>1, <2>1, <2>2, <2>3
<1>3. Open(x) => Open(g)
  <2>1. Len(g) \in 1 .. Len(g)
    BY <1>1
  <2>2. x[Len(x)] = g[Len(g)]
    BY <1>1, <2>1
  <2> QED BY <2>2 DEF Open
<1> QED BY <1>2, <1>3 DEF Pairs, x

LEMMA PairsBehind ==
  ASSUME NEW S, NEW f \in Seq(S), NEW g \in Seq(S), Behind(f, g), Pairs(f)
  PROVE  Pairs(g) /\ (Open(g) => Open(f))
<1>1. Len(g) \in Nat /\ Len(f) = Len(g) + 1 /\ \A j \in 1 .. Len(g) : g[j].size = f[j + 1].size
  BY DEF Behind
<1>2. ASSUME NEW j \in 1 .. Len(g), j < Len(g), g[j].size > 1
      PROVE  g[j + 1].size = 1
  <2> DEFINE i == j + 1
  <2>1. i \in 1 .. Len(f) /\ i < Len(f) /\ i \in 1 .. Len(g)
    BY <1>1, <1>2
  <2>2. g[j].size = f[i].size
    BY <1>1
  <2> HIDE DEF i
  <2>3. g[i].size = f[i + 1].size
    BY <1>1, <2>1
  <2>4. f[i + 1].size = 1
    BY <1>2, <2>1, <2>2 DEF Pairs
  <2> QED BY <2>3, <2>4 DEF i
<1>3. Open(g) => Open(f)
  BY <1>1 DEF Open
<1> QED BY <1>2, <1>3 DEF Pairs

LEMMA PairsAlike ==
  ASSUME NEW S, NEW f \in Seq(S), NEW g \in Seq(S), Alike(f, g), Pairs(f)
  PROVE  Pairs(g) /\ (Open(g) => Open(f))
<1>1. Len(g) = Len(f) /\ Len(f) \in Nat /\ \A j \in 1 .. Len(f) : g[j].size = f[j].size
  BY DEF Alike
<1>2. ASSUME NEW j \in 1 .. Len(g), j < Len(g), g[j].size > 1
      PROVE  g[j + 1].size = 1
  <2>1. j \in 1 .. Len(f) /\ j + 1 \in 1 .. Len(f)
    BY <1>1, <1>2
  <2>2. g[j + 1].size = f[j + 1].size /\ g[j].size = f[j].size
    BY <1>1, <2>1
  <2> QED BY <1>1, <1>2, <2>1, <2>2 DEF Pairs
<1>3. Open(g) => Open(f)
  BY <1>1 DEF Open
<1> QED BY <1>2, <1>3 DEF Pairs

LEMMA PairsNone == Pairs(<<>>) /\ ~Open(<<>>)
BY DEF Pairs, Open

LEMMA DescsPairs ==
  ASSUME NEW d, NEW n, NEW size, NEW k, d \in Dsts, n \in Int, size \in Counts, k \in Counts
  PROVE  LET x == Descs(d, n, size, k)
         IN /\ Pairs(x) /\ Len(x) > 0 /\ x \in Seq(Desc) /\ x[1].size = size
            /\ (\A j \in 1 .. Len(x) : x[j].d = d /\ x[j].n = n + (j - 1))
            /\ Open(x) => size > 1
<1> DEFINE x == Descs(d, n, size, k)
<1>1. (size = 1 \/ size = 2) /\ (k = 1 \/ k = 2)
  BY DEF Counts
<1>k. d \in Dsts /\ n \in Int /\ size \in Counts /\ k \in Nat
  BY <1>1
<1>3. x \in Seq(Desc) /\ Len(x) = k
  BY ONLY <1>k, DescsLen
<1>4. \A j \in 1 .. k : x[j].d = d /\ x[j].n = n + (j - 1)
  BY ONLY <1>k, DescsTyped
<1>5. \A j \in 1 .. k : x[j].size = IF j = 1 THEN size ELSE 1
  BY ONLY <1>k, DescsTyped
<1> HIDE DEF x
<1>6. Pairs(x)
  <2> SUFFICES ASSUME NEW j \in 1 .. Len(x), j < Len(x) PROVE x[j + 1].size = 1
    BY DEF Pairs
  <2>1. j + 1 \in 1 .. k /\ j + 1 # 1
    BY <1>1, <1>3
  <2> QED BY <1>5, <2>1
<1>7. x[1].size = size /\ (Open(x) => size > 1)
  BY <1>1, <1>3, <1>5 DEF Open
<1> QED BY <1>1, <1>3, <1>4, <1>6, <1>7 DEF x

\* What is sent to a flow that is not open, or completes it.
LEMMA PutHeads ==
  ASSUME FlowInv, dir = "out", OneSource, OutHeads, NEW d \in Dsts, NEW g \in Seq(Desc),
         Put(0, g), Pairs(g), Len(g) > 0,
         \A j \in 1 .. Len(g) : g[j].d = d /\ g[j].n = sent[0][d] + (j - 1),
         Open(src[0].buf) => src[0].buf[Len(src[0].buf)].d = d /\ g[1].size = 1
  PROVE  OutHeads'
<1> DEFINE b == src[0].buf
<1>1. TypeOK /\ ShadowFits
  BY DEF FlowInv
<1>2. 0 \in Srcs /\ Srcs = {0}
  BY <1>1, OutSrcs
<1>3. b \in Seq(Desc)
  BY <1>1, <1>2 DEF TypeOK, Ring
<1>4. g[Len(g)].d = d
  OBVIOUS
<1>6. /\ Flow(0, d)' = Flow(0, d) \o g
      /\ \A e \in Dsts : e # d => Flow(0, e)' = Flow(0, e)
  <2>1. ToDst(g, d) = g
    BY ThoseAll DEF ToDst
  <2>2. ASSUME NEW e \in Dsts, e # d PROVE ToDst(g, e) = <<>>
    <3>1. \A j \in 1 .. Len(g) : g[j]["d"] # e
      BY <2>2
    <3> QED BY <3>1, ThoseNone DEF ToDst
  <2>3. ASSUME NEW e \in Dsts PROVE NumberedFrom(ToDst(g, e), sent[0][e])
    <3>1. CASE e = d
      BY <2>1, <3>1 DEF NumberedFrom
    <3>2. CASE e # d
      BY <2>2, <3>2 DEF NumberedFrom
    <3> QED BY <3>1, <3>2
  <2>4. \A e \in Dsts : Flow(0, e)' = Flow(0, e) \o ToDst(g, e)
    BY <1>2, <2>3, PutFlow
  <2>5. ASSUME NEW e \in Dsts, e # d PROVE Flow(0, e)' = Flow(0, e)
    <3>1. Flow(0, e) \in Seq(Elt)
      BY <1>1, <1>2, FlowTyped
    <3>2. Flow(0, e) \o <<>> = Flow(0, e)
      BY <3>1
    <3> QED BY <2>2, <2>4, <2>5, <3>2
  <2> QED BY <2>1, <2>4, <2>5
<1>7. dir' = dir /\ src'[0].buf = b \o g
  BY <1>1, <1>2 DEF Put, TypeOK, Ring
<1>8. Dsts' = Dsts
  BY <1>7, SameDir
<1>9. Open(b) => b[Len(b)].d = d /\ g[1].size = 1
  OBVIOUS
<1>10. FlowTypes
  BY <1>1, FlowsTyped
<1>11. HeadsOut(d)'
  <2> DEFINE f == Flow(0, d)
  <2>1. f \in Seq(Elt) /\ g \in Seq(Elt)
    BY <1>2, <1>10, Widen DEF FlowTypes, Elt
  <2>2. Pairs(f) /\ (Open(f) => Open(b))
    BY DEF OutHeads, HeadsOut, Pending
  <2> HIDE DEF f
  <2>3. Pairs(f \o g) /\ (Open(f \o g) => Open(g))
    BY <1>9, <2>1, <2>2, PairsJoin
  <2>4. ASSUME Open(g)
        PROVE  Open(b \o g) /\ (b \o g)[Len(b \o g)].d = d
    <3> HIDE DEF b
    <3>1. Len(b \o g) = Len(b) + Len(g) /\ Len(b) \in Nat /\ \A j \in 1 .. Len(g) : (b \o g)[Len(b) + j] = g[j]
      BY ONLY <1>3, g \in Seq(Desc), JoinIs
    <3>2. (b \o g)[Len(b \o g)] = g[Len(g)] /\ Len(b \o g) > 0
      BY <3>1
    <3> QED BY <1>4, <2>4, <3>2 DEF Open
  <2>5. Open(f \o g) => Pending(d)'
    BY <1>7, <2>3, <2>4 DEF Pending
  <2> QED BY <1>6, <2>3, <2>5 DEF HeadsOut, f
<1>12. ASSUME NEW e \in Dsts, e # d
       PROVE  HeadsOut(e)'
  <2>1. Flow(0, e)' = Flow(0, e)
    BY <1>6, <1>12
  <2>2. Pairs(Flow(0, e)) /\ ~Open(Flow(0, e))
    BY <1>9, <1>12 DEF OutHeads, HeadsOut, Pending
  <2> QED BY <2>1, <2>2 DEF HeadsOut
<1> QED BY <1>8, <1>11, <1>12 DEF OutHeads

LEMMA SendHeads ==
  ASSUME FlowInv, dir = "out", hash = "packet", OneSource, OutHeads,
         NEW q \in Srcs, NEW d \in Dsts, NEW e \in Dsts, NEW size \in Sizes, Send(q, d, e, size)
  PROVE  OutHeads'
<1>1. TypeOK /\ q = 0 /\ 0 \in Srcs
  BY OutSrcs DEF FlowInv
<1>2. PICK k \in 1 .. size : Put(0, Descs(d, sent[0][d], size, k))
  BY <1>1, SendIs
<1>3. size \in Counts
  BY <1>1, SendIs
<1>4. k \in Counts
  BY <1>3 DEF Counts
<1> DEFINE n == sent[0][d]
<1>5. n \in Int
  BY <1>1 DEF TypeOK
<1> HIDE DEF n
<1> DEFINE g == Descs(d, n, size, k)
<1>k. d \in Dsts /\ n \in Int /\ size \in Counts /\ k \in Counts
  BY <1>3, <1>4, <1>5
<1>6. Pairs(g) /\ Len(g) > 0 /\ g \in Seq(Desc)
  BY ONLY <1>k, DescsPairs
<1>7. \A j \in 1 .. Len(g) : g[j].d = d /\ g[j].n = n + (j - 1)
  BY ONLY <1>k, DescsPairs
<1>8. Put(0, g)
  BY <1>2 DEF n
<1>9. ~Open(src[0].buf)
  <2>1. src[0].buf = <<>> \/ ~(src[0].buf[Len(src[0].buf)].size > 1)
    BY <1>1 DEF Send, Middle, Last
  <2> QED BY <2>1 DEF Open
<1> HIDE DEF g
<1>10. \A j \in 1 .. Len(g) : g[j].d = d /\ g[j].n = sent[0][d] + (j - 1)
  BY <1>7 DEF n
<1> QED BY <1>6, <1>8, <1>9, <1>10, PutHeads

LEMMA RestHeads ==
  ASSUME FlowInv, dir = "out", hash = "packet", OneSource, OutHeads,
         NEW q \in Srcs, NEW d \in Dsts, SendRest(q, d)
  PROVE  OutHeads'
<1>1. TypeOK /\ q = 0 /\ 0 \in Srcs
  BY OutSrcs DEF FlowInv
<1> DEFINE b == src[0].buf
<1>2. d = b[Len(b)].d /\ Put(0, Descs(d, sent[0][d], 1, 1))
  BY <1>1, RestIs DEF Last
<1> DEFINE n == sent[0][d]
<1>5. n \in Int /\ 1 \in Counts
  BY <1>1, <1>2 DEF TypeOK, Counts
<1> HIDE DEF n
<1> DEFINE g == Descs(d, n, 1, 1)
<1>6. Pairs(g) /\ Len(g) > 0 /\ g \in Seq(Desc)
  <2>1. d \in Dsts /\ n \in Int /\ 1 \in Counts
    BY <1>5
  <2> QED BY ONLY <2>1, DescsPairs
<1>7. (\A j \in 1 .. Len(g) : g[j].d = d /\ g[j].n = n + (j - 1)) /\ g[1].size = 1
  <2>1. d \in Dsts /\ n \in Int /\ 1 \in Counts
    BY <1>5
  <2>2. \A j \in 1 .. Len(g) : g[j].d = d /\ g[j].n = n + (j - 1)
    BY ONLY <2>1, DescsPairs
  <2>3. g[1].size = 1
    BY ONLY <2>1, DescsPairs
  <2> QED BY <2>2, <2>3
<1>8. Put(0, g)
  BY <1>2 DEF n
<1> HIDE DEF g
<1>10. \A j \in 1 .. Len(g) : g[j].d = d /\ g[j].n = sent[0][d] + (j - 1)
  BY <1>7 DEF n
<1> QED BY <1>2, <1>6, <1>7, <1>8, <1>10, PutHeads

LEMMA TakeHeads ==
  ASSUME FlowInv, dir = "out", OneSource, OutHeads, NEW e \in Dsts, Take(e)
  PROVE  OutHeads'
<1>1. TypeOK /\ ShadowFits /\ 0 \in Srcs /\ Srcs = {0}
  BY OutSrcs DEF FlowInv
<1>2. /\ dir' = dir /\ Taken(e).q \in Srcs
      /\ src' = [src EXCEPT ![Taken(e).q] = [@ EXCEPT !.buf = Renum(src[Taken(e).q].buf, "d", e)]]
  BY TakeIs
<1>3. Taken(e).q = 0
  BY <1>1, <1>2
<1> DEFINE b == src[0].buf
           c == Renum(b, "d", e)
<1>4. src'[0].buf = c /\ b \in Seq(Desc)
  BY <1>1, <1>2, <1>3 DEF TypeOK, Ring
<1>5. Lowered(b, c, "d", e)
  <2> HIDE DEF b
  <2> QED BY <1>4, LowerIs, RenumIs
<1> HIDE DEF b, c
<1>6. Dsts' = Dsts
  BY <1>2, SameDir
<1>7. /\ Behind(Flow(0, e), Flow(0, e)') /\ FlowInv'
      /\ \A d \in Dsts : d # e => Flow(0, d)' = Flow(0, d)
  BY <1>1, <1>3, TakeFlow
<1>8. FlowTypes /\ FlowTypes'
  BY <1>1, <1>7, FlowsTyped, FlowsTypedNext DEF FlowInv
<1>9. ASSUME NEW d \in Dsts, Pending(d)
      PROVE  Pending(d)'
  <2>1. Open(b) /\ b[Len(b)].d = d
    BY <1>9 DEF Pending, b
  <2>2. Len(b) \in 1 .. Len(b) /\ b[Len(b)].size > 1
    BY <1>4, <2>1 DEF Open
  <2>3. Len(c) = Len(b) /\ c[Len(b)]["d"] = b[Len(b)]["d"] /\ c[Len(b)].size = b[Len(b)].size
    BY <1>5, <2>2 DEF Lowered
  <2> QED BY <1>4, <2>1, <2>2, <2>3 DEF Pending, Open
<1>10. ASSUME NEW d \in Dsts
       PROVE  HeadsOut(d)'
  <2>0. Pairs(Flow(0, d)) /\ (Open(Flow(0, d)) => Pending(d))
    BY DEF OutHeads, HeadsOut
  <2>1. Pairs(Flow(0, d)') /\ (Open(Flow(0, d)') => Open(Flow(0, d)))
    <3>1. CASE d = e
      <4> DEFINE f == Flow(0, e)
      <4>1. f \in Seq(Elt) /\ f' \in Seq(Elt)
        <5>1. Srcs' = Srcs /\ Dsts' = Dsts /\ Elt' = Elt
          BY <1>2, SameDir
        <5> QED BY <1>1, <1>8, <5>1 DEF FlowTypes
      <4>2. Behind(f, f') /\ Pairs(f)
        BY <1>7, <2>0, <3>1
      <4> HIDE DEF f
      <4>3. Pairs(f') /\ (Open(f') => Open(f))
        BY <4>1, <4>2, PairsBehind
      <4> QED BY <3>1, <4>3 DEF f
    <3>2. CASE d # e
      BY <1>7, <2>0, <3>2
    <3> QED BY <3>1, <3>2
  <2> QED BY <1>9, <2>0, <2>1 DEF HeadsOut
<1> QED BY <1>6, <1>10 DEF OutHeads

\* Where everything that is in the source ring is given back, nothing is on its way.
LEMMA AllDone ==
  ASSUME FlowInv, PlacedInv, dir = "out", OneSource, pass.on, Done(0) = Len(src[0].buf), NEW d \in Dsts
  PROVE  Flow(0, d) = <<>>
<1>1. TypeOK /\ ShadowFits /\ 0 \in Srcs
  BY OutSrcs DEF FlowInv
<1>2. Placed(d)
  BY DEF PlacedInv
<1> DEFINE s == shadow[0]
           c == Copies(d)
<1>3. s \in Seq(Place) /\ c \in Seq(Place) /\ Unseen(d) \in Nat /\ Len(Delivered(d)) \in Nat
      /\ Delivered(d) \in Seq(Copy)
  BY <1>2, PlacedTyped
<1>4. Done(0) = Retired(0) /\ Done(0) \in 0 .. Len(s) /\ Len(s) <= Len(src[0].buf) /\ Len(src[0].buf) \in Nat
  <2>1. Done(0) \in 0 .. Len(s)
    BY <1>1, TurnIs
  <2>2. src[0].buf \in Seq(Desc)
    BY <1>1, FreshIs
  <2> QED BY <1>1, <2>1, <2>2 DEF Done, ShadowFits
<1>5. Retired(0) = Len(s) /\ Len(s) = Len(src[0].buf) /\ Len(s) \in Nat
  BY <1>3, <1>4
<1>6. \A j \in 1 .. Len(s) : Consumed(s[j])
  BY <1>5, RetiredIs
<1>7. \A i \in 1 .. Len(c) : c[i].d = d /\ Consumed(c[i])
  <2>1. c = Those(s, "d", d)
    BY DEF Copies, ToDst
  <2> HIDE DEF c, s
  <2>0. s \in Seq(Place)
    BY <1>3
  <2>2. \A i \in 1 .. Len(c) : \E j \in 1 .. Len(s) : c[i] = s[j] /\ s[j]["d"] = d
    BY ONLY <2>0, <2>1, ThoseTyped
  <2> QED BY <1>6, <2>2
<1>8. Len(c) + Unseen(d) <= Len(c) /\ Len(c) \in Nat
  <2> DEFINE n == <<>>
  <2>1. n \in Seq(Place) /\ Copies(d) = c \o n
    <3> HIDE DEF c
    <3>1. c \o <<>> = c
      BY <1>3
    <3> QED BY <3>1 DEF c
  <2> HIDE DEF n
  <2>2. Len(c) + Unseen(d) <= Len(Copies(d))
    <3> DEFINE y == c
    <3>1. y \in Seq(Place) /\ Copies(d) = y \o n /\ \A i \in 1 .. Len(y) : y[i].d = d /\ Consumed(y[i])
      BY <1>3, <1>7, <2>1
    <3> HIDE DEF y, c
    <3>2. Len(y) + Unseen(d) <= Len(Copies(d))
      BY <1>2, <2>1, <3>1, NotRetired
    <3> QED BY <3>2 DEF y, c
  <2> QED BY <1>3, <2>2
<1>9. Len(Delivered(d)) = 0
  <2>1. Len(Delivered(d)) <= Unseen(d)
    BY <1>2 DEF Placed, PlacedAt
  <2> QED BY <1>3, <1>8, <2>1
<1>10. Delivered(d) = <<>>
  BY <1>3, <1>9
<1>11. Held(0, d) = <<>>
  BY <1>1, <1>10, FlowTyped, ThoseEmpty DEF OfFlow
<1>12. Fresh(0) = <<>>
  <2>1. Fresh(0) \in Seq(Desc) /\ Len(Fresh(0)) = 0
    BY <1>1, <1>5, FreshIs
  <2> QED BY <2>1
<1>13. ToDst(Fresh(0), d) = <<>>
  BY <1>12, ThoseEmpty DEF ToDst
<1> QED BY <1>11, <1>13 DEF Flow

LEMMA VisitHeads ==
  ASSUME FlowInv, PlacedInv, dir = "out", OneSource, OutHeads, Visit
  PROVE  OutHeads'
<1>1. TypeOK /\ ShadowFits /\ 0 \in Srcs /\ Srcs = {0}
  BY OutSrcs DEF FlowInv
<1> SUFFICES ASSUME NEW q, q = Rotate(last, pass.turn) PROVE OutHeads'
  OBVIOUS
<1>2. /\ pass.on /\ q \in Srcs /\ dir' = dir
      /\ src' = [src EXCEPT ![q] = [buf |-> SubSeq(src[q].buf, Done(q) + 1, Len(src[q].buf)),
                                    cons |-> Index(src[q].cons + Done(q), SrcLen)]]
  BY VisitIs
<1>3. FlowInv' /\ \A d \in Dsts : Alike(Flow(q, d), Flow(q, d)')
  BY VisitFlow
<1>4. q = 0
  BY <1>1, <1>2
<1> DEFINE b == src[0].buf
           m == Done(0)
           c == SubSeq(b, m + 1, Len(b))
<1>5. src'[0].buf = c /\ b \in Seq(Desc)
  BY <1>1, <1>2, <1>4 DEF TypeOK, Ring
<1>6. m \in 0 .. Len(b)
  BY <1>1, <1>2, TurnIs
<1>7. Dsts' = Dsts /\ Srcs' = Srcs /\ Elt' = Elt
  BY <1>2, SameDir
<1>8. FlowTypes /\ FlowTypes'
  BY <1>1, <1>3, FlowsTyped, FlowsTypedNext DEF FlowInv
<1>9. ASSUME NEW d \in Dsts, Pending(d), Open(Flow(0, d))
      PROVE  Pending(d)'
  <2>1. Open(b) /\ b[Len(b)].d = d
    BY <1>9 DEF Pending
  <2>2. m # Len(b)
    BY <1>2, <1>9, AllDone, PairsNone
  <2> HIDE DEF b, m, c
  <2>3. Len(c) = Len(b) - m /\ \A i \in 1 .. Len(b) - m : c[i] = b[m + i]
    BY <1>5, <1>6, Parts DEF c
  <2>4. Len(b) \in Nat
    BY <1>5
  <2> DEFINE i == Len(b) - m
  <2>5. i \in 1 .. Len(b) - m /\ m + i = Len(b)
    BY <1>6, <2>2, <2>4
  <2>6. c[i] = b[Len(b)] /\ Len(c) = i
    BY <2>3, <2>5
  <2> QED BY <1>5, <2>1, <2>5, <2>6 DEF Pending, Open
<1>10. ASSUME NEW d \in Dsts
       PROVE  HeadsOut(d)'
  <2>0. Pairs(Flow(0, d)) /\ (Open(Flow(0, d)) => Pending(d))
    BY DEF OutHeads, HeadsOut
  <2> DEFINE f == Flow(0, d)
  <2>1. f \in Seq(Elt) /\ f' \in Seq(Elt)
    BY <1>1, <1>7, <1>8 DEF FlowTypes
  <2>2. Alike(f, f') /\ Pairs(f)
    BY <1>3, <1>4, <2>0
  <2>3. Pairs(f') /\ (Open(f') => Open(f))
    <3> HIDE DEF f
    <3> QED BY <2>1, <2>2, PairsAlike
  <2> QED BY <1>9, <2>0, <2>3 DEF HeadsOut
<1> QED BY <1>7, <1>10 DEF OutHeads

LEMMA SameHeads ==
  ASSUME OutHeads, dir' = dir, src' = src, \A d \in Dsts : Flow(0, d)' = Flow(0, d)
  PROVE  OutHeads'
<1>1. Dsts' = Dsts
  BY SameDir
<1> QED BY <1>1 DEF OutHeads, HeadsOut, Pending

LEMMA NoneHeads ==
  ASSUME \A d \in Dsts : Flow(0, d) = <<>>
  PROVE  OutHeads
BY PairsNone DEF OutHeads, HeadsOut

LEMMA RestartHeads ==
  ASSUME FlowInv, dir = "out", OneSource, Restart, Drained \/ "out" \notin Dirs
  PROVE  OutHeads'
<1>1. dir' = dir /\ \A d \in Dsts : Flow(0, d)' = <<>>
  BY RestartFlow, OutSrcs DEF FlowInv
<1>2. Dsts' = Dsts
  BY <1>1, SameDir
<1> QED BY <1>1, <1>2, PairsNone DEF OutHeads, HeadsOut

HeadsInv == dir = "out" /\ hash = "packet" => OutHeads

LEMMA NextHeads ==
  ASSUME FlowInv, PlacedInv, HeadsInv, [Next]_vars, OneSource, Drained \/ "out" \notin Dirs
  PROVE  HeadsInv'
<1>1. SUFFICES ASSUME dir' = "out", hash' = "packet" PROVE OutHeads'
  BY DEF HeadsInv
<1>2. dir = "out" /\ hash = "packet" /\ OutHeads /\ TypeOK /\ 0 \in Srcs
  <2>1. dir = "out" /\ hash = "packet" /\ OutHeads /\ TypeOK
    BY <1>1, SameMode DEF HeadsInv, FlowInv
  <2> QED BY <2>1, OutSrcs
<1>3. ASSUME NEW q \in Srcs, NEW d \in Dsts, NEW e \in Dsts, NEW size \in Sizes, Send(q, d, e, size)
      PROVE  OutHeads'
  BY <1>2, <1>3, SendHeads
<1>4. ASSUME NEW q \in Srcs, NEW d \in Dsts, SendRest(q, d)
      PROVE  OutHeads'
  BY ZenonT(30), <1>2, <1>4, RestHeads
<1>5. ASSUME NEW d \in Dsts, Take(d)
      PROVE  OutHeads'
  BY <1>2, <1>5, TakeHeads
<1>6. ASSUME UNCHANGED <<dir, src, dst, shadow, last, pass, sent>>, enabled' \in BOOLEAN, sending' \in BOOLEAN
      PROVE  OutHeads'
  BY <1>2, <1>6, StillFlow, SameHeads
<1>7. CASE PassBegin
  BY SMTT(30), <1>2, <1>7, BeginFlow, BeginIs, SameHeads
<1>8. CASE Visit
  BY ZenonT(30), <1>2, <1>8, VisitHeads
<1>9. CASE PassEnd
  BY <1>2, <1>9, EndFlow, EndIs, SameHeads
<1>10. CASE Stop
  BY <1>6, <1>10 DEF Stop, FlowInv, TypeOK
<1>11. CASE Enable
  BY <1>6, <1>11 DEF Enable, FlowInv, TypeOK
<1>12. CASE Restart
  BY <1>2, <1>12, RestartHeads
<1>13. CASE UNCHANGED vars
  BY <1>6, <1>13 DEF vars, FlowInv, TypeOK
<1> QED
  BY <1>3, <1>4, <1>5, <1>7, <1>8, <1>9, <1>10, <1>11, <1>12, <1>13 DEF Next

\* One source: the destination ring is the first part of the flow.
LEMMA RingIsFlow ==
  ASSUME FlowInv, dir = "out", OneSource, NEW d \in Dsts
  PROVE  /\ dst[d].buf \in Seq(Copy) /\ Len(dst[d].buf) <= Len(Flow(0, d)) /\ Len(Flow(0, d)) \in Nat
         /\ \A j \in 1 .. Len(dst[d].buf) : Flow(0, d)[j] = dst[d].buf[j]
<1>1. TypeOK /\ ShadowFits /\ 0 \in Srcs /\ Srcs = {0}
  BY OutSrcs DEF FlowInv
<1> DEFINE b == dst[d].buf
           x == New(d)
           w == Delivered(d)
           h == Held(0, d)
           g == ToDst(Fresh(0), d)
<1>2. b \in Seq(Copy) /\ x \in Seq(Copy) /\ w = b \o x
  <2>1. b \in Seq(Copy)
    BY <1>1 DEF TypeOK, Ring
  <2>2. x \in Seq(Copy)
    <3>1. CASE pass.on
      <4>1. pass \in Passes
        BY <1>1, <3>1, PassIs
      <4>2. pass.new \in [Dsts -> Seq(Copy)]
        BY <4>1 DEF Passes
      <4> QED BY <3>1, <4>2 DEF New
    <3>2. CASE ~pass.on
      <4>1. <<>> \in Seq(Copy)
        OBVIOUS
      <4> QED BY <3>2, <4>1 DEF New
    <3> QED BY <3>1, <3>2
  <2> QED BY <2>1, <2>2 DEF Delivered, New
<1>3. w \in Seq(Copy) /\ h = Those(w, "q", 0) /\ h \in Seq(Elt) /\ g \in Seq(Elt) /\ Flow(0, d) = h \o g
  BY <1>1, FlowTyped DEF OfFlow, Flow
<1> HIDE DEF b, x, w, h, g
<1>4. \A j \in 1 .. Len(w) : w[j]["q"] = 0
  <2>1. \A e \in Copy : e["q"] = 0
    BY <1>1 DEF Copy
  <2> QED BY <1>3, <2>1
<1>5. h = w
  BY <1>3, <1>4, ThoseAll
<1>6. /\ Len(b \o x) = Len(b) + Len(x) /\ Len(b) \in Nat /\ Len(x) \in Nat
      /\ \A j \in 1 .. Len(b) : (b \o x)[j] = b[j]
  BY <1>2, JoinIs
<1>7. /\ Len(h \o g) = Len(h) + Len(g) /\ Len(h) \in Nat /\ Len(g) \in Nat
      /\ \A j \in 1 .. Len(h) : (h \o g)[j] = h[j]
  BY <1>3, JoinIs
<1>8. Len(b) <= Len(h) /\ \A j \in 1 .. Len(b) : j \in 1 .. Len(h) /\ h[j] = b[j]
  BY <1>2, <1>5, <1>6
<1>9. Len(b) <= Len(h \o g) /\ \A j \in 1 .. Len(b) : (h \o g)[j] = b[j]
  BY <1>6, <1>7, <1>8
<1> DEFINE f == h \o g
<1>10. Flow(0, d) = f /\ Len(f) \in Nat /\ Len(b) <= Len(f) /\ \A j \in 1 .. Len(b) : f[j] = b[j]
  BY <1>3, <1>7, <1>9
<1> HIDE DEF f
<1>11. b \in Seq(Copy)
  BY <1>2
<1> QED BY <1>10, <1>11 DEF b

LEMMA OutPackets ==
  ASSUME FlowInv, OutHeads, dir = "out", OneSource
  PROVE  PacketsJoined
<1> SUFFICES ASSUME NEW d \in Dsts, NEW j \in DOMAIN dst[d].buf, dst[d].buf[j].size > 1, j < Len(dst[d].buf)
             PROVE  /\ dst[d].buf[j + 1].q = dst[d].buf[j].q /\ dst[d].buf[j + 1].size = 1
                    /\ dst[d].buf[j + 1].n = dst[d].buf[j].n + 1
  BY DEF PacketsJoined
<1> DEFINE b == dst[d].buf
           f == Flow(0, d)
<1>1. /\ b \in Seq(Copy) /\ Len(b) <= Len(f) /\ Len(f) \in Nat
      /\ \A i \in 1 .. Len(b) : f[i] = b[i]
  BY RingIsFlow
<1>2. Pairs(f)
  BY DEF OutHeads, HeadsOut
<1>3. Srcs = {0} /\ 0 \in Srcs
  BY OutSrcs DEF FlowInv
<1>4. \A i \in 1 .. Len(f) : f[i].n = i - 1
  BY <1>3 DEF FlowInv, Fifo, Numbered
<1>5. j \in DOMAIN b /\ b[j].size > 1 /\ j < Len(b)
  OBVIOUS
<1> HIDE DEF b, f
<1> DEFINE i == j + 1
<1>6. j \in 1 .. Len(b) /\ i \in 1 .. Len(b) /\ j \in 1 .. Len(f) /\ i \in 1 .. Len(f) /\ j < Len(f)
  BY <1>1, <1>5
<1>7. f[j] = b[j] /\ f[i] = b[i] /\ f[j].n = j - 1 /\ f[i].n = i - 1
  BY <1>1, <1>4, <1>6
<1>8. b[i].size = 1
  BY <1>2, <1>5, <1>6, <1>7 DEF Pairs
<1>9. b[i].q = 0 /\ b[j].q = 0
  <2>1. b[i] \in Copy /\ b[j] \in Copy
    BY <1>1, <1>6
  <2> QED BY <1>3, <2>1 DEF Copy
<1>10. b[i].n = b[j].n + 1
  BY <1>6, <1>7
<1> QED BY <1>8, <1>9, <1>10 DEF b, i

LEMMA InPackets ==
  ASSUME FlowInv, HeadsIn
  PROVE  PacketsJoined
<1> SUFFICES ASSUME NEW d \in Dsts, NEW j \in DOMAIN dst[d].buf, dst[d].buf[j].size > 1
             PROVE  /\ j < Len(dst[d].buf)
                    /\ dst[d].buf[j + 1].q = dst[d].buf[j].q /\ dst[d].buf[j + 1].size = 1
                    /\ dst[d].buf[j + 1].n = dst[d].buf[j].n + 1
  BY DEF PacketsJoined
<1>1. dst[d].buf \in Seq(Copy)
  BY DEF FlowInv, TypeOK, Ring
<1>2. j \in 1 .. Len(dst[d].buf)
  BY <1>1
<1>3. Whole(dst[d].buf, "q")
  BY DEF HeadsIn
<1> QED BY <1>2, <1>3 DEF Whole

\* The descriptors of a packet that have the hash of the packet follow one another in
\* the rings the passes fill (giu_gpio.c:432-441, 545-554), and in the direction "in" no
\* part of such a packet is seen by itself; in "out" where the guest has one queue.
THEOREM WholePackets ==
  ASSUME Drained \/ "out" \notin Dirs, OneSource
  PROVE  Spec => []PacketsWhole
<1>1. Init => FlowInv /\ PlacedInv /\ HeadsInv /\ InInv
  <2> SUFFICES ASSUME Init PROVE FlowInv /\ PlacedInv /\ HeadsInv /\ InInv
    OBVIOUS
  <2>1. FlowInv /\ PlacedInv /\ InInv
    BY InitFlow, InitPlaced, InitWhole DEF PlacedInv, InInv
  <2>2. ASSUME dir = "out"
        PROVE  OutHeads
    <3>1. TypeOK /\ ShadowFits /\ 0 \in Srcs
      BY <2>1, <2>2, OutSrcs DEF FlowInv
    <3>2. ASSUME NEW d \in Dsts
          PROVE  Flow(0, d) = <<>>
      <4>1. dst[d].buf = <<>> /\ src[0].buf = <<>> /\ shadow[0] = <<>> /\ ~pass.on
        BY <3>1 DEF Init, EmptyRing, NoPass
      <4>2. Delivered(d) = <<>>
        BY <4>1 DEF Delivered
      <4>3. Held(0, d) = <<>>
        BY <3>1, <4>2, FlowTyped, ThoseEmpty DEF OfFlow
      <4>4. Fresh(0) = <<>>
        BY <4>1 DEF Fresh
      <4>5. ToDst(Fresh(0), d) = <<>>
        BY <4>4, ThoseEmpty DEF ToDst
      <4> QED BY <4>3, <4>5 DEF Flow
    <3> QED BY <3>2, NoneHeads
  <2> QED BY <2>1, <2>2 DEF HeadsInv
<1>2. FlowInv /\ PlacedInv /\ HeadsInv /\ InInv /\ [Next]_vars => FlowInv' /\ PlacedInv' /\ HeadsInv' /\ InInv'
  BY NextFlow, NextPlaced, NextHeads, NextWhole
<1>3. FlowInv /\ PlacedInv /\ HeadsInv /\ InInv => PacketsWhole
  <2> SUFFICES ASSUME FlowInv, HeadsInv, InInv, hash = "packet" PROVE PacketsJoined
    BY DEF PacketsWhole
  <2>1. dir = "out" \/ dir = "in"
    BY InterimAssumption DEF FlowInv, TypeOK
  <2> QED BY <2>1, OutPackets, InPackets DEF HeadsInv, InInv
<1> QED BY <1>1, <1>2, <1>3, PTL DEF Spec
=============================================================================
