--------------------------- MODULE MemMng_proofs ---------------------------
(***************************************************************************)
(* For every memory, every number of alignments and every set of clients:  *)
(* no memory is handed out twice, none is lost, and a request is granted   *)
(* when free memory would do, as long as the memory holds one block of the *)
(* greatest alignment and who releases memory uses whole blocks of it.     *)
(*                                                                         *)
(* The argument is about the gaps between the busy blocks.  Taking a block *)
(* splits one gap (GapsTake), giving one back joins the gaps that touch it *)
(* (GapsGive); every list holds of each gap the part from its aligned base *)
(* on (Entries), and cut_free_blk and add_free_blk change the list as the  *)
(* gaps change (TakeEntries, WholeGaps, AddAgain).                         *)
(***************************************************************************)
EXTENDS MemMng, SequenceTheorems, WellFoundedInduction, TLAPS

-----------------------------------------------------------------------------
(* Sets of natural numbers.  The library states induction for a predicate, *)
(* which no prover here can instantiate.                                   *)

Less == {x \in Nat \X Nat : x[1] < x[2]}

LEMMA LessWellFounded == IsWellFoundedOn(Less, Nat)
<1>1. IsWellFoundedOn(OpToRel(<, Nat), Nat)
  BY NatLessThanWellFounded, Zenon
<1>2. OpToRel(<, Nat) = {ss \in Nat \X Nat : ss[1] < ss[2]}
  BY DEF OpToRel
<1> QED
  BY <1>1, <1>2 DEF Less

\* A set of natural numbers that is not empty has a least element.
LEMMA NatMin ==
  ASSUME NEW S \in SUBSET Nat, S # {}
  PROVE  \E x \in S : \A y \in S : x <= y
<1>1. \E x \in S : \A y \in S : ~ (<<y, x>> \in Less)
  BY LessWellFounded, WFMin, Zenon
<1>2. ASSUME NEW x \in Nat, NEW y \in Nat, ~ (<<y, x>> \in Less)
      PROVE  x <= y
  BY <1>2 DEF Less
<1> QED
  BY <1>1, <1>2

-----------------------------------------------------------------------------

\* x is a whole number of a's
Whole(x, a) == x % a = 0

\* An address is aligned exactly when it is a multiple of the alignment.
LEMMA WholeDef ==
  ASSUME NEW x \in Int, NEW a \in Nat \ {0}
  PROVE  Whole(x, a) <=> \E k \in Int : x = k * a
<1>1. ASSUME NEW k \in Int, x = k * a PROVE x % a = 0
  BY <1>1, SMTT(30)
<1>2. ASSUME x % a = 0 PROVE x = (x \div a) * a /\ x \div a \in Int
  BY <1>2, SMTT(30)
<1> QED BY <1>1, <1>2 DEF Whole

\* Sums and differences of aligned addresses are aligned.
LEMMA WholeSum ==
  ASSUME NEW x \in Int, NEW y \in Int, NEW a \in Nat \ {0}, Whole(x, a), Whole(y, a)
  PROVE  Whole(x + y, a) /\ Whole(x - y, a)
<1>1. PICK k \in Int : x = k * a
  BY WholeDef
<1>2. PICK l \in Int : y = l * a
  BY WholeDef
<1>3. x + y = (k + l) * a /\ x - y = (k - l) * a
  BY <1>1, <1>2
<1>4. x + y \in Int /\ x - y \in Int /\ k + l \in Int /\ k - l \in Int
  OBVIOUS
<1> QED BY <1>3, <1>4, WholeDef

\* What is aligned to a multiple of a is aligned to a.
LEMMA WholeTrans ==
  ASSUME NEW x \in Int, NEW a \in Nat \ {0}, NEW g \in Nat \ {0}, Whole(x, g), Whole(g, a)
  PROVE  Whole(x, a)
<1>1. PICK k \in Int : x = k * g
  BY WholeDef
<1>2. PICK l \in Int : g = l * a
  BY WholeDef
<1>3. x = (k * l) * a
  BY <1>1, <1>2
<1>4. k * l \in Int
  OBVIOUS
<1> QED BY <1>3, <1>4, WholeDef

\* Aligned addresses that differ are at least the alignment apart.
LEMMA WholeGap ==
  ASSUME NEW x \in Int, NEW y \in Int, NEW a \in Nat \ {0}, Whole(x, a), Whole(y, a), x < y
  PROVE  y - x >= a
<1>1. PICK k \in Int : x = k * a
  BY WholeDef
<1>2. PICK l \in Int : y = l * a
  BY WholeDef
<1>3. l >= k + 1
  BY <1>1, <1>2
<1>4. l * a >= (k + 1) * a
  BY <1>3
<1>5. (k + 1) * a = k * a + a
  OBVIOUS
<1> QED BY <1>1, <1>2, <1>4, <1>5

\* MakeAligned rounds up, to an aligned address, by less than the alignment.
LEMMA Aligned ==
  ASSUME NEW x \in Nat, NEW a \in Nat \ {0}
  PROVE  /\ MakeAligned(x, a) \in Nat
         /\ MakeAligned(x, a) >= x /\ MakeAligned(x, a) < x + a
         /\ Whole(MakeAligned(x, a), a)
<1>1. (x + a - 1) \div a \in Nat
  BY SMTT(30)
<1>2. /\ ((x + a - 1) \div a) * a <= x + a - 1
      /\ ((x + a - 1) \div a) * a > x - 1
  BY SMTT(30)
<1>3. MakeAligned(x, a) \in Nat
  BY <1>1 DEF MakeAligned
<1> QED BY <1>1, <1>2, <1>3, WholeDef DEF MakeAligned

\* MakeAligned(x, a) is the first aligned address from x on.
LEMMA AlignedLeast ==
  ASSUME NEW x \in Nat, NEW a \in Nat \ {0}, NEW y \in Nat, Whole(y, a), x <= y
  PROVE  MakeAligned(x, a) <= y
<1> DEFINE m == MakeAligned(x, a)
<1>1. m \in Nat /\ m < x + a /\ Whole(m, a)
  BY Aligned
<1> HIDE DEF m
<1>2. ASSUME y < m PROVE FALSE
  <2>1. m - y >= a
    BY <1>1, <1>2, WholeGap
  <2> QED BY <1>1, <2>1
<1> QED BY <1>1, <1>2 DEF m

\* MakeAligned leaves an aligned address alone.
LEMMA AlignedSame ==
  ASSUME NEW x \in Nat, NEW a \in Nat \ {0}, Whole(x, a)
  PROVE  MakeAligned(x, a) = x
<1>1. MakeAligned(x, a) \in Nat /\ MakeAligned(x, a) >= x
  BY Aligned
<1>2. MakeAligned(x, a) <= x
  BY AlignedLeast
<1> QED BY <1>1, <1>2

\* Aligned to a divisor first, an address is aligned to the same address after.
LEMMA AlignedOver ==
  ASSUME NEW x \in Nat, NEW a \in Nat \ {0}, NEW y \in Nat, x <= y, y <= MakeAligned(x, a)
  PROVE  MakeAligned(y, a) = MakeAligned(x, a)
<1>1. MakeAligned(y, a) <= MakeAligned(x, a)
  <2>1. MakeAligned(x, a) \in Nat /\ Whole(MakeAligned(x, a), a)
    BY Aligned
  <2> QED BY <2>1, AlignedLeast
<1>2. MakeAligned(x, a) <= MakeAligned(y, a)
  <2>1. x <= MakeAligned(y, a) /\ Whole(MakeAligned(y, a), a) /\ MakeAligned(y, a) \in Nat
    BY Aligned
  <2> QED BY <2>1, AlignedLeast
<1>3. MakeAligned(x, a) \in Nat /\ MakeAligned(y, a) \in Nat
  BY Aligned
<1> QED BY <1>1, <1>2, <1>3

\* Min of SequencesExt is the least element.
LEMMA MinOf ==
  ASSUME NEW S \in SUBSET Nat, S # {}
  PROVE  Min(S) \in S /\ \A y \in S : Min(S) <= y
BY NatMin DEF Min

\* SelectInSeq, by the set of the places it may select.
FirstOf(I) == IF I # {} THEN Min(I) ELSE 0

\* FirstOf is 0 when there is nothing to select, and the first place otherwise.
LEMMA FirstOfIs ==
  ASSUME NEW n \in Nat, NEW I \in SUBSET (1 .. n)
  PROVE  /\ FirstOf(I) = 0 <=> I = {}
         /\ I # {} => FirstOf(I) \in I /\ \A i \in I : FirstOf(I) <= i
<1>1. I \in SUBSET Nat
  OBVIOUS
<1>2. CASE I = {}
  BY <1>2 DEF FirstOf
<1>3. CASE I # {}
  <2>1. Min(I) \in I /\ \A i \in I : Min(I) <= i
    BY <1>1, <1>3, MinOf
  <2>2. FirstOf(I) = Min(I)
    BY <1>3 DEF FirstOf
  <2> HIDE DEF FirstOf
  <2>3. Min(I) # 0
    BY <2>1
  <2> QED BY <1>3, <2>1, <2>2, <2>3
<1> QED BY <1>2, <1>3

\* The elements of a concatenation, by place.
LEMMA ConcatIs ==
  ASSUME NEW S, NEW c \in Seq(S), NEW b \in Seq(S)
  PROVE  /\ c \o b \in Seq(S) /\ Len(c \o b) = Len(c) + Len(b)
         /\ \A i \in 1 .. Len(c) + Len(b) : (c \o b)[i] = IF i <= Len(c) THEN c[i] ELSE b[i - Len(c)]
OBVIOUS

\* The elements of s from k to m - 1 give way to those of mid.
Splice(s, k, mid, m) == SubSeq(s, 1, k - 1) \o mid \o SubSeq(s, m, Len(s))

\* The elements of a splice, by place.
LEMMA SpliceIs ==
  ASSUME NEW S, NEW s \in Seq(S), NEW mid \in Seq(S),
         NEW k \in 1 .. Len(s) + 1, NEW m \in k .. Len(s) + 1
  PROVE  /\ Splice(s, k, mid, m) \in Seq(S)
         /\ Len(Splice(s, k, mid, m)) = Len(s) - (m - k) + Len(mid)
         /\ \A i \in 1 .. Len(Splice(s, k, mid, m)) :
              Splice(s, k, mid, m)[i] =
                IF i < k THEN s[i]
                ELSE IF i < k + Len(mid) THEN mid[i - k + 1]
                ELSE s[i - k - Len(mid) + m]
<1> DEFINE a == SubSeq(s, 1, k - 1)
           b == SubSeq(s, m, Len(s))
<1>1. a \in Seq(S) /\ Len(a) = k - 1 /\ \A i \in 1 .. k - 1 : a[i] = s[i]
  OBVIOUS
<1>2. b \in Seq(S) /\ Len(b) = Len(s) - m + 1 /\ \A i \in 1 .. Len(s) - m + 1 : b[i] = s[m + i - 1]
  OBVIOUS
<1> HIDE DEF a, b
<1>3. a \o mid \in Seq(S) /\ Len(a \o mid) = k - 1 + Len(mid)
      /\ \A i \in 1 .. k - 1 + Len(mid) : (a \o mid)[i] = IF i < k THEN a[i] ELSE mid[i - k + 1]
  BY SMTT(30), <1>1
<1> DEFINE c == a \o mid
<1>c. c \in Seq(S) /\ Len(c) \in Nat
  BY <1>3
<1> HIDE DEF c
<1>4. c \o b \in Seq(S) /\ Len(c \o b) = Len(c) + Len(b)
      /\ \A i \in 1 .. Len(c) + Len(b) : (c \o b)[i] = IF i <= Len(c) THEN c[i] ELSE b[i - Len(c)]
  BY <1>2, <1>c, ConcatIs
<1>5. Splice(s, k, mid, m) = c \o b
  BY DEF Splice, a, b, c
<1>6. Len(s) \in Nat /\ Len(mid) \in Nat /\ Len(c) = k - 1 + Len(mid)
  BY <1>3 DEF c
<1>7. Len(c \o b) = Len(s) - (m - k) + Len(mid)
  BY <1>4, <1>6, <1>2
<1>8. ASSUME NEW i \in 1 .. Len(c \o b)
      PROVE  (c \o b)[i] = IF i < k THEN s[i]
                ELSE IF i < k + Len(mid) THEN mid[i - k + 1]
                ELSE s[i - k - Len(mid) + m]
  <2>0. i \in 1 .. Len(s) - (m - k) + Len(mid)
    BY <1>7
  <2>1. CASE i < k
    BY <1>1, <1>3, <1>4, <1>6, <2>1 DEF c
  <2>2. CASE i >= k /\ i < k + Len(mid)
    <3>1. i \in 1 .. k - 1 + Len(mid)
      BY <1>6, <2>2
    <3>2. c[i] = mid[i - k + 1]
      BY <3>1, <1>3, <2>2 DEF c
    <3>3. (c \o b)[i] = c[i]
      BY <1>4, <1>6, <1>2, <3>1
    <3> QED BY <3>2, <3>3, <2>2
  <2>3. CASE i >= k + Len(mid)
    <3>1. i - Len(c) \in 1 .. Len(s) - m + 1 /\ m + (i - Len(c)) - 1 = i - k - Len(mid) + m
      BY <1>6, <2>0, <2>3
    <3>2. (c \o b)[i] = b[i - Len(c)]
      BY <1>4, <1>6, <2>3
    <3> DEFINE j == i - Len(c)
    <3>3. j \in 1 .. Len(s) - m + 1 /\ m + j - 1 = i - k - Len(mid) + m
      BY <3>1
    <3> HIDE DEF j
    <3>4. b[j] = s[m + j - 1]
      BY <3>3, <1>2
    <3> QED BY <3>3, <3>2, <3>4, <2>3, <1>6 DEF j
  <2> QED BY <2>1, <2>2, <2>3, <1>6
<1> QED BY <1>4, <1>5, <1>7, <1>8

\* Blocks that are not empty, in order, at least d bytes between them.
Spread(s, d) ==
  /\ \A i \in DOMAIN s : s[i].base < s[i].end
  /\ \A i, j \in DOMAIN s : i < j => s[i].end + d <= s[j].base

\* The ends of a block are natural numbers.
LEMMA BlkNat ==
  ASSUME NEW b \in Blk
  PROVE  b.base \in Nat /\ b.end \in Nat /\ Base <= b.base /\ b.end <= Top /\ b.base <= Top /\ Base <= b.end
BY MemAssumption DEF Blk

\* The blocks of a splice.
LEMMA SpliceSet ==
  ASSUME NEW S, NEW s \in Seq(S), NEW mid \in Seq(S),
         NEW k \in 1 .. Len(s) + 1, NEW m \in k .. Len(s) + 1
  PROVE  ToSet(Splice(s, k, mid, m)) =
           {s[i] : i \in 1 .. k - 1} \cup ToSet(mid) \cup {s[i] : i \in m .. Len(s)}
<1> DEFINE t == Splice(s, k, mid, m)
<1>1. /\ t \in Seq(S)
      /\ Len(t) = Len(s) - (m - k) + Len(mid)
      /\ \A i \in 1 .. Len(t) : t[i] =
                IF i < k THEN s[i]
                ELSE IF i < k + Len(mid) THEN mid[i - k + 1]
                ELSE s[i - k - Len(mid) + m]
  BY SpliceIs
<1>n. Len(s) \in Nat /\ Len(mid) \in Nat /\ DOMAIN mid = 1 .. Len(mid) /\ DOMAIN t = 1 .. Len(t)
  BY <1>1
<1> HIDE DEF t
<1>2. ASSUME NEW i \in 1 .. Len(t)
      PROVE  t[i] \in {s[j] : j \in 1 .. k - 1} \cup ToSet(mid) \cup {s[j] : j \in m .. Len(s)}
  <2>1. CASE i < k
    <3>1. i \in 1 .. k - 1 /\ t[i] = s[i]
      BY <1>1, <2>1
    <3> QED BY <3>1
  <2>2. CASE i >= k /\ i < k + Len(mid)
    <3>1. i - k + 1 \in DOMAIN mid /\ t[i] = mid[i - k + 1]
      BY <1>1, <1>n, <2>2
    <3> QED BY <3>1 DEF ToSet
  <2>3. CASE i >= k + Len(mid)
    <3>1. i - k - Len(mid) + m \in m .. Len(s) /\ t[i] = s[i - k - Len(mid) + m]
      BY <1>1, <1>n, <2>3
    <3> QED BY <3>1
  <2> QED BY <2>1, <2>2, <2>3, <1>n
<1>3. ASSUME NEW i \in 1 .. k - 1 PROVE s[i] \in ToSet(t)
  <2>1. i \in DOMAIN t /\ t[i] = s[i]
    BY <1>1, <1>n
  <2> QED BY <2>1 DEF ToSet
<1>4. ASSUME NEW i \in DOMAIN mid PROVE mid[i] \in ToSet(t)
  <2> DEFINE j == i + k - 1
  <2>1. j \in 1 .. Len(t) /\ ~(j < k) /\ j < k + Len(mid) /\ j - k + 1 = i
    BY <1>1, <1>n
  <2> HIDE DEF j
  <2>2. t[j] = mid[j - k + 1]
    BY <1>1, <2>1
  <2> QED BY <2>1, <2>2, <1>n DEF ToSet
<1>5. ASSUME NEW i \in m .. Len(s) PROVE s[i] \in ToSet(t)
  <2> DEFINE j == i + k + Len(mid) - m
  <2>1. j \in DOMAIN t /\ j >= k + Len(mid) /\ j - k - Len(mid) + m = i
    BY <1>1, <1>n
  <2> HIDE DEF j
  <2>2. t[j] = s[i]
    BY <1>1, <1>n, <2>1
  <2> QED BY <2>1, <2>2 DEF ToSet
<1>6. ToSet(t) \subseteq {s[j] : j \in 1 .. k - 1} \cup ToSet(mid) \cup {s[j] : j \in m .. Len(s)}
  BY <1>2, <1>n DEF ToSet
<1>7. {s[j] : j \in 1 .. k - 1} \cup ToSet(mid) \cup {s[j] : j \in m .. Len(s)} \subseteq ToSet(t)
  BY <1>3, <1>4, <1>5, Zenon DEF ToSet
<1> QED BY <1>6, <1>7 DEF t

\* A splice of blocks is a sequence of blocks.
LEMMA SpliceBlk ==
  ASSUME NEW s \in Seq(Blk), NEW mid \in Seq(Blk),
         NEW k \in 1 .. Len(s) + 1, NEW m \in k .. Len(s) + 1
  PROVE  /\ Splice(s, k, mid, m) \in Seq(Blk)
         /\ Len(Splice(s, k, mid, m)) = Len(s) - (m - k) + Len(mid)
         /\ \A i \in 1 .. Len(Splice(s, k, mid, m)) :
              Splice(s, k, mid, m)[i] =
                IF i < k THEN s[i]
                ELSE IF i < k + Len(mid) THEN mid[i - k + 1]
                ELSE s[i - k - Len(mid) + m]
BY SpliceIs

\* A splice keeps a list in order when what is put in fits where it is put.
LEMMA SpliceSpread ==
  ASSUME NEW d \in Nat, NEW s \in Seq(Blk), NEW mid \in Seq(Blk), Spread(s, d), Spread(mid, d),
         NEW k \in 1 .. Len(s) + 1, NEW m \in k .. Len(s) + 1,
         \A i \in 1 .. k - 1 : \A j \in DOMAIN mid : s[i].end + d <= mid[j].base,
         \A i \in m .. Len(s) : \A j \in DOMAIN mid : mid[j].end + d <= s[i].base
  PROVE  Spread(Splice(s, k, mid, m), d)
<1> DEFINE t == Splice(s, k, mid, m)
           x(i) == IF i < k THEN s[i] ELSE IF i < k + Len(mid) THEN mid[i - k + 1]
                   ELSE s[i - k - Len(mid) + m]
<1>1. /\ t \in Seq(Blk)
      /\ Len(t) = Len(s) - (m - k) + Len(mid)
      /\ \A i \in 1 .. Len(t) : t[i] = IF i < k THEN s[i]
                ELSE IF i < k + Len(mid) THEN mid[i - k + 1]
                ELSE s[i - k - Len(mid) + m]
  BY SpliceBlk
<1>n. /\ Len(s) \in Nat /\ Len(mid) \in Nat /\ DOMAIN mid = 1 .. Len(mid)
      /\ DOMAIN t = 1 .. Len(t) /\ DOMAIN s = 1 .. Len(s)
  BY <1>1
<1>b. /\ \A i \in 1 .. Len(s) : s[i].base \in Nat /\ s[i].end \in Nat
      /\ \A i \in 1 .. Len(mid) : mid[i].base \in Nat /\ mid[i].end \in Nat
  <2>1. \A i \in 1 .. Len(s) : s[i] \in Blk
    OBVIOUS
  <2>2. \A i \in 1 .. Len(mid) : mid[i] \in Blk
    OBVIOUS
  <2> QED BY <2>1, <2>2, BlkNat
<1>s. /\ \A i \in 1 .. Len(s) : s[i].base < s[i].end
      /\ \A i, j \in 1 .. Len(s) : i < j => s[i].end + d <= s[j].base
      /\ \A i \in 1 .. Len(mid) : mid[i].base < mid[i].end
      /\ \A i, j \in 1 .. Len(mid) : i < j => mid[i].end + d <= mid[j].base
  BY <1>n DEF Spread
<1>m. /\ \A i \in 1 .. k - 1 : \A j \in 1 .. Len(mid) : s[i].end + d <= mid[j].base
      /\ \A i \in m .. Len(s) : \A j \in 1 .. Len(mid) : mid[j].end + d <= s[i].base
  BY <1>n
<1> HIDE DEF t
<1>2. ASSUME NEW i \in 1 .. Len(t)
      PROVE  \/ i < k /\ i \in 1 .. Len(s) /\ x(i) = s[i]
             \/ /\ i >= k /\ i < k + Len(mid) /\ i - k + 1 \in 1 .. Len(mid)
                /\ x(i) = mid[i - k + 1]
             \/ /\ i >= k + Len(mid) /\ i - k - Len(mid) + m \in m .. Len(s)
                /\ x(i) = s[i - k - Len(mid) + m]
  BY <1>1, <1>n
<1> HIDE DEF x
<1>3. ASSUME NEW i \in 1 .. Len(t) PROVE x(i).base < x(i).end
  <2>1. CASE i < k
    BY <1>2, <2>1, <1>s, <1>n
  <2>2. CASE i >= k /\ i < k + Len(mid)
    <3> DEFINE l == i - k + 1
    <3>1. l \in 1 .. Len(mid) /\ x(i) = mid[l]
      BY <1>2, <2>2, <1>n
    <3> HIDE DEF l
    <3> QED BY <3>1, <1>s
  <2>3. CASE i >= k + Len(mid)
    <3> DEFINE l == i - k - Len(mid) + m
    <3>1. l \in 1 .. Len(s) /\ x(i) = s[l]
      BY <1>2, <2>3, <1>n
    <3> HIDE DEF l
    <3> QED BY <3>1, <1>s
  <2> QED BY <2>1, <2>2, <2>3, <1>n
<1>4. ASSUME NEW i \in 1 .. Len(t), NEW j \in 1 .. Len(t), i < j
      PROVE  x(i).end + d <= x(j).base
  <2>1. CASE j < k
    BY <1>2, <1>4, <2>1, <1>s, <1>n
  <2>2. CASE i < k /\ j >= k /\ j < k + Len(mid)
    <3> DEFINE l == j - k + 1
    <3>1. i \in 1 .. k - 1 /\ l \in 1 .. Len(mid) /\ x(i) = s[i] /\ x(j) = mid[l]
      BY <1>2, <2>2, <1>n
    <3> HIDE DEF l
    <3> QED BY <3>1, <1>m
  <2>3. CASE i < k /\ j >= k + Len(mid)
    <3> DEFINE l == j - k - Len(mid) + m
    <3>1. i \in 1 .. Len(s) /\ l \in 1 .. Len(s) /\ i < l /\ x(i) = s[i] /\ x(j) = s[l]
      BY <1>2, <2>3, <1>n
    <3> HIDE DEF l
    <3> QED BY <3>1, <1>s
  <2>4. CASE i >= k /\ j < k + Len(mid)
    <3> DEFINE l == i - k + 1
               r == j - k + 1
    <3>1. l \in 1 .. Len(mid) /\ r \in 1 .. Len(mid) /\ l < r /\ x(i) = mid[l] /\ x(j) = mid[r]
      BY <1>2, <1>4, <2>4, <1>n
    <3> HIDE DEF l, r
    <3> QED BY <3>1, <1>s
  <2>5. CASE i >= k /\ i < k + Len(mid) /\ j >= k + Len(mid)
    <3> DEFINE l == i - k + 1
               r == j - k - Len(mid) + m
    <3>1. l \in 1 .. Len(mid) /\ r \in m .. Len(s) /\ x(i) = mid[l] /\ x(j) = s[r]
      BY <1>2, <1>4, <2>5, <1>n
    <3> HIDE DEF l, r
    <3> QED BY <3>1, <1>m
  <2>6. CASE i >= k + Len(mid)
    <3> DEFINE l == i - k - Len(mid) + m
               r == j - k - Len(mid) + m
    <3>1. l \in 1 .. Len(s) /\ r \in 1 .. Len(s) /\ l < r /\ x(i) = s[l] /\ x(j) = s[r]
      BY SMTT(30), <1>2, <1>4, <2>6, <1>n
    <3> HIDE DEF l, r
    <3> QED BY <3>1, <1>s
  <2> QED BY <2>1, <2>2, <2>3, <2>4, <2>5, <2>6, <1>4, <1>n
<1>5. /\ \A i \in DOMAIN t : t[i].base < t[i].end
      /\ \A i, j \in DOMAIN t : i < j => t[i].end + d <= t[j].base
  <2>1. \A i \in 1 .. Len(t) : t[i] = x(i)
    BY <1>1 DEF x
  <2> QED BY <2>1, <1>n, <1>3, <1>4
<1> QED BY <1>5 DEF Spread, t

\* Busy blocks: in the memory, not empty, disjoint.
Sane(B) ==
  /\ B \subseteq Blk
  /\ \A c \in B : c.base < c.end
  /\ \A c, d \in B : c # d => Disjoint(c, d)

\* The gaps between the blocks of B.
GapsOf(B) ==
  {b \in Blk : /\ b.base < b.end
               /\ b.base = Base \/ \E c \in B : c.end = b.base
               /\ b.end = Top \/ \E c \in B : c.base = b.end
               /\ \A c \in B : Disjoint(b, c)}

\* The block from x to y.
Block(x, y) == [base |-> x, end |-> y]

\* The fields of a block.
LEMMA BlockIs ==
  ASSUME NEW x, NEW y
  PROVE  /\ Block(x, y).base = x /\ Block(x, y).end = y
         /\ (x \in Nat /\ y \in Nat /\ Base <= x /\ x <= Top /\ Base <= y /\ y <= Top) => Block(x, y) \in Blk
BY MemAssumption DEF Block, Blk

\* A block is the block of its ends.
LEMMA BlkIsBlock ==
  ASSUME NEW b \in Blk
  PROVE  b = Block(b.base, b.end)
BY DEF Block, Blk

\* Blocks with the same ends are the same.
LEMMA BlkSame ==
  ASSUME NEW b \in Blk, NEW c \in Blk, b.base = c.base, b.end = c.end
  PROVE  b = c
BY BlkIsBlock

\* Of two gaps the one that ends higher begins higher, past a busy block.
LEMMA GapHigher ==
  ASSUME NEW B, Sane(B), NEW g \in GapsOf(B), NEW h \in GapsOf(B), g.base < h.base
  PROVE  g.end < h.base
<1>1. g \in Blk /\ h \in Blk /\ (h.base = Base \/ \E c \in B : c.end = h.base)
  BY DEF GapsOf
<1>2. g.base \in Nat /\ g.end \in Nat /\ h.base \in Nat /\ Base <= g.base /\ Base \in Nat
  BY <1>1, BlkNat, MemAssumption
<1>3. PICK c \in B : c.end = h.base
  BY <1>1, <1>2
<1>4. c \in Blk /\ c.base < c.end /\ Disjoint(g, c)
  BY DEF Sane, GapsOf
<1>5. c.base \in Nat
  BY <1>4, BlkNat
<1> QED BY <1>2, <1>3, <1>4, <1>5 DEF Disjoint

\* Of two gaps the one that begins higher is wholly above the other.
LEMMA GapLower ==
  ASSUME NEW B, Sane(B), NEW g \in GapsOf(B), NEW h \in GapsOf(B), g.end < h.end
  PROVE  g.end < h.base
<1>1. g \in Blk /\ h \in Blk /\ (g.end = Top \/ \E c \in B : c.base = g.end)
  BY DEF GapsOf
<1>2. h.base \in Nat /\ g.end \in Nat /\ h.end \in Nat /\ h.end <= Top /\ Top \in Nat
  BY <1>1, BlkNat, MemAssumption
<1>3. PICK c \in B : c.base = g.end
  BY <1>1, <1>2
<1>4. c \in Blk /\ c.base < c.end /\ Disjoint(h, c)
  BY DEF Sane, GapsOf
<1>5. c.end \in Nat
  BY <1>4, BlkNat
<1> QED BY <1>2, <1>3, <1>4, <1>5 DEF Disjoint

\* Two gaps do not even touch.
LEMMA GapsApart ==
  ASSUME NEW B, Sane(B), NEW g \in GapsOf(B), NEW h \in GapsOf(B), g # h
  PROVE  g.end < h.base \/ h.end < g.base
<1>1. g \in Blk /\ h \in Blk
  BY DEF GapsOf
<1>2. g.base # h.base \/ g.end # h.end
  BY <1>1, BlkSame
<1>3. g.base \in Nat /\ g.end \in Nat /\ h.base \in Nat /\ h.end \in Nat
  BY <1>1, BlkNat
<1>4. g.base < h.base \/ h.base < g.base \/ g.end < h.end \/ h.end < g.end
  BY <1>2, <1>3
<1> QED BY <1>4, GapHigher, GapLower

\* What is left of a gap when a block is taken out of it.
Halves(g, n) == {x \in {Block(g.base, n.base), Block(n.end, g.end)} : x.base < x.end}

\* Taking a block out of a gap replaces the gap by what is left of it on either side.
LEMMA GapsTake ==
  ASSUME NEW B, Sane(B), NEW g \in GapsOf(B), NEW n \in Blk,
         g.base <= n.base, n.base < n.end, n.end <= g.end
  PROVE  /\ Sane(B \cup {n})
         /\ GapsOf(B \cup {n}) = (GapsOf(B) \ {g}) \cup Halves(g, n)
<1>g. /\ g \in Blk /\ \A c \in B : Disjoint(g, c)
      /\ g.base = Base \/ \E c \in B : c.end = g.base
      /\ g.end = Top \/ \E c \in B : c.base = g.end
  BY DEF GapsOf
<1>n. /\ g.base \in Nat /\ g.end \in Nat /\ n.base \in Nat /\ n.end \in Nat /\ Base \in Nat /\ Top \in Nat
      /\ Base <= g.base /\ g.end <= Top
  BY <1>g, BlkNat, MemAssumption
<1>c. \A c \in B : c \in Blk /\ c.base \in Nat /\ c.end \in Nat /\ c.base < c.end /\ Base <= c.base /\ c.end <= Top
  BY BlkNat DEF Sane
<1>1. \A c \in B : Disjoint(c, n) /\ Disjoint(n, c)
  BY <1>g, <1>n, <1>c DEF Disjoint
<1>2. Sane(B \cup {n})
  <2>1. B \cup {n} \subseteq Blk /\ \A c \in B \cup {n} : c.base < c.end
    BY <1>c
  <2>2. \A c, d \in B \cup {n} : c # d => Disjoint(c, d)
    BY <1>1 DEF Sane
  <2> QED BY <2>1, <2>2 DEF Sane
<1>3. ASSUME NEW b \in GapsOf(B \cup {n}) PROVE b \in (GapsOf(B) \ {g}) \cup Halves(g, n)
  <2>1. /\ b \in Blk /\ b.base < b.end
        /\ b.base = Base \/ b.base = n.end \/ \E c \in B : c.end = b.base
        /\ b.end = Top \/ b.end = n.base \/ \E c \in B : c.base = b.end
        /\ \A c \in B : Disjoint(b, c)
        /\ Disjoint(b, n)
    BY DEF GapsOf
  <2>2. b.base \in Nat /\ b.end \in Nat /\ Base <= b.base /\ b.end <= Top
    BY <2>1, BlkNat
  <2>3. CASE b.base = n.end
    <3>1. ~(b.end < g.end)
      <4>1. SUFFICES ASSUME b.end < g.end PROVE FALSE
        OBVIOUS
      <4>2. PICK c \in B : c.base = b.end
        BY <2>1, <2>2, <2>3, <1>n, <4>1
      <4>3. Disjoint(g, c)
        BY <1>g
      <4> QED BY <4>1, <4>2, <4>3, <1>c, <1>n, <2>1, <2>2, <2>3 DEF Disjoint
    <3>2. ~(b.end > g.end)
      <4>1. SUFFICES ASSUME b.end > g.end PROVE FALSE
        OBVIOUS
      <4>2. PICK c \in B : c.base = g.end
        BY <1>g, <2>2, <1>n, <4>1
      <4>3. Disjoint(b, c)
        BY <2>1
      <4> QED BY <4>1, <4>2, <4>3, <1>c, <1>n, <2>1, <2>2, <2>3 DEF Disjoint
    <3>3. b = Block(n.end, g.end)
      BY <3>1, <3>2, <2>1, <2>2, <2>3, <1>n, BlkIsBlock
    <3> QED BY <3>3, <2>1 DEF Halves
  <2>4. CASE b.end = n.base
    <3>1. ~(b.base > g.base)
      <4>1. SUFFICES ASSUME b.base > g.base PROVE FALSE
        OBVIOUS
      <4>2. PICK c \in B : c.end = b.base
        BY <2>1, <2>2, <2>4, <1>n, <4>1
      <4>3. Disjoint(g, c)
        BY <1>g
      <4> QED BY <4>1, <4>2, <4>3, <1>c, <1>n, <2>1, <2>2, <2>4 DEF Disjoint
    <3>2. ~(b.base < g.base)
      <4>1. SUFFICES ASSUME b.base < g.base PROVE FALSE
        OBVIOUS
      <4>2. PICK c \in B : c.end = g.base
        BY <1>g, <2>2, <1>n, <4>1
      <4>3. Disjoint(b, c)
        BY <2>1
      <4> QED BY <4>1, <4>2, <4>3, <1>c, <1>n, <2>1, <2>2, <2>4 DEF Disjoint
    <3>3. b = Block(g.base, n.base)
      BY <3>1, <3>2, <2>1, <2>2, <2>4, <1>n, BlkIsBlock
    <3> QED BY <3>3, <2>1 DEF Halves
  <2>5. CASE b.base # n.end /\ b.end # n.base
    <3>1. b \in GapsOf(B)
      BY <2>1, <2>5 DEF GapsOf
    <3>2. b # g
      BY <2>1, <1>n DEF Disjoint
    <3> QED BY <3>1, <3>2
  <2> QED BY <2>3, <2>4, <2>5
<1>4. ASSUME NEW b \in GapsOf(B), b # g PROVE b \in GapsOf(B \cup {n})
  <2>1. b.end < g.base \/ g.end < b.base
    BY <1>4, GapsApart
  <2>2. b \in Blk /\ b.base \in Nat /\ b.end \in Nat
    BY BlkNat DEF GapsOf
  <2>3. Disjoint(b, n)
    BY <2>1, <2>2, <1>n DEF Disjoint
  <2> QED BY <2>3, <2>2 DEF GapsOf
<1>5. ASSUME g.base < n.base PROVE Block(g.base, n.base) \in GapsOf(B \cup {n})
  <2> DEFINE b == Block(g.base, n.base)
  <2>1. b.base = g.base /\ b.end = n.base /\ b \in Blk
    BY BlockIs, <1>n, <1>5
  <2> HIDE DEF b
  <2>2. \A c \in B \cup {n} : Disjoint(b, c)
    BY <2>1, <1>g, <1>c, <1>n DEF Disjoint
  <2>3. (b.base = Base \/ \E c \in B \cup {n} : c.end = b.base) /\ \E c \in B \cup {n} : c.base = b.end
    BY <2>1, <1>g
  <2> QED BY <2>1, <2>2, <2>3, <1>5 DEF GapsOf, b
<1>6. ASSUME n.end < g.end PROVE Block(n.end, g.end) \in GapsOf(B \cup {n})
  <2> DEFINE b == Block(n.end, g.end)
  <2>1. b.base = n.end /\ b.end = g.end /\ b \in Blk
    BY BlockIs, <1>n, <1>6
  <2> HIDE DEF b
  <2>2. \A c \in B \cup {n} : Disjoint(b, c)
    BY <2>1, <1>g, <1>c, <1>n DEF Disjoint
  <2>3. (b.end = Top \/ \E c \in B \cup {n} : c.base = b.end) /\ \E c \in B \cup {n} : c.end = b.base
    BY <2>1, <1>g
  <2> QED BY <2>1, <2>2, <2>3, <1>6 DEF GapsOf, b
<1>7. ASSUME NEW b \in Halves(g, n) PROVE b \in GapsOf(B \cup {n})
  BY <1>5, <1>6, BlockIs DEF Halves
<1> QED BY <1>2, <1>3, <1>4, <1>7

\* Free memory below a busy block: at most one gap touches it from below.
LEMMA GapBelow ==
  ASSUME NEW B, Sane(B), NEW n \in B
  PROVE  n.base = Base \/ (\E c \in B : c.end = n.base) \/ \E g \in GapsOf(B) : g.end = n.base
<1>1. SUFFICES ASSUME n.base # Base, \A c \in B : c.end # n.base
               PROVE  \E g \in GapsOf(B) : g.end = n.base
  OBVIOUS
<1>c. \A c \in B : c \in Blk /\ c.base \in Nat /\ c.end \in Nat /\ c.base < c.end /\ Base <= c.base /\ c.end <= Top
  BY BlkNat DEF Sane
<1>n. Base \in Nat /\ Top \in Nat /\ n.base \in Nat /\ Base < n.base /\ n.end \in Nat /\ n.base < n.end /\ n.end <= Top
  BY <1>c, <1>1, MemAssumption
<1> DEFINE S == {x \in Base .. n.base - 1 : \A c \in B : n.base <= c.base \/ c.end <= x}
<1>2. n.base - 1 \in S
  <2>1. ASSUME NEW c \in B PROVE n.base <= c.base \/ c.end <= n.base - 1
    <3>1. CASE c = n
      BY <3>1, <1>n
    <3>2. CASE c # n
      <4>1. Disjoint(c, n)
        BY <3>2 DEF Sane
      <4>2. c.end # n.base
        BY <1>1
      <4> QED BY <4>1, <4>2, <1>c, <1>n DEF Disjoint
    <3> QED BY <3>1, <3>2
  <2> QED BY <2>1, <1>n
<1>3. S \in SUBSET Nat
  BY <1>n
<1> HIDE DEF S
<1>4. PICK x \in S : \A y \in S : x <= y
  BY <1>2, <1>3, NatMin
<1>5. x \in Nat /\ Base <= x /\ x < n.base /\ \A c \in B : n.base <= c.base \/ c.end <= x
  BY <1>4, <1>n DEF S
<1>6. x = Base \/ \E c \in B : c.end = x
  <2>1. SUFFICES ASSUME x # Base PROVE \E c \in B : c.end = x
    OBVIOUS
  <2>2. x - 1 \notin S
    BY <1>4, <1>5
  <2>3. x - 1 \in Base .. n.base - 1
    BY <2>1, <1>5, <1>n
  <2>4. PICK c \in B : ~(n.base <= c.base \/ c.end <= x - 1)
    BY <2>2, <2>3 DEF S
  <2>5. n.base <= c.base \/ c.end <= x
    BY <1>5
  <2> QED BY <2>4, <2>5, <1>5, <1>c, <1>n
<1> DEFINE g == Block(x, n.base)
<1>7. g \in Blk /\ g.base = x /\ g.end = n.base
  BY BlockIs, <1>5, <1>n
<1> HIDE DEF g
<1>8. \A c \in B : Disjoint(g, c)
  BY <1>7, <1>5 DEF Disjoint
<1>9. \E c \in B : c.base = g.end
  BY <1>7
<1>10. g \in GapsOf(B)
  BY <1>5, <1>6, <1>7, <1>8, <1>9 DEF GapsOf
<1> QED BY <1>7, <1>10

\* Free memory above a busy block: at most one gap touches it from above.
LEMMA GapAbove ==
  ASSUME NEW B, Sane(B), NEW n \in B
  PROVE  n.end = Top \/ (\E c \in B : c.base = n.end) \/ \E g \in GapsOf(B) : g.base = n.end
<1>1. SUFFICES ASSUME n.end # Top, \A c \in B : c.base # n.end
               PROVE  \E g \in GapsOf(B) : g.base = n.end
  OBVIOUS
<1>c. \A c \in B : c \in Blk /\ c.base \in Nat /\ c.end \in Nat /\ c.base < c.end /\ Base <= c.base /\ c.end <= Top
  BY BlkNat DEF Sane
<1>n. Base \in Nat /\ Top \in Nat /\ n.base \in Nat /\ n.end < Top /\ n.end \in Nat /\ n.base < n.end /\ Base <= n.base
  BY <1>c, <1>1, MemAssumption
\* the length of what is between the gap and the top
<1> DEFINE S == {z \in 0 .. Top - n.end - 1 : \A c \in B : c.end <= n.end \/ Top - z <= c.base}
<1>2. Top - n.end - 1 \in S
  <2>1. ASSUME NEW c \in B PROVE c.end <= n.end \/ n.end + 1 <= c.base
    <3>1. CASE c = n
      BY <3>1, <1>n
    <3>2. CASE c # n
      <4>1. Disjoint(c, n)
        BY <3>2 DEF Sane
      <4>2. c.base # n.end
        BY <1>1
      <4> QED BY <4>1, <4>2, <1>c, <1>n DEF Disjoint
    <3> QED BY <3>1, <3>2
  <2>2. Top - (Top - n.end - 1) = n.end + 1
    BY <1>n
  <2> QED BY <2>1, <2>2, <1>n
<1>3. S \in SUBSET Nat
  BY <1>n
<1> HIDE DEF S
<1>4. PICK z \in S : \A y \in S : z <= y
  BY <1>2, <1>3, NatMin
<1>5. z \in Nat /\ Top - z > n.end /\ \A c \in B : c.end <= n.end \/ Top - z <= c.base
  BY <1>4, <1>n DEF S
<1>6. z = 0 \/ \E c \in B : c.base = Top - z
  <2>1. SUFFICES ASSUME z # 0 PROVE \E c \in B : c.base = Top - z
    OBVIOUS
  <2>2. z - 1 \notin S
    BY <1>4, <1>5
  <2>3. z - 1 \in 0 .. Top - n.end - 1
    BY <2>1, <1>5, <1>n
  <2>4. PICK c \in B : ~(c.end <= n.end \/ Top - (z - 1) <= c.base)
    BY <2>2, <2>3 DEF S
  <2>5. c.end <= n.end \/ Top - z <= c.base
    BY <1>5
  <2> QED BY <2>4, <2>5, <1>5, <1>c, <1>n
<1> DEFINE g == Block(n.end, Top - z)
<1>7. g \in Blk /\ g.base = n.end /\ g.end = Top - z
  BY BlockIs, <1>5, <1>n
<1> HIDE DEF g
<1>8. \A c \in B : Disjoint(g, c)
  BY <1>7, <1>5 DEF Disjoint
<1>9. \E c \in B : c.end = g.base
  BY <1>7
<1>10. g.end = Top \/ \E c \in B : c.base = g.end
  BY <1>6, <1>7, <1>n
<1>11. g \in GapsOf(B)
  BY <1>5, <1>7, <1>8, <1>9, <1>10 DEF GapsOf
<1> QED BY <1>7, <1>11

\* The blocks overlap or have an end in common.
Touch(b, c) == b.base <= c.end /\ c.base <= b.end

\* w is n together with the blocks of F that touch it.
Hull(F, n, w) ==
  /\ w \in Blk
  /\ w.base <= n.base /\ n.end <= w.end
  /\ w.base = n.base \/ \E g \in F : Touch(g, n) /\ g.base = w.base
  /\ w.end = n.end \/ \E g \in F : Touch(g, n) /\ g.end = w.end
  /\ \A g \in F : Touch(g, n) => w.base <= g.base /\ g.end <= w.end

\* Giving a block back replaces the gaps that touch it by one gap made of them and the block.
LEMMA GapsGive ==
  ASSUME NEW B, Sane(B), NEW n \in B, NEW w, Hull(GapsOf(B), n, w)
  PROVE  /\ Sane(B \ {n})
         /\ GapsOf(B \ {n}) = {g \in GapsOf(B) : ~Touch(g, n)} \cup {w}
<1> DEFINE D == B \ {n}
<1>c. \A c \in B : c \in Blk /\ c.base \in Nat /\ c.end \in Nat /\ c.base < c.end /\ Base <= c.base /\ c.end <= Top
  BY BlkNat DEF Sane
<1>d. \A c \in D : c \in B /\ c # n /\ Disjoint(c, n)
  BY DEF Sane
<1>n. Base \in Nat /\ Top \in Nat /\ n.base \in Nat /\ n.end \in Nat /\ n.base < n.end /\ Base <= n.base /\ n.end <= Top
  BY <1>c, MemAssumption
<1>1. Sane(D)
  BY DEF Sane
<1>w. w \in Blk /\ w.base \in Nat /\ w.end \in Nat /\ w.base <= n.base /\ n.end <= w.end
  BY BlkNat DEF Hull
<1>g. \A g \in GapsOf(B) : /\ g \in Blk /\ g.base \in Nat /\ g.end \in Nat /\ g.base < g.end
                           /\ Disjoint(g, n) /\ (Touch(g, n) => w.base <= g.base /\ g.end <= w.end)
  BY BlkNat DEF GapsOf, Hull
<1>2. w.base = Base \/ \E c \in D : c.end = w.base
  <2>1. CASE w.base = n.base
    <3>1. ASSUME NEW g \in GapsOf(B), g.end = n.base PROVE FALSE
      BY <3>1, <2>1, <1>g, <1>n DEF Touch
    <3>2. CASE n.base = Base
      BY <3>2, <2>1
    <3>3. ASSUME NEW c \in B, c.end = n.base PROVE \E e \in D : e.end = w.base
      BY <3>3, <2>1, <1>n
    <3> QED BY <3>1, <3>2, <3>3, GapBelow
  <2>2. CASE w.base # n.base
    <3>1. PICK g \in GapsOf(B) : Touch(g, n) /\ g.base = w.base
      BY <2>2 DEF Hull
    <3>2. g.base = Base \/ \E c \in B : c.end = g.base
      BY DEF GapsOf
    <3>3. n.end # g.base
      BY <3>1, <1>w, <1>n
    <3> QED BY <3>1, <3>2, <3>3
  <2> QED BY <2>1, <2>2
<1>3. w.end = Top \/ \E c \in D : c.base = w.end
  <2>1. CASE w.end = n.end
    <3>1. ASSUME NEW g \in GapsOf(B), g.base = n.end PROVE FALSE
      BY <3>1, <2>1, <1>g, <1>n DEF Touch
    <3>2. CASE n.end = Top
      BY <3>2, <2>1
    <3>3. ASSUME NEW c \in B, c.base = n.end PROVE \E e \in D : e.base = w.end
      BY <3>3, <2>1, <1>n
    <3> QED BY <3>1, <3>2, <3>3, GapAbove
  <2>2. CASE w.end # n.end
    <3>1. PICK g \in GapsOf(B) : Touch(g, n) /\ g.end = w.end
      BY <2>2 DEF Hull
    <3>2. g.end = Top \/ \E c \in B : c.base = g.end
      BY DEF GapsOf
    <3>3. n.base # g.end
      BY <3>1, <1>w, <1>n
    <3> QED BY <3>1, <3>2, <3>3
  <2> QED BY <2>1, <2>2
<1>4. ASSUME NEW c \in D PROVE Disjoint(w, c)
  <2>c. c \in B /\ c.base \in Nat /\ c.end \in Nat /\ c.base < c.end /\ Disjoint(c, n)
    BY <1>c, <1>d
  <2>1. CASE c.end <= n.base
    <3>1. CASE w.base = n.base
      BY <3>1, <2>1 DEF Disjoint
    <3>2. CASE w.base # n.base
      <4>1. PICK g \in GapsOf(B) : Touch(g, n) /\ g.base = w.base
        BY <3>2 DEF Hull
      <4>2. Disjoint(g, c)
        BY <2>c DEF GapsOf
      <4>3. g.end <= n.base /\ n.base <= g.end
        BY <4>1, <1>g, <1>n, <1>w DEF Disjoint, Touch
      <4> QED BY <4>1, <4>2, <4>3, <2>1, <2>c, <1>g, <1>n, <1>w DEF Disjoint
    <3> QED BY <3>1, <3>2
  <2>2. CASE n.end <= c.base
    <3>1. CASE w.end = n.end
      BY <3>1, <2>2 DEF Disjoint
    <3>2. CASE w.end # n.end
      <4>1. PICK g \in GapsOf(B) : Touch(g, n) /\ g.end = w.end
        BY <3>2 DEF Hull
      <4>2. Disjoint(g, c)
        BY <2>c DEF GapsOf
      <4>3. n.end <= g.base /\ g.base <= n.end
        BY <4>1, <1>g, <1>n, <1>w DEF Disjoint, Touch
      <4> QED BY <4>1, <4>2, <4>3, <2>2, <2>c, <1>g, <1>n, <1>w DEF Disjoint
    <3> QED BY <3>1, <3>2
  <2> QED BY <2>1, <2>2, <2>c DEF Disjoint
<1>5. w \in GapsOf(D)
  <2>1. w.base < w.end
    BY <1>w, <1>n
  <2> QED BY <2>1, <1>w, <1>2, <1>3, <1>4 DEF GapsOf
<1>6. ASSUME NEW g \in GapsOf(B), ~Touch(g, n) PROVE g \in GapsOf(D)
  <2>1. n.end # g.base /\ n.base # g.end
    BY <1>6, <1>g, <1>n DEF Touch
  <2> QED BY <2>1 DEF GapsOf
<1>7. ASSUME NEW b \in GapsOf(D), b # w PROVE b \in GapsOf(B) /\ ~Touch(b, n)
  <2>1. b.end < w.base \/ w.end < b.base
    BY <1>1, <1>5, <1>7, GapsApart
  <2>2. b \in Blk /\ b.base \in Nat /\ b.end \in Nat
    BY BlkNat DEF GapsOf
  <2>3. ~Touch(b, n) /\ Disjoint(b, n)
    BY <2>1, <2>2, <1>w, <1>n DEF Touch, Disjoint
  <2> QED BY <2>3 DEF GapsOf
<1> HIDE DEF D
<1>8. GapsOf(D) = {g \in GapsOf(B) : ~Touch(g, n)} \cup {w}
  BY <1>5, <1>6, <1>7
<1> QED BY <1>1, <1>8 DEF D

\* The blocks of a list but for those from k to m - 1.
LEMMA OthersIs ==
  ASSUME NEW d \in Nat, NEW s \in Seq(Blk), Spread(s, d),
         NEW k \in 1 .. Len(s) + 1, NEW m \in k .. Len(s) + 1
  PROVE  {s[i] : i \in 1 .. k - 1} \cup {s[i] : i \in m .. Len(s)}
           = ToSet(s) \ {s[i] : i \in k .. m - 1}
<1>n. Len(s) \in Nat /\ DOMAIN s = 1 .. Len(s)
  OBVIOUS
<1>b. \A i \in 1 .. Len(s) : s[i].base \in Nat /\ s[i].end \in Nat
  <2>1. \A i \in 1 .. Len(s) : s[i] \in Blk
    OBVIOUS
  <2> QED BY <2>1, BlkNat
<1>1. \A i, j \in 1 .. Len(s) : i # j => s[i] # s[j]
  <2>1. ASSUME NEW i \in 1 .. Len(s), NEW j \in 1 .. Len(s), i < j PROVE s[i] # s[j]
    <3>1. s[i].end + d <= s[j].base /\ s[i].base < s[i].end
      BY <2>1, <1>n DEF Spread
    <3> QED BY <3>1, <1>b
  <2> QED BY <2>1, <1>n
<1>2. \A i \in 1 .. Len(s) : i \in 1 .. k - 1 \/ i \in k .. m - 1 \/ i \in m .. Len(s)
  BY <1>n
<1>3. /\ 1 .. k - 1 \subseteq 1 .. Len(s) /\ k .. m - 1 \subseteq 1 .. Len(s) /\ m .. Len(s) \subseteq 1 .. Len(s)
      /\ \A i \in k .. m - 1 : i \notin 1 .. k - 1 /\ i \notin m .. Len(s)
  BY <1>n
<1>4. ToSet(s) = {s[i] : i \in 1 .. Len(s)}
  BY <1>n DEF ToSet
<1> QED BY <1>1, <1>2, <1>3, <1>4, Zenon

\* In a list in order, overlapping blocks are the same.
LEMMA SpreadApart ==
  ASSUME NEW d \in Nat, NEW s \in Seq(Blk), Spread(s, d), NEW x \in ToSet(s), NEW y \in ToSet(s), x # y
  PROVE  /\ x \in Blk /\ y \in Blk /\ x.base < x.end /\ y.base < y.end
         /\ x.end + d <= y.base \/ y.end + d <= x.base
<1>1. PICK i \in DOMAIN s : x = s[i]
  BY DEF ToSet
<1>2. PICK j \in DOMAIN s : y = s[j]
  BY DEF ToSet
<1>3. i < j \/ j < i
  BY <1>1, <1>2
<1>4. x.end + d <= y.base \/ y.end + d <= x.base
  BY <1>1, <1>2, <1>3 DEF Spread
<1>5. x \in Blk /\ y \in Blk
  BY <1>1, <1>2
<1> QED BY <1>1, <1>2, <1>4, <1>5 DEF Spread

\* The block that cut_free_blk cuts.
CutAt(list, base, end) == FirstOf({i \in 1 .. Len(list) : list[i].base < end /\ end <= list[i].end})

\* The empty list is a list of blocks.
LEMMA EmptyBlks == <<>> \in Seq(Blk) /\ Len(<<>>) = 0
OBVIOUS

\* A list of one block.
LEMMA OneBlk ==
  ASSUME NEW b \in Blk
  PROVE  /\ <<b>> \in Seq(Blk) /\ Len(<<b>>) = 1 /\ <<b>>[1] = b /\ DOMAIN <<b>> = {1}
         /\ ToSet(<<b>>) = {b}
         /\ b.base < b.end => \A d \in Nat : Spread(<<b>>, d)
<1>1. /\ <<b>> \in Seq(Blk) /\ Len(<<b>>) = 1 /\ <<b>>[1] = b /\ DOMAIN <<b>> = {1}
  OBVIOUS
<1>2. ToSet(<<b>>) = {b}
  BY <1>1, Zenon DEF ToSet
<1>3. ASSUME b.base < b.end, NEW d \in Nat PROVE Spread(<<b>>, d)
  BY <1>1, <1>3 DEF Spread
<1> QED BY <1>1, <1>2, <1>3

\* A list of two blocks.
LEMMA TwoBlks ==
  ASSUME NEW b \in Blk, NEW c \in Blk
  PROVE  <<b>> \o <<c>> = <<b, c>>
<1> DEFINE s == <<b>>
           t == <<c>>
           u == <<b, c>>
<1>1. /\ s \in Seq(Blk) /\ Len(s) = 1 /\ s[1] = b
      /\ t \in Seq(Blk) /\ Len(t) = 1 /\ t[1] = c
      /\ u \in Seq(Blk) /\ Len(u) = 2 /\ u[1] = b /\ u[2] = c
  OBVIOUS
<1> HIDE DEF s, t, u
<1>2. s \o t \in Seq(Blk) /\ Len(s \o t) = 2
      /\ \A i \in 1 .. 2 : (s \o t)[i] = IF i <= 1 THEN s[i] ELSE t[i - 1]
  BY <1>1, ConcatIs
<1>3. (s \o t)[1] = s[1] /\ (s \o t)[2] = t[1]
  BY <1>2
<1>4. \A i \in 1 .. Len(s \o t) : (s \o t)[i] = u[i]
  <2>1. \A i \in 1 .. 2 : i = 1 \/ i = 2
    OBVIOUS
  <2>2. (s \o t)[1] = u[1] /\ (s \o t)[2] = u[2]
    BY <1>1, <1>3
  <2> QED BY <2>1, <2>2, <1>2, Zenon
<1>5. s \o t = u
  <2>1. Len(s \o t) = Len(u)
    BY <1>1, <1>2
  <2> QED BY <1>1, <1>2, <1>4, <2>1, SeqEqual
<1> QED BY <1>5 DEF s, t, u

\* What lies before and after a place of a list of blocks.
LEMMA AroundBlks ==
  ASSUME NEW b \in Blk
  PROVE  <<b>> \o <<>> = <<b>> /\ <<>> \o <<b>> = <<b>>
BY OneBlk, ConcatEmptySeq

\* What cut_free_blk leaves of a block.
Pieces(x, base, end, a) ==
  {p \in {Block(x.base, base), Block(MakeAligned(end, a), x.end)} : p.end - p.base >= a}

\* What cut_free_blk leaves of a block is aligned, in order, and inside the block.
LEMMA PiecesAre ==
  ASSUME NEW a \in Nat \ {0}, NEW x \in Blk, NEW base \in Nat, NEW end \in Nat,
         base < end, x.base < end, end <= x.end
  PROVE  LET mid == Before(x, base, a) \o After(x, end, a)
         IN /\ mid \in Seq(Blk) /\ Spread(mid, 1)
            /\ ToSet(mid) = Pieces(x, base, end, a)
            /\ \A i \in DOMAIN mid : x.base <= mid[i].base /\ mid[i].end <= x.end
<1> DEFINE up == MakeAligned(end, a)
           b == Block(x.base, base)
           c == Block(up, x.end)
           B == Before(x, base, a)
           C == After(x, end, a)
<1>1. up \in Nat /\ up >= end
  BY Aligned
<1>x. x.base \in Nat /\ x.end \in Nat /\ Base <= x.base /\ x.end <= Top /\ Base \in Nat /\ Top \in Nat
  BY BlkNat, MemAssumption
<1>2. b.base = x.base /\ b.end = base /\ c.base = up /\ c.end = x.end
  BY BlockIs
<1>3. B = (IF base - x.base >= a THEN <<b>> ELSE <<>>) /\ C = (IF x.end - up >= a THEN <<c>> ELSE <<>>)
  BY DEF Before, After, Block
<1>4. base - x.base >= a => b \in Blk /\ b.base < b.end
  BY BlockIs, <1>x, <1>2
<1>5. x.end - up >= a => c \in Blk /\ c.base < c.end
  BY BlockIs, <1>x, <1>1, <1>2
<1>6. Pieces(x, base, end, a) = {p \in {b, c} : p.end - p.base >= a}
  BY DEF Pieces
<1> HIDE DEF up, b, c, B, C
<1>7. CASE base - x.base >= a /\ x.end - up >= a
  <2>1. B \o C = <<b, c>>
    BY <1>3, <1>4, <1>5, <1>7, TwoBlks
  <2> DEFINE m == <<b, c>>
  <2>2. m \in Seq(Blk) /\ DOMAIN m = {1, 2} /\ m[1] = b /\ m[2] = c
    BY <1>4, <1>5, <1>7
  <2> HIDE DEF m
  <2>3. ToSet(m) = {b, c}
    BY <2>2, Zenon DEF ToSet
  <2>4. Pieces(x, base, end, a) = {b, c}
    BY <1>6, <1>7, <1>2
  <2>5. b.end + 1 <= c.base
    BY <1>1, <1>2
  <2>6. \A i, j \in {1, 2} : i < j => i = 1 /\ j = 2
    OBVIOUS
  <2>7. Spread(m, 1)
    BY <2>2, <2>5, <2>6, <1>4, <1>5, <1>7 DEF Spread
  <2>8. \A i \in DOMAIN m : x.base <= m[i].base /\ m[i].end <= x.end
    BY <2>2, <1>1, <1>2, <1>x, <1>4, <1>5, <1>7
  <2> QED BY <2>1, <2>2, <2>3, <2>4, <2>7, <2>8 DEF m, B, C
<1>8. CASE base - x.base >= a /\ ~(x.end - up >= a)
  <2>1. B \o C = <<b>>
    BY <1>3, <1>4, <1>8, AroundBlks
  <2>2. <<b>> \in Seq(Blk) /\ ToSet(<<b>>) = {b} /\ Spread(<<b>>, 1) /\ DOMAIN <<b>> = {1} /\ <<b>>[1] = b
    BY OneBlk, <1>4, <1>8
  <2>3. Pieces(x, base, end, a) = {b}
    BY <1>6, <1>8, <1>2
  <2>4. x.base <= b.base /\ b.end <= x.end
    BY <1>2, <1>x
  <2> QED BY <2>1, <2>2, <2>3, <2>4 DEF B, C
<1>9. CASE ~(base - x.base >= a) /\ x.end - up >= a
  <2>1. B \o C = <<c>>
    BY <1>3, <1>5, <1>9, AroundBlks
  <2>2. <<c>> \in Seq(Blk) /\ ToSet(<<c>>) = {c} /\ Spread(<<c>>, 1) /\ DOMAIN <<c>> = {1} /\ <<c>>[1] = c
    BY OneBlk, <1>5, <1>9
  <2>3. Pieces(x, base, end, a) = {c}
    BY <1>6, <1>9, <1>2
  <2>4. x.base <= c.base /\ c.end <= x.end
    BY <1>1, <1>2, <1>x
  <2> QED BY <2>1, <2>2, <2>3, <2>4 DEF B, C
<1>10. CASE ~(base - x.base >= a) /\ ~(x.end - up >= a)
  <2>1. B \o C = <<>>
    BY <1>3, <1>10
  <2>2. <<>> \in Seq(Blk) /\ DOMAIN <<>> = {}
    OBVIOUS
  <2>3. ToSet(<<>>) = {} /\ Spread(<<>>, 1)
    BY <2>2 DEF ToSet, Spread
  <2>4. Pieces(x, base, end, a) = {}
    BY <1>6, <1>10, <1>2
  <2> QED BY <2>1, <2>2, <2>3, <2>4 DEF B, C
<1> QED BY <1>7, <1>8, <1>9, <1>10

\* Cut is a splice at the block it finds.
LEMMA CutIs ==
  ASSUME NEW list \in Seq(Blk), NEW a \in Nat \ {0}, NEW base \in Nat, NEW end \in Nat, base < end
  PROVE  LET k == CutAt(list, base, end)
         IN Cut(list, a, base, end) =
              IF k = 0 THEN list
              ELSE Splice(list, k, Before(list[k], base, a) \o After(list[k], end, a), k + 1)
<1> DEFINE k == CutAt(list, base, end)
           I == {i \in 1 .. Len(list) : list[i].base < end /\ end <= list[i].end}
<1>1. Cut(list, a, base, end) =
        IF k = 0 THEN list
        ELSE SubSeq(list, 1, k - 1) \o Before(list[k], base, a)
               \o After(list[k], end, a) \o SubSeq(list, k + 1, Len(list))
  BY DEF Cut, CutAt, FirstOf, SelectInSeq
<1>2. k = FirstOf(I)
  BY DEF CutAt
<1>n. Len(list) \in Nat /\ I \in SUBSET (1 .. Len(list))
  OBVIOUS
<1> HIDE DEF k
<1>3. CASE k = 0
  BY <1>1, <1>3 DEF k
<1>4. CASE k # 0
  <2>1. k \in I
    <3> HIDE DEF I
    <3> QED BY <1>2, <1>4, <1>n, FirstOfIs
  <2>2. k \in 1 .. Len(list) /\ list[k] \in Blk /\ list[k].base < end /\ end <= list[k].end
    BY <2>1
  <2> DEFINE B == Before(list[k], base, a)
             C == After(list[k], end, a)
             x == list[k]
  <2>3. B \in Seq(Blk) /\ C \in Seq(Blk)
    <3>1. x.base \in Nat /\ x.end \in Nat /\ Base <= x.base /\ x.end <= Top /\ Base \in Nat /\ Top \in Nat
      BY BlkNat, MemAssumption, <2>2
    <3>2. MakeAligned(end, a) \in Nat /\ MakeAligned(end, a) >= end
      BY Aligned
    <3>3. base - x.base >= a => Block(x.base, base) \in Blk
      BY <3>1, <2>2, BlockIs
    <3>4. x.end - MakeAligned(end, a) >= a => Block(MakeAligned(end, a), x.end) \in Blk
      BY <3>1, <3>2, <2>2, BlockIs
    <3>5. /\ B = IF base - x.base >= a THEN <<Block(x.base, base)>> ELSE <<>>
          /\ C = IF x.end - MakeAligned(end, a) >= a THEN <<Block(MakeAligned(end, a), x.end)>> ELSE <<>>
      BY DEF Before, After, Block
    <3> HIDE DEF B, C, x
    <3> QED BY <3>3, <3>4, <3>5, OneBlk, EmptyBlks
  <2> DEFINE A == SubSeq(list, 1, k - 1)
  <2>4. A \in Seq(Blk)
    BY <2>2
  <2> HIDE DEF A, B, C, x
  <2>5. (A \o B) \o C = A \o (B \o C)
    BY <2>3, <2>4, ConcatAssociative
  <2> QED BY <1>1, <1>4, <2>5 DEF Splice, A, B, C, k
<1> QED BY <1>3, <1>4

\* Cutting keeps a list in order, and changes of its blocks only the one that is cut.
LEMMA CutList ==
  ASSUME NEW list \in Seq(Blk), Spread(list, 1), NEW a \in Nat \ {0},
         NEW base \in Nat, NEW end \in Nat, base < end
  PROVE  LET cut == Cut(list, a, base, end)
         IN /\ cut \in Seq(Blk) /\ Spread(cut, 1)
            /\ (\A x \in ToSet(list) : ~(x.base < end /\ end <= x.end)) => cut = list
            /\ \A x \in ToSet(list) : x.base < end /\ end <= x.end =>
                 ToSet(cut) = (ToSet(list) \ {x}) \cup Pieces(x, base, end, a)
<1> DEFINE k == CutAt(list, base, end)
           I == {i \in 1 .. Len(list) : list[i].base < end /\ end <= list[i].end}
           cut == Cut(list, a, base, end)
<1>n. Len(list) \in Nat /\ I \in SUBSET (1 .. Len(list)) /\ DOMAIN list = 1 .. Len(list)
  OBVIOUS
<1>1. k = FirstOf(I)
  BY DEF CutAt
<1>2. cut = IF k = 0 THEN list
            ELSE Splice(list, k, Before(list[k], base, a) \o After(list[k], end, a), k + 1)
  BY CutIs
<1>3. (k = 0 <=> I = {}) /\ (I # {} => k \in I)
  <2> HIDE DEF I, k
  <2> QED BY <1>1, <1>n, FirstOfIs
<1>4. I = {} <=> \A x \in ToSet(list) : ~(x.base < end /\ end <= x.end)
  BY <1>n DEF ToSet
<1> HIDE DEF k, cut
<1>5. CASE I = {}
  <2>1. cut = list
    BY <1>2, <1>3, <1>5
  <2> QED BY <2>1, <1>4, <1>5 DEF cut
<1>6. CASE I # {}
  <2>1. k \in 1 .. Len(list) /\ list[k].base < end /\ end <= list[k].end
    BY <1>3, <1>6
  <2> DEFINE b == list[k]
             mid == Before(b, base, a) \o After(b, end, a)
  <2>2. b \in Blk /\ b \in ToSet(list)
    BY <2>1, <1>n DEF ToSet
  <2>3. cut = Splice(list, k, mid, k + 1)
    BY <1>2, <2>1
  <2>b. b.base < end /\ end <= b.end /\ b = list[k]
    BY <2>1
  <2> HIDE DEF b
  <2>4. /\ mid \in Seq(Blk) /\ Spread(mid, 1)
        /\ ToSet(mid) = Pieces(b, base, end, a)
        /\ \A i \in DOMAIN mid : b.base <= mid[i].base /\ mid[i].end <= b.end
    BY <2>2, <2>b, PiecesAre
  <2> HIDE DEF mid
  <2>5. k \in 1 .. Len(list) + 1 /\ k + 1 \in k .. Len(list) + 1
    BY <2>1, <1>n
  <2>6. cut \in Seq(Blk)
    BY <2>3, <2>4, <2>5, SpliceBlk
  <2>n. /\ \A i \in DOMAIN mid : mid[i].base \in Nat /\ mid[i].end \in Nat
        /\ \A i \in 1 .. Len(list) : list[i].base \in Nat /\ list[i].end \in Nat
        /\ b.base \in Nat /\ b.end \in Nat
    <3>1. \A i \in DOMAIN mid : mid[i] \in Blk
      BY <2>4
    <3>2. \A i \in 1 .. Len(list) : list[i] \in Blk
      OBVIOUS
    <3> QED BY <3>1, <3>2, <2>2, BlkNat
  <2>7. \A i \in 1 .. k - 1 : \A j \in DOMAIN mid : list[i].end + 1 <= mid[j].base
    <3>1. \A i \in 1 .. k - 1 : i \in 1 .. Len(list) /\ list[i].end + 1 <= b.base
      BY <2>1, <2>b, <1>n DEF Spread
    <3> QED BY <3>1, <2>4, <2>n
  <2>8. \A i \in k + 1 .. Len(list) : \A j \in DOMAIN mid : mid[j].end + 1 <= list[i].base
    <3>1. \A i \in k + 1 .. Len(list) : i \in 1 .. Len(list) /\ b.end + 1 <= list[i].base
      BY <2>1, <2>b, <1>n DEF Spread
    <3> QED BY <3>1, <2>4, <2>n
  <2>9. Spread(cut, 1)
    BY <2>3, <2>4, <2>5, <2>7, <2>8, SpliceSpread
  <2>10. ToSet(cut) = {list[i] : i \in 1 .. k - 1} \cup ToSet(mid) \cup {list[i] : i \in k + 1 .. Len(list)}
    BY SMTT(30), <2>3, <2>4, <2>5, SpliceSet
  <2>11. {list[i] : i \in 1 .. k - 1} \cup {list[i] : i \in k + 1 .. Len(list)}
           = ToSet(list) \ {list[i] : i \in k .. (k + 1) - 1}
    BY <2>5, OthersIs
  <2>12. {list[i] : i \in k .. (k + 1) - 1} = {b}
    <3>1. k .. (k + 1) - 1 = {k}
      BY <2>1
    <3> QED BY <3>1, <2>b, Zenon
  <2>13. ToSet(cut) = (ToSet(list) \ {b}) \cup Pieces(b, base, end, a)
    BY <2>4, <2>10, <2>11, <2>12, Zenon
  <2>14. ASSUME NEW x \in ToSet(list), x.base < end, end <= x.end
         PROVE  x = b
    <3>1. SUFFICES ASSUME x # b PROVE FALSE
      OBVIOUS
    <3>2. x \in Blk /\ (x.end + 1 <= b.base \/ b.end + 1 <= x.base)
      BY <2>2, <3>1, SpreadApart
    <3>3. x.base \in Nat /\ x.end \in Nat
      BY <3>2, BlkNat
    <3> QED BY <2>14, <2>b, <2>n, <3>2, <3>3
  <2>15. \A x \in ToSet(list) : x.base < end /\ end <= x.end =>
                 ToSet(cut) = (ToSet(list) \ {x}) \cup Pieces(x, base, end, a)
    BY <2>13, <2>14, Zenon
  <2> QED BY <2>6, <2>9, <2>15, <1>4, <1>6 DEF cut
<1> QED BY <1>5, <1>6

\* The blocks from k to m - 1 give way to w, of which they are part.
LEMMA SplicedHull ==
  ASSUME NEW list \in Seq(Blk), Spread(list, 1), NEW n \in Blk, n.base < n.end,
         NEW k \in 1 .. Len(list) + 1, NEW m \in k .. Len(list) + 1, NEW w \in Blk,
         w.base <= n.base, n.end <= w.end,
         \A i \in 1 .. k - 1 : list[i].end < n.base,
         \A i \in m .. Len(list) : n.end < list[i].base,
         \A i \in k .. m - 1 : Touch(list[i], n) /\ w.base <= list[i].base /\ list[i].end <= w.end,
         w.base = n.base \/ (k < m /\ w.base = list[k].base),
         w.end = n.end \/ (k < m /\ w.end = list[m - 1].end)
  PROVE  LET t == Splice(list, k, <<w>>, m)
         IN /\ t \in Seq(Blk) /\ Spread(t, 1)
            /\ Hull(ToSet(list), n, w)
            /\ ToSet(t) = {x \in ToSet(list) : ~Touch(x, n)} \cup {w}
<1> DEFINE t == Splice(list, k, <<w>>, m)
<1>n. /\ Len(list) \in Nat /\ DOMAIN list = 1 .. Len(list)
      /\ w.base \in Nat /\ w.end \in Nat /\ n.base \in Nat /\ n.end \in Nat
  BY BlkNat
<1>b. \A i \in 1 .. Len(list) : /\ list[i] \in Blk /\ list[i].base \in Nat /\ list[i].end \in Nat
                                /\ list[i].base < list[i].end
  <2>1. \A i \in 1 .. Len(list) : list[i] \in Blk
    OBVIOUS
  <2> QED BY <2>1, <1>n, BlkNat DEF Spread
<1>w. /\ <<w>> \in Seq(Blk) /\ DOMAIN <<w>> = {1} /\ <<w>>[1] = w /\ ToSet(<<w>>) = {w}
      /\ Spread(<<w>>, 1)
  BY OneBlk, <1>n
<1>1. t \in Seq(Blk)
  BY <1>w, SpliceBlk
<1>2. \A i \in 1 .. k - 1 : list[i].end + 1 <= w.base
  <2>1. CASE w.base = n.base
    BY <2>1, <1>b, <1>n
  <2>2. CASE k < m /\ w.base = list[k].base
    BY <2>2, <1>n DEF Spread
  <2> QED BY <2>1, <2>2
<1>3. \A i \in m .. Len(list) : w.end + 1 <= list[i].base
  <2>1. CASE w.end = n.end
    BY <2>1, <1>b, <1>n
  <2>2. CASE k < m /\ w.end = list[m - 1].end
    <3> DEFINE l == m - 1
    <3>1. l \in 1 .. Len(list) /\ \A i \in m .. Len(list) : i \in 1 .. Len(list) /\ l < i
      BY <2>2, <1>n
    <3>2. w.end = list[l].end
      BY <2>2
    <3> HIDE DEF l
    <3> QED BY <3>1, <3>2, <1>n DEF Spread
  <2> QED BY <2>1, <2>2
<1>4. Spread(t, 1)
  <2>1. /\ \A i \in 1 .. k - 1 : \A j \in DOMAIN <<w>> : list[i].end + 1 <= <<w>>[j].base
        /\ \A i \in m .. Len(list) : \A j \in DOMAIN <<w>> : <<w>>[j].end + 1 <= list[i].base
    BY <1>2, <1>3, <1>w
  <2> QED BY <2>1, <1>w, SpliceSpread
<1>5. \A i \in 1 .. Len(list) : Touch(list[i], n) <=> i \in k .. m - 1
  <2>1. ASSUME NEW i \in 1 .. Len(list) PROVE Touch(list[i], n) <=> i \in k .. m - 1
    <3>1. CASE i \in k .. m - 1
      BY <3>1
    <3>2. CASE i < k
      <4>1. list[i].end < n.base
        BY <3>2
      <4> QED BY <3>2, <4>1, <1>b, <1>n DEF Touch
    <3>3. CASE i >= m
      <4>1. n.end < list[i].base
        BY <3>3
      <4> QED BY <3>3, <4>1, <1>b, <1>n DEF Touch
    <3> QED BY <3>1, <3>2, <3>3
  <2> QED BY <2>1
<1>6. ToSet(list) \ {list[i] : i \in k .. m - 1} = {x \in ToSet(list) : ~Touch(x, n)}
  <2>1. ToSet(list) = {list[i] : i \in 1 .. Len(list)}
    BY <1>n DEF ToSet
  <2>2. k .. m - 1 \subseteq 1 .. Len(list)
    BY <1>n
  <2> QED BY <1>5, <2>1, <2>2, Zenon
<1>7. ToSet(t) = {list[i] : i \in 1 .. k - 1} \cup {w} \cup {list[i] : i \in m .. Len(list)}
  <2>1. ASSUME NEW mid \in Seq(Blk)
        PROVE  ToSet(Splice(list, k, mid, m)) =
                 {list[i] : i \in 1 .. k - 1} \cup ToSet(mid) \cup {list[i] : i \in m .. Len(list)}
    BY SpliceSet
  <2> QED BY <2>1, <1>w, Zenon
<1>8. {list[i] : i \in 1 .. k - 1} \cup {list[i] : i \in m .. Len(list)}
           = ToSet(list) \ {list[i] : i \in k .. m - 1}
  BY OthersIs
<1>9. ToSet(t) = {x \in ToSet(list) : ~Touch(x, n)} \cup {w}
  BY <1>6, <1>7, <1>8, Zenon
<1>10. Hull(ToSet(list), n, w)
  <2>1. \A g \in ToSet(list) : Touch(g, n) => w.base <= g.base /\ g.end <= w.end
    BY <1>5, <1>n DEF ToSet
  <2>2. w.base = n.base \/ \E g \in ToSet(list) : Touch(g, n) /\ g.base = w.base
    <3>1. CASE k < m /\ w.base = list[k].base
      <4>1. k \in 1 .. Len(list) /\ k \in k .. m - 1
        BY <3>1, <1>n
      <4>2. list[k] \in ToSet(list) /\ Touch(list[k], n)
        BY <4>1, <1>5, <1>n DEF ToSet
      <4> QED BY <4>2, <3>1
    <3> QED BY <3>1
  <2>3. w.end = n.end \/ \E g \in ToSet(list) : Touch(g, n) /\ g.end = w.end
    <3>1. CASE k < m /\ w.end = list[m - 1].end
      <4> DEFINE l == m - 1
      <4>1. l \in 1 .. Len(list) /\ l \in k .. m - 1
        BY <3>1, <1>n
      <4>2. list[l] \in ToSet(list) /\ Touch(list[l], n)
        BY SMTT(30), <4>1, <1>5, <1>n DEF ToSet
      <4> QED BY <4>2, <3>1
    <3> QED BY <3>1
  <2> QED BY <2>1, <2>2, <2>3 DEF Hull
<1> QED BY <1>1, <1>4, <1>9, <1>10 DEF t

\* Where add_free_blk looks for the block to update, and for the one its end reaches.
AddAt(list, base) == FirstOf({i \in 1 .. Len(list) : base <= list[i].end})
TailAt(list, k, end) == FirstOf({i \in k + 1 .. Len(list) : end <= list[i].end})
\* The block when the released one joins it from below.
Grown(blk, base, end) ==
  Block(IF base < blk.base /\ end >= blk.base THEN base ELSE blk.base, blk.end)

\* AddTo by the place it finds.
LEMMA AddGives ==
  ASSUME NEW list, NEW a, NEW base, NEW end, MakeAligned(base, a) = base, ~(base >= end)
  PROVE  LET k == AddAt(list, base)
         IN /\ k = 0 => AddTo(list, a, base, end) = AddLast(list, <<>>, a, base, end)
            /\ k # 0 /\ end > list[k].end => AddTo(list, a, base, end) = Merge(list, k, base, end)
            /\ k # 0 /\ ~(end > list[k].end) /\ end < list[k].base /\ end - base >= a =>
                 AddTo(list, a, base, end) = InsertAt(list, k, Block(base, end))
            /\ LET g == Grown(list[k], base, end)
               IN k # 0 /\ ~(end > list[k].end) /\ ~(end < list[k].base /\ end - base >= a)
                    /\ ~(g.end - g.base < a) =>
                    AddTo(list, a, base, end) = Splice(list, k, <<g>>, k + 1)
BY ZenonT(30) DEF AddTo, AddAt, FirstOf, SelectInSeq, Block, Grown, Splice

\* Merge is a splice.
LEMMA MergeIs ==
  ASSUME NEW list, NEW k, NEW base, NEW end
  PROVE  LET tail == TailAt(list, k, end)
             next == IF tail = 0 THEN Len(list) + 1 ELSE tail
             joins == tail # 0 /\ list[tail].base <= end
             blk == Block(IF base < list[k].base THEN base ELSE list[k].base,
                          IF joins THEN list[tail].end ELSE end)
         IN Merge(list, k, base, end) =
              Splice(list, k, <<blk>>, IF joins THEN next + 1 ELSE next)
BY DEF Merge, TailAt, FirstOf, SelectInSubSeq, Block, Splice

\* Append is a splice at the end.
LEMMA AppendIs ==
  ASSUME NEW list \in Seq(Blk), NEW b \in Blk
  PROVE  Append(list, b) = Splice(list, Len(list) + 1, <<b>>, Len(list) + 1)
<1> DEFINE n == Len(list)
<1>1. n \in Nat /\ (n + 1) - 1 = n
  OBVIOUS
<1>2. SubSeq(list, 1, (n + 1) - 1) = list
  BY <1>1, SubSeqFull
<1>3. SubSeq(list, n + 1, n) = <<>>
  BY <1>1, SubSeqEmpty
<1>4. Append(list, b) = list \o <<b>>
  BY AppendIsConcat
<1>5. list \o <<b>> \in Seq(Blk)
  OBVIOUS
<1>6. (list \o <<b>>) \o <<>> = list \o <<b>>
  BY <1>5, ConcatEmptySeq
<1> QED BY <1>2, <1>3, <1>4, <1>6 DEF Splice

\* Releasing an aligned block to a list in order joins it with the blocks it touches, and changes no other.
LEMMA AddList ==
  ASSUME NEW list \in Seq(Blk), Spread(list, 1), NEW a \in Nat \ {0},
         \A x \in ToSet(list) : Whole(x.base, a) /\ Whole(x.end, a),
         NEW n \in Blk, n.base < n.end, Whole(n.base, a), Whole(n.end, a)
  PROVE  LET add == AddTo(list, a, n.base, n.end)
         IN /\ add \in Seq(Blk) /\ Spread(add, 1)
            /\ \E w : /\ Hull(ToSet(list), n, w)
                      /\ ToSet(add) = {x \in ToSet(list) : ~Touch(x, n)} \cup {w}
<1> DEFINE base == n.base
           end == n.end
           add == AddTo(list, a, base, end)
           k == AddAt(list, base)
           I == {i \in 1 .. Len(list) : base <= list[i].end}
           Good(t) == /\ t \in Seq(Blk) /\ Spread(t, 1)
                      /\ \E w : /\ Hull(ToSet(list), n, w)
                                /\ ToSet(t) = {x \in ToSet(list) : ~Touch(x, n)} \cup {w}
<1>n. /\ Len(list) \in Nat /\ I \in SUBSET (1 .. Len(list)) /\ DOMAIN list = 1 .. Len(list)
      /\ base \in Nat /\ end \in Nat /\ base < end
      /\ Base \in Nat /\ Top \in Nat /\ Base <= base /\ end <= Top
  BY BlkNat, MemAssumption
<1>b. \A i \in 1 .. Len(list) : /\ list[i] \in Blk /\ list[i].base \in Nat /\ list[i].end \in Nat
                                /\ list[i].base < list[i].end
                                /\ Base <= list[i].base /\ list[i].end <= Top
                                /\ Whole(list[i].base, a) /\ Whole(list[i].end, a)
  <2>1. \A i \in 1 .. Len(list) : list[i] \in Blk
    OBVIOUS
  <2>2. \A i \in 1 .. Len(list) : list[i] \in ToSet(list)
    BY <1>n DEF ToSet
  <2> QED BY <2>1, <2>2, <1>n, BlkNat DEF Spread
<1>1. MakeAligned(base, a) = base /\ ~(base >= end)
  BY AlignedSame, <1>n
<1>2. end - base >= a
  BY <1>n, WholeGap
<1>3. k = FirstOf(I)
  BY DEF AddAt
<1>4. (k = 0 <=> I = {}) /\ (I # {} => k \in I /\ \A i \in I : k <= i)
  <2> HIDE DEF I, k
  <2> QED BY <1>3, <1>n, FirstOfIs
<1>5. ASSUME NEW p \in 1 .. Len(list) + 1, NEW m \in p .. Len(list) + 1, NEW w \in Blk,
             w.base <= base, end <= w.end,
             \A i \in 1 .. p - 1 : list[i].end < base,
             \A i \in m .. Len(list) : end < list[i].base,
             \A i \in p .. m - 1 : Touch(list[i], n) /\ w.base <= list[i].base /\ list[i].end <= w.end,
             w.base = base \/ (p < m /\ w.base = list[p].base),
             w.end = end \/ (p < m /\ w.end = list[m - 1].end)
      PROVE  Good(Splice(list, p, <<w>>, m))
  <2> DEFINE t == Splice(list, p, <<w>>, m)
  <2>1. /\ t \in Seq(Blk) /\ Spread(t, 1)
        /\ Hull(ToSet(list), n, w)
        /\ ToSet(t) = {x \in ToSet(list) : ~Touch(x, n)} \cup {w}
    BY <1>5, SplicedHull
  <2> HIDE DEF t
  <2>2. Good(t)
    BY <2>1
  <2> QED BY <2>2 DEF t
<1> HIDE DEF k
<1>6. CASE k = 0
  <2>1. add = AddLast(list, <<>>, a, base, end)
    BY <1>6, <1>1, AddGives DEF k
  <2>2. Whole(end - base, a)
    BY <1>n, WholeSum
  <2>3. AddLast(list, <<>>, a, base, end) = Append(list, Block(base, base + (end - base)))
    BY <1>1, <2>2 DEF AddLast, Whole, Block
  <2>4. base + (end - base) = end /\ Block(base, end) = n
    BY <1>n, BlkIsBlock
  <2>5. add = Append(list, n)
    BY <2>1, <2>3, <2>4
  <2>6. add = Splice(list, Len(list) + 1, <<n>>, Len(list) + 1)
    BY <2>5, AppendIs
  <2>7. \A i \in 1 .. (Len(list) + 1) - 1 : list[i].end < base
    BY SMTT(30), <1>4, <1>6, <1>n, <1>b
  <2> DEFINE q == Len(list) + 1
  <2>8. q \in 1 .. Len(list) + 1 /\ q \in q .. Len(list) + 1 /\ q .. Len(list) = {} /\ q .. q - 1 = {}
    BY <1>n
  <2> HIDE DEF add, Good
  <2>9. Good(Splice(list, q, <<n>>, q))
    <3>1. \A i \in 1 .. q - 1 : list[i].end < base
      BY <2>7
    <3> HIDE DEF q
    <3> QED BY SMTT(30), <1>5, <2>8, <3>1, <1>n
  <2> QED BY <2>6, <2>9 DEF add, Good
<1>7. CASE k # 0
  <2>0. k \in 1 .. Len(list) /\ base <= list[k].end /\ \A i \in 1 .. k - 1 : list[i].end < base
    <3> HIDE DEF add, Good, end
    <3>1. k \in 1 .. Len(list) /\ base <= list[k].end
      BY <1>4, <1>7
    <3>2. ASSUME NEW i \in 1 .. k - 1 PROVE list[i].end < base
      <4>1. i \in 1 .. Len(list) /\ ~(k <= i)
        BY <3>1, <1>n
      <4>2. ~(base <= list[i].end)
        BY <4>1, <1>4, <1>7
      <4> QED BY <4>1, <4>2, <1>n, <1>b
    <3> QED BY <3>1, <3>2
  <2> DEFINE blk == list[k]
  <2>b. /\ blk \in Blk /\ blk.base \in Nat /\ blk.end \in Nat /\ blk.base < blk.end /\ base <= blk.end
        /\ Base <= blk.base /\ blk.end <= Top /\ Whole(blk.base, a) /\ Whole(blk.end, a)
    BY <2>0, <1>b
  <2>s. \A i \in k + 1 .. Len(list) : i \in 1 .. Len(list) /\ blk.end + 1 <= list[i].base
    BY <2>0, <1>n DEF Spread
  <2>k. k \in 1 .. Len(list) + 1 /\ k \in k .. Len(list) + 1 /\ k + 1 \in k .. Len(list) + 1
        /\ k .. k - 1 = {} /\ k .. (k + 1) - 1 = {k}
    BY <2>0, <1>n
  <2>1. CASE end > blk.end
    <3> DEFINE J == {i \in k + 1 .. Len(list) : end <= list[i].end}
               tail == TailAt(list, k, end)
               next == IF tail = 0 THEN Len(list) + 1 ELSE tail
               joins == tail # 0 /\ list[tail].base <= end
               w == Block(IF base < blk.base THEN base ELSE blk.base,
                          IF joins THEN list[tail].end ELSE end)
               m == IF joins THEN next + 1 ELSE next
    <3>1. add = Splice(list, k, <<w>>, m)
      <4>1. add = Merge(list, k, base, end)
        BY ZenonT(30), <1>1, <1>7, <2>1, AddGives DEF k
      <4>2. Merge(list, k, base, end) = Splice(list, k, <<w>>, m)
        BY MergeIs
      <4> QED BY <4>1, <4>2
    <3>2. tail = FirstOf(J) /\ J \in SUBSET (1 .. Len(list))
      BY <2>s DEF TailAt
    <3>3. (tail = 0 <=> J = {}) /\ (J # {} => tail \in J /\ \A i \in J : tail <= i)
      <4> HIDE DEF J, tail
      <4> QED BY <3>2, <1>n, FirstOfIs
    <3> HIDE DEF tail
    <3>4. /\ next \in k + 1 .. Len(list) + 1
          /\ \A i \in k + 1 .. next - 1 : list[i].end < end
          /\ tail # 0 => tail = next /\ tail \in k + 1 .. Len(list) /\ end <= list[tail].end
          /\ tail = 0 => next = Len(list) + 1
      <4>1. CASE J = {}
        <5>1. tail = 0 /\ next = Len(list) + 1
          BY <4>1, <3>3
        <5>2. \A i \in k + 1 .. Len(list) : ~(end <= list[i].end)
          BY <4>1
        <5>3. \A i \in k + 1 .. Len(list) : list[i].end < end
          BY <5>2, <2>s, <1>b, <1>n
        <5> QED BY <5>1, <5>3, <2>0, <1>n
      <4>2. CASE J # {}
        <5>1. tail \in J /\ tail # 0 /\ next = tail /\ \A i \in J : tail <= i
          BY <4>2, <3>3
        <5>2. tail \in k + 1 .. Len(list) /\ end <= list[tail].end
          BY <5>1
        <5>3. ASSUME NEW i \in k + 1 .. next - 1 PROVE list[i].end < end
          <6>1. i \in k + 1 .. Len(list) /\ i < tail
            BY <5>1, <5>2, <2>0, <1>n
          <6>2. i \notin J
            BY <5>1, <6>1
          <6>3. ~(end <= list[i].end)
            BY <6>1, <6>2
          <6> QED BY <6>1, <6>3, <2>s, <1>b, <1>n
        <5> QED BY <5>1, <5>2, <5>3, <2>0, <1>n
      <4> QED BY <4>1, <4>2
    <3> HIDE DEF next, J
    <3>5. \A i \in next + 1 .. Len(list) : end < list[i].base
      <4>1. CASE tail = 0
        BY <4>1, <3>4, <1>n
      <4>2. CASE tail # 0
        <5>1. \A i \in next + 1 .. Len(list) : i \in 1 .. Len(list) /\ list[tail].end + 1 <= list[i].base
          BY <4>2, <3>4, <2>0, <1>n DEF Spread
        <5>2. tail \in 1 .. Len(list)
          BY <4>2, <3>4, <2>0, <1>n
        <5> QED BY <5>1, <5>2, <4>2, <3>4, <1>n, <1>b
      <4> QED BY <4>1, <4>2
    <3>6. joins => /\ next \in k + 1 .. Len(list) /\ m = next + 1
                   /\ list[next].base <= end /\ end <= list[next].end
      BY <3>4
    <3>7. ~joins => m = next /\ (next <= Len(list) => end < list[next].base)
      <4>1. SUFFICES ASSUME ~joins PROVE next <= Len(list) => end < list[next].base
        BY <3>4
      <4>2. CASE tail = 0
        BY <4>2, <3>4, <1>n
      <4>3. CASE tail # 0
        <5>1. tail = next /\ next \in 1 .. Len(list)
          BY <4>3, <3>4, <2>0, <1>n
        <5> QED BY <4>1, <4>3, <5>1, <1>b, <1>n
      <4> QED BY <4>2, <4>3
    <3>8. /\ w.base = (IF base < blk.base THEN base ELSE blk.base)
          /\ w.end = (IF joins THEN list[next].end ELSE end)
      BY BlockIs, <3>4
    <3>9. w \in Blk
      <4>1. joins => next \in 1 .. Len(list)
        BY <3>6, <2>0, <1>n
      <4>2. joins => list[next].end \in Nat /\ list[next].end <= Top /\ Base <= list[next].end
        BY <4>1, <1>b, <1>n
      <4> QED BY SMTT(30), <3>4, <4>2, <2>b, <1>n, BlockIs
    <3> HIDE DEF w, joins, m
    <3>10. m \in k .. Len(list) + 1 /\ k < m
      BY <3>4, <3>6, <3>7, <2>0, <1>n
    <3>11. w.base <= base /\ end <= w.end /\ w.base \in Nat /\ w.end \in Nat /\ w.base <= blk.base
      BY <3>8, <3>9, <3>6, <2>b, <1>n, BlkNat
    <3>12. \A i \in m .. Len(list) : end < list[i].base
      <4>1. CASE joins
        BY <4>1, <3>5, <3>6
      <4>2. CASE ~joins
        <5>1. \A i \in m .. Len(list) : i = next \/ i \in next + 1 .. Len(list)
          BY <4>2, <3>4, <3>7, <1>n
        <5> QED BY <4>2, <5>1, <3>5, <3>7, <1>n
      <4> QED BY <4>1, <4>2
    <3>13. \A i \in k .. m - 1 : Touch(list[i], n) /\ w.base <= list[i].base /\ list[i].end <= w.end
      <4>1. ASSUME NEW i \in k .. m - 1
            PROVE  Touch(list[i], n) /\ w.base <= list[i].base /\ list[i].end <= w.end
        <5>0. i \in 1 .. Len(list)
          BY <3>10, <2>0, <1>n
        <5>1. i = k \/ i \in k + 1 .. next - 1 \/ (joins /\ i = next)
          BY <3>4, <3>6, <3>7, <3>10, <2>0, <1>n
        <5>2. CASE i = k
          BY <5>2, <2>b, <2>1, <3>11, <1>n DEF Touch
        <5>3. CASE i \in k + 1 .. next - 1
          <6>1. list[i].end < end /\ blk.end + 1 <= list[i].base
            BY <5>3, <5>0, <3>4, <2>s, <1>n
          <6> QED BY SMTT(30), <6>1, <5>0, <1>b, <2>b, <3>11, <1>n DEF Touch
        <5>4. CASE joins /\ i = next
          <6>1. blk.end + 1 <= list[i].base
            BY <5>4, <3>6, <2>s
          <6> QED BY SMTT(30), <6>1, <5>0, <5>4, <1>b, <2>b, <3>6, <3>8, <3>11, <1>n DEF Touch
        <5> QED BY <5>1, <5>2, <5>3, <5>4
      <4> QED BY <4>1
    <3>14. w.base = base \/ (k < m /\ w.base = list[k].base)
      BY <3>8, <3>10
    <3>15. w.end = end \/ (k < m /\ w.end = list[m - 1].end)
      <4>1. joins => m - 1 = next
        BY <3>6
      <4> QED BY <4>1, <3>8, <3>10
    <3> HIDE DEF Good, add
    <3>16. Good(Splice(list, k, <<w>>, m))
      BY <1>5, <2>k, <2>0, <3>9, <3>10, <3>11, <3>12, <3>13, <3>14, <3>15
    <3> QED BY <3>1, <3>16 DEF Good, add
  <2>2. CASE ~(end > blk.end) /\ end < blk.base
    <3>1. add = InsertAt(list, k, Block(base, end))
      BY ZenonT(30), <1>1, <1>2, <1>7, <2>2, AddGives DEF k
    <3>2. Block(base, end) = n
      BY BlkIsBlock
    <3>3. add = Splice(list, k, <<n>>, k)
      BY <3>1, <3>2 DEF InsertAt, Splice
    <3>4. \A i \in k .. Len(list) : end < list[i].base
      <4>1. \A i \in k .. Len(list) : i = k \/ i \in k + 1 .. Len(list)
        BY <2>0, <1>n
      <4> QED BY SMTT(30), <4>1, <2>2, <2>s, <2>b, <1>n, <1>b
    <3> HIDE DEF Good, add
    <3>5. Good(Splice(list, k, <<n>>, k))
      BY <1>5, <2>k, <2>0, <3>4, <1>n
    <3> QED BY <3>3, <3>5 DEF Good, add
  <2>3. CASE ~(end > blk.end) /\ ~(end < blk.base)
    <3> DEFINE g == Grown(blk, base, end)
    <3>1. /\ g.base = (IF base < blk.base THEN base ELSE blk.base)
          /\ g.end = blk.end
      BY BlockIs, <2>3, <2>b, <1>n DEF Grown
    <3>2. g \in Blk
      BY BlockIs, <2>b, <1>n DEF Grown
    <3>3. g.base \in Nat /\ g.end \in Nat
      BY <3>2, BlkNat
    <3> HIDE DEF g
    <3>4. Whole(g.base, a) /\ Whole(g.end, a) /\ g.base < g.end
      BY <3>1, <2>b, <1>n
    <3>5. g.end - g.base >= a
      BY <3>3, <3>4, WholeGap
    <3>6. add = Splice(list, k, <<g>>, k + 1)
      BY <1>1, <1>7, <2>3, <3>5, <3>3, AddGives DEF k, g
    <3>7. \A i \in k + 1 .. Len(list) : end < list[i].base
      BY <2>s, <2>3, <2>b, <1>b, <1>n
    <3>8. Touch(list[k], n) /\ g.base <= list[k].base /\ list[k].end <= g.end
      BY <3>1, <2>3, <2>b, <1>n DEF Touch
    <3>9. \A i \in k .. (k + 1) - 1 : Touch(list[i], n) /\ g.base <= list[i].base /\ list[i].end <= g.end
      BY <3>8, <2>k
    <3>10. g.base <= base /\ end <= g.end
      BY <3>1, <2>3, <2>b, <1>n
    <3>11. g.base = base \/ (k < k + 1 /\ g.base = list[k].base)
      BY <3>1, <2>0
    <3>12. g.end = list[k].end /\ k < k + 1 /\ (k + 1) - 1 = k
      BY <3>1, <2>0
    <3> HIDE DEF Good, add
    <3>13. Good(Splice(list, k, <<g>>, k + 1))
      BY <1>5, <2>k, <2>0, <3>2, <3>7, <3>9, <3>10, <3>11, <3>12
    <3> QED BY <3>6, <3>13 DEF Good, add
  <2> QED BY <2>1, <2>2, <2>3
<1> QED BY <1>6, <1>7

\* What the list of alignment a has of a gap, if it is as long as the alignment.
Entry(a, g) == Block(MakeAligned(g.base, a), g.end)
Entries(a, G) == {b \in {Entry(a, g) : g \in G} : b.end - b.base >= a}

\* The entry of a gap in the list of an alignment is the gap from its aligned base on.
LEMMA EntryIs ==
  ASSUME NEW a \in Nat \ {0}, NEW g \in Blk
  PROVE  /\ Entry(a, g).base = MakeAligned(g.base, a) /\ Entry(a, g).end = g.end
         /\ Entry(a, g).base \in Nat /\ Entry(a, g).end \in Nat
         /\ g.base <= Entry(a, g).base
<1>1. g.base \in Nat /\ g.end \in Nat
  BY BlkNat
<1>2. MakeAligned(g.base, a) \in Nat /\ MakeAligned(g.base, a) >= g.base
  BY <1>1, Aligned
<1>3. Entry(a, g).base = MakeAligned(g.base, a) /\ Entry(a, g).end = g.end
  BY BlockIs DEF Entry
<1> QED BY <1>1, <1>2, <1>3

\* Different gaps have different entries.
LEMMA EntryOnce ==
  ASSUME NEW B, Sane(B), NEW a \in Nat \ {0}, NEW g \in GapsOf(B), NEW h \in GapsOf(B),
         g.end = h.end
  PROVE  g = h
<1>1. g \in Blk /\ h \in Blk /\ g.base < g.end /\ h.base < h.end
  BY DEF GapsOf
<1>2. g.base \in Nat /\ g.end \in Nat /\ h.base \in Nat /\ h.end \in Nat
  BY <1>1, BlkNat
<1>3. SUFFICES ASSUME g # h PROVE FALSE
  OBVIOUS
<1>4. g.end < h.base \/ h.end < g.base
  BY <1>3, GapsApart
<1> QED BY <1>1, <1>2, <1>4

\* Cutting [n.base, n.end) out of the list is what taking it from its gap does.
LEMMA TakeEntries ==
  ASSUME NEW B, Sane(B), NEW g \in GapsOf(B), NEW n \in Blk,
         g.base <= n.base, n.base < n.end, n.end <= g.end,
         NEW a \in Nat \ {0}, NEW list \in Seq(Blk), Spread(list, 1),
         ToSet(list) = Entries(a, GapsOf(B))
  PROVE  LET cut == Cut(list, a, n.base, n.end)
         IN /\ cut \in Seq(Blk) /\ Spread(cut, 1)
            /\ ToSet(cut) = Entries(a, GapsOf(B \cup {n}))
<1> DEFINE base == n.base
           end == n.end
           e == Entry(a, g)
           G == GapsOf(B)
           cut == Cut(list, a, base, end)
           up == MakeAligned(g.base, a)
           upe == MakeAligned(end, a)
           b == Block(up, base)
           c == Block(upe, g.end)
           P == {p \in {b, c} : p.end - p.base >= a}
           long(x) == x.end - x.base >= a
<1>n. /\ g \in Blk /\ g.base \in Nat /\ g.end \in Nat /\ base \in Nat /\ end \in Nat
  BY BlkNat DEF GapsOf
<1>u. /\ up \in Nat /\ g.base <= up /\ upe \in Nat /\ end <= upe /\ up <= upe
  <2>1. up \in Nat /\ g.base <= up /\ upe \in Nat /\ end <= upe /\ Whole(upe, a)
    BY <1>n, Aligned
  <2>2. up <= upe
    BY <1>n, <2>1, AlignedLeast
  <2> QED BY <2>1, <2>2
<1>e. e.base = up /\ e.end = g.end
  BY <1>n, EntryIs
<1>bc. b.base = up /\ b.end = base /\ c.base = upe /\ c.end = g.end
  BY BlockIs
<1>p. Pieces(e, base, end, a) = P
  BY <1>e DEF Pieces
<1>1. /\ cut \in Seq(Blk) /\ Spread(cut, 1)
      /\ (\A x \in ToSet(list) : ~(x.base < end /\ end <= x.end)) => cut = list
      /\ \A x \in ToSet(list) : x.base < end /\ end <= x.end =>
                 ToSet(cut) = (ToSet(list) \ {x}) \cup Pieces(x, base, end, a)
  <2>1. ASSUME NEW x \in Nat, NEW y \in Nat, x < y, NEW r, r = Cut(list, a, x, y)
        PROVE  /\ r \in Seq(Blk) /\ Spread(r, 1)
               /\ (\A z \in ToSet(list) : ~(z.base < y /\ y <= z.end)) => r = list
               /\ \A z \in ToSet(list) : z.base < y /\ y <= z.end =>
                    ToSet(r) = (ToSet(list) \ {z}) \cup Pieces(z, x, y, a)
    BY <2>1, CutList
  <2> HIDE DEF cut
  <2>2. cut = Cut(list, a, base, end)
    BY DEF cut
  <2> QED BY <2>1, <2>2, <1>n
<1>2. ASSUME NEW x \in ToSet(list), x.base < end, end <= x.end PROVE x = e
  <2>1. PICK h \in G : x = Entry(a, h)
    BY DEF Entries
  <2>2. h \in Blk /\ h.base \in Nat /\ h.end \in Nat
    BY BlkNat DEF GapsOf
  <2>3. h.base <= x.base /\ x.end = h.end /\ x.base \in Nat
    BY <2>1, <2>2, EntryIs
  <2>4. ASSUME h # g PROVE FALSE
    <3>1. h.end < g.base \/ g.end < h.base
      BY <2>4, GapsApart
    <3> QED BY <3>1, <1>2, <2>2, <2>3, <1>n
  <2> QED BY <2>1, <2>4
<1>3. GapsOf(B \cup {n}) = (G \ {g}) \cup Halves(g, n)
  BY GapsTake
<1> HIDE DEF e, G, cut, up, upe, b, c, P
<1>4. Entries(a, G \ {g}) = Entries(a, G) \ {e}
  <2>1. ASSUME NEW h \in G, h # g PROVE Entry(a, h) # e
    <3>1. h \in Blk
      BY DEF G, GapsOf
    <3>2. Entry(a, h).end = h.end
      BY <3>1, EntryIs
    <3>3. h.end # g.end
      BY <2>1, EntryOnce DEF G
    <3> QED BY <3>2, <3>3, <1>e
  <2>2. Entry(a, g) = e
    BY DEF e
  <2> QED BY <2>1, <2>2 DEF Entries
<1>5. Entries(a, Halves(g, n)) = P
  <2> DEFINE h1 == Block(g.base, base)
             h2 == Block(end, g.end)
  <2>1. h1.base = g.base /\ h1.end = base /\ h2.base = end /\ h2.end = g.end
    BY BlockIs
  <2>2. Entry(a, h1) = b /\ Entry(a, h2) = c
    BY <2>1 DEF Entry, b, c, up, upe
  <2>3. Halves(g, n) = {x \in {h1, h2} : x.base < x.end}
    BY DEF Halves
  <2>4. (b.end - b.base >= a) => h1.base < h1.end
    BY <2>1, <1>bc, <1>u, <1>n
  <2>5. (c.end - c.base >= a) => h2.base < h2.end
    BY <2>1, <1>bc, <1>u, <1>n
  <2> HIDE DEF h1, h2
  <2> QED BY <2>2, <2>3, <2>4, <2>5 DEF Entries, P
<1>6. Entries(a, GapsOf(B \cup {n})) = (Entries(a, G) \ {e}) \cup P
  <2>1. Entries(a, (G \ {g}) \cup Halves(g, n)) = Entries(a, G \ {g}) \cup Entries(a, Halves(g, n))
    BY DEF Entries
  <2> QED BY <1>3, <1>4, <1>5, <2>1
<1>L. ToSet(list) = Entries(a, G)
  BY DEF G
<1>7. CASE e \in ToSet(list) /\ e.base < end
  <2>1. e.base < end /\ end <= e.end
    BY <1>7, <1>e
  <2>2. ToSet(cut) = (ToSet(list) \ {e}) \cup P
    BY <1>1, <1>7, <2>1, <1>p
  <2> QED BY <1>1, <1>6, <2>2, <1>L DEF cut
<1>8. CASE ~(e \in ToSet(list) /\ e.base < end)
  <2>1. cut = list
    BY <1>1, <1>2, <1>8
  <2>2. CASE e \notin ToSet(list)
    <3>1. e \in {Entry(a, h) : h \in G}
      BY DEF e, G
    <3>2. ~(e.end - e.base >= a)
      BY <2>2, <3>1, <1>L DEF Entries
    <3>3. ~(b.end - b.base >= a) /\ ~(c.end - c.base >= a)
      BY <3>2, <1>e, <1>bc, <1>u, <1>n
    <3>4. P = {}
      BY <3>3 DEF P
    <3>5. Entries(a, GapsOf(B \cup {n})) = ToSet(list)
      BY <1>6, <3>4, <2>2, <1>L
    <3> QED BY <2>1, <3>5, <1>1 DEF cut
  <2>3. CASE e \in ToSet(list) /\ ~(e.base < end)
    <3>1. e.end - e.base >= a
      BY <2>3, <1>L DEF Entries
    <3>2. upe = up
      <4>1. g.base <= end /\ end <= MakeAligned(g.base, a)
        BY <2>3, <1>e, <1>n, <1>u DEF up
      <4> QED BY <4>1, <1>n, AlignedOver DEF up, upe
    <3>3. c = e
      BY <3>2 DEF c, e, Entry, up
    <3>4. ~(b.end - b.base >= a)
      BY <2>3, <1>e, <1>bc, <1>u, <1>n
    <3>5. P = {e}
      BY <3>1, <3>3, <3>4 DEF P
    <3>6. Entries(a, GapsOf(B \cup {n})) = ToSet(list)
      BY <1>6, <3>5, <2>3, <1>L
    <3> QED BY <2>1, <3>6, <1>1 DEF cut
  <2> QED BY <2>2, <2>3, <1>8
<1> QED BY <1>7, <1>8

\* Blocks in order are disjoint.
LEMMA SpreadSane ==
  ASSUME NEW s \in Seq(Blk), Spread(s, 0)
  PROVE  Sane(ToSet(s))
<1>1. \A i \in DOMAIN s : s[i] \in Blk
  OBVIOUS
<1>2. ToSet(s) \subseteq Blk /\ \A c \in ToSet(s) : c.base < c.end
  BY <1>1 DEF ToSet, Spread
<1>3. ASSUME NEW c \in ToSet(s), NEW d \in ToSet(s), c # d PROVE Disjoint(c, d)
  <2>1. c.end + 0 <= d.base \/ d.end + 0 <= c.base
    BY <1>3, SpreadApart
  <2>2. c.base \in Nat /\ c.end \in Nat /\ d.base \in Nat /\ d.end \in Nat
    BY <1>2, BlkNat
  <2> QED BY <2>1, <2>2 DEF Disjoint
<1> QED BY <1>2, <1>3 DEF Sane

\* Where add_busy_blk puts a block.
BusyAt(base) == FirstOf({i \in 1 .. Len(busy) : busy[i].base >= base})

\* AddBusy keeps the busy list in order and adds the one block.
LEMMA AddBusyIs ==
  ASSUME busy \in Seq(Blk), Spread(busy, 0), NEW n \in Blk, n.base < n.end,
         \A x \in ToSet(busy) : Disjoint(x, n)
  PROVE  /\ AddBusy(n) \in Seq(Blk) /\ Spread(AddBusy(n), 0)
         /\ ToSet(AddBusy(n)) = ToSet(busy) \cup {n}
<1> DEFINE k == BusyAt(n.base)
           I == {i \in 1 .. Len(busy) : busy[i].base >= n.base}
           q == IF k = 0 THEN Len(busy) + 1 ELSE k
<1>n. /\ Len(busy) \in Nat /\ I \in SUBSET (1 .. Len(busy)) /\ DOMAIN busy = 1 .. Len(busy)
      /\ n.base \in Nat /\ n.end \in Nat
  BY BlkNat
<1>b. \A i \in 1 .. Len(busy) : /\ busy[i] \in Blk /\ busy[i].base \in Nat /\ busy[i].end \in Nat
                                /\ busy[i].base < busy[i].end /\ Disjoint(busy[i], n)
  <2>1. \A i \in 1 .. Len(busy) : busy[i] \in Blk
    OBVIOUS
  <2>2. \A i \in 1 .. Len(busy) : busy[i] \in ToSet(busy)
    BY <1>n DEF ToSet
  <2> QED BY <2>1, <2>2, <1>n, BlkNat DEF Spread
<1>1. AddBusy(n) = IF k = 0 THEN Append(busy, n) ELSE InsertAt(busy, k, n)
  BY DEF AddBusy, BusyAt, FirstOf, SelectInSeq
<1>2. k = FirstOf(I)
  BY DEF BusyAt
<1>3. (k = 0 <=> I = {}) /\ (I # {} => k \in I /\ \A i \in I : k <= i)
  <2> HIDE DEF I, k
  <2> QED BY <1>2, <1>n, FirstOfIs
<1> HIDE DEF k
<1>4. AddBusy(n) = Splice(busy, q, <<n>>, q)
  <2>1. CASE k = 0
    BY <2>1, <1>1, AppendIs
  <2>2. CASE k # 0
    BY <2>2, <1>1 DEF InsertAt, Splice
  <2> QED BY <2>1, <2>2
<1>5. q \in 1 .. Len(busy) + 1 /\ q \in q .. Len(busy) + 1 /\ q .. q - 1 = {}
  BY <1>3, <1>n
<1>6. \A i \in 1 .. q - 1 : busy[i].end + 0 <= n.base
  <2>1. ASSUME NEW i \in 1 .. q - 1 PROVE busy[i].end + 0 <= n.base
    <3>1. i \in 1 .. Len(busy) /\ i \notin I
      BY <1>3, <1>5, <1>n
    <3>2. ~(busy[i].base >= n.base)
      BY <3>1
    <3> QED BY <3>1, <3>2, <1>b, <1>n DEF Disjoint
  <2> QED BY <2>1
<1>7. \A i \in q .. Len(busy) : n.end + 0 <= busy[i].base
  <2>1. ASSUME NEW i \in q .. Len(busy) PROVE n.end + 0 <= busy[i].base
    <3>1. k # 0 /\ q = k /\ k \in 1 .. Len(busy) /\ busy[k].base >= n.base /\ i \in 1 .. Len(busy)
      BY <1>3, <1>5, <1>n
    <3>2. busy[i].base >= n.base
      <4>1. CASE i = k
        BY <4>1, <3>1
      <4>2. CASE i # k
        <5>1. k < i
          BY <4>2, <3>1
        <5>2. busy[k].end + 0 <= busy[i].base
          BY <5>1, <3>1, <1>n DEF Spread
        <5> QED BY <5>2, <3>1, <1>b, <1>n
      <4> QED BY <4>1, <4>2
    <3> QED BY <3>1, <3>2, <1>b, <1>n DEF Disjoint
  <2> QED BY <2>1
<1> HIDE DEF q
<1>8. /\ <<n>> \in Seq(Blk) /\ DOMAIN <<n>> = {1} /\ <<n>>[1] = n /\ ToSet(<<n>>) = {n} /\ Spread(<<n>>, 0)
  BY OneBlk
<1>9. Splice(busy, q, <<n>>, q) \in Seq(Blk)
  BY <1>5, <1>8, SpliceBlk
<1>10. Spread(Splice(busy, q, <<n>>, q), 0)
  <2>1. /\ \A i \in 1 .. q - 1 : \A j \in DOMAIN <<n>> : busy[i].end + 0 <= <<n>>[j].base
        /\ \A i \in q .. Len(busy) : \A j \in DOMAIN <<n>> : <<n>>[j].end + 0 <= busy[i].base
    BY <1>6, <1>7, <1>8
  <2> QED BY <2>1, <1>5, <1>8, SpliceSpread
<1>11. ToSet(Splice(busy, q, <<n>>, q)) = ToSet(busy) \cup {n}
  <2>1. ASSUME NEW mid \in Seq(Blk)
        PROVE  ToSet(Splice(busy, q, mid, q)) =
                 {busy[i] : i \in 1 .. q - 1} \cup ToSet(mid) \cup {busy[i] : i \in q .. Len(busy)}
    BY <1>5, SpliceSet
  <2>2. {busy[i] : i \in 1 .. q - 1} \cup {busy[i] : i \in q .. Len(busy)}
           = ToSet(busy) \ {busy[i] : i \in q .. q - 1}
    BY <1>5, OthersIs
  <2>3. {busy[i] : i \in q .. q - 1} = {}
    BY <1>5
  <2> QED BY <2>1, <2>2, <2>3, <1>8, Zenon
<1> QED BY <1>4, <1>9, <1>10, <1>11

\* Removing a busy block keeps the list in order and takes the one block away.
LEMMA RemoveBusyIs ==
  ASSUME busy \in Seq(Blk), Spread(busy, 0), NEW k \in 1 .. Len(busy)
  PROVE  /\ RemoveAt(busy, k) \in Seq(Blk) /\ Spread(RemoveAt(busy, k), 0)
         /\ ToSet(RemoveAt(busy, k)) = ToSet(busy) \ {busy[k]}
<1>n. Len(busy) \in Nat /\ DOMAIN busy = 1 .. Len(busy)
  OBVIOUS
<1>1. k \in 1 .. Len(busy) + 1 /\ k + 1 \in k .. Len(busy) + 1 /\ k .. (k + 1) - 1 = {k}
  BY <1>n
<1> DEFINE A == SubSeq(busy, 1, k - 1)
<1>2. A \in Seq(Blk)
  BY <1>1
<1>3. A \o <<>> = A
  BY <1>2, ConcatEmptySeq
<1>4. RemoveAt(busy, k) = Splice(busy, k, <<>>, k + 1)
  BY <1>3 DEF RemoveAt, Splice
<1>5. <<>> \in Seq(Blk) /\ DOMAIN <<>> = {} /\ ToSet(<<>>) = {} /\ Spread(<<>>, 0)
  <2>1. <<>> \in Seq(Blk) /\ DOMAIN <<>> = {}
    OBVIOUS
  <2> QED BY <2>1 DEF ToSet, Spread
<1>6. Splice(busy, k, <<>>, k + 1) \in Seq(Blk)
  BY <1>1, <1>5, SpliceBlk
<1>7. Spread(Splice(busy, k, <<>>, k + 1), 0)
  BY <1>1, <1>5, SpliceSpread
<1>8. ToSet(Splice(busy, k, <<>>, k + 1)) = ToSet(busy) \ {busy[k]}
  <2>1. ASSUME NEW mid \in Seq(Blk)
        PROVE  ToSet(Splice(busy, k, mid, k + 1)) =
                 {busy[i] : i \in 1 .. k - 1} \cup ToSet(mid) \cup {busy[i] : i \in k + 1 .. Len(busy)}
    BY <1>1, SpliceSet
  <2>2. {busy[i] : i \in 1 .. k - 1} \cup {busy[i] : i \in k + 1 .. Len(busy)}
           = ToSet(busy) \ {busy[i] : i \in k .. (k + 1) - 1}
    BY <1>1, OthersIs
  <2>3. {busy[i] : i \in k .. (k + 1) - 1} = {busy[k]}
    BY <1>1, Zenon
  <2> QED BY <2>1, <2>2, <2>3, <1>5, Zenon
<1> QED BY <1>4, <1>6, <1>7, <1>8

-----------------------------------------------------------------------------
\* The memory holds a block of the greatest alignment, aligned.
HoldsOne == Top - MakeAligned(Base, Greatest) >= Greatest

\* A client that releases has blocks of whole units of the greatest alignment, in
\* memory that is made of such units.
ReleasesAreWhole ==
  \A c \in Clients : c.puts =>
    /\ Whole(Base, Greatest) /\ Whole(Top, Greatest)
    /\ \A r \in c.requests : Whole(r.size, Greatest)

\* The memory in use.
Taken == ToSet(busy)

\* The inductive invariant: busy blocks are in order and apart, the list of each
\* alignment is in order and made of the gaps between them.
BusyOk == busy \in Seq(Blk) /\ Spread(busy, 0)
ListsOk ==
  /\ free \in [Aligns -> Seq(Blk)]
  /\ \A a \in Aligns : Spread(free[a], 1) /\ ToSet(free[a]) = Entries(a, GapsOf(Taken))
UnitsOk == client.puts => \A b \in Taken : Whole(b.base, Greatest) /\ Whole(b.end, Greatest)
IInv == client \in Clients /\ BusyOk /\ ListsOk /\ UnitsOk

\* The alignments: 1 is one, and each divides the greatest.
LEMMA AlignsAre ==
  /\ \A a \in Aligns : a \in Nat \ {0} /\ a <= Greatest /\ Whole(Greatest, a)
  /\ Greatest \in Aligns /\ 1 \in Aligns
  /\ Base \in Nat /\ Top \in Nat /\ Base < Top /\ Greatest \in Nat \ {0}
<1>1. Base \in Nat /\ Top \in Nat /\ Greatest \in Nat \ {0} /\ MakeAligned(Base, Greatest) < Top
  BY MemAssumption
<1>2. MakeAligned(Base, Greatest) \in Nat /\ MakeAligned(Base, Greatest) >= Base
  BY <1>1, Aligned
<1>3. Base < Top
  BY <1>1, <1>2
<1>4. \A a \in Aligns : a \in Nat \ {0} /\ a <= Greatest /\ Whole(Greatest, a)
  BY <1>1 DEF Aligns, Whole
<1>5. Greatest % Greatest = 0 /\ Greatest % 1 = 0
  <2>1. Whole(Greatest, Greatest) /\ Whole(Greatest, 1)
    <3>1. Greatest = 1 * Greatest /\ Greatest = Greatest * 1
      BY <1>1
    <3> QED BY <3>1, <1>1, WholeDef
  <2> QED BY <2>1 DEF Whole
<1>6. Greatest \in Aligns /\ 1 \in Aligns
  BY <1>1, <1>5 DEF Aligns
<1> QED BY <1>1, <1>3, <1>4, <1>6

\* The lists of the start are those of one gap, the whole memory.
LEMMA InitIInv ==
  ASSUME HoldsOne, Init
  PROVE  IInv
<1> DEFINE t == Block(Base, Top)
<1>0. client \in Clients /\ busy = <<>> /\ free = [a \in Aligns |-> <<Block(MakeAligned(Base, a), Top)>>]
  BY DEF Init, Block
<1>1. BusyOk /\ Taken = {} /\ UnitsOk
  <2>1. busy \in Seq(Blk) /\ DOMAIN busy = {}
    BY <1>0
  <2> QED BY <2>1 DEF BusyOk, Taken, UnitsOk, Spread, ToSet
<1>2. t.base = Base /\ t.end = Top /\ t \in Blk
  BY BlockIs, AlignsAre
<1>3. GapsOf({}) = {t}
  <2>1. t \in GapsOf({})
    BY <1>2, AlignsAre DEF GapsOf
  <2>2. ASSUME NEW g \in GapsOf({}) PROVE g = t
    <3>1. g \in Blk /\ g.base = Base /\ g.end = Top
      BY DEF GapsOf
    <3> QED BY <3>1, <1>2, BlkSame
  <2> QED BY <2>1, <2>2
<1>4. ASSUME NEW a \in Aligns
      PROVE  /\ free[a] \in Seq(Blk) /\ Spread(free[a], 1)
             /\ ToSet(free[a]) = Entries(a, GapsOf(Taken))
  <2> DEFINE e == Entry(a, t)
  <2>1. free[a] = <<e>>
    BY <1>0, <1>2 DEF Entry
  <2>2. e.base = MakeAligned(Base, a) /\ e.end = Top /\ e.base \in Nat /\ Base <= e.base
    BY <1>2, AlignsAre, EntryIs
  <2>3. e.end - e.base >= a
    <3>1. MakeAligned(Base, Greatest) \in Nat /\ MakeAligned(Base, Greatest) >= Base
          /\ Whole(MakeAligned(Base, Greatest), Greatest)
      BY AlignsAre, Aligned
    <3>2. Whole(MakeAligned(Base, Greatest), a)
      BY <3>1, AlignsAre, WholeTrans
    <3>3. MakeAligned(Base, a) <= MakeAligned(Base, Greatest)
      BY <3>1, <3>2, AlignsAre, AlignedLeast
    <3>4. a \in Nat /\ a <= Greatest
      BY AlignsAre
    <3> QED BY <2>2, <3>1, <3>3, <3>4, AlignsAre DEF HoldsOne
  <2>4. e \in Blk /\ e.base < e.end
    <3>1. Base <= Top /\ e.base <= Top /\ e.base < e.end
      BY <2>2, <2>3, AlignsAre
    <3> QED BY <2>2, <3>1, AlignsAre, BlockIs DEF Entry
  <2>5. Entries(a, {t}) = {e}
    BY <2>3 DEF Entries
  <2> HIDE DEF e
  <2> QED BY <2>1, <2>4, <2>5, <1>1, <1>3, OneBlk
<1>5. ListsOk
  <2>1. free \in [Aligns -> Seq(Blk)]
    BY <1>0, <1>4
  <2> QED BY <2>1, <1>4 DEF ListsOk
<1> QED BY <1>0, <1>1, <1>5 DEF IInv

\* In units of the greatest alignment, every list is the list of the gaps.
LEMMA WholeGaps ==
  ASSUME NEW B, Whole(Base, Greatest), Whole(Top, Greatest), B \subseteq Blk,
         \A b \in B : Whole(b.base, Greatest) /\ Whole(b.end, Greatest)
  PROVE  /\ \A g \in GapsOf(B) : Whole(g.base, Greatest) /\ Whole(g.end, Greatest)
         /\ \A a \in Aligns : Entries(a, GapsOf(B)) = GapsOf(B)
<1>1. \A g \in GapsOf(B) : Whole(g.base, Greatest) /\ Whole(g.end, Greatest)
  BY DEF GapsOf
<1>2. ASSUME NEW a \in Aligns, NEW g \in GapsOf(B)
      PROVE  Entry(a, g) = g /\ g.end - g.base >= a
  <2>1. g \in Blk /\ g.base \in Nat /\ g.end \in Nat /\ g.base < g.end
    BY BlkNat DEF GapsOf
  <2>2. a \in Nat \ {0} /\ Whole(Greatest, a) /\ Greatest \in Nat \ {0}
    BY AlignsAre
  <2>3. Whole(g.base, a) /\ Whole(g.end, a)
    BY <1>1, <2>1, <2>2, WholeTrans
  <2>4. MakeAligned(g.base, a) = g.base
    BY <2>1, <2>2, <2>3, AlignedSame
  <2>5. Entry(a, g) = g
    BY <2>1, <2>4, BlkIsBlock DEF Entry
  <2> QED BY <2>1, <2>2, <2>3, <2>5, WholeGap
<1>3. ASSUME NEW a \in Aligns PROVE Entries(a, GapsOf(B)) = GapsOf(B)
  BY <1>2 DEF Entries
<1> QED BY <1>1, <1>3

\* The place of the list that mem_mng_get finds, and get_greater_align.
Fits(r) == FirstOf({i \in 1 .. Len(free[r.align]) : free[r.align][i].end - free[r.align][i].base >= r.size})
FitsAt(r) ==
  FirstOf({i \in 1 .. Len(free[Greatest]) :
             LET up == MakeAligned(free[Greatest][i].base, r.align)
             IN up < free[Greatest][i].end /\ r.size <= free[Greatest][i].end - up})

\* Find by the place of the list.
LEMMA FindBy ==
  ASSUME NEW r
  PROVE  Find(r) =
           IF r.align \in Aligns
           THEN IF Fits(r) = 0 THEN -1 ELSE free[r.align][Fits(r)].base
           ELSE IF FitsAt(r) = 0 THEN -1 ELSE MakeAligned(free[Greatest][FitsAt(r)].base, r.align)
BY DEF Find, Fits, FitsAt, FirstOf, SelectInSeq

\* What mem_mng_get finds lies in a gap, and in a client's own units.
LEMMA FindIs ==
  ASSUME IInv, ReleasesAreWhole, NEW r \in client.requests, Find(r) # -1
  PROVE  /\ Find(r) \in Nat /\ r.size \in Nat \ {0}
         /\ \E g \in GapsOf(Taken) : g.base <= Find(r) /\ Find(r) + r.size <= g.end
         /\ client.puts => Whole(Find(r), Greatest) /\ Whole(r.size, Greatest)
<1>1. /\ r.size \in Nat \ {0} /\ r.align \in Nat \ {0}
      /\ r.align \in Aligns \/ r.align % Greatest = 0
      /\ client.puts => Whole(r.size, Greatest) /\ Whole(Base, Greatest) /\ Whole(Top, Greatest)
  BY MemAssumption DEF IInv, ReleasesAreWhole
<1>2. \A a \in Aligns : free[a] \in Seq(Blk) /\ ToSet(free[a]) = Entries(a, GapsOf(Taken))
  BY DEF IInv, ListsOk
<1>3. client.puts => \A g \in GapsOf(Taken) : Whole(g.base, Greatest)
  <2>1. Taken \subseteq Blk
    BY SpreadSane DEF IInv, BusyOk, Taken, Sane
  <2> QED BY <1>1, <2>1, WholeGaps DEF IInv, UnitsOk
<1>4. ASSUME NEW a \in Aligns, NEW i \in 1 .. Len(free[a])
      PROVE  \E g \in GapsOf(Taken) :
               /\ g \in Blk /\ g.base \in Nat /\ g.end \in Nat
               /\ g.base <= free[a][i].base /\ g.end = free[a][i].end
               /\ free[a][i].base \in Nat
               /\ Whole(g.base, Greatest) => Whole(free[a][i].base, Greatest)
  <2>0. a \in Nat \ {0} /\ Whole(Greatest, a) /\ Greatest \in Nat \ {0}
    BY AlignsAre
  <2>1. free[a][i] \in ToSet(free[a])
    BY <1>2 DEF ToSet
  <2>2. PICK g \in GapsOf(Taken) : free[a][i] = Entry(a, g)
    BY <1>2, <2>1 DEF Entries
  <2>3. g \in Blk /\ g.base \in Nat /\ g.end \in Nat
    BY BlkNat DEF GapsOf
  <2>4. /\ free[a][i].base = MakeAligned(g.base, a) /\ free[a][i].end = g.end
        /\ free[a][i].base \in Nat /\ g.base <= free[a][i].base
    BY <2>0, <2>2, <2>3, EntryIs
  <2>5. ASSUME Whole(g.base, Greatest) PROVE Whole(free[a][i].base, Greatest)
    <3>1. Whole(g.base, a)
      BY <2>0, <2>3, <2>5, WholeTrans
    <3>2. MakeAligned(g.base, a) = g.base
      BY <2>0, <2>3, <3>1, AlignedSame
    <3> QED BY <2>4, <2>5, <3>2
  <2> QED BY <2>3, <2>4, <2>5
<1>5. CASE r.align \in Aligns
  <2> DEFINE a == r.align
             I == {i \in 1 .. Len(free[a]) : free[a][i].end - free[a][i].base >= r.size}
             k == Fits(r)
  <2>1. k = FirstOf(I) /\ Len(free[a]) \in Nat /\ I \in SUBSET (1 .. Len(free[a]))
    BY <1>2, <1>5 DEF Fits
  <2>2. k # 0 /\ Find(r) = free[a][k].base
    BY <1>5, FindBy
  <2>3. k \in I
    <3> HIDE DEF I, k
    <3> QED BY <2>1, <2>2, FirstOfIs
  <2> HIDE DEF k
  <2>4. k \in 1 .. Len(free[a]) /\ free[a][k].end - free[a][k].base >= r.size
    BY <2>3
  <2>5. PICK g \in GapsOf(Taken) :
               /\ g \in Blk /\ g.base \in Nat /\ g.end \in Nat
               /\ g.base <= free[a][k].base /\ g.end = free[a][k].end
               /\ free[a][k].base \in Nat
               /\ Whole(g.base, Greatest) => Whole(free[a][k].base, Greatest)
    BY <1>4, <1>5, <2>4
  <2>6. g.base <= Find(r) /\ Find(r) + r.size <= g.end /\ Find(r) \in Nat
    BY <2>2, <2>4, <2>5, <1>1
  <2> QED BY <2>2, <2>5, <2>6, <1>1, <1>3
<1>6. CASE r.align \notin Aligns
  <2> DEFINE a == Greatest
             I == {i \in 1 .. Len(free[a]) :
                     LET up == MakeAligned(free[a][i].base, r.align)
                     IN up < free[a][i].end /\ r.size <= free[a][i].end - up}
             k == FitsAt(r)
  <2>0. a \in Aligns
    BY AlignsAre
  <2>1. k = FirstOf(I) /\ Len(free[a]) \in Nat /\ I \in SUBSET (1 .. Len(free[a]))
    BY <1>2, <2>0 DEF FitsAt
  <2>2. k # 0 /\ Find(r) = MakeAligned(free[a][k].base, r.align)
    BY <1>6, FindBy
  <2>3. k \in I
    <3> HIDE DEF I, k
    <3> QED BY <2>1, <2>2, FirstOfIs
  <2> HIDE DEF k
  <2>4. k \in 1 .. Len(free[a]) /\ r.size <= free[a][k].end - Find(r)
    BY <2>2, <2>3
  <2>5. PICK g \in GapsOf(Taken) :
               /\ g \in Blk /\ g.base \in Nat /\ g.end \in Nat
               /\ g.base <= free[a][k].base /\ g.end = free[a][k].end
               /\ free[a][k].base \in Nat
               /\ Whole(g.base, Greatest) => Whole(free[a][k].base, Greatest)
    BY <1>4, <2>0, <2>4
  <2>6. Find(r) \in Nat /\ free[a][k].base <= Find(r) /\ Whole(Find(r), r.align)
    BY <1>1, <2>2, <2>5, Aligned
  <2>7. g.base <= Find(r) /\ Find(r) + r.size <= g.end
    BY <2>4, <2>5, <2>6, <1>1
  <2>8. Whole(Find(r), Greatest)
    <3>1. Whole(r.align, Greatest) /\ Greatest \in Nat \ {0}
      BY <1>1, <1>6, AlignsAre DEF Whole
    <3> QED BY <3>1, <2>6, <1>1, WholeTrans
  <2> QED BY <2>6, <2>7, <2>8, <1>1
<1> QED BY <1>5, <1>6

\* mem_mng_get keeps the invariant.
LEMMA GetIInv ==
  ASSUME IInv, ReleasesAreWhole, NEW r \in client.requests, Get(r), client' = client
  PROVE  IInv'
<1> DEFINE base == Find(r)
           end == base + r.size
           n == Block(base, end)
<1>0. /\ base # -1
      /\ free' = [a \in Aligns |-> Cut(free[a], a, base, end)]
      /\ busy' = AddBusy(n)
  BY DEF Get, Block
<1>1. /\ base \in Nat /\ r.size \in Nat \ {0}
      /\ \E g \in GapsOf(Taken) : g.base <= base /\ end <= g.end
      /\ client.puts => Whole(base, Greatest) /\ Whole(r.size, Greatest)
  BY <1>0, FindIs
<1> HIDE DEF base
<1>2. PICK g \in GapsOf(Taken) : g.base <= base /\ end <= g.end
  BY <1>1
<1>3. end \in Nat /\ base < end
  BY <1>1
<1>g. g \in Blk /\ g.base \in Nat /\ g.end \in Nat /\ Base <= g.base /\ g.end <= Top
      /\ \A c \in Taken : Disjoint(g, c)
  BY BlkNat DEF GapsOf
<1>4. n.base = base /\ n.end = end /\ n \in Blk
  <2>1. Base <= base /\ base <= Top /\ Base <= end /\ end <= Top
    BY <1>1, <1>2, <1>3, <1>g, AlignsAre
  <2> QED BY <2>1, <1>1, <1>3, BlockIs
<1> HIDE DEF n, end
<1>5. busy \in Seq(Blk) /\ Spread(busy, 0) /\ Sane(Taken)
  BY SpreadSane DEF IInv, BusyOk, Taken
<1>6. \A x \in ToSet(busy) : Disjoint(x, n)
  <2>1. ASSUME NEW x \in Taken PROVE Disjoint(x, n)
    <3>1. x.base \in Nat /\ x.end \in Nat /\ Disjoint(g, x)
      BY <1>5, <1>g, BlkNat DEF Sane
    <3> QED BY <3>1, <1>1, <1>2, <1>3, <1>4, <1>g DEF Disjoint
  <2> QED BY <2>1 DEF Taken
<1>7. busy' \in Seq(Blk) /\ Spread(busy', 0) /\ ToSet(busy') = ToSet(busy) \cup {n}
  BY <1>0, <1>3, <1>4, <1>5, <1>6, AddBusyIs
<1>8. Taken' = Taken \cup {n}
  BY <1>7 DEF Taken
<1>9. ASSUME NEW a \in Aligns
      PROVE  /\ free'[a] \in Seq(Blk) /\ Spread(free'[a], 1)
             /\ ToSet(free'[a]) = Entries(a, GapsOf(Taken'))
  <2>1. free[a] \in Seq(Blk) /\ Spread(free[a], 1) /\ ToSet(free[a]) = Entries(a, GapsOf(Taken))
    BY DEF IInv, ListsOk
  <2>2. free'[a] = Cut(free[a], a, n.base, n.end)
    BY <1>0, <1>4
  <2>3. g.base <= n.base /\ n.base < n.end /\ n.end <= g.end /\ a \in Nat \ {0}
    BY <1>2, <1>3, <1>4, AlignsAre
  <2> DEFINE list == free[a]
             B == Taken
             cut == Cut(list, a, n.base, n.end)
  <2> HIDE DEF list, B
  <2>4. list \in Seq(Blk) /\ Spread(list, 1) /\ ToSet(list) = Entries(a, GapsOf(B))
    BY <2>1 DEF list, B
  <2>5. Sane(B) /\ g \in GapsOf(B)
    BY <1>2, <1>5 DEF B
  <2>6. cut \in Seq(Blk) /\ Spread(cut, 1) /\ ToSet(cut) = Entries(a, GapsOf(B \cup {n}))
    BY <2>3, <2>4, <2>5, <1>4, TakeEntries
  <2> QED BY <2>2, <2>6, <1>8 DEF list, B
<1>10. ListsOk'
  <2>1. free' \in [Aligns -> Seq(Blk)]
    BY <1>0, <1>9
  <2> QED BY <2>1, <1>9 DEF ListsOk
<1>11. UnitsOk'
  <2>1. SUFFICES ASSUME client.puts PROVE \A b \in Taken' : Whole(b.base, Greatest) /\ Whole(b.end, Greatest)
    BY DEF UnitsOk
  <2>2. Whole(n.base, Greatest) /\ Whole(n.end, Greatest)
    <3>1. Greatest \in Nat \ {0}
      BY AlignsAre
    <3>2. Whole(base, Greatest) /\ Whole(r.size, Greatest) /\ base \in Int /\ r.size \in Int
      BY <2>1, <1>1
    <3>3. Whole(base + r.size, Greatest)
      BY <3>1, <3>2, WholeSum
    <3> QED BY <3>2, <3>3, <1>4 DEF end
  <2> QED BY <2>1, <2>2, <1>8 DEF IInv, UnitsOk
<1> QED BY <1>7, <1>10, <1>11 DEF IInv, BusyOk

\* A list that is already made of what joined in another list joins to the same.
LEMMA AddAgain ==
  ASSUME NEW G, NEW n \in Blk, n.base < n.end, NEW w, Hull(G, n, w),
         NEW s \in Seq(Blk), Spread(s, 1), ToSet(s) = {x \in G : ~Touch(x, n)} \cup {w},
         NEW list \in Seq(Blk), Spread(list, 1), ToSet(list) = G,
         NEW v, Hull(G, w, v)
  PROVE  v = w /\ \A x \in G : Touch(x, w) <=> Touch(x, n)
<1>1. \A x \in G : x \in Blk /\ x.base \in Nat /\ x.end \in Nat /\ x.base < x.end
  <2>1. \A i \in DOMAIN list : list[i] \in Blk
    OBVIOUS
  <2> QED BY <2>1, BlkNat DEF ToSet, Spread
<1>2. w \in Blk /\ w.base \in Nat /\ w.end \in Nat /\ w.base <= n.base /\ n.end <= w.end
      /\ n.base \in Nat /\ n.end \in Nat
  BY BlkNat DEF Hull
<1>3. v \in Blk /\ v.base \in Nat /\ v.end \in Nat /\ v.base <= w.base /\ w.end <= v.end
  BY BlkNat DEF Hull
<1>4. ASSUME NEW x \in G PROVE Touch(x, w) <=> Touch(x, n)
  <2>1. ASSUME Touch(x, n) PROVE Touch(x, w)
    BY <2>1, <1>1, <1>2 DEF Touch
  <2>2. ASSUME ~Touch(x, n) PROVE ~Touch(x, w)
    <3>1. x # w
      BY <2>2, <1>1, <1>2 DEF Touch
    <3>2. x \in ToSet(s) /\ w \in ToSet(s)
      BY <2>2
    <3>3. x.end + 1 <= w.base \/ w.end + 1 <= x.base
      BY <3>1, <3>2, SpreadApart
    <3> QED BY <3>3, <1>1, <1>2 DEF Touch
  <2> QED BY <2>1, <2>2
<1>5. \A x \in G : Touch(x, w) => w.base <= x.base /\ x.end <= w.end
  BY <1>4 DEF Hull
<1>6. v.base = w.base
  BY <1>1, <1>2, <1>3, <1>5 DEF Hull
<1>7. v.end = w.end
  BY <1>1, <1>2, <1>3, <1>5 DEF Hull
<1> QED BY <1>2, <1>3, <1>4, <1>6, <1>7, BlkSame

\* The block of the first list that the released block has become part of.
WideAt(list, base, end) ==
  FirstOf({i \in 1 .. Len(list) : list[i].base <= base /\ end <= list[i].end})

\* Widened is the gap that the released block becomes part of.
LEMMA WidenedIs ==
  ASSUME NEW list \in Seq(Blk), Spread(list, 1), NEW n \in Blk, n.base < n.end, NEW G, NEW w, Hull(G, n, w),
         ToSet(list) = {x \in G : ~Touch(x, n)} \cup {w},
         list = AddTo(free[1], 1, n.base, n.end)
  PROVE  Widened(n.base, n.end) = w
<1> DEFINE k == WideAt(list, n.base, n.end)
           I == {i \in 1 .. Len(list) : list[i].base <= n.base /\ n.end <= list[i].end}
<1>1. Widened(n.base, n.end) = list[k]
  BY DEF Widened, WideAt, FirstOf, SelectInSeq
<1>2. Len(list) \in Nat /\ I \in SUBSET (1 .. Len(list)) /\ k = FirstOf(I) /\ DOMAIN list = 1 .. Len(list)
  BY DEF WideAt
<1>3. w \in ToSet(list) /\ w.base <= n.base /\ n.end <= w.end
  BY DEF Hull
<1>4. I # {}
  <2>1. PICK i \in 1 .. Len(list) : w = list[i]
    BY <1>2, <1>3 DEF ToSet
  <2> QED BY <2>1, <1>3
<1>5. k \in I
  <2> HIDE DEF I, k
  <2> QED BY ZenonT(30), <1>2, <1>4, FirstOfIs
<1> HIDE DEF k
<1>6. list[k] \in ToSet(list) /\ list[k].base <= n.base /\ n.end <= list[k].end /\ list[k] \in Blk
  <2>1. k \in 1 .. Len(list) /\ list[k].base <= n.base /\ n.end <= list[k].end
    BY <1>5
  <2>2. list[k] \in ToSet(list)
    BY ZenonT(30), <2>1, <1>2 DEF ToSet
  <2>3. list[k] \in Blk
    BY <2>1
  <2> QED BY <2>1, <2>2, <2>3
<1>7. Touch(list[k], n)
  BY <1>6, BlkNat DEF Touch
<1> QED BY <1>1, <1>6, <1>7

\* The busy block with that base.
BaseAt(base) == FirstOf({i \in 1 .. Len(busy) : busy[i].base = base})

\* Put by the place of the busy block.
LEMMA PutIs ==
  ASSUME NEW base, Put(base)
  PROVE  LET k == BaseAt(base)
             whole == Widened(busy[k].base, busy[k].end)
         IN /\ k # 0
            /\ free' = [a \in Aligns |-> IF a = 1 THEN AddTo(free[1], 1, base, busy[k].end)
                                         ELSE AddTo(free[a], a, whole.base, whole.end)]
            /\ busy' = RemoveAt(busy, k)
BY DEF Put, BaseAt, FirstOf, SelectInSeq

\* mem_mng_put keeps the invariant.
LEMMA PutIInv ==
  ASSUME IInv, ReleasesAreWhole, client.puts, NEW base, Put(base), client' = client
  PROVE  IInv'
<1> DEFINE k == BaseAt(base)
           I == {i \in 1 .. Len(busy) : busy[i].base = base}
           n == busy[k]
           G == GapsOf(Taken)
           whole == Widened(busy[k].base, busy[k].end)
           add == AddTo(free[1], 1, n.base, n.end)
<1>0. /\ k # 0
      /\ free' = [a \in Aligns |-> IF a = 1 THEN AddTo(free[1], 1, base, n.end)
                                   ELSE AddTo(free[a], a, whole.base, whole.end)]
      /\ busy' = RemoveAt(busy, k)
  BY PutIs
<1>1. busy \in Seq(Blk) /\ Spread(busy, 0) /\ Sane(Taken) /\ Taken \subseteq Blk
  BY SpreadSane DEF IInv, BusyOk, Taken, Sane
<1>2. k \in 1 .. Len(busy) /\ n.base = base
  <2>1. Len(busy) \in Nat /\ I \in SUBSET (1 .. Len(busy)) /\ k = FirstOf(I)
    BY <1>1 DEF BaseAt
  <2>2. k \in I
    <3> HIDE DEF I, k
    <3> QED BY <1>0, <2>1, FirstOfIs
  <2> HIDE DEF k
  <2> QED BY <2>2
<1> HIDE DEF k
<1>3. n \in Taken /\ n \in Blk /\ n.base \in Nat /\ n.end \in Nat /\ n.base < n.end
  <2>1. n \in Taken /\ n \in Blk
    BY <1>1, <1>2 DEF Taken, ToSet
  <2> QED BY <2>1, <1>1, BlkNat DEF Sane
<1>u. /\ Whole(Base, Greatest) /\ Whole(Top, Greatest)
      /\ \A b \in Taken : Whole(b.base, Greatest) /\ Whole(b.end, Greatest)
  BY DEF IInv, UnitsOk, ReleasesAreWhole
<1>4. /\ \A g \in G : Whole(g.base, Greatest) /\ Whole(g.end, Greatest)
      /\ \A a \in Aligns : Entries(a, G) = G
  BY <1>1, <1>u, WholeGaps
<1>5. \A a \in Aligns : free[a] \in Seq(Blk) /\ Spread(free[a], 1) /\ ToSet(free[a]) = G
  BY <1>4 DEF IInv, ListsOk
<1>6. \A a \in Aligns : \A x \in Nat : Whole(x, Greatest) => Whole(x, a)
  <2>1. \A a \in Aligns : a \in Nat \ {0} /\ Whole(Greatest, a) /\ Greatest \in Nat \ {0}
    BY AlignsAre
  <2> QED BY <2>1, WholeTrans
<1>7. \A a \in Aligns : \A x \in G : Whole(x.base, a) /\ Whole(x.end, a)
  <2>1. \A x \in G : x.base \in Nat /\ x.end \in Nat
    BY BlkNat DEF GapsOf
  <2> QED BY <2>1, <1>4, <1>6
<1> HIDE DEF G, n
<1>8. ASSUME NEW a \in Aligns, NEW m \in Blk, m.base < m.end, Whole(m.base, Greatest), Whole(m.end, Greatest)
      PROVE  /\ AddTo(free[a], a, m.base, m.end) \in Seq(Blk)
             /\ Spread(AddTo(free[a], a, m.base, m.end), 1)
             /\ \E w : /\ Hull(G, m, w)
                       /\ ToSet(AddTo(free[a], a, m.base, m.end)) = {x \in G : ~Touch(x, m)} \cup {w}
  <2> DEFINE list == free[a]
  <2>1. list \in Seq(Blk) /\ Spread(list, 1) /\ ToSet(list) = G
    BY <1>5
  <2>2. a \in Nat \ {0} /\ Whole(m.base, a) /\ Whole(m.end, a)
    BY <1>6, <1>8, BlkNat, AlignsAre
  <2> HIDE DEF list
  <2>3. /\ AddTo(list, a, m.base, m.end) \in Seq(Blk)
        /\ Spread(AddTo(list, a, m.base, m.end), 1)
        /\ \E w : /\ Hull(ToSet(list), m, w)
                  /\ ToSet(AddTo(list, a, m.base, m.end)) = {x \in ToSet(list) : ~Touch(x, m)} \cup {w}
    BY <2>1, <2>2, <1>7, <1>8, AddList
  <2> QED BY <2>1, <2>3 DEF list
<1>9. add \in Seq(Blk) /\ Spread(add, 1)
      /\ \E w : Hull(G, n, w) /\ ToSet(add) = {x \in G : ~Touch(x, n)} \cup {w}
  BY <1>3, <1>8, <1>u, AlignsAre
<1>10. PICK w : Hull(G, n, w) /\ ToSet(add) = {x \in G : ~Touch(x, n)} \cup {w}
  BY <1>9
<1>11. whole = w
  <2>1. whole = Widened(n.base, n.end)
    BY DEF n
  <2> QED BY <2>1, <1>3, <1>9, <1>10, WidenedIs
<1>12. Sane(Taken \ {n}) /\ GapsOf(Taken \ {n}) = {x \in G : ~Touch(x, n)} \cup {w}
  BY <1>1, <1>3, <1>10, GapsGive DEF G
<1>13. busy' \in Seq(Blk) /\ Spread(busy', 0) /\ Taken' = Taken \ {n}
  BY <1>0, <1>1, <1>2, RemoveBusyIs DEF Taken, n
<1>14. /\ \A g \in GapsOf(Taken') : Whole(g.base, Greatest) /\ Whole(g.end, Greatest)
       /\ \A a \in Aligns : Entries(a, GapsOf(Taken')) = GapsOf(Taken')
  BY <1>1, <1>13, <1>u, WholeGaps
<1>15. w \in Blk /\ w.base < w.end /\ Whole(w.base, Greatest) /\ Whole(w.end, Greatest)
  <2>1. w \in GapsOf(Taken')
    BY <1>12, <1>13
  <2>2. w \in Blk /\ w.base < w.end
    BY <2>1 DEF GapsOf
  <2> QED BY <2>1, <2>2, <1>14
<1>16. ASSUME NEW a \in Aligns
       PROVE  /\ free'[a] \in Seq(Blk) /\ Spread(free'[a], 1)
              /\ ToSet(free'[a]) = {x \in G : ~Touch(x, n)} \cup {w}
  <2>1. CASE a = 1
    <3>1. free'[a] = add
      BY <2>1, <1>0, <1>2
    <3> QED BY <3>1, <1>9, <1>10
  <2>2. CASE a # 1
    <3> DEFINE t == AddTo(free[a], a, w.base, w.end)
    <3>1. free'[a] = t
      BY <2>2, <1>0, <1>11
    <3>2. t \in Seq(Blk) /\ Spread(t, 1)
          /\ \E v : Hull(G, w, v) /\ ToSet(t) = {x \in G : ~Touch(x, w)} \cup {v}
      BY <1>8, <1>15
    <3> HIDE DEF t, add
    <3>3. PICK v : Hull(G, w, v) /\ ToSet(t) = {x \in G : ~Touch(x, w)} \cup {v}
      BY <3>2
    <3> DEFINE list == free[a]
    <3>4. list \in Seq(Blk) /\ Spread(list, 1) /\ ToSet(list) = G
      BY <1>5
    <3> HIDE DEF list
    <3>5. v = w /\ \A x \in G : Touch(x, w) <=> Touch(x, n)
      BY <1>3, <1>9, <1>10, <3>3, <3>4, AddAgain
    <3> QED BY <3>1, <3>2, <3>3, <3>5
  <2> QED BY <2>1, <2>2
<1>17. ListsOk'
  <2>1. free' \in [Aligns -> Seq(Blk)]
    BY <1>0, <1>16
  <2>2. \A a \in Aligns : Spread(free'[a], 1) /\ ToSet(free'[a]) = Entries(a, GapsOf(Taken'))
    BY <1>12, <1>13, <1>14, <1>16
  <2> QED BY <2>1, <2>2 DEF ListsOk
<1>18. UnitsOk'
  BY <1>13, <1>u DEF UnitsOk
<1> QED BY <1>13, <1>17, <1>18 DEF IInv, BusyOk

\* For every memory, every list of alignments and every client of ReleasesAreWhole,
\* the lists of cut_free_blk and add_free_blk are the gaps between the busy blocks.
THEOREM MemInvariance ==
  ASSUME HoldsOne, ReleasesAreWhole
  PROVE  Spec => []IInv
<1>1. Init => IInv
  BY InitIInv
<1>2. IInv /\ [Next]_vars => IInv'
  <2>1. SUFFICES ASSUME IInv, [Next]_vars PROVE IInv'
    OBVIOUS
  <2>2. ASSUME NEW r \in client.requests, Get(r), client' = client PROVE IInv'
    BY <2>1, <2>2, GetIInv
  <2>3. ASSUME client.puts, NEW base \in Base .. Top, Put(base), client' = client PROVE IInv'
    BY <2>1, <2>3, PutIInv
  <2>4. CASE UNCHANGED vars
    BY <2>1, <2>4 DEF vars, IInv, BusyOk, ListsOk, UnitsOk, Taken
  <2> QED BY <2>1, <2>2, <2>3, <2>4 DEF Next
<1> QED BY <1>1, <1>2, PTL DEF Spec

\* Busy blocks in order are disjoint and in the memory.
LEMMA IInvDisjoint ==
  ASSUME IInv
  PROVE  BusyDisjoint
<1>1. busy \in Seq(Blk) /\ Spread(busy, 0)
  BY DEF IInv, BusyOk
<1>2. \A i \in DOMAIN busy : busy[i] \in Blk /\ busy[i].base \in Nat /\ busy[i].end \in Nat
                             /\ busy[i].base >= Base /\ busy[i].end <= Top
  <2>1. \A i \in DOMAIN busy : busy[i] \in Blk
    BY <1>1
  <2> QED BY <2>1, BlkNat, AlignsAre
<1>3. ASSUME NEW i \in DOMAIN busy, NEW j \in DOMAIN busy, i # j PROVE Disjoint(busy[i], busy[j])
  <2>1. i < j \/ j < i
    BY <1>1, <1>3
  <2>2. busy[i].end + 0 <= busy[j].base \/ busy[j].end + 0 <= busy[i].base
    BY <2>1, <1>1 DEF Spread
  <2> QED BY <2>2, <1>2 DEF Disjoint
<1> QED BY <1>2, <1>3 DEF BusyDisjoint

\* The gaps of the proof are the gaps of the property.
LEMMA IInvGaps ==
  ASSUME IInv
  PROVE  GapsAreFree
<1>1. busy \in Seq(Blk)
  BY DEF IInv, BusyOk
<1> DEFINE gaps == {b \in Blk : Gap(b)}
<1>2. gaps = GapsOf(Taken)
  <2>1. \A b \in Blk : Gap(b) <=> b \in GapsOf(Taken)
    BY DEF Gap, GapsOf, Taken, ToSet
  <2> QED BY <2>1 DEF GapsOf
<1>3. ASSUME NEW a \in Aligns
      PROVE  LET aligned == {[b EXCEPT !.base = MakeAligned(@, a)] : b \in gaps}
             IN /\ ToSet(free[a]) = {b \in aligned : b.end - b.base >= a}
                /\ \A i \in 1 .. Len(free[a]) - 1 : free[a][i].end <= free[a][i + 1].base
  <2>1. free[a] \in Seq(Blk) /\ Spread(free[a], 1) /\ ToSet(free[a]) = Entries(a, gaps)
    BY <1>2 DEF IInv, ListsOk
  <2>2. \A b \in Blk : [b EXCEPT !.base = MakeAligned(@, a)] = Entry(a, b)
    BY DEF Entry, Block, Blk
  <2>3. {[b EXCEPT !.base = MakeAligned(@, a)] : b \in gaps} = {Entry(a, b) : b \in gaps}
    BY <2>2
  <2>4. ASSUME NEW i \in 1 .. Len(free[a]) - 1 PROVE free[a][i].end <= free[a][i + 1].base
    <3> DEFINE s == free[a]
    <3>1. s \in Seq(Blk) /\ Len(s) \in Nat /\ DOMAIN s = 1 .. Len(s)
      BY <2>1
    <3>2. i \in DOMAIN s /\ i + 1 \in DOMAIN s /\ i < i + 1 /\ s[i] \in Blk /\ s[i + 1] \in Blk
      BY <3>1
    <3>3. s[i].end + 1 <= s[i + 1].base
      BY <2>1, <3>2 DEF Spread
    <3>4. s[i].end \in Nat /\ s[i + 1].base \in Nat
      BY <3>2, BlkNat
    <3> QED BY <3>3, <3>4
  <2> HIDE DEF gaps
  <2> QED BY <2>1, <2>3, <2>4 DEF Entries
<1> QED BY <1>3 DEF GapsAreFree

\* No memory is handed out twice, whatever sizes and alignments are asked for, by a
\* client that releases nothing or has blocks of whole units (mem_mng_get, mem_mng_put).
THEOREM HandedOutOnce ==
  ASSUME HoldsOne, ReleasesAreWhole
  PROVE  Spec => []BusyDisjoint
<1>1. IInv => BusyDisjoint
  BY IInvDisjoint
<1> QED BY <1>1, MemInvariance, PTL

\* Nothing is lost either: after every call of theirs each list is made of the gaps
\* between the blocks in use.
THEOREM NothingLost ==
  ASSUME HoldsOne, ReleasesAreWhole
  PROVE  Spec => []GapsAreFree
<1>1. IInv => GapsAreFree
  BY IInvGaps
<1> QED BY <1>1, MemInvariance, PTL

\* Free memory lies in a gap.
LEMMA InAGap ==
  ASSUME NEW B, Sane(B), NEW n \in Blk, n.base < n.end, \A c \in B : Disjoint(c, n)
  PROVE  \E g \in GapsOf(B) : g.base <= n.base /\ n.end <= g.end
<1> DEFINE D == B \cup {n}
           G == GapsOf(D)
<1>n. n.base \in Nat /\ n.end \in Nat /\ Base <= n.base /\ n.end <= Top /\ n.base <= Top /\ Base <= n.end
  BY BlkNat
<1>1. Sane(D) /\ n \in D
  <2>1. \A c, d \in D : c # d => Disjoint(c, d)
    BY DEF Sane, Disjoint
  <2> QED BY <2>1 DEF Sane
<1>2. n \notin B
  BY <1>n DEF Disjoint
<1>3. D \ {n} = B
  BY <1>2
<1>g. \A g \in G : g \in Blk /\ g.base \in Nat /\ g.end \in Nat /\ g.base < g.end /\ Disjoint(g, n)
                   /\ Base <= g.base /\ g.end <= Top
  BY <1>1, BlkNat DEF GapsOf
<1> HIDE DEF D, G
<1>4. \A g \in G : Touch(g, n) => g.end = n.base \/ g.base = n.end
  BY <1>g, <1>n DEF Touch, Disjoint
<1>5. \E lo \in Nat : /\ Base <= lo /\ lo <= n.base
                      /\ lo = n.base \/ \E g \in G : Touch(g, n) /\ g.base = lo
                      /\ \A g \in G : g.end = n.base => g.base = lo
  <2>1. CASE \E g \in G : g.end = n.base
    <3>1. PICK g \in G : g.end = n.base
      BY <2>1
    <3>2. Touch(g, n) /\ Base <= g.base /\ g.base <= n.base /\ g.base \in Nat
      BY <3>1, <1>g, <1>n DEF Touch
    <3>3. \A h \in G : h.end = n.base => h.base = g.base
      <4>1. ASSUME NEW h \in G, h.end = n.base, h # g PROVE FALSE
        <5>1. h.end < g.base \/ g.end < h.base
          BY <4>1, <1>1, GapsApart DEF G
        <5> QED BY <5>1, <4>1, <3>1, <1>g, <1>n
      <4> QED BY <4>1
    <3> QED BY <3>1, <3>2, <3>3
  <2>2. CASE ~\E g \in G : g.end = n.base
    BY <2>2, <1>n
  <2> QED BY <2>1, <2>2
<1>6. \E hi \in Nat : /\ n.end <= hi /\ hi <= Top
                      /\ hi = n.end \/ \E g \in G : Touch(g, n) /\ g.end = hi
                      /\ \A g \in G : g.base = n.end => g.end = hi
  <2>1. CASE \E g \in G : g.base = n.end
    <3>1. PICK g \in G : g.base = n.end
      BY <2>1
    <3>2. Touch(g, n) /\ g.end <= Top /\ n.end <= g.end /\ g.end \in Nat
      BY <3>1, <1>g, <1>n DEF Touch
    <3>3. \A h \in G : h.base = n.end => h.end = g.end
      <4>1. ASSUME NEW h \in G, h.base = n.end, h # g PROVE FALSE
        <5>1. h.end < g.base \/ g.end < h.base
          BY <4>1, <1>1, GapsApart DEF G
        <5> QED BY <5>1, <4>1, <3>1, <1>g, <1>n
      <4> QED BY <4>1
    <3> QED BY <3>1, <3>2, <3>3
  <2>2. CASE ~\E g \in G : g.base = n.end
    BY <2>2, <1>n
  <2> QED BY <2>1, <2>2
<1>7. PICK lo \in Nat : /\ Base <= lo /\ lo <= n.base
                        /\ lo = n.base \/ \E g \in G : Touch(g, n) /\ g.base = lo
                        /\ \A g \in G : g.end = n.base => g.base = lo
  BY <1>5
<1>8. PICK hi \in Nat : /\ n.end <= hi /\ hi <= Top
                        /\ hi = n.end \/ \E g \in G : Touch(g, n) /\ g.end = hi
                        /\ \A g \in G : g.base = n.end => g.end = hi
  BY <1>6
<1> DEFINE w == Block(lo, hi)
<1>9. w.base = lo /\ w.end = hi /\ w \in Blk
  BY <1>7, <1>8, <1>n, AlignsAre, BlockIs
<1> HIDE DEF w
<1>10. \A g \in G : Touch(g, n) => w.base <= g.base /\ g.end <= w.end
  <2>1. ASSUME NEW g \in G, Touch(g, n) PROVE w.base <= g.base /\ g.end <= w.end
    <3>1. CASE g.end = n.base
      BY <3>1, <1>7, <1>8, <1>9, <1>g, <1>n
    <3>2. CASE g.base = n.end
      BY <3>2, <1>7, <1>8, <1>9, <1>g, <1>n
    <3> QED BY <2>1, <3>1, <3>2, <1>4
  <2> QED BY <2>1
<1>11. Hull(G, n, w)
  BY <1>7, <1>8, <1>9, <1>10 DEF Hull
<1>12. w \in GapsOf(B)
  BY <1>1, <1>3, <1>11, GapsGive DEF G
<1> QED BY <1>7, <1>8, <1>9, <1>12

\* No request is smaller than its alignment, or than the greatest of a list.
AsksForUnits ==
  \A c \in Clients : \A r \in c.requests : r.size >= r.align \/ r.size >= Greatest

\* A request that finds nothing fits in no gap.
LEMMA FindsWhatFits ==
  ASSUME IInv, AsksForUnits, NEW r \in client.requests, Find(r) = -1,
         NEW base \in Nat, Base <= base, base + r.size <= Top, base % r.align = 0
  PROVE  \E i \in DOMAIN busy : ~Disjoint(busy[i], Block(base, base + r.size))
<1> DEFINE n == Block(base, base + r.size)
           a == IF r.align \in Aligns THEN r.align ELSE Greatest
<1>1. SUFFICES ASSUME \A i \in DOMAIN busy : Disjoint(busy[i], n) PROVE FALSE
  OBVIOUS
<1>2. /\ r.size \in Nat \ {0} /\ r.align \in Nat \ {0}
      /\ r.align \in Aligns \/ r.align % Greatest = 0
      /\ r.size >= r.align \/ r.size >= Greatest
  BY MemAssumption DEF IInv, AsksForUnits
<1>3. n \in Blk /\ n.base = base /\ n.end = base + r.size /\ n.base < n.end
  <2>1. base <= Top /\ Base <= base + r.size /\ base + r.size \in Nat
    BY <1>2, AlignsAre
  <2> QED BY <2>1, <1>2, BlockIs
<1> HIDE DEF n
<1>4. Sane(Taken) /\ \A c \in Taken : Disjoint(c, n)
  BY <1>1, SpreadSane DEF IInv, BusyOk, Taken, ToSet
<1>5. PICK g \in GapsOf(Taken) : g.base <= base /\ base + r.size <= g.end
  BY <1>3, <1>4, InAGap
<1>g. g \in Blk /\ g.base \in Nat /\ g.end \in Nat
  BY BlkNat DEF GapsOf
<1>6. a \in Aligns /\ a \in Nat \ {0} /\ Whole(base, a) /\ r.size >= a
  <2>1. CASE r.align \in Aligns
    <3>1. r.align <= Greatest
      BY <2>1, AlignsAre
    <3> QED BY <2>1, <3>1, <1>2, AlignsAre DEF Whole
  <2>2. CASE r.align \notin Aligns
    <3>1. Whole(r.align, Greatest) /\ Whole(base, r.align) /\ Greatest \in Nat \ {0} /\ Greatest \in Aligns
      BY <2>2, <1>2, AlignsAre DEF Whole
    <3>2. Whole(base, Greatest)
      BY <3>1, <1>2, WholeTrans
    <3>3. r.align >= Greatest
      <4>1. Whole(0, Greatest)
        <5>1. 0 = 0 * Greatest
          BY <3>1
        <5> QED BY <5>1, <3>1, WholeDef
      <4>2. r.align - 0 >= Greatest
        BY <4>1, <3>1, <1>2, WholeGap
      <4> QED BY <4>2, <1>2
    <3> QED BY <2>2, <3>1, <3>2, <3>3, <1>2
  <2> QED BY <2>1, <2>2
<1> DEFINE e == Entry(a, g)
<1>7. /\ e.base = MakeAligned(g.base, a) /\ e.end = g.end /\ e.base \in Nat
      /\ e.base <= base
  BY <1>5, <1>6, <1>g, EntryIs, AlignedLeast
<1>8. e.end - e.base >= a /\ e.end - e.base >= r.size
  BY <1>2, <1>5, <1>6, <1>7, <1>g
<1>9. free[a] \in Seq(Blk) /\ Len(free[a]) \in Nat /\ DOMAIN free[a] = 1 .. Len(free[a])
      /\ ToSet(free[a]) = Entries(a, GapsOf(Taken))
  BY <1>6 DEF IInv, ListsOk
<1>10. e \in ToSet(free[a])
  BY <1>8, <1>9 DEF Entries
<1> HIDE DEF e
<1>11. PICK i \in 1 .. Len(free[a]) : free[a][i] = e
  BY <1>9, <1>10 DEF ToSet
<1>12. CASE r.align \in Aligns
  <2> DEFINE I == {j \in 1 .. Len(free[a]) : free[a][j].end - free[a][j].base >= r.size}
             k == Fits(r)
  <2>1. a = r.align
    BY <1>12
  <2>2. k = FirstOf(I) /\ I \in SUBSET (1 .. Len(free[a]))
    BY <2>1 DEF Fits
  <2>3. i \in I
    BY <1>8, <1>11
  <2>4. k \in I
    <3> HIDE DEF I, k, a
    <3> QED BY <1>9, <2>2, <2>3, FirstOfIs
  <2> HIDE DEF k
  <2>5. k # 0 /\ k \in 1 .. Len(free[a])
    BY <2>4
  <2>6. Find(r) = free[a][k].base
    BY <2>1, <2>5, <1>12, FindBy DEF k
  <2>7. free[a][k] \in Blk
    BY <1>9, <2>5
  <2>8. free[a][k].base \in Nat
    BY <2>7, BlkNat
  <2> QED BY <2>6, <2>8
<1>13. CASE r.align \notin Aligns
  <2> DEFINE I == {j \in 1 .. Len(free[a]) :
                     LET up == MakeAligned(free[a][j].base, r.align)
                     IN up < free[a][j].end /\ r.size <= free[a][j].end - up}
             k == FitsAt(r)
  <2>1. a = Greatest
    BY <1>13
  <2>2. k = FirstOf(I) /\ I \in SUBSET (1 .. Len(free[a]))
    BY <2>1 DEF FitsAt
  <2>3. i \in I
    <3> DEFINE up == MakeAligned(e.base, r.align)
    <3>1. up \in Nat /\ up <= base
      <4>1. Whole(base, r.align)
        BY DEF Whole
      <4> QED BY <4>1, <1>2, <1>7, Aligned, AlignedLeast
    <3> HIDE DEF up
    <3>2. up < e.end /\ r.size <= e.end - up
      BY <3>1, <1>2, <1>5, <1>7, <1>g
    <3> QED BY <3>2, <1>11 DEF up
  <2>4. k \in I
    <3> HIDE DEF I, k, a
    <3> QED BY <1>9, <2>2, <2>3, FirstOfIs
  <2> HIDE DEF k
  <2>5. k # 0 /\ k \in 1 .. Len(free[a])
    BY <2>4
  <2>6. Find(r) = MakeAligned(free[a][k].base, r.align)
    BY <2>1, <2>5, <1>13, FindBy DEF k
  <2>7. free[a][k] \in Blk
    BY <1>9, <2>5
  <2>8. MakeAligned(free[a][k].base, r.align) \in Nat
    BY <2>7, <1>2, BlkNat, Aligned
  <2> QED BY <2>6, <2>8
<1> QED BY <1>12, <1>13

\* Under the invariant a request that finds nothing fits in no free memory.
LEMMA IInvGrants ==
  ASSUME IInv, AsksForUnits
  PROVE  GrantsWhatFits
<1>1. ASSUME NEW r \in client.requests, Find(r) = -1,
             NEW base \in Base .. Top - r.size, base % r.align = 0
      PROVE  \E i \in DOMAIN busy : ~Disjoint(busy[i], [base |-> base, end |-> base + r.size])
  <2>1. r.size \in Nat
    BY MemAssumption DEF IInv
  <2>2. base \in Nat /\ Base <= base /\ base + r.size <= Top
    BY <2>1, AlignsAre
  <2> QED BY <1>1, <2>2, FindsWhatFits DEF Block
<1> QED BY <1>1 DEF GrantsWhatFits

\* A request that is not smaller than its alignment fails only when no stretch of
\* free memory would do (mem_mng_get, get_greater_align).
THEOREM FitsAreGranted ==
  ASSUME HoldsOne, ReleasesAreWhole, AsksForUnits
  PROVE  Spec => []GrantsWhatFits
<1>1. IInv => GrantsWhatFits
  BY IInvGrants
<1> QED BY <1>1, MemInvariance, PTL
=============================================================================
