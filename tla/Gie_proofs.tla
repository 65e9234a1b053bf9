----------------------------- MODULE Gie_proofs -----------------------------
(***************************************************************************)
(* The data path of the GIU emulator keeps what it copies apart from what  *)
(* its users may touch, for every length of the rings, of the batches and  *)
(* of the engine's queue: theorems about Gie.                              *)
(*                                                                         *)
(* After facts about numbers, the jobs and descriptors, and why they stay  *)
(* in step: what gie_dma_copy_single logs, what dmax2_enq takes, what      *)
(* gie_clean_dma_jobs accounts for and publishes. Nothing there is about   *)
(* one handler.                                                            *)
(*                                                                         *)
(* The indices of the rings go round. To tell before from after, the proof *)
(* counts on: the position of an index is how far it has got in all, and   *)
(* the index is its position modulo the length of the ring. The log L      *)
(* holds every job that is logged or still to be submitted, and for each i *)
(* in 0 .. Len(L) there are, after its first i jobs, E[i] descriptors      *)
(* completed or to come, U[x][i] the position of qe_head of queue x, and   *)
(* P[p][i] what pair p has published.                                      *)
(*                                                                         *)
(* Then one section per step: the users, the DMA engine, the submission,   *)
(* the three handlers; then the initial states and the theorems, and last  *)
(* that the host's pool is prefetched as GieShadow says. What the copies   *)
(* do to the data is in GieData_proofs.                                    *)
(***************************************************************************)
EXTENDS Gie, SequenceTheorems, WellFoundedInduction, TLAPS

-----------------------------------------------------------------------------
(* Sets of natural numbers.  The library states induction for a predicate, *)
(* which no prover here can instantiate.                                   *)

Less == {x \in Nat \X Nat : x[1] < x[2]}

LEMMA LessWellFounded == IsWellFoundedOn(Less, Nat)
<1>1. IsWellFoundedOn(OpToRel(<, Nat), Nat)
  BY NatLessThanWellFounded, Zenon
<1>2. OpToRel(<, Nat) = {ss \in Nat \X Nat : ss[1] < ss[2]}
  BY DEF OpToRel
<1> QED
  BY <1>1, <1>2 DEF Less

\* A set of natural numbers that is not empty has a least element.
LEMMA NatMin ==
  ASSUME NEW S \in SUBSET Nat, S # {}
  PROVE  \E x \in S : \A y \in S : x <= y
<1>1. \E x \in S : \A y \in S : ~ (<<y, x>> \in Less)
  BY LessWellFounded, WFMin, Zenon
<1>2. ASSUME NEW x \in Nat, NEW y \in Nat, ~ (<<y, x>> \in Less)
      PROVE  x <= y
  BY <1>2 DEF Less
<1> QED
  BY <1>1, <1>2

\* Induction, for the set of the numbers something holds of.
LEMMA NatInduct ==
  ASSUME NEW S \in SUBSET Nat, 0 \in S, \A n \in S : n + 1 \in S
  PROVE  S = Nat
<1> DEFINE T == Nat \ S
<1>1. SUFFICES ASSUME T # {} PROVE FALSE
  OBVIOUS
<1>2. PICK x \in T : \A y \in T : x <= y
  <2> HIDE DEF T
  <2>1. T \in SUBSET Nat
    BY DEF T
  <2> QED BY <1>1, <2>1, NatMin
<1>3. x \in Nat /\ x # 0 /\ x - 1 \in Nat
  BY <1>2
<1>4. x - 1 \in S
  BY <1>2, <1>3
<1>5. (x - 1) + 1 \in S
  BY <1>4
<1> QED
  BY <1>3, <1>5, <1>2

-----------------------------------------------------------------------------
(* Indices.  Each "%" is first replaced by a conditional subtraction,      *)
(* after which everything is linear.                                       *)

\* One subtraction is enough for a number below twice the modulus.
LEMMA ModWrap ==
  ASSUME NEW n \in Nat \ {0}, NEW x \in 0 .. 2 * n - 1
  PROVE  x % n = IF x < n THEN x ELSE x - n
  OBVIOUS

LEMMA OccupancyCases ==
  ASSUME NEW n \in Nat \ {0}, NEW a \in 0 .. n - 1, NEW b \in 0 .. n - 1
  PROVE  /\ Occupancy(a, b, n) = IF a >= b THEN a - b ELSE a - b + n
         /\ Occupancy(a, b, n) \in 0 .. n - 1
<1> DEFINE x == a - b + n
<1>1. x \in 0 .. 2 * n - 1
  OBVIOUS
<1>2. x % n = IF x < n THEN x ELSE x - n
  <2> HIDE DEF x
  <2> QED BY <1>1, ModWrap
<1> QED
  BY <1>1, <1>2 DEF Occupancy

LEMMA AddCases ==
  ASSUME NEW n \in Nat \ {0}, NEW a \in 0 .. n - 1, NEW k \in 0 .. n - 1
  PROVE  /\ q_idx_add(a, k, n) = IF a + k < n THEN a + k ELSE a + k - n
         /\ q_idx_add(a, k, n) \in 0 .. n - 1
<1> DEFINE x == a + k
<1>1. x \in 0 .. 2 * n - 1
  OBVIOUS
<1>2. x % n = IF x < n THEN x ELSE x - n
  <2> HIDE DEF x
  <2> QED BY <1>1, ModWrap
<1> QED
  BY <1>1, <1>2 DEF q_idx_add

\* An index between the consumer b and the producer a splits the distance.
LEMMA Between ==
  ASSUME NEW n \in Nat \ {0}, NEW a \in 0 .. n - 1, NEW b \in 0 .. n - 1,
         NEW c \in 0 .. n - 1, Occupancy(c, b, n) <= Occupancy(a, b, n)
  PROVE  Occupancy(a, c, n) = Occupancy(a, b, n) - Occupancy(c, b, n)
<1>1. Occupancy(a, b, n) = IF a >= b THEN a - b ELSE a - b + n
  BY OccupancyCases
<1>2. Occupancy(c, b, n) = IF c >= b THEN c - b ELSE c - b + n
  BY OccupancyCases
<1>3. Occupancy(a, c, n) = IF a >= c THEN a - c ELSE a - c + n
  BY OccupancyCases
<1> QED
  BY <1>1, <1>2, <1>3

\* The index at the distance of an occupancy is where the occupancy ends.
LEMMA AddOccupancy ==
  ASSUME NEW n \in Nat \ {0}, NEW a \in 0 .. n - 1, NEW b \in 0 .. n - 1
  PROVE  q_idx_add(b, Occupancy(a, b, n), n) = a
<1> DEFINE k == Occupancy(a, b, n)
<1>1. k = (IF a >= b THEN a - b ELSE a - b + n) /\ k \in 0 .. n - 1
  BY OccupancyCases
<1> HIDE DEF k
<1>2. q_idx_add(b, k, n) = IF b + k < n THEN b + k ELSE b + k - n
  BY <1>1, AddCases
<1>3. q_idx_add(b, k, n) = a
  BY <1>1, <1>2
<1> QED
  BY <1>3 DEF k

\* A shorter stretch from the same slot is part of a longer one.
LEMMA SlotsGrow ==
  ASSUME NEW n \in Nat \ {0}, NEW from \in 0 .. n - 1, NEW a \in 0 .. n - 1,
         NEW c \in 0 .. n - 1, Occupancy(c, from, n) <= Occupancy(a, from, n)
  PROVE  Slots(from, c, n) \subseteq Slots(from, a, n)
<1> SUFFICES ASSUME NEW i \in 0 .. n - 1,
                    Occupancy(i, from, n) < Occupancy(c, from, n)
             PROVE  Occupancy(i, from, n) < Occupancy(a, from, n)
  BY DEF Slots, Occupancy
<1> QED
  BY OccupancyCases

-----------------------------------------------------------------------------
(* Positions: how far an index has got in all.  The index is the position  *)
(* modulo the length.                                                      *)

\* What is a multiple of L and less than L is 0.
LEMMA SmallMultiple ==
  ASSUME NEW L \in Nat \ {0}, NEW k \in Int, NEW d \in Int, d = k * L, d < L, -L < d
  PROVE  k = 0 /\ d = 0
<1>1. k >= 1 => k * L >= L
  BY SMTT(30)
<1>2. k <= -1 => k * L <= -L
  BY SMTT(30)
<1> QED BY <1>1, <1>2

\* A number is its remainder and a multiple.
LEMMA ModRange ==
  ASSUME NEW L \in Nat \ {0}, NEW x \in Nat
  PROVE  x % L \in 0 .. L - 1 /\ \E k \in Nat : x = k * L + (x % L)
<1>1. x % L \in 0 .. L - 1
  BY SMTT(30)
<1>2. x = (x \div L) * L + (x % L) /\ x \div L \in Nat
  BY SMTT(30)
<1> QED BY <1>1, <1>2

\* Only the remainder is left when a multiple is taken away.
LEMMA ModUnique ==
  ASSUME NEW L \in Nat \ {0}, NEW x \in Nat, NEW r \in 0 .. L - 1, NEW k \in Int, x = k * L + r
  PROVE  x % L = r
<1>1. PICK m \in Nat : x = m * L + (x % L)
  BY ModRange
<1> DEFINE s == x % L
<1>2. s \in 0 .. L - 1
  BY ModRange
<1> HIDE DEF s
<1>3. (m - k) * L = r - s
  <2>1. m * L \in Int /\ k * L \in Int /\ (m - k) * L = m * L - k * L
    OBVIOUS
  <2> QED BY <1>1, <1>2, <2>1 DEF s
<1>4. r - s = 0
  BY <1>2, <1>3, SmallMultiple
<1> QED BY <1>2, <1>4 DEF s

\* Advancing an index advances the position it stands for.
LEMMA AddIs ==
  ASSUME NEW L \in Nat \ {0}, NEW x \in Nat, NEW n \in Nat
  PROVE  q_idx_add(x % L, n, L) = (x + n) % L
<1>1. PICK k \in Nat : x = k * L + (x % L)
  BY ModRange
<1> DEFINE r == x % L
<1>2. r \in 0 .. L - 1
  BY ModRange
<1> HIDE DEF r
<1> DEFINE z == r + n
<1> DEFINE t == z % L
<1>z. z \in Nat
  BY <1>2
<1>3. PICK m \in Nat : z = m * L + t
  <2> HIDE DEF z
  <2> QED BY <1>z, ModRange
<1>4. t \in 0 .. L - 1
  <2> HIDE DEF z
  <2> QED BY <1>z, ModRange
<1> HIDE DEF t
<1>5. x + n = (k + m) * L + t /\ k + m \in Int
  <2>1. k * L \in Int /\ m * L \in Int /\ (k + m) * L = k * L + m * L
    OBVIOUS
  <2> QED BY <1>1, <1>2, <1>3, <1>4, <2>1 DEF r, z
<1> DEFINE w == x + n
<1> DEFINE km == k + m
<1>6. w % L = t
  <2>1. w \in Nat /\ km \in Int /\ w = km * L + t
    BY <1>5
  <2> HIDE DEF w, km
  <2> QED BY <1>4, <2>1, ModUnique
<1>7. q_idx_add(r, n, L) = t
  BY DEF q_idx_add, t, z
<1> QED BY <1>6, <1>7 DEF r

\* Different positions less than a round apart have different slots.
LEMMA ModSame ==
  ASSUME NEW L \in Nat \ {0}, NEW x \in Nat, NEW y \in Nat, x - y < L, y - x < L, x % L = y % L
  PROVE  x = y
<1>1. PICK k \in Nat : x = k * L + (x % L)
  BY ModRange
<1>2. PICK m \in Nat : y = m * L + (y % L)
  BY ModRange
<1> DEFINE r == x % L
<1>3. r \in 0 .. L - 1
  BY ModRange
<1> HIDE DEF r
<1>4. (k - m) * L = x - y
  <2>1. k * L \in Int /\ m * L \in Int /\ (k - m) * L = k * L - m * L
    OBVIOUS
  <2> QED BY <1>1, <1>2, <1>3, <2>1 DEF r
<1>5. x - y = 0
  BY <1>4, SmallMultiple
<1> QED BY <1>5

\* The distance of two indices is that of the positions, within a round.
LEMMA OccIs ==
  ASSUME NEW L \in Nat \ {0}, NEW a \in Nat, NEW b \in Nat, b <= a, a - b < L
  PROVE  Occupancy(a % L, b % L, L) = a - b
<1> DEFINE n == a - b
<1> DEFINE r == b % L
<1> DEFINE s == a % L
<1>1. r \in 0 .. L - 1 /\ s \in 0 .. L - 1 /\ n \in 0 .. L - 1
  BY ModRange
<1>2. q_idx_add(r, n, L) = s
  <2>1. b + n = a /\ n \in Nat
    OBVIOUS
  <2> HIDE DEF n
  <2>2. q_idx_add(r, n, L) = (b + n) % L
    BY <2>1, AddIs
  <2> QED BY <2>1, <2>2
<1> HIDE DEF n, r, s
<1>3. s = IF r + n < L THEN r + n ELSE r + n - L
  BY <1>1, <1>2, AddCases
<1>4. Occupancy(s, r, L) = IF s >= r THEN s - r ELSE s - r + L
  BY <1>1, OccupancyCases
<1>5. Occupancy(s, r, L) = n
  BY <1>1, <1>3, <1>4
<1> QED BY <1>5 DEF n, r, s

\* The slots between two positions.
LEMMA SlotIn ==
  ASSUME NEW L \in Nat \ {0}, NEW a \in Nat, NEW b \in Nat, b - a < L,
         NEW x \in Nat, a <= x, x < b
  PROVE  x % L \in Slots(a % L, b % L, L)
<1>1. Occupancy(x % L, a % L, L) = x - a
  <2>1. a <= x /\ x - a < L
    OBVIOUS
  <2> QED BY <2>1, OccIs
<1>3. Occupancy(b % L, a % L, L) = b - a
  <2>1. a <= b /\ b - a < L
    OBVIOUS
  <2> QED BY <2>1, OccIs
<1>2. x % L \in 0 .. L - 1
  BY ModRange
<1> QED BY <1>1, <1>2, <1>3 DEF Slots, Occupancy

\* A slot between two positions is that of a position between them.
LEMMA SlotOf ==
  ASSUME NEW L \in Nat \ {0}, NEW a \in Nat, NEW b \in Nat, a <= b, b - a < L,
         NEW i \in Slots(a % L, b % L, L)
  PROVE  i \in 0 .. L - 1 /\ \E x \in Nat : a <= x /\ x < b /\ i = x % L
<1> DEFINE r == a % L
<1> DEFINE n == Occupancy(i, r, L)
<1>1. r \in 0 .. L - 1 /\ i \in 0 .. L - 1
  BY ModRange DEF Slots
<1>2. n \in 0 .. L - 1
  <2> HIDE DEF r
  <2> QED BY <1>1, OccupancyCases
<1>3. n < b - a
  <2>1. Occupancy(b % L, a % L, L) = b - a
    BY OccIs
  <2>2. n < Occupancy(b % L, a % L, L)
    BY DEF Slots, Occupancy
  <2> QED BY <2>1, <2>2
<1>4. q_idx_add(r, n, L) = i
  <2> HIDE DEF r
  <2> QED BY <1>1, AddOccupancy
<1> HIDE DEF n
<1>5. (a + n) % L = i
  <2>0. n \in Nat
    BY <1>2
  <2>1. q_idx_add(a % L, n, L) = (a + n) % L
    <3> HIDE DEF r
    <3> QED BY <2>0, AddIs
  <2> QED BY <1>4, <2>1
<1> QED BY <1>1, <1>2, <1>3, <1>5

\* The slots of a run that does not go round the ring.
LEMMA RunOf ==
  ASSUME NEW L \in Nat \ {0}, NEW x \in Nat, NEW n \in Nat, (x % L) + n <= L,
         NEW i \in (x % L) .. (x % L) + n - 1
  PROVE  \E y \in Nat : x <= y /\ y < x + n /\ i = y % L
<1> DEFINE r == x % L
<1>1. PICK k \in Nat : x = k * L + r
  BY ModRange
<1>2. r \in 0 .. L - 1
  BY ModRange
<1> DEFINE y == x + (i - r)
<1>3. i \in 0 .. L - 1 /\ y \in Nat /\ x <= y /\ y < x + n
  BY <1>2
<1>4. y = k * L + i
  <2>1. k * L \in Int
    OBVIOUS
  <2> HIDE DEF r
  <2> QED BY <1>1, <1>2, <1>3, <2>1
<1>5. y % L = i
  <2> HIDE DEF y, r
  <2> QED BY <1>3, <1>4, ModUnique
<1> QED BY <1>3, <1>5

\* A position of a run that does not go round is one of its slots.
LEMMA RunIn ==
  ASSUME NEW L \in Nat \ {0}, NEW x \in Nat, NEW n \in Nat, (x % L) + n <= L,
         NEW y \in Nat, x <= y, y < x + n
  PROVE  y % L \in (x % L) .. (x % L) + n - 1
<1> DEFINE r == x % L
<1>1. PICK k \in Nat : x = k * L + r
  BY ModRange
<1>2. r \in 0 .. L - 1
  BY ModRange
<1> DEFINE i == r + (y - x)
<1>3. i \in 0 .. L - 1 /\ i \in r .. r + n - 1
  BY <1>2
<1>4. y = k * L + i
  <2>1. k * L \in Int
    OBVIOUS
  <2> HIDE DEF r
  <2> QED BY <1>1, <1>2, <1>3, <2>1
<1>5. y % L = i
  <2> HIDE DEF i, r
  <2> QED BY <1>3, <1>4, ModUnique
<1> QED BY <1>3, <1>5

-----------------------------------------------------------------------------

(* The inductive invariant *)

\* How the constants of gie_int.h (64, 128, 256) relate to a pool: a fill
\* leaves room for what the shadow still holds.
FillFits == Batch <= FillThresh /\ FillThresh + FillSize <= BpLen

\* s is a sequence, whatever is in it.
IsSeq(s) == Len(s) \in Nat /\ s = [i \in 1 .. Len(s) |-> s[i]]

\* The two kinds of copies: of a pair, and from the host's pool to its shadow.
ForPair(j, p) == p \in Pairs /\ j.src = Src[p] /\ j.dst = Dst[p]
ForShadow(j) == "ingress" \in CopyPayload /\ j.src = "host_bp" /\ j.dst = "shadow"

\* The jobs the three handlers log.
JobOk(j) ==
  /\ j \in Job /\ j.descs >= 1
  /\ \/ j.flag = "update" /\ j.descs = 1 /\ (ForPair(j, "egress") \/ ForShadow(j))
     \/ j.flag = "buffer" /\ ForPair(j, "egress") /\ "egress" \in CopyPayload
     \/ j.flag \in {"none", "produce"} /\ ForPair(j, "ingress") /\ (j.flag = "produce" => j.descs = 1)

\* The records of the model, with unbounded fields: nothing below needs the
\* bounds.
QIdx == [tail: Nat, head: Nat, qe_tail: Nat, qe_head: Nat]
Words == [cons: Nat, prod: Nat]

\* A job that publishes for pair p, and how far a job moves qe_head of x.
Carries(j, p) == j.flag \in {"buffer", "produce"} /\ j.src = Src[p]
Upd(j, x) == IF j.flag = "update" /\ j.src = x THEN j.epd ELSE 0

\* The positions are numbers, one more than there are jobs.
Typed(L, E, U, P) ==
  /\ L \in Seq(Job)
  /\ E \in [0 .. Len(L) -> Nat] /\ U \in [Queues -> [0 .. Len(L) -> Nat]]
  /\ P \in [Pairs -> [0 .. Len(L) -> Nat]]

\* How the positions move from one job to the next.
Steps(L, E, U, P) ==
  /\ E[0] = 0
  /\ \A i \in 1 .. Len(L) :
       /\ JobOk(L[i])
       /\ E[i] = E[i - 1] + L[i].descs
       /\ \A x \in Queues : U[x][i] = U[x][i - 1] + Upd(L[i], x)
       /\ \A p \in Pairs :
            /\ P[p][i - 1] <= P[p][i]
            /\ IF Carries(L[i], p)
               THEN L[i].head = P[p][i] % QLen /\ L[i].tail = P[p][i] % QLen
               ELSE P[p][i] = P[p][i - 1]

\* d copies elements of the pair (an egress pair's are copied by jobs that only
\* update), or a buffer, from positions lo to hi - 1.
CopyFrom(p, lo, hi, d) ==
  \/ \E x \in lo .. hi - 1 : \E b : d = [op |-> "buf", src |-> <<Src[p], x % QLen>>, dst |-> b]
  \/ \E x \in lo .. hi - 1, n \in Nat :
       /\ p = "ingress" /\ x + n <= hi /\ (x % QLen) + n <= QLen
       /\ d = [op |-> "qe", src |-> Src[p], dst |-> Dst[p], first |-> x % QLen, cnt |-> n]

\* d is a descriptor of the i-th job.
Claim(L, U, P, H, i, d) ==
  /\ L[i].flag = "update" =>
       /\ d = [op |-> "qe", src |-> L[i].src, dst |-> L[i].dst,
               first |-> U[L[i].src][i - 1] % Len_(L[i].src), cnt |-> L[i].epd]
       /\ d.first + d.cnt <= Len_(L[i].src)
  /\ L[i].flag # "update" =>
       \A p \in Pairs : L[i].src = Src[p] => CopyFrom(p, P[p][i - 1], H[p], d)

\* The descriptors h of the engine belong to the jobs js; l of the last job's
\* are still to come.
Descs(js, l, h, L, E, U, P, H) ==
  /\ h = [descs |-> h.descs, done |-> h.done] /\ IsSeq(h.descs)
  /\ h.done \in 0 .. Len(h.descs)
  /\ l \in Nat /\ E[Len(js)] = Len(h.descs) + l
  /\ l > 0 => Len(js) >= 1 /\ E[Len(js) - 1] <= Len(h.descs)
  /\ \A i \in 1 .. Len(js) : \A k \in h.done + 1 .. Len(h.descs) :
       E[i - 1] < k /\ k <= E[i] => Claim(L, U, P, H, i, h.descs[k])

\* The entry m of s, what is to be submitted, belongs to this job of the log:
\* the first is logged already if some of its descriptors were not accepted.
SubAt(js, l, m) == IF l = 0 THEN Len(js) + m ELSE Len(js) + m - 1

\* An entry of what is to be submitted.
Entry(e) == e.job \in Job /\ IsSeq(e.descs) /\ Len(e.descs) >= 1

Subs(js, l, s, L, U, P, H) ==
  /\ IsSeq(s)
  /\ l > 0 => Len(s) >= 1 /\ l <= Len(s[1].descs)
  /\ \A m \in 1 .. Len(s) :
       /\ Entry(s[m])
       /\ l = 0 \/ m > 1 => s[m].job.descs = Len(s[m].descs)
       /\ \A k \in 1 .. Len(s[m].descs) : Claim(L, U, P, H, SubAt(js, l, m), s[m].descs[k])

\* L is the log of all jobs: those logged and those of what is to be submitted.
Logs(js, l, s, L) ==
  /\ js \in Seq(Job)
  /\ Len(L) = SubAt(js, l, Len(s))
  /\ \A i \in 1 .. Len(js) : L[i] = js[i]
  /\ \A m \in 1 .. Len(s) : l = 0 \/ m > 1 => L[SubAt(js, l, m)] = s[m].job

\* The log, its positions, the descriptors in the engine's queue and those to
\* come.
WorkOf(js, l, s, h, L, E, U, P, H) ==
  /\ Logs(js, l, s, L)
  /\ Typed(L, E, U, P) /\ H \in [Pairs -> Nat]
  /\ Steps(L, E, U, P)
  /\ Descs(js, l, h, L, E, U, P, H)
  /\ Subs(js, l, s, L, U, P, H)

\* A pair, as positions. rd and sd are the consumer's index of the
\* destination, published and as the GIE has read it, p0 what is published to
\* it, h the index of the GIE, qt how far QEs are copied ahead, tl and sp the
\* producer's index of the source, as read and as published.
PairAt(p, s, d, ms, md, u0, uM, p0, pM, h, x) ==
  /\ md.cons = x.rd % QLen /\ d.head = x.sd % QLen
  /\ ms.cons = p0 % QLen /\ md.prod = p0 % QLen
  /\ s.head = h % QLen /\ d.tail = h % QLen
  /\ s.tail = x.tl % QLen /\ ms.prod = x.sp % QLen
  /\ x.sd <= x.rd /\ x.rd <= p0 /\ pM = h
  /\ h <= x.qt /\ x.qt <= x.tl /\ x.tl <= x.sp
  /\ x.sp - p0 < QLen /\ x.qt - x.sd < QLen
  /\ p = "egress" => /\ h <= u0 /\ uM = x.qt
                     /\ s.qe_tail = x.qt % QLen /\ d.qe_tail = x.qt % QLen
  /\ p = "ingress" => x.qt = h

\* The same of the pair p, with its rings.
PairOk(p, U, P, H, M, x) ==
  PairAt(p, q[Src[p]], q[Dst[p]], msg[Src[p]], msg[Dst[p]],
         U[Src[p]][0], U[Src[p]][M], P[p][0], P[p][M], H[p], x)

\* The GIE has accounted for every copy of the jobs that are over.
Heads(U) == \A x \in Queues : q[x].qe_head = U[x][0] % Len_(x)

\* The pool the host fills and its shadow: sh and st are the shadow's
\* positions.
ShadowOk(U, M, y) ==
  "ingress" \in CopyPayload =>
    /\ q["shadow"].head = y.sh % BpLen /\ q["shadow"].tail = y.st % BpLen
    /\ q["host_bp"].head = y.st % BpLen
    /\ q["host_bp"].qe_tail = U["host_bp"][M] % BpLen
    /\ y.st <= U["host_bp"][0] /\ U["host_bp"][M] - y.st < BpLen
    /\ FillFits => y.sh <= y.st /\ U["host_bp"][M] - y.sh < BpLen

\* The rings are functions.
RingOk == DOMAIN ring = Queues /\ \A x \in Queues : DOMAIN ring[x] = 0 .. Len_(x) - 1

\* The slots that hold what the producer of the pair wrote.
Sent(p, P, H, sp) ==
  \A x \in (IF p = "egress" THEN P[p][0] ELSE H[p]) .. sp - 1 :
     ring[Src[p]][x % QLen].buf = <<Src[p], x % QLen>>

\* The same in the destination, where QEs are copied ahead: what has arrived
\* there still points to the source.
Arrived(E, U, H, M, n) ==
  "egress" \in Pairs => \A i \in 0 .. M : E[i] <= n =>
     \A x \in H["egress"] .. U["host_tx"][i] - 1 :
        ring["lcl_rx"][x % QLen].buf = <<"host_tx", x % QLen>>

\* The indices are numbers.
IndexOk == q \in [Queues -> QIdx] /\ msg \in [Queues -> Words]

\* The invariant, with its witnesses.
Whole(L, E, U, P, H, X, y) ==
  /\ WorkOf(jobs, left, sub, hw, L, E, U, P, H)
  /\ IndexOk /\ Heads(U)
  /\ X \in [Pairs -> [rd: Nat, sd: Nat, qt: Nat, tl: Nat, sp: Nat]]
  /\ y \in [sh: Nat, st: Nat]
  /\ \A p \in Pairs : PairOk(p, U, P, H, Len(L), X[p])
  /\ ShadowOk(U, Len(L), y)
  /\ RingOk /\ (\A p \in Pairs : Sent(p, P, H, X[p].sp)) /\ Arrived(E, U, H, Len(L), hw.done)

\* The invariant.
IInv == \E L, E, U, P, H, X, y : Whole(L, E, U, P, H, X, y)

-----------------------------------------------------------------------------
(* gie_clean_dma_jobs, as a sequence of completions *)

\* CleanOne, again and again from b.
LEMMA CleanRec ==
  ASSUME NEW b, NEW n \in Nat
  PROVE  \E f : f = [i \in 0 .. n |-> IF i = 0 THEN b ELSE CleanOne(f[i - 1])]
<1> DEFINE Has(m) == \E f : f = [i \in 0 .. m |-> IF i = 0 THEN b ELSE CleanOne(f[i - 1])]
<1> DEFINE S == {m \in Nat : Has(m)}
<1>1. 0 \in S
  <2> DEFINE f == [i \in 0 .. 0 |-> b]
  <2>1. f = [i \in 0 .. 0 |-> IF i = 0 THEN b ELSE CleanOne(f[i - 1])]
    OBVIOUS
  <2> QED BY <2>1
<1>2. ASSUME NEW m \in S PROVE m + 1 \in S
  <2>1. PICK f : f = [i \in 0 .. m |-> IF i = 0 THEN b ELSE CleanOne(f[i - 1])]
    BY <1>2
  <2> DEFINE g == [i \in 0 .. m + 1 |-> IF i <= m THEN f[i] ELSE CleanOne(f[m])]
  <2>2. \A i \in 0 .. m + 1 : g[i] = IF i = 0 THEN b ELSE CleanOne(g[i - 1])
    <3> TAKE i \in 0 .. m + 1
    <3>1. CASE i = 0
      BY <3>1, <2>1
    <3>2. CASE i # 0 /\ i <= m
      <4>1. g[i] = f[i] /\ g[i - 1] = f[i - 1]
        BY <3>2
      <4>2. f[i] = CleanOne(f[i - 1])
        BY <2>1, <3>2
      <4> QED BY <4>1, <4>2, <3>2
    <3>3. CASE i = m + 1
      <4>1. g[i] = CleanOne(f[m]) /\ g[i - 1] = f[m]
        BY <3>3
      <4> QED BY <4>1, <3>3
    <3> QED BY <3>1, <3>2, <3>3
  <2>3. g = [i \in 0 .. m + 1 |-> IF i = 0 THEN b ELSE CleanOne(g[i - 1])]
    BY <2>2
  <2> HIDE DEF g
  <2> QED BY <2>3, <1>2
<1> HIDE DEF Has
<1>3. S = Nat
  <2> HIDE DEF S
  <2>1. S \in SUBSET Nat
    BY DEF S
  <2> QED BY <1>1, <1>2, <2>1, NatInduct
<1>4. Has(n)
  BY <1>3
<1> QED BY <1>4 DEF Has

\* Cleaned is CleanOne, n times.
LEMMA CleanedSteps ==
  ASSUME NEW js, NEW n \in Nat
  PROVE  \E s : /\ s[0] = [jobs |-> js, q |-> q, msg |-> msg]
                /\ \A i \in 1 .. n : s[i] = CleanOne(s[i - 1])
                /\ Cleaned(js, n) = s[n]
<1> DEFINE b == [jobs |-> js, q |-> q, msg |-> msg]
<1> DEFINE s == CHOOSE f : f = [i \in 0 .. n |-> IF i = 0 THEN b ELSE CleanOne(f[i - 1])]
<1>1. s = [i \in 0 .. n |-> IF i = 0 THEN b ELSE CleanOne(s[i - 1])]
  <2> HIDE DEF b
  <2>1. \E f : f = [i \in 0 .. n |-> IF i = 0 THEN b ELSE CleanOne(f[i - 1])]
    BY CleanRec
  <2> QED BY <2>1, Zenon
<1>2. Cleaned(js, n) = s[n]
  BY DEF Cleaned
<1> HIDE DEF s
<1>3. s[0] = b /\ \A i \in 1 .. n : s[i] = CleanOne(s[i - 1])
  <2> HIDE DEF b
  <2>1. s[0] = b
    BY <1>1
  <2>2. ASSUME NEW i \in 1 .. n PROVE s[i] = CleanOne(s[i - 1])
    BY <1>1
  <2> QED BY <2>1, <2>2
<1> QED BY <1>2, <1>3

-----------------------------------------------------------------------------
(* The queues, and the state when r jobs are over *)

\* The constants.
LEMMA Params ==
  /\ QLen \in Nat \ {0} /\ BpLen \in Nat \ {0} /\ Batch \in Nat \ {0}
  /\ FillSize \in Nat \ {0} /\ FillThresh \in Nat \ {0} /\ DmaLen \in Nat \ {0}
  /\ Pairs \subseteq {"egress", "ingress"} /\ CopyPayload \subseteq Pairs
BY GieAssumption

\* The rings of the pairs.
LEMMA Names ==
  /\ Src["egress"] = "host_tx" /\ Dst["egress"] = "lcl_rx" /\ Pool["egress"] = "lcl_bp"
  /\ Src["ingress"] = "lcl_tx" /\ Dst["ingress"] = "host_rx" /\ Pool["ingress"] = "host_bp"
  /\ \A p \in Pairs : /\ Src[p] \in DataQs /\ Dst[p] \in DataQs /\ Pool[p] \in PoolQs
                      /\ Src[p] \in Queues /\ Dst[p] \in Queues /\ Pool[p] \in Queues
                      /\ Len_(Src[p]) = QLen /\ Len_(Dst[p]) = QLen /\ Len_(Pool[p]) = BpLen
  /\ "shadow" \in Queues /\ Len_("shadow") = BpLen
  /\ \A x \in Queues : Len_(x) \in Nat \ {0}
  /\ \A x \in DataQs : \E p \in Pairs : x = Src[p] \/ x = Dst[p]
  /\ "host_tx" \in Queues <=> "egress" \in Pairs
  /\ "lcl_rx" \in Queues <=> "egress" \in Pairs
  /\ "lcl_bp" \in Queues <=> "egress" \in Pairs
  /\ "lcl_tx" \in Queues <=> "ingress" \in Pairs
  /\ "host_rx" \in Queues <=> "ingress" \in Pairs
  /\ "host_bp" \in Queues <=> "ingress" \in Pairs
<1>1. /\ Src["egress"] = "host_tx" /\ Dst["egress"] = "lcl_rx" /\ Pool["egress"] = "lcl_bp"
      /\ Src["ingress"] = "lcl_tx" /\ Dst["ingress"] = "host_rx" /\ Pool["ingress"] = "host_bp"
  BY DEF Src, Dst, Pool
<1>2. Pairs \subseteq {"egress", "ingress"}
  BY Params
<1>3. \A x : x \in DataQs <=> \E p \in Pairs : x = Src[p] \/ x = Dst[p]
  BY DEF DataQs
<1>4. \A x : x \in PoolQs <=> \E p \in Pairs : x = Pool[p]
  BY DEF PoolQs
<1>5. \A x : x \in DataQs => x \in {"host_tx", "lcl_rx", "lcl_tx", "host_rx"}
  BY <1>1, <1>2, <1>3
<1>6. \A x : x \in PoolQs => x \in {"lcl_bp", "host_bp"}
  BY <1>1, <1>2, <1>4
<1>7. \A x : x \in Queues <=> x \in DataQs \/ x \in PoolQs \/ x = "shadow"
  BY DEF Queues
<1>8. \A x : Len_(x) = IF x \in DataQs THEN QLen ELSE BpLen
  BY DEF Len_
<1>9. /\ "host_tx" \in DataQs <=> "egress" \in Pairs
      /\ "lcl_rx" \in DataQs <=> "egress" \in Pairs
      /\ "lcl_tx" \in DataQs <=> "ingress" \in Pairs
      /\ "host_rx" \in DataQs <=> "ingress" \in Pairs
      /\ "lcl_bp" \in PoolQs <=> "egress" \in Pairs
      /\ "host_bp" \in PoolQs <=> "ingress" \in Pairs
      /\ "shadow" \notin DataQs /\ "lcl_bp" \notin DataQs /\ "host_bp" \notin DataQs
      /\ "shadow" \notin PoolQs /\ "host_tx" \notin PoolQs /\ "lcl_tx" \notin PoolQs
      /\ "lcl_rx" \notin PoolQs /\ "host_rx" \notin PoolQs
  BY <1>1, <1>2, <1>3, <1>4, <1>5, <1>6
<1>10. \A p \in Pairs : Pool[p] \notin DataQs
  BY <1>1, <1>2, <1>9
<1> QED
  BY <1>1, <1>2, <1>3, <1>4, <1>7, <1>8, <1>9, <1>10, Params

\* There are two pairs at most.
LEMMA PairIs == ASSUME NEW p \in Pairs PROVE p = "egress" \/ p = "ingress"
BY Params

\* After n completions the jobs up to the r-th are over.
Remaining(js, E, r, n) ==
  [i \in 1 .. Len(js) - r |-> IF i = 1 THEN [js[r + 1] EXCEPT !.descs = E[r + 1] - n] ELSE js[r + i]]

\* The queues when the first r jobs of the log are over.
QAt(U, r) == [x \in Queues |-> [q[x] EXCEPT !.qe_head = U[x][r] % Len_(x)]]

\* The words of the notification area then.
ConsAt(P, r, x) ==
  IF x = "host_tx" THEN P["egress"][r] % QLen
  ELSE IF x = "lcl_tx" THEN P["ingress"][r] % QLen ELSE msg[x].cons

ProdAt(P, r, x) ==
  IF x = "lcl_rx" THEN P["egress"][r] % QLen
  ELSE IF x = "host_rx" THEN P["ingress"][r] % QLen ELSE msg[x].prod
MAt(P, r) == [x \in Queues |-> [cons |-> ConsAt(P, r, x), prod |-> ProdAt(P, r, x)]]

\* With n completions of the log of N jobs the first r jobs are over.
Over(E, N, r, n) == E[r] <= n /\ (r < N => n < E[r + 1])

\* The state of the clean-up loop then.
At(js, E, U, P, r, n) == [jobs |-> Remaining(js, E, r, n), q |-> QAt(U, r), msg |-> MAt(P, r)]

\* What is left of js after n completions, when its first r jobs are over.
CutAt(L, js, E, r, n) ==
  /\ L \in Seq(Job) /\ js \in Seq(Job) /\ Len(js) <= Len(L)
  /\ \A i \in 1 .. Len(js) : js[i] = L[i]
  /\ r \in 0 .. Len(js) /\ n \in Nat /\ E \in [0 .. Len(L) -> Nat]
  /\ r < Len(js) => E[r + 1] - n \in Nat

CutIs(L, s, E, m, r, n) ==
  /\ s \in Seq(Job) /\ Len(s) = m
  /\ m > 0 => Head(s) = [L[r + 1] EXCEPT !.descs = E[r + 1] - n]
  /\ \A i \in 2 .. m : s[i] = L[r + i]

\* What is left of the log when r jobs are over, and the next has begun.
LEMMA RemainingIs ==
  ASSUME NEW L, NEW js, NEW E, NEW r, NEW n, CutAt(L, js, E, r, n)
  PROVE  CutIs(L, Remaining(js, E, r, n), E, Len(js) - r, r, n)
<1> DEFINE N == Len(js)
<1>0. /\ L \in Seq(Job) /\ js \in Seq(Job) /\ N <= Len(L) /\ N \in Nat
      /\ \A i \in 1 .. N : js[i] = L[i]
      /\ r \in 0 .. N /\ n \in Nat /\ E \in [0 .. Len(L) -> Nat]
      /\ r < N => E[r + 1] - n \in Nat
  BY DEF CutAt
<1> DEFINE s == Remaining(js, E, r, n)
<1>1. s = [i \in 1 .. N - r |-> IF i = 1 THEN [js[r + 1] EXCEPT !.descs = E[r + 1] - n] ELSE js[r + i]]
  BY DEF Remaining
<1> HIDE DEF s, N
<1>2. ASSUME NEW i \in 1 .. N - r
      PROVE (IF i = 1 THEN [js[r + 1] EXCEPT !.descs = E[r + 1] - n] ELSE js[r + i]) \in Job
  <2>1. r + i \in 1 .. N /\ js[r + i] \in Job
    BY <1>0
  <2>2. CASE i = 1
    <3>1. E[r + 1] - n \in Nat /\ js[r + 1] \in Job
      BY <2>1, <2>2, <1>0
    <3> QED BY <3>1, <2>2 DEF Job
  <2> QED BY <2>1, <2>2
<1>3. s \in [1 .. N - r -> Job]
  BY <1>1, <1>2
<1>4. N - r \in Nat /\ s \in Seq(Job) /\ Len(s) = N - r
  <2>1. N - r \in Nat
    BY <1>0
  <2> DEFINE m == N - r
  <2> HIDE DEF m
  <2>2. m \in Nat /\ s \in [1 .. m -> Job]
    BY <2>1, <1>3 DEF m
  <2>3. s \in Seq(Job) /\ Len(s) = m
    BY <2>2
  <2> QED BY <2>1, <2>3 DEF m
<1>5. ASSUME r < N PROVE Head(s) = [L[r + 1] EXCEPT !.descs = E[r + 1] - n]
  <2>1. s # <<>> /\ Head(s) = s[1]
    BY <1>0, <1>4, <1>5
  <2>2. 1 \in 1 .. N - r /\ js[r + 1] = L[r + 1]
    BY <1>0, <1>5
  <2> QED BY <1>1, <2>1, <2>2
<1>6. ASSUME NEW i \in 2 .. N - r PROVE s[i] = L[r + i]
  <2>1. i \in 1 .. N - r /\ r + i \in 1 .. N /\ i # 1
    BY <1>0
  <2> QED BY <1>0, <1>1, <2>1
<1>7. N - r > 0 => r < N
  BY <1>0
<1> QED BY <1>4, <1>5, <1>6, <1>7 DEF s, CutIs, N

\* js is the part of the log that is being cleaned up.
Prefix(js, L) ==
  /\ js \in Seq(Job) /\ Len(js) <= Len(L)
  /\ \A i \in 1 .. Len(js) : js[i] = L[i]

\* The fields of the state of the clean-up loop.
LEMMA AtFields ==
  ASSUME NEW js, NEW E, NEW U, NEW P, NEW r, NEW n
  PROVE  /\ At(js, E, U, P, r, n).jobs = Remaining(js, E, r, n)
         /\ At(js, E, U, P, r, n).q = QAt(U, r) /\ At(js, E, U, P, r, n).msg = MAt(P, r)
BY DEF At

\* The indices after a job that updates ...
LEMMA QStep ==
  ASSUME IndexOk, NEW L, NEW E, NEW U, NEW P, Typed(L, E, U, P), Steps(L, E, U, P),
         NEW r \in Nat, r < Len(L)
  PROVE  QAt(U, r + 1) =
           IF L[r + 1].flag = "update"
           THEN [QAt(U, r) EXCEPT ![L[r + 1].src].qe_head = Ahead(@, L[r + 1].epd, L[r + 1].src)]
           ELSE QAt(U, r)
<1> DEFINE j == L[r + 1]
<1>1. r + 1 \in 1 .. Len(L) /\ r \in 0 .. Len(L) /\ r + 1 \in 0 .. Len(L)
  BY DEF Typed
<1>2. j \in Job /\ j.src \in Queues /\ j.epd \in Nat
  <2>1. j \in Job
    BY <1>1 DEF Typed
  <2> HIDE DEF j
  <2> QED BY <2>1 DEF Job
<1>3. \A x \in Queues : U[x][r + 1] = U[x][r] + Upd(j, x)
  <2>1. \A i \in 1 .. Len(L) : \A x \in Queues : U[x][i] = U[x][i - 1] + Upd(L[i], x)
    BY DEF Steps
  <2> QED BY <1>1, <2>1
<1>4. \A x \in Queues : U[x][r] \in Nat
  BY <1>1 DEF Typed
<1> HIDE DEF j
<1>5. CASE j.flag # "update"
  <2>1. \A x \in Queues : U[x][r + 1] = U[x][r]
    BY <1>3, <1>4, <1>5 DEF Upd
  <2> QED BY <2>1, <1>5 DEF QAt, j
<1>6. CASE j.flag = "update"
  <2> DEFINE y == j.src
  <2> DEFINE e == Ahead(U[y][r] % Len_(y), j.epd, y)
  <2>1. e = U[y][r + 1] % Len_(y)
    <3>1. U[y][r + 1] = U[y][r] + j.epd
      BY <1>2, <1>3, <1>6 DEF Upd
    <3>2. Len_(y) \in Nat \ {0}
      BY Names, <1>2
    <3>3. U[y][r] \in Nat
      BY <1>2, <1>4
    <3> DEFINE u == U[y][r]
    <3> HIDE DEF u, y
    <3>4. q_idx_add(u % Len_(y), j.epd, Len_(y)) = (u + j.epd) % Len_(y)
      BY <3>2, <3>3, <1>2, AddIs DEF u
    <3> QED BY <3>1, <3>4 DEF Ahead, u
  <2>2. \A x \in Queues : x # y => U[x][r + 1] = U[x][r]
    BY <1>3, <1>4, <1>6 DEF Upd
  <2>3. QAt(U, r)[y].qe_head = U[y][r] % Len_(y)
    BY <1>2 DEF QAt, IndexOk, QIdx
  <2>4. [QAt(U, r) EXCEPT ![y].qe_head = Ahead(@, j.epd, y)]
          = [x \in Queues |-> IF x = y THEN [QAt(U, r)[y] EXCEPT !.qe_head = e] ELSE QAt(U, r)[x]]
    BY <1>2, <2>3 DEF QAt
  <2>5. \A x \in Queues : QAt(U, r)[x] = [q[x] EXCEPT !.qe_head = U[x][r] % Len_(x)]
    BY DEF QAt
  <2>6. [QAt(U, r)[y] EXCEPT !.qe_head = e] = [q[y] EXCEPT !.qe_head = U[y][r + 1] % Len_(y)]
    BY <2>1, <2>5, <1>2 DEF IndexOk, QIdx
  <2>7. \A x \in Queues : (IF x = y THEN [QAt(U, r)[y] EXCEPT !.qe_head = e] ELSE QAt(U, r)[x])
                            = [q[x] EXCEPT !.qe_head = U[x][r + 1] % Len_(x)]
    BY <2>2, <2>5, <2>6
  <2> HIDE DEF e
  <2>8. QAt(U, r + 1) = [x \in Queues |-> IF x = y THEN [QAt(U, r)[y] EXCEPT !.qe_head = e] ELSE QAt(U, r)[x]]
    BY <2>7 DEF QAt
  <2> QED BY <2>4, <2>8, <1>6 DEF j
<1> QED BY <1>5, <1>6

\* ... and the words after one that publishes.
LEMMA MStep ==
  ASSUME IndexOk, NEW L, NEW E, NEW U, NEW P, Typed(L, E, U, P), Steps(L, E, U, P),
         NEW r \in Nat, r < Len(L)
  PROVE  MAt(P, r + 1) = IF L[r + 1].flag \in {"buffer", "produce"} THEN CleanMem(MAt(P, r), L[r + 1])
                         ELSE MAt(P, r)
<1> DEFINE j == L[r + 1]
<1>1. r + 1 \in 1 .. Len(L) /\ r \in 0 .. Len(L) /\ r + 1 \in 0 .. Len(L)
  BY DEF Typed
<1>2. JobOk(j)
  BY <1>1 DEF Steps
<1>3. \A p \in Pairs : IF Carries(j, p) THEN j.head = P[p][r + 1] % QLen /\ j.tail = P[p][r + 1] % QLen
                       ELSE P[p][r + 1] = P[p][r]
  <2>1. \A i \in 1 .. Len(L) : \A p \in Pairs : 
          IF Carries(L[i], p) THEN L[i].head = P[p][i] % QLen /\ L[i].tail = P[p][i] % QLen
                       ELSE P[p][i] = P[p][i - 1]
    BY DEF Steps
  <2> QED BY <1>1, <2>1
<1> HIDE DEF j
<1>4. CASE ~ (j.flag \in {"buffer", "produce"})
  <2>1. \A p \in Pairs : P[p][r + 1] = P[p][r]
    BY <1>3, <1>4 DEF Carries
  <2>2. \A x \in Queues : ConsAt(P, r + 1, x) = ConsAt(P, r, x) /\ ProdAt(P, r + 1, x) = ProdAt(P, r, x)
    BY <2>1, Names DEF ConsAt, ProdAt
  <2> QED BY <2>2, <1>4 DEF MAt, j
<1>5. ASSUME NEW p \in Pairs, ForPair(j, p), j.flag \in {"buffer", "produce"}
      PROVE  MAt(P, r + 1) = CleanMem(MAt(P, r), j)
  <2>1. j.head = P[p][r + 1] % QLen /\ j.tail = P[p][r + 1] % QLen
    BY <1>3, <1>5 DEF Carries, ForPair
  <2>2. \A u \in Pairs : u # p => P[u][r + 1] = P[u][r]
    <3>1. ASSUME NEW u \in Pairs, u # p PROVE Src[u] # Src[p]
      BY <3>1, Names, PairIs
    <3> QED BY <1>3, <1>5, <3>1 DEF Carries, ForPair
  <2>3. j.src = Src[p] /\ j.dst = Dst[p] /\ j.src \in Queues /\ j.dst \in Queues /\ j.src # j.dst
    BY <1>5, Names, PairIs DEF ForPair
  <2>4. CleanMem(MAt(P, r), j) =
          [x \in Queues |-> [cons |-> IF x = j.src THEN j.head ELSE ConsAt(P, r, x),
                             prod |-> IF x = j.dst THEN j.tail ELSE ProdAt(P, r, x)]]
    <3> DEFINE m == MAt(P, r)
    <3> DEFINE m1 == [m EXCEPT ![j.src].cons = j.head]
    <3>0. DOMAIN m = Queues /\ \A x \in Queues : m[x] = [cons |-> ConsAt(P, r, x), prod |-> ProdAt(P, r, x)]
      BY DEF MAt
    <3>1. CleanMem(m, j) = [m1 EXCEPT ![j.dst].prod = j.tail]
      BY DEF CleanMem
    <3> HIDE DEF m
    <3>2. m1 = [x \in Queues |-> IF x = j.src THEN [m[x] EXCEPT !.cons = j.head] ELSE m[x]]
      BY <3>0, <2>3
    <3>3. m1 = [x \in Queues |-> [cons |-> IF x = j.src THEN j.head ELSE ConsAt(P, r, x),
                                 prod |-> ProdAt(P, r, x)]]
      BY <3>0, <3>2
    <3> HIDE DEF m1
    <3>4. [m1 EXCEPT ![j.dst].prod = j.tail]
            = [x \in Queues |-> IF x = j.dst THEN [m1[x] EXCEPT !.prod = j.tail] ELSE m1[x]]
      BY <3>3, <2>3
    <3>5. \A x \in Queues : (IF x = j.dst THEN [m1[x] EXCEPT !.prod = j.tail] ELSE m1[x])
            = [cons |-> IF x = j.src THEN j.head ELSE ConsAt(P, r, x),
               prod |-> IF x = j.dst THEN j.tail ELSE ProdAt(P, r, x)]
      BY <3>3
    <3> QED BY ZenonT(30), <3>1, <3>4, <3>5 DEF m
  <2>5. \A x \in Queues : /\ ConsAt(P, r + 1, x) = IF x = j.src THEN j.head ELSE ConsAt(P, r, x)
                          /\ ProdAt(P, r + 1, x) = IF x = j.dst THEN j.tail ELSE ProdAt(P, r, x)
    <3>1. CASE p = "egress"
      BY <3>1, <2>1, <2>2, <2>3, Names DEF ConsAt, ProdAt
    <3>2. CASE p = "ingress"
      BY <3>2, <2>1, <2>2, <2>3, Names DEF ConsAt, ProdAt
    <3> QED BY <3>1, <3>2, PairIs
  <2> QED BY <2>4, <2>5 DEF MAt
<1>6. j.flag \in {"buffer", "produce"} => \E p \in Pairs : ForPair(j, p)
  BY <1>2 DEF JobOk, ForPair
<1> QED BY <1>4, <1>5, <1>6 DEF j

\* A function that does not fall from one number to the next does not fall.
LEMMA Rising ==
  ASSUME NEW M \in Nat, NEW f \in [0 .. M -> Nat], \A i \in 1 .. M : f[i - 1] <= f[i]
  PROVE  \A i, j \in 0 .. M : i <= j => f[i] <= f[j]
<1> SUFFICES ASSUME NEW i \in 0 .. M PROVE \A j \in 0 .. M : i <= j => f[i] <= f[j]
  OBVIOUS
<1> DEFINE S == {n \in Nat : i + n <= M => f[i] <= f[i + n]}
<1>1. 0 \in S
  OBVIOUS
<1>2. ASSUME NEW n \in S PROVE n + 1 \in S
  <2>1. CASE i + (n + 1) > M
    BY <1>2, <2>1
  <2>2. CASE i + (n + 1) <= M
    <3>1. i + n \in 0 .. M /\ i + (n + 1) \in 1 .. M /\ (i + (n + 1)) - 1 = i + n
      BY <2>2
    <3>2. f[i] <= f[i + n] /\ f[i + n] <= f[i + (n + 1)]
      BY <3>1, <1>2
    <3> QED BY <3>1, <3>2
  <2> QED BY <2>1, <2>2
<1>3. S = Nat
  <2> HIDE DEF S
  <2>1. S \in SUBSET Nat
    BY DEF S
  <2> QED BY <1>1, <1>2, <2>1, NatInduct
<1>4. ASSUME NEW j \in 0 .. M, i <= j PROVE f[i] <= f[j]
  <2>1. j - i \in Nat /\ i + (j - i) = j
    BY <1>4
  <2>2. j - i \in S
    BY <2>1, <1>3
  <2> QED BY <2>1, <2>2
<1> QED BY <1>4

\* What the steps say of the jobs, one by one.
LEMMA StepsAre ==
  ASSUME NEW L, NEW E, NEW U, NEW P, Typed(L, E, U, P), Steps(L, E, U, P)
  PROVE  /\ Len(L) \in Nat
         /\ \A i \in 0 .. Len(L) : E[i] \in Nat /\ (\A p \in Pairs : P[p][i] \in Nat)
                                   /\ (\A x \in Queues : U[x][i] \in Nat)
         /\ \A i \in 1 .. Len(L) : L[i] \in Job /\ JobOk(L[i]) /\ E[i] = E[i - 1] + L[i].descs
                                   /\ L[i].descs \in Nat /\ L[i].descs >= 1 /\ L[i].epd \in Nat
         /\ \A i, j \in 0 .. Len(L) : i <= j =>
              /\ E[i] <= E[j]
              /\ \A p \in Pairs : P[p][i] <= P[p][j]
              /\ \A x \in Queues : U[x][i] <= U[x][j]
         /\ \A i, j \in 0 .. Len(L) : i < j => E[i] < E[j]
<1> DEFINE M == Len(L)
<1>1. /\ M \in Nat /\ E \in [0 .. M -> Nat] /\ U \in [Queues -> [0 .. M -> Nat]]
      /\ P \in [Pairs -> [0 .. M -> Nat]]
  BY DEF Typed
<1>2. \A i \in 1 .. M : L[i] \in Job
  BY DEF Typed
<1>3. \A i \in 1 .. M :
       /\ JobOk(L[i])
       /\ E[i] = E[i - 1] + L[i].descs
       /\ \A x \in Queues : U[x][i] = U[x][i - 1] + Upd(L[i], x)
       /\ \A p \in Pairs : P[p][i - 1] <= P[p][i]
  BY DEF Steps
<1> HIDE DEF M
<1>4. \A i \in 1 .. M : L[i].descs \in Nat /\ L[i].descs >= 1 /\ L[i].epd \in Nat
  <2> TAKE i \in 1 .. M
  <2>1. L[i] \in Job /\ JobOk(L[i])
    BY <1>2, <1>3
  <2> DEFINE j == L[i]
  <2> HIDE DEF j
  <2>2. j \in Job /\ JobOk(j)
    BY <2>1 DEF j
  <2>3. j.descs \in Nat /\ j.descs >= 1 /\ j.epd \in Nat
    BY <2>2 DEF JobOk, Job
  <2> QED BY <2>3 DEF j
<1>5. \A i, j \in 0 .. M : i <= j => E[i] <= E[j]
  <2>1. \A i \in 1 .. M : E[i - 1] <= E[i]
    <3> TAKE i \in 1 .. M
    <3>1. i - 1 \in 0 .. M /\ E[i - 1] \in Nat
      BY <1>1
    <3> QED BY <3>1, <1>3, <1>4
  <2> QED BY <1>1, <2>1, Rising
<1>6. \A p \in Pairs : \A i, j \in 0 .. M : i <= j => P[p][i] <= P[p][j]
  <2> TAKE p \in Pairs
  <2>1. P[p] \in [0 .. M -> Nat] /\ \A i \in 1 .. M : P[p][i - 1] <= P[p][i]
    BY <1>1, <1>3
  <2> DEFINE f == P[p]
  <2> HIDE DEF f
  <2>2. \A i, j \in 0 .. M : i <= j => f[i] <= f[j]
    BY <1>1, <2>1, Rising DEF f
  <2> QED BY <2>2 DEF f
<1>7. \A x \in Queues : \A i, j \in 0 .. M : i <= j => U[x][i] <= U[x][j]
  <2> TAKE x \in Queues
  <2>1. \A i \in 1 .. M : U[x][i - 1] <= U[x][i]
    <3> TAKE i \in 1 .. M
    <3>1. i - 1 \in 0 .. M /\ U[x][i - 1] \in Nat
      BY <1>1
    <3>2. Upd(L[i], x) \in Nat
      BY <1>4 DEF Upd
    <3> QED BY <3>1, <3>2, <1>3
  <2> DEFINE f == U[x]
  <2>2. f \in [0 .. M -> Nat]
    BY <1>1
  <2> HIDE DEF f
  <2>3. \A i, j \in 0 .. M : i <= j => f[i] <= f[j]
    BY <1>1, <2>1, <2>2, Rising DEF f
  <2> QED BY <2>3 DEF f
<1>8. \A i, j \in 0 .. M : i < j => E[i] < E[j]
  <2> SUFFICES ASSUME NEW i \in 0 .. M, NEW j \in 0 .. M, i < j PROVE E[i] < E[j]
    OBVIOUS
  <2>1. j - 1 \in 0 .. M /\ i <= j - 1 /\ j \in 1 .. M
    BY <1>1
  <2>2. E[i] <= E[j - 1] /\ E[j] = E[j - 1] + L[j].descs /\ L[j].descs >= 1 /\ L[j].descs \in Nat
    BY <2>1, <1>3, <1>4, <1>5
  <2>3. E[i] \in Nat /\ E[j - 1] \in Nat
    BY <2>1, <1>1
  <2> QED BY <2>2, <2>3
<1> QED BY <1>1, <1>2, <1>3, <1>4, <1>5, <1>6, <1>7, <1>8 DEF M

\* The tail of a sequence, place by place.
LEMMA TailIs ==
  ASSUME NEW S, NEW z \in Seq(S), NEW m \in Nat, Len(z) = m + 1
  PROVE  Tail(z) = [i \in 1 .. m |-> z[i + 1]]
<1> DEFINE t == Tail(z)
<1>1. z # <<>> /\ Len(z) - 1 = m
  OBVIOUS
<1>2. t \in Seq(S) /\ Len(t) = Len(z) - 1 /\ \A i \in 1 .. Len(t) : t[i] = z[i + 1]
  BY <1>1, HeadTailProperties
<1> HIDE DEF t
<1>3. t = [i \in 1 .. m |-> t[i]]
  BY <1>1, <1>2
<1>4. \A i \in 1 .. m : t[i] = z[i + 1]
  BY <1>1, <1>2
<1> QED BY <1>3, <1>4 DEF t

\* One more completion.
LEMMA CleanStep ==
  ASSUME IndexOk, NEW L, NEW E, NEW U, NEW P, Typed(L, E, U, P), Steps(L, E, U, P),
         NEW js, Prefix(js, L), NEW r \in 0 .. Len(js), NEW n \in Nat,
         n < E[Len(js)], Over(E, Len(js), r, n)
  PROVE  \E t \in 0 .. Len(js) : /\ Over(E, Len(js), t, n + 1)
                                 /\ CleanOne(At(js, E, U, P, r, n)) = At(js, E, U, P, t, n + 1)
<1> DEFINE N == Len(js)
<1> DEFINE s == At(js, E, U, P, r, n)
<1> DEFINE j == L[r + 1]
<1> DEFINE h == [j EXCEPT !.descs = E[r + 1] - n]
<1>1. N \in Nat /\ N <= Len(L) /\ js \in Seq(Job) /\ L \in Seq(Job) /\ r \in 0 .. N
  BY DEF Prefix, Typed
<1>2. r < N /\ n < E[r + 1] /\ E[r] <= n
  <2>1. r = N => E[r] <= n
    BY DEF Over
  <2>2. E[N] \in Nat /\ E[r] \in Nat
    BY <1>1, StepsAre
  <2> QED BY <1>1, <2>1, <2>2 DEF Over
<1>3. r + 1 \in 1 .. N /\ r + 1 \in 1 .. Len(L) /\ r \in 0 .. Len(L) /\ r + 1 \in 0 .. Len(L)
  BY <1>1, <1>2
<1>4. E[r] \in Nat /\ E[r + 1] \in Nat /\ E[r + 1] = E[r] + j.descs /\ JobOk(j) /\ j \in Job /\ j.descs \in Nat
  <2>1. \A i \in 1 .. Len(L) : L[i] \in Job /\ JobOk(L[i]) /\ E[i] = E[i - 1] + L[i].descs /\ L[i].descs \in Nat
    BY StepsAre
  <2>2. \A i \in 0 .. Len(L) : E[i] \in Nat
    BY StepsAre
  <2>3. (r + 1) - 1 = r
    BY <1>1
  <2> QED BY <2>1, <2>2, <2>3, <1>3
<1>5. /\ s.jobs = Remaining(js, E, r, n) /\ s.q = QAt(U, r) /\ s.msg = MAt(P, r)
  BY AtFields
<1>6. /\ s.jobs \in Seq(Job) /\ Len(s.jobs) = N - r /\ Head(s.jobs) = h
      /\ \A i \in 2 .. N - r : s.jobs[i] = L[r + i]
  <2>1. E[r + 1] - n \in Nat
    BY <1>2, <1>4
  <2>2. E \in [0 .. Len(L) -> Nat]
    BY DEF Typed
  <2>3. \A i \in 1 .. N : js[i] = L[i]
    BY DEF Prefix
  <2> DEFINE R == Remaining(js, E, r, n)
  <2>4. N = Len(js)
    OBVIOUS
  <2> HIDE DEF N, s, h, j
  <2>5. CutIs(L, R, E, N - r, r, n)
    <3>1. CutAt(L, js, E, r, n)
      BY <1>1, <2>1, <2>2, <2>3, <2>4 DEF CutAt
    <3>2. CutIs(L, Remaining(js, E, r, n), E, Len(js) - r, r, n)
      BY <3>1, RemainingIs
    <3> QED BY <3>2 DEF R, N
  <2>6. s.jobs = R
    BY <1>5
  <2>7. Head(R) = h
    BY <1>1, <1>2, <2>5 DEF h, j, CutIs
  <2> HIDE DEF R
  <2> QED BY <2>5, <2>6, <2>7, <1>1 DEF CutIs
<1>7. /\ h.descs = E[r + 1] - n /\ h.flag = j.flag /\ h.src = j.src /\ h.dst = j.dst /\ h.epd = j.epd
      /\ h.head = j.head /\ h.tail = j.tail
  <2> HIDE DEF j
  <2> QED BY <1>4 DEF Job
<1>8. CleanOne(s) =
        [jobs |-> IF E[r + 1] - n = 1 THEN Tail(s.jobs) ELSE [s.jobs EXCEPT ![1].descs = @ - 1],
         q |-> IF j.flag = "update" THEN [QAt(U, r) EXCEPT ![j.src].qe_head = Ahead(@, j.epd, j.src)]
               ELSE QAt(U, r),
         msg |-> IF j.flag = "produce" \/ (j.flag = "buffer" /\ E[r + 1] - n = 1)
                 THEN CleanMem(MAt(P, r), j) ELSE MAt(P, r)]
  <2>1. CleanMem(MAt(P, r), h) = CleanMem(MAt(P, r), j)
    BY <1>7 DEF CleanMem
  <2> HIDE DEF s, h, j
  <2> QED BY <1>5, <1>6, <1>7, <2>1 DEF CleanOne
<1>9. CASE E[r + 1] - n = 1
  <2>1. Tail(s.jobs) = Remaining(js, E, r + 1, n + 1)
    <3> DEFINE a == Tail(s.jobs)
    <3> DEFINE b == Remaining(js, E, r + 1, n + 1)
    <3> DEFINE m == N - (r + 1)
    <3>1. m \in Nat /\ N - r = m + 1
      BY <1>1, <1>2
    <3>2. a = [i \in 1 .. m |-> s.jobs[i + 1]]
      <4> HIDE DEF s
      <4> DEFINE z == s.jobs
      <4>1. z # <<>> /\ Len(z) = m + 1 /\ z \in Seq(Job)
        BY <1>6, <3>1
      <4> HIDE DEF z, m
      <4> QED BY <4>1, <3>1, TailIs DEF z
    <3>3. b = [i \in 1 .. m |-> IF i = 1 THEN [js[r + 1 + 1] EXCEPT !.descs = E[r + 1 + 1] - (n + 1)] ELSE js[r + 1 + i]]
      BY DEF Remaining
    <3>4. ASSUME NEW i \in 1 .. m PROVE a[i] = b[i]
      <4>1. i + 1 \in 2 .. N - r /\ r + (i + 1) \in 1 .. N /\ r + (i + 1) = (r + 1) + i
        BY <3>1, <1>1
      <4>2. a[i] = L[r + (i + 1)]
        BY <3>2, <4>1, <1>6
      <4>3. js[r + (i + 1)] = L[r + (i + 1)]
        BY <4>1 DEF Prefix
      <4>4. CASE i # 1
        BY <4>1, <4>2, <4>3, <4>4, <3>3
      <4>5. CASE i = 1
        <5> DEFINE k == r + 2
        <5>1. k \in 1 .. Len(L) /\ k = r + 1 + 1 /\ k = r + (i + 1) /\ k - 1 = r + 1
          BY <4>1, <4>5, <1>1
        <5>2. L[k] \in Job /\ E[k] = E[r + 1] + L[k].descs /\ L[k].descs \in Nat
          BY <5>1, StepsAre
        <5>3. E[k] - (n + 1) = L[k].descs
          BY SMTT(30), <5>2, <1>9, <1>4
        <5>4. b[i] = [js[k] EXCEPT !.descs = E[k] - (n + 1)]
          BY <3>3, <4>5, <5>1
        <5>5. [L[k] EXCEPT !.descs = L[k].descs] = L[k]
          <6> DEFINE g == L[k]
          <6> HIDE DEF g
          <6>1. g \in Job
            BY <5>2 DEF g
          <6>2. [g EXCEPT !.descs = g.descs] = g
            BY <6>1 DEF Job
          <6> QED BY <6>2 DEF g
        <5> QED BY <5>1, <5>3, <5>4, <5>5, <4>2, <4>3
      <4> QED BY <4>4, <4>5
    <3>5. DOMAIN a = 1 .. m /\ DOMAIN b = 1 .. m
      BY <3>2, <3>3
    <3>6. a = [i \in 1 .. m |-> a[i]] /\ b = [i \in 1 .. m |-> b[i]]
      BY <3>2, <3>3
    <3> HIDE DEF a, b
    <3>7. a = b
      BY <3>4, <3>6
    <3> QED BY <3>7 DEF a, b
  <2>2. CleanOne(s).q = QAt(U, r + 1)
    BY <1>8, <1>3, QStep
  <2>3. CleanOne(s).msg = MAt(P, r + 1)
    BY <1>8, <1>9, <1>3, MStep
  <2>4. CleanOne(s) = At(js, E, U, P, r + 1, n + 1)
    <3>1. CleanOne(s).jobs = Tail(s.jobs)
      BY <1>8, <1>9
    <3>2. CleanOne(s) = [jobs |-> CleanOne(s).jobs, q |-> CleanOne(s).q, msg |-> CleanOne(s).msg]
      BY <1>8
    <3> HIDE DEF s
    <3> QED BY <2>1, <2>2, <2>3, <3>1, <3>2 DEF At
  <2>5. Over(E, N, r + 1, n + 1)
    <3>1. E[r + 1] <= n + 1
      BY <1>9, <1>4
    <3>2. r + 1 < N => n + 1 < E[(r + 1) + 1]
      <4> SUFFICES ASSUME r + 1 < N PROVE n + 1 < E[(r + 1) + 1]
        OBVIOUS
      <4>1. r + 1 \in 0 .. Len(L) /\ (r + 1) + 1 \in 0 .. Len(L) /\ r + 1 < (r + 1) + 1
        BY <1>1
      <4>2. E[r + 1] < E[(r + 1) + 1]
        BY <4>1, StepsAre
      <4> QED BY <4>2, <1>9, <1>4
    <3> QED BY <3>1, <3>2 DEF Over
  <2> QED BY <2>4, <2>5, <1>3
<1>10. CASE E[r + 1] - n # 1
  <2>1. E[r + 1] - n > 1 /\ j.descs > 1
    BY <1>10, <1>2, <1>4
  <2>2. j.flag # "update" /\ j.flag # "produce"
    BY <2>1, <1>4 DEF JobOk
  <2>3. [s.jobs EXCEPT ![1].descs = @ - 1] = Remaining(js, E, r, n + 1)
    <3>0. 1 \in 1 .. N - r /\ js[r + 1] = j
      BY <1>1, <1>2, <1>3 DEF Prefix
    <3>1. s.jobs = [i \in 1 .. N - r |-> IF i = 1 THEN h ELSE js[r + i]]
      BY <1>5, <3>0 DEF Remaining
    <3>2. Remaining(js, E, r, n + 1) = [i \in 1 .. N - r |-> IF i = 1 THEN [j EXCEPT !.descs = E[r + 1] - (n + 1)] ELSE js[r + i]]
      BY <3>0 DEF Remaining
    <3>3. [h EXCEPT !.descs = @ - 1] = [j EXCEPT !.descs = E[r + 1] - (n + 1)]
      <4>1. E[r + 1] - n - 1 = E[r + 1] - (n + 1)
        BY <1>4
      <4> DEFINE e == E[r + 1]
      <4> HIDE DEF j, e
      <4>2. [[j EXCEPT !.descs = e - n] EXCEPT !.descs = @ - 1] = [j EXCEPT !.descs = e - n - 1]
        BY <1>4 DEF Job
      <4> QED BY <4>1, <4>2 DEF e
    <3> HIDE DEF s, h, j
    <3>4. [s.jobs EXCEPT ![1].descs = @ - 1]
            = [i \in 1 .. N - r |-> IF i = 1 THEN [h EXCEPT !.descs = @ - 1] ELSE js[r + i]]
      <4>1. [s.jobs EXCEPT ![1].descs = @ - 1]
            = [i \in 1 .. N - r |-> IF i = 1 THEN [s.jobs[1] EXCEPT !.descs = @ - 1] ELSE s.jobs[i]]
        BY <3>0, <3>1
      <4>2. s.jobs[1] = h
        BY <3>0, <3>1
      <4>3. \A i \in 1 .. N - r : i # 1 => s.jobs[i] = js[r + i]
        BY <3>1
      <4> QED BY <4>1, <4>2, <4>3
    <3> QED BY <3>2, <3>3, <3>4
  <2>4. CleanOne(s) = [jobs |-> [s.jobs EXCEPT ![1].descs = @ - 1], q |-> QAt(U, r), msg |-> MAt(P, r)]
    BY <1>8, <2>2, <1>10
  <2>5. CleanOne(s) = At(js, E, U, P, r, n + 1)
    <3> HIDE DEF s
    <3> QED BY <2>3, <2>4 DEF At
  <2>6. Over(E, N, r, n + 1)
    BY <1>2, <1>4, <2>1 DEF Over
  <2> QED BY <2>5, <2>6
<1> QED BY <1>9, <1>10

-----------------------------------------------------------------------------
(* Sequences, whatever is in them *)

\* A sequence over a set is one.
LEMMA SeqIs == ASSUME NEW S, NEW s \in Seq(S) PROVE IsSeq(s)
BY DEF IsSeq

\* A sequence is one over a set that has its elements.
LEMMA IsSeqIn ==
  ASSUME NEW S, NEW s, IsSeq(s), \A i \in 1 .. Len(s) : s[i] \in S
  PROVE  s \in Seq(S)
<1> DEFINE n == Len(s)
<1>1. n \in Nat /\ s = [i \in 1 .. n |-> s[i]]
  BY DEF IsSeq
<1> HIDE DEF n
<1>2. \A i \in 1 .. n : s[i] \in S
  BY DEF n
<1>3. s \in [1 .. n -> S]
  BY <1>1, <1>2
<1> QED BY <1>1, <1>3

\* There is such a set ...
LEMMA InRange == ASSUME NEW s, IsSeq(s) PROVE \E S : s \in Seq(S)
<1> DEFINE S == {s[i] : i \in 1 .. Len(s)}
<1>1. \A i \in 1 .. Len(s) : s[i] \in S
  OBVIOUS
<1> HIDE DEF S
<1>2. s \in Seq(S)
  BY <1>1, IsSeqIn
<1> QED BY <1>2

\* ... and one for two sequences.
LEMMA InUnion == ASSUME NEW s, NEW t, IsSeq(s), IsSeq(t) PROVE \E S : s \in Seq(S) /\ t \in Seq(S)
<1> DEFINE S == {s[i] : i \in 1 .. Len(s)} \cup {t[i] : i \in 1 .. Len(t)}
<1>1. (\A i \in 1 .. Len(s) : s[i] \in S) /\ (\A i \in 1 .. Len(t) : t[i] \in S)
  OBVIOUS
<1> HIDE DEF S
<1>2. s \in Seq(S)
  BY <1>1, IsSeqIn
<1>3. t \in Seq(S)
  BY <1>1, IsSeqIn
<1> QED BY <1>2, <1>3

\* Two sequences put together, place by place.
LEMMA CatIs ==
  ASSUME NEW s, NEW t, IsSeq(s), IsSeq(t)
  PROVE  /\ IsSeq(s \o t) /\ Len(s \o t) = Len(s) + Len(t)
         /\ \A i \in 1 .. Len(s) : (s \o t)[i] = s[i]
         /\ \A i \in 1 .. Len(t) : (s \o t)[Len(s) + i] = t[i]
<1>1. PICK S : s \in Seq(S) /\ t \in Seq(S)
  BY InUnion
<1> DEFINE c == s \o t
<1>2. c \in Seq(S) /\ Len(c) = Len(s) + Len(t) /\ Len(s) \in Nat /\ Len(t) \in Nat
      /\ \A i \in 1 .. Len(s) + Len(t) : c[i] = IF i <= Len(s) THEN s[i] ELSE t[i - Len(s)]
  BY <1>1
<1> HIDE DEF c
<1>3. IsSeq(c)
  BY <1>2, SeqIs
<1>4. \A i \in 1 .. Len(s) : c[i] = s[i]
  BY <1>2
<1>5. ASSUME NEW i \in 1 .. Len(t) PROVE c[Len(s) + i] = t[i]
  <2> DEFINE k == Len(s) + i
  <2>1. k \in 1 .. Len(s) + Len(t) /\ k - Len(s) = i /\ ~ (k <= Len(s))
    BY <1>2
  <2> HIDE DEF k
  <2>2. c[k] = t[k - Len(s)]
    BY <1>2, <2>1
  <2> QED BY <2>1, <2>2 DEF k
<1> QED BY <1>2, <1>3, <1>4, <1>5 DEF c

\* A sequence of one.
LEMMA OneIs == ASSUME NEW e PROVE IsSeq(<<e>>) /\ Len(<<e>>) = 1 /\ <<e>>[1] = e
<1>1. <<e>> \in Seq({e})
  OBVIOUS
<1> QED BY <1>1, SeqIs

\* An element more, place by place.
LEMMA AppendIs ==
  ASSUME NEW s, IsSeq(s), NEW e
  PROVE  /\ IsSeq(Append(s, e)) /\ Len(Append(s, e)) = Len(s) + 1
         /\ \A i \in 1 .. Len(s) : Append(s, e)[i] = s[i]
         /\ Append(s, e)[Len(s) + 1] = e
<1> DEFINE S == {s[i] : i \in 1 .. Len(s)} \cup {e}
<1>1. (\A i \in 1 .. Len(s) : s[i] \in S) /\ e \in S
  OBVIOUS
<1> HIDE DEF S
<1>2. s \in Seq(S)
  BY <1>1, IsSeqIn
<1> DEFINE c == Append(s, e)
<1>3. c \in Seq(S) /\ Len(c) = Len(s) + 1 /\ Len(s) \in Nat
      /\ (\A i \in 1 .. Len(s) : c[i] = s[i]) /\ c[Len(s) + 1] = e
  BY <1>1, <1>2, AppendProperties
<1> HIDE DEF c
<1>4. IsSeq(c)
  BY <1>3, SeqIs
<1> QED BY <1>3, <1>4 DEF c

\* A part of a sequence, place by place.
LEMMA SubIs ==
  ASSUME NEW s, IsSeq(s), NEW a \in Nat, NEW b \in Nat, 1 <= a, a <= b + 1, b <= Len(s)
  PROVE  /\ IsSeq(SubSeq(s, a, b)) /\ Len(SubSeq(s, a, b)) = b - a + 1
         /\ \A i \in 1 .. b - a + 1 : SubSeq(s, a, b)[i] = s[a + i - 1]
<1>1. PICK S : s \in Seq(S)
  BY InRange
<1> DEFINE c == SubSeq(s, a, b)
<1> DEFINE n == b - a + 1
<1>2. n \in Nat
  OBVIOUS
<1>3. c = [i \in 1 .. n |-> s[i + a - 1]]
  BY <1>1
<1> HIDE DEF c
<1>4. \A i \in 1 .. n : i + a - 1 = a + i - 1 /\ a + i - 1 \in 1 .. Len(s)
  BY <1>1
<1>5. \A i \in 1 .. n : c[i] = s[a + i - 1] /\ c[i] \in S
  BY <1>1, <1>3, <1>4
<1> HIDE DEF n
<1>6. c \in [1 .. n -> S]
  BY <1>3, <1>5
<1>7. c \in Seq(S) /\ Len(c) = n
  BY <1>2, <1>6
<1>8. IsSeq(c)
  BY <1>7, SeqIs
<1> QED BY <1>5, <1>7, <1>8 DEF c, n

\* A sequence without its first element, place by place.
LEMMA TailOf ==
  ASSUME NEW s, IsSeq(s), s # <<>>
  PROVE  /\ IsSeq(Tail(s)) /\ Len(s) >= 1 /\ Len(Tail(s)) = Len(s) - 1 /\ Head(s) = s[1]
         /\ \A i \in 1 .. Len(s) - 1 : Tail(s)[i] = s[i + 1]
<1>1. PICK S : s \in Seq(S)
  BY InRange
<1> DEFINE c == Tail(s)
<1>2. c \in Seq(S) /\ Len(c) = Len(s) - 1 /\ Len(s) >= 1 /\ Len(s) \in Nat /\ Head(s) = s[1]
      /\ \A i \in 1 .. Len(c) : c[i] = s[i + 1]
  BY <1>1, HeadTailProperties, EmptySeq
<1> HIDE DEF c
<1>3. IsSeq(c)
  BY <1>2, SeqIs
<1> QED BY <1>2, <1>3 DEF c

\* Sequences that agree place by place are the same.
LEMMA SameSeq ==
  ASSUME NEW s, NEW t, IsSeq(s), IsSeq(t), Len(s) = Len(t), \A i \in 1 .. Len(s) : s[i] = t[i]
  PROVE  s = t
<1> DEFINE n == Len(s)
<1>1. s = [i \in 1 .. n |-> s[i]] /\ t = [i \in 1 .. n |-> t[i]]
  BY DEF IsSeq
<1> HIDE DEF n
<1>2. \A i \in 1 .. n : s[i] = t[i]
  BY DEF n
<1> QED BY <1>1, <1>2

\* The empty sequence ...
LEMMA EmptyIs == IsSeq(<<>>) /\ Len(<<>>) = 0
<1>1. <<>> \in Seq({})
  OBVIOUS
<1> QED BY <1>1, SeqIs

\* ... is the one of length 0.
LEMMA LenZero == ASSUME NEW s, IsSeq(s) PROVE s = <<>> <=> Len(s) = 0
<1>1. PICK S : s \in Seq(S)
  BY InRange
<1> QED BY <1>1

-----------------------------------------------------------------------------
(* Cleaning up n completions *)

\* The words of the pairs are where the publications have got to.
Published(P) ==
  \A p \in Pairs : msg[Src[p]].cons = P[p][0] % QLen /\ msg[Dst[p]].prod = P[p][0] % QLen

\* Before the first completion nothing has changed.
LEMMA CleanBase ==
  ASSUME IndexOk, NEW L, NEW E, NEW U, NEW P, Typed(L, E, U, P), Steps(L, E, U, P),
         NEW js, Prefix(js, L), Heads(U), Published(P)
  PROVE  Over(E, Len(js), 0, 0) /\ At(js, E, U, P, 0, 0) = [jobs |-> js, q |-> q, msg |-> msg]
<1> DEFINE N == Len(js)
<1>1. N \in Nat /\ N <= Len(L) /\ js \in Seq(Job) /\ \A i \in 1 .. N : js[i] = L[i]
  BY DEF Prefix
<1>2. \A i \in 1 .. Len(L) : L[i] \in Job /\ E[i] = E[i - 1] + L[i].descs
                             /\ L[i].descs \in Nat /\ L[i].descs >= 1
  BY StepsAre
<1>3. E[0] = 0 /\ Len(L) \in Nat
  BY DEF Steps, Typed
<1>4. N > 0 => E[1] = L[1].descs /\ L[1].descs \in Nat /\ L[1].descs >= 1 /\ L[1] \in Job /\ js[1] = L[1]
  <2> SUFFICES ASSUME N > 0 PROVE E[1] = L[1].descs /\ L[1].descs \in Nat /\ L[1].descs >= 1 /\ L[1] \in Job /\ js[1] = L[1]
    OBVIOUS
  <2>1. 1 \in 1 .. Len(L) /\ 1 \in 1 .. N /\ 1 - 1 = 0
    BY <1>1, <1>3
  <2>2. E[1] = E[1 - 1] + L[1].descs /\ L[1].descs \in Nat /\ L[1].descs >= 1 /\ L[1] \in Job
    BY <1>2, <2>1
  <2>3. E[1] = 0 + L[1].descs
    BY <2>1, <2>2, <1>3
  <2> QED BY <2>1, <2>2, <2>3, <1>1
<1>5. Over(E, N, 0, 0)
  BY <1>3, <1>4 DEF Over
<1>6. Remaining(js, E, 0, 0) = js
  <2>1. Remaining(js, E, 0, 0) = [i \in 1 .. N |-> IF i = 1 THEN [js[1] EXCEPT !.descs = E[1] - 0] ELSE js[i]]
    <3>1. N - 0 = N /\ 0 + 1 = 1 /\ \A i \in 1 .. N : 0 + i = i
      BY <1>1
    <3> QED BY <3>1 DEF Remaining
  <2>2. N > 0 => [js[1] EXCEPT !.descs = E[1] - 0] = js[1]
    <3> DEFINE j == js[1]
    <3>1. N > 0 => E[1] - 0 = j.descs /\ j \in Job
      BY <1>4
    <3> HIDE DEF j
    <3>2. j \in Job => [j EXCEPT !.descs = j.descs] = j
      BY DEF Job
    <3> QED BY <3>1, <3>2 DEF j
  <2>3. \A i \in 1 .. N : (IF i = 1 THEN [js[1] EXCEPT !.descs = E[1] - 0] ELSE js[i]) = js[i]
    BY <1>1, <2>2
  <2>4. js = [i \in 1 .. N |-> js[i]]
    BY <1>1
  <2> QED BY <2>1, <2>3, <2>4
<1>7. QAt(U, 0) = q
  <2>1. \A x \in Queues : [q[x] EXCEPT !.qe_head = U[x][0] % Len_(x)] = q[x]
    <3> TAKE x \in Queues
    <3> DEFINE v == q[x]
    <3>1. v \in QIdx /\ U[x][0] % Len_(x) = v.qe_head
      BY DEF IndexOk, Heads
    <3> HIDE DEF v
    <3>2. [v EXCEPT !.qe_head = v.qe_head] = v
      BY <3>1 DEF QIdx
    <3> QED BY <3>1, <3>2 DEF v
  <2>2. q = [x \in Queues |-> q[x]]
    BY DEF IndexOk
  <2>3. QAt(U, 0) = [x \in Queues |-> [q[x] EXCEPT !.qe_head = U[x][0] % Len_(x)]]
    BY DEF QAt
  <2> QED BY <2>1, <2>2, <2>3, Zenon
<1>8. MAt(P, 0) = msg
  <2>1. \A x \in Queues : ConsAt(P, 0, x) = msg[x].cons /\ ProdAt(P, 0, x) = msg[x].prod
    <3> TAKE x \in Queues
    <3>1. CASE x = "host_tx"
      BY <3>1, Names DEF Published, ConsAt, ProdAt
    <3>2. CASE x = "lcl_tx"
      BY <3>2, Names DEF Published, ConsAt, ProdAt
    <3>3. CASE x = "lcl_rx"
      BY <3>3, Names DEF Published, ConsAt, ProdAt
    <3>4. CASE x = "host_rx"
      BY <3>4, Names DEF Published, ConsAt, ProdAt
    <3>5. CASE x \notin {"host_tx", "lcl_tx", "lcl_rx", "host_rx"}
      BY <3>5 DEF ConsAt, ProdAt
    <3> QED BY <3>1, <3>2, <3>3, <3>4, <3>5
  <2>2. \A x \in Queues : msg[x] = [cons |-> msg[x].cons, prod |-> msg[x].prod]
    BY DEF IndexOk, Words
  <2>3. msg = [x \in Queues |-> msg[x]]
    BY DEF IndexOk
  <2>4. MAt(P, 0) = [x \in Queues |-> [cons |-> msg[x].cons, prod |-> msg[x].prod]]
    BY <2>1 DEF MAt
  <2> QED BY <2>2, <2>3, <2>4
<1> QED BY <1>5, <1>6, <1>7, <1>8 DEF At

\* After n completions the jobs up to some r are over, and the indices and
\* words are theirs.
LEMMA CleanedIs ==
  ASSUME IndexOk, NEW L, NEW E, NEW U, NEW P, Typed(L, E, U, P), Steps(L, E, U, P),
         NEW js, Prefix(js, L), Heads(U), Published(P), NEW n \in Nat, n <= E[Len(js)]
  PROVE  \E r \in 0 .. Len(js) : Over(E, Len(js), r, n) /\ Cleaned(js, n) = At(js, E, U, P, r, n)
<1> DEFINE N == Len(js)
<1> DEFINE Good(c, k) == \E r \in 0 .. N : Over(E, N, r, k) /\ c = At(js, E, U, P, r, k)
<1>0. N \in Nat /\ E[N] \in Nat
  <2>1. N \in Nat /\ N \in 0 .. Len(L)
    BY DEF Prefix
  <2> QED BY <2>1, StepsAre
<1>1. PICK s : /\ s[0] = [jobs |-> js, q |-> q, msg |-> msg]
               /\ \A i \in 1 .. n : s[i] = CleanOne(s[i - 1])
               /\ Cleaned(js, n) = s[n]
  BY CleanedSteps
<1> DEFINE S == {k \in Nat : k <= n => Good(s[k], k)}
<1>2. 0 \in S
  <2>1. Over(E, N, 0, 0) /\ s[0] = At(js, E, U, P, 0, 0)
    BY <1>1, CleanBase
  <2>2. 0 \in 0 .. N
    BY <1>0
  <2> QED BY <2>1, <2>2
<1>3. ASSUME NEW k \in S PROVE k + 1 \in S
  <2> SUFFICES ASSUME k + 1 <= n PROVE Good(s[k + 1], k + 1)
    OBVIOUS
  <2>1. Good(s[k], k)
    BY <1>3
  <2>2. PICK r \in 0 .. N : Over(E, N, r, k) /\ s[k] = At(js, E, U, P, r, k)
    BY <2>1
  <2>3. k \in Nat /\ k < E[N]
    BY <1>0
  <2>4. \E t \in 0 .. N : Over(E, N, t, k + 1) /\ CleanOne(At(js, E, U, P, r, k)) = At(js, E, U, P, t, k + 1)
    BY <2>2, <2>3, CleanStep
  <2>5. s[k + 1] = CleanOne(s[k])
    <3>1. k + 1 \in 1 .. n /\ (k + 1) - 1 = k
      BY <1>3
    <3> QED BY <3>1, <1>1
  <2> QED BY <2>2, <2>4, <2>5
<1> HIDE DEF Good
<1>4. S = Nat
  <2> HIDE DEF S
  <2>1. S \in SUBSET Nat
    BY DEF S
  <2> QED BY <1>2, <1>3, <2>1, NatInduct
<1>5. Good(s[n], n)
  BY <1>4
<1> QED BY <1>1, <1>5 DEF Good

\* The positions that are left when r jobs are over, after n completions.
CutE(M, E, r, n) == [i \in 0 .. M - r |-> IF i = 0 THEN 0 ELSE E[i + r] - n]
CutU(M, U, r) == [x \in Queues |-> [i \in 0 .. M - r |-> U[x][i + r]]]
CutP(M, P, r) == [p \in Pairs |-> [i \in 0 .. M - r |-> P[p][i + r]]]

\* L2 is what is left of L: the jobs from the r-th on, the first of them
\* perhaps with fewer descriptors.
CutOf(L, L2, E, r, n) ==
  /\ L2 \in Seq(Job) /\ Len(L2) = Len(L) - r
  /\ \A i \in 1 .. Len(L) - r :
       /\ JobOk(L2[i]) /\ L2[i].flag = L[i + r].flag /\ L2[i].src = L[i + r].src
       /\ L2[i].dst = L[i + r].dst /\ L2[i].epd = L[i + r].epd
       /\ L2[i].head = L[i + r].head /\ L2[i].tail = L[i + r].tail
       /\ L2[i].descs = IF i = 1 THEN E[r + 1] - n ELSE L[i + r].descs

\* What is left when r jobs are over, after n completions.
LEMMA CutJobs ==
  ASSUME NEW L, NEW E, NEW U, NEW P, Typed(L, E, U, P), Steps(L, E, U, P),
         NEW r \in 0 .. Len(L), NEW n \in Nat, Over(E, Len(L), r, n),
         NEW L2, L2 = Remaining(L, E, r, n)
  PROVE  CutOf(L, L2, E, r, n)
<1> DEFINE M == Len(L)
<1>1. M \in Nat /\ L \in Seq(Job) /\ E \in [0 .. M -> Nat]
  BY DEF Typed
<1>2. \A i \in 1 .. M : L[i] \in Job /\ JobOk(L[i]) /\ E[i] = E[i - 1] + L[i].descs
                        /\ L[i].descs \in Nat /\ L[i].descs >= 1
  BY StepsAre
<1>3. E[r] <= n /\ (r < M => n < E[r + 1])
  BY DEF Over
<1>4. r < M => /\ L[r + 1] \in Job /\ JobOk(L[r + 1]) /\ E[r + 1] = E[r] + L[r + 1].descs
               /\ L[r + 1].descs \in Nat /\ E[r] \in Nat /\ E[r + 1] \in Nat
  <2> SUFFICES ASSUME r < M
               PROVE /\ L[r + 1] \in Job /\ JobOk(L[r + 1]) /\ E[r + 1] = E[r] + L[r + 1].descs
                     /\ L[r + 1].descs \in Nat /\ E[r] \in Nat /\ E[r + 1] \in Nat
    OBVIOUS
  <2>1. r + 1 \in 1 .. M /\ (r + 1) - 1 = r /\ r + 1 \in 0 .. M
    BY <1>1
  <2>2. E[r + 1] = E[(r + 1) - 1] + L[r + 1].descs /\ L[r + 1] \in Job /\ JobOk(L[r + 1]) /\ L[r + 1].descs \in Nat
    BY <2>1, <1>2
  <2> QED BY <2>1, <2>2, <1>1
<1>5. CutIs(L, L2, E, M - r, r, n)
  <2>1. CutAt(L, L, E, r, n)
    <3>1. r < M => E[r + 1] - n \in Nat
      BY <1>3, <1>4
    <3> QED BY <1>1, <3>1 DEF CutAt
  <2>2. CutIs(L, Remaining(L, E, r, n), E, Len(L) - r, r, n)
    BY <2>1, RemainingIs
  <2> QED BY <2>2
<1>6. L2 \in Seq(Job) /\ Len(L2) = M - r
  BY <1>5 DEF CutIs
<1>7. ASSUME NEW i \in 1 .. M - r, i # 1
      PROVE  L2[i] = L[i + r] /\ JobOk(L2[i])
  <2>1. i \in 2 .. M - r /\ r + i = i + r /\ i + r \in 1 .. M
    BY <1>1, <1>7
  <2> QED BY <2>1, <1>2, <1>5 DEF CutIs
<1>8. ASSUME M - r > 0
      PROVE /\ JobOk(L2[1]) /\ L2[1].flag = L[1 + r].flag /\ L2[1].src = L[1 + r].src
            /\ L2[1].dst = L[1 + r].dst /\ L2[1].epd = L[1 + r].epd
            /\ L2[1].head = L[1 + r].head /\ L2[1].tail = L[1 + r].tail
            /\ L2[1].descs = E[r + 1] - n
  <2>1. Head(L2) = [L[r + 1] EXCEPT !.descs = E[r + 1] - n]
    BY <1>5, <1>8 DEF CutIs
  <2>2. L2[1] = [L[r + 1] EXCEPT !.descs = E[r + 1] - n]
    <3>1. L2 # <<>>
      BY <1>1, <1>6, <1>8
    <3>2. Head(L2) = L2[1]
      BY <1>6, <3>1
    <3> QED BY <2>1, <3>2
  <2>3. r < M /\ r + 1 = 1 + r
    BY <1>1, <1>8
  <2> DEFINE j == L[r + 1]
  <2> DEFINE e == E[r + 1] - n
  <2>4. j \in Job /\ JobOk(j) /\ e \in Nat /\ e >= 1 /\ (j.descs = 1 => e = 1)
    BY <1>3, <1>4, <2>3
  <2>5. L2[1] = [j EXCEPT !.descs = e] /\ L[1 + r] = j
    BY <2>2, <2>3
  <2> HIDE DEF j, e
  <2> DEFINE g == L2[1]
  <2>6. g = [j EXCEPT !.descs = e]
    BY <2>5
  <2> HIDE DEF g
  <2>7. /\ g.flag = j.flag /\ g.src = j.src /\ g.dst = j.dst /\ g.epd = j.epd
        /\ g.head = j.head /\ g.tail = j.tail /\ g.descs = e /\ g \in Job
    BY <2>4, <2>6 DEF Job
  <2>8. JobOk(g)
    BY <2>4, <2>7 DEF JobOk, ForPair, ForShadow
  <2> QED BY <2>5, <2>7, <2>8 DEF g, e
<1> QED
  <2> SUFFICES ASSUME NEW i \in 1 .. M - r
      PROVE /\ JobOk(L2[i]) /\ L2[i].flag = L[i + r].flag /\ L2[i].src = L[i + r].src
            /\ L2[i].dst = L[i + r].dst /\ L2[i].epd = L[i + r].epd
            /\ L2[i].head = L[i + r].head /\ L2[i].tail = L[i + r].tail
            /\ L2[i].descs = IF i = 1 THEN E[r + 1] - n ELSE L[i + r].descs
    BY <1>6 DEF CutOf
  <2>1. CASE i = 1
    <3>1. M - r > 0
      BY <2>1
    <3> QED BY <2>1, <3>1, <1>8
  <2>2. CASE i # 1
    BY <2>2, <1>7
  <2> QED BY <2>1, <2>2

\* Its positions are those of the log, from the r-th on.
LEMMA CutSteps ==
  ASSUME NEW L, NEW E, NEW U, NEW P, Typed(L, E, U, P), Steps(L, E, U, P),
         NEW r \in 0 .. Len(L), NEW n \in Nat, Over(E, Len(L), r, n),
         NEW L2, L2 = Remaining(L, E, r, n), NEW E2, E2 = CutE(Len(L), E, r, n),
         NEW U2, U2 = CutU(Len(L), U, r), NEW P2, P2 = CutP(Len(L), P, r)
  PROVE  Typed(L2, E2, U2, P2) /\ Steps(L2, E2, U2, P2)
<1> DEFINE M == Len(L)
<1> DEFINE m == M - r
<1>1. M \in Nat /\ L \in Seq(Job) /\ E \in [0 .. M -> Nat] /\ U \in [Queues -> [0 .. M -> Nat]]
      /\ P \in [Pairs -> [0 .. M -> Nat]]
  BY DEF Typed
<1>m. m \in Nat /\ M = m + r /\ r \in Nat
  BY <1>1
<1>2. /\ L2 \in Seq(Job) /\ Len(L2) = m
      /\ \A i \in 1 .. m :
              /\ JobOk(L2[i]) /\ L2[i].flag = L[i + r].flag /\ L2[i].src = L[i + r].src
              /\ L2[i].dst = L[i + r].dst /\ L2[i].epd = L[i + r].epd
              /\ L2[i].head = L[i + r].head /\ L2[i].tail = L[i + r].tail
              /\ L2[i].descs = IF i = 1 THEN E[r + 1] - n ELSE L[i + r].descs
  BY CutJobs DEF CutOf
<1>3. /\ \A i \in 0 .. m : E2[i] = IF i = 0 THEN 0 ELSE E[i + r] - n
      /\ \A x \in Queues : \A i \in 0 .. m : U2[x][i] = U[x][i + r]
      /\ \A p \in Pairs : \A i \in 0 .. m : P2[p][i] = P[p][i + r]
      /\ E2 = [i \in 0 .. m |-> E2[i]]
      /\ U2 = [x \in Queues |-> [i \in 0 .. m |-> U2[x][i]]]
      /\ P2 = [p \in Pairs |-> [i \in 0 .. m |-> P2[p][i]]]
  BY DEF CutE, CutU, CutP
<1>4. \A i \in 1 .. M :
       /\ JobOk(L[i])
       /\ E[i] = E[i - 1] + L[i].descs
       /\ \A x \in Queues : U[x][i] = U[x][i - 1] + Upd(L[i], x)
       /\ \A p \in Pairs :
            /\ P[p][i - 1] <= P[p][i]
            /\ IF Carries(L[i], p)
               THEN L[i].head = P[p][i] % QLen /\ L[i].tail = P[p][i] % QLen
               ELSE P[p][i] = P[p][i - 1]
  BY DEF Steps
<1>5. E[r] <= n /\ (r < M => n < E[r + 1])
  BY DEF Over
<1>6. \A i \in 0 .. m : i + r \in 0 .. M
  BY <1>m
<1>7. \A i \in 1 .. m : E[r + 1] <= E[i + r] /\ E[r + 1] \in Nat
  <2> TAKE i \in 1 .. m
  <2>1. r + 1 \in 0 .. M /\ i + r \in 0 .. M /\ r + 1 <= i + r
    BY <1>m
  <2> QED BY <2>1, StepsAre
<1> HIDE DEF m, M
<1>8. Typed(L2, E2, U2, P2)
  <2>1. \A i \in 0 .. m : E2[i] \in Nat
    <3> TAKE i \in 0 .. m
    <3>1. CASE i = 0
      BY <3>1, <1>3
    <3>2. CASE i # 0
      <4>1. i \in 1 .. m /\ r < M
        BY <3>2, <1>m
      <4>2. E[r + 1] <= E[i + r] /\ E[r + 1] \in Nat /\ E[i + r] \in Nat /\ n < E[r + 1]
        BY <4>1, <1>5, <1>7, <1>6, <1>1
      <4> QED BY <3>2, <4>2, <1>3
    <3> QED BY <3>1, <3>2
  <2>2. \A x \in Queues : \A i \in 0 .. m : U2[x][i] \in Nat
    BY <1>1, <1>3, <1>6
  <2>3. \A p \in Pairs : \A i \in 0 .. m : P2[p][i] \in Nat
    BY <1>1, <1>3, <1>6
  <2>4. E2 \in [0 .. m -> Nat] /\ U2 \in [Queues -> [0 .. m -> Nat]] /\ P2 \in [Pairs -> [0 .. m -> Nat]]
    BY <1>3, <2>1, <2>2, <2>3
  <2> QED BY <1>2, <2>4 DEF Typed
<1>9. Steps(L2, E2, U2, P2)
  <2>1. E2[0] = 0
    BY <1>3, <1>m
  <2>2. ASSUME NEW i \in 1 .. m
        PROVE  /\ JobOk(L2[i])
               /\ E2[i] = E2[i - 1] + L2[i].descs
               /\ \A x \in Queues : U2[x][i] = U2[x][i - 1] + Upd(L2[i], x)
               /\ \A p \in Pairs :
                    /\ P2[p][i - 1] <= P2[p][i]
                    /\ IF Carries(L2[i], p)
                       THEN L2[i].head = P2[p][i] % QLen /\ L2[i].tail = P2[p][i] % QLen
                       ELSE P2[p][i] = P2[p][i - 1]
    <3> DEFINE k == i + r
    <3>1. k \in 1 .. M /\ k - 1 = (i - 1) + r /\ i - 1 \in 0 .. m /\ i \in 0 .. m /\ k - 1 \in 0 .. M /\ k \in 0 .. M
      BY <1>m
    <3>2. E2[i] = E2[i - 1] + L2[i].descs
      <4>1. CASE i = 1
        <5>1. i - 1 = 0 /\ r < M /\ i + r = r + 1
          BY <4>1, <1>m
        <5>2. E2[i - 1] = 0 /\ E2[i] = E[r + 1] - n /\ L2[i].descs = E[r + 1] - n
          <6>1. E2[i - 1] = 0
            BY <5>1, <3>1, <1>3
          <6>2. E2[i] = E[i + r] - n
            BY <3>1, <4>1, <1>3
          <6>3. L2[i].descs = E[r + 1] - n
            BY <4>1, <1>2
          <6> QED BY <6>1, <6>2, <6>3, <5>1
        <5>3. E[r + 1] - n \in Nat
          BY <5>1, <1>5, <1>7, <4>1
        <5> QED BY <5>2, <5>3
      <4>2. CASE i # 1
        <5>1. E2[i - 1] = E[k - 1] - n /\ E2[i] = E[k] - n /\ L2[i].descs = L[k].descs
          BY SMTT(30), <4>2, <3>1, <1>2, <1>3
        <5>2. E[k] = E[k - 1] + L[k].descs /\ E[k - 1] \in Nat /\ E[k] \in Nat
          BY <3>1, <1>4, <1>1
        <5>3. L[k].descs \in Nat
          BY <3>1, StepsAre DEF M
        <5> QED BY <5>1, <5>2, <5>3
      <4> QED BY <4>1, <4>2
    <3>3. \A x \in Queues : U2[x][i] = U2[x][i - 1] + Upd(L2[i], x)
      <4> TAKE x \in Queues
      <4>1. U2[x][i] = U[x][k] /\ U2[x][i - 1] = U[x][k - 1]
        BY <3>1, <1>3
      <4>2. Upd(L2[i], x) = Upd(L[k], x)
        <5>1. L2[i].flag = L[k].flag /\ L2[i].src = L[k].src /\ L2[i].epd = L[k].epd
          BY <1>2
        <5> HIDE DEF k
        <5> QED BY <5>1 DEF Upd
      <4> QED BY <4>1, <4>2, <3>1, <1>4
    <3>4. ASSUME NEW p \in Pairs
          PROVE  /\ P2[p][i - 1] <= P2[p][i]
                 /\ IF Carries(L2[i], p)
                    THEN L2[i].head = P2[p][i] % QLen /\ L2[i].tail = P2[p][i] % QLen
                    ELSE P2[p][i] = P2[p][i - 1]
      <4>1. P2[p][i] = P[p][k] /\ P2[p][i - 1] = P[p][k - 1]
        BY <3>1, <1>3
      <4>2. Carries(L2[i], p) <=> Carries(L[k], p)
        BY <1>2 DEF Carries
      <4>3. L2[i].head = L[k].head /\ L2[i].tail = L[k].tail
        BY <1>2
      <4>4. /\ P[p][k - 1] <= P[p][k]
            /\ IF Carries(L[k], p)
               THEN L[k].head = P[p][k] % QLen /\ L[k].tail = P[p][k] % QLen
               ELSE P[p][k] = P[p][k - 1]
        BY <3>1, <1>4
      <4> HIDE DEF k
      <4> QED BY <4>1, <4>2, <4>3, <4>4
    <3> QED BY <1>2, <3>2, <3>3, <3>4
  <2> QED BY <1>2, <2>1, <2>2 DEF Steps
<1> QED BY <1>8, <1>9

\* The descriptors that are left belong to the same jobs.
LEMMA CutClaim ==
  ASSUME NEW L, NEW E, NEW U, NEW P, Typed(L, E, U, P), Steps(L, E, U, P), NEW H,
         NEW r \in 0 .. Len(L), NEW n \in Nat, Over(E, Len(L), r, n),
         NEW L2, L2 = Remaining(L, E, r, n),
         NEW U2, U2 = CutU(Len(L), U, r), NEW P2, P2 = CutP(Len(L), P, r),
         NEW i \in 1 .. Len(L) - r, NEW d, Claim(L, U, P, H, i + r, d)
  PROVE  Claim(L2, U2, P2, H, i, d)
<1> DEFINE m == Len(L) - r
<1> DEFINE k == i + r
<1>1. m \in Nat /\ r \in Nat /\ i - 1 \in 0 .. m /\ (i - 1) + r = k - 1
  BY DEF Typed
<1>2. L2[i].flag = L[k].flag /\ L2[i].src = L[k].src /\ L2[i].dst = L[k].dst /\ L2[i].epd = L[k].epd
  BY CutJobs DEF CutOf
<1>3. \A x \in Queues : U2[x][i - 1] = U[x][k - 1]
  <2>1. \A x \in Queues : \A j \in 0 .. m : U2[x][j] = U[x][j + r]
    BY DEF CutU
  <2> QED BY <1>1, <2>1
<1>4. \A p \in Pairs : P2[p][i - 1] = P[p][k - 1]
  <2>1. \A p \in Pairs : \A j \in 0 .. m : P2[p][j] = P[p][j + r]
    BY DEF CutP
  <2> QED BY <1>1, <2>1
<1>5. L[k].src \in Queues
  <2>1. k \in 1 .. Len(L)
    BY <1>1
  <2>2. L[k] \in Job
    BY <2>1, StepsAre
  <2> DEFINE j == L[k]
  <2> HIDE DEF j
  <2>3. j \in Job => j.src \in Queues
    BY DEF Job
  <2> QED BY <2>2, <2>3 DEF j
<1>6. Claim(L, U, P, H, k, d)
  OBVIOUS
<1> HIDE DEF k
<1> QED BY <1>2, <1>3, <1>4, <1>5, <1>6 DEF Claim

-----------------------------------------------------------------------------
(* Logging a job, and offering its descriptors *)

\* What an entry of the log says, with the facts in one place.
LEMMA WorkIs ==
  ASSUME NEW js, NEW l, NEW s, NEW h, NEW L, NEW E, NEW U, NEW P, NEW H, WorkOf(js, l, s, h, L, E, U, P, H)
  PROVE  /\ js \in Seq(Job) /\ IsSeq(js) /\ Len(js) \in Nat /\ IsSeq(s) /\ Len(s) \in Nat /\ l \in Nat
         /\ h = [descs |-> h.descs, done |-> h.done] /\ IsSeq(h.descs) /\ Len(h.descs) \in Nat
         /\ h.done \in 0 .. Len(h.descs)
         /\ Len(L) \in Nat /\ Len(L) = SubAt(js, l, Len(s)) /\ Len(js) <= Len(L)
         /\ E[Len(js)] = Len(h.descs) + l
<1>1. js \in Seq(Job) /\ Len(L) = SubAt(js, l, Len(s))
  BY DEF WorkOf, Logs
<1>2. IsSeq(s) /\ (l > 0 => Len(s) >= 1)
  BY DEF WorkOf, Subs
<1>3. Len(s) \in Nat /\ IsSeq(js) /\ Len(js) \in Nat
  BY <1>1, <1>2, SeqIs DEF IsSeq
<1>4. /\ h = [descs |-> h.descs, done |-> h.done] /\ IsSeq(h.descs)
      /\ h.done \in 0 .. Len(h.descs) /\ l \in Nat /\ E[Len(js)] = Len(h.descs) + l
  BY DEF WorkOf, Descs
<1>5. Len(h.descs) \in Nat
  BY <1>4 DEF IsSeq
<1>6. Len(L) \in Nat
  <2>1. L \in Seq(Job)
    BY DEF WorkOf, Typed
  <2> QED BY <2>1
<1>7. Len(js) <= Len(L)
  BY <1>1, <1>2, <1>3, <1>4 DEF SubAt
<1> QED BY <1>1, <1>2, <1>3, <1>4, <1>5, <1>6, <1>7, Zenon

\* gie_dma_copy_single logs a job before it offers its descriptors.
LEMMA Logging ==
  ASSUME NEW js, NEW s, NEW h, NEW L, NEW E, NEW U, NEW P, NEW H, WorkOf(js, 0, s, h, L, E, U, P, H),
         Len(s) >= 1
  PROVE  WorkOf(Append(js, s[1].job), Len(s[1].descs), s, h, L, E, U, P, H)
<1> DEFINE N == Len(js)
<1> DEFINE a == Append(js, s[1].job)
<1> DEFINE l == Len(s[1].descs)
<1>1. /\ js \in Seq(Job) /\ IsSeq(js) /\ N \in Nat /\ IsSeq(s) /\ Len(s) \in Nat
      /\ h = [descs |-> h.descs, done |-> h.done] /\ IsSeq(h.descs) /\ Len(h.descs) \in Nat
      /\ h.done \in 0 .. Len(h.descs)
      /\ Len(L) \in Nat /\ Len(L) = N + Len(s) /\ E[N] = Len(h.descs)
  BY WorkIs DEF SubAt
<1>2. Entry(s[1]) /\ s[1].job.descs = l /\ s[1].job \in Job /\ l \in Nat /\ l >= 1
  <2>1. 1 \in 1 .. Len(s)
    BY <1>1
  <2>2. Entry(s[1]) /\ s[1].job.descs = l
    BY <2>1 DEF WorkOf, Subs
  <2> QED BY <2>2 DEF Entry, IsSeq
<1>3. /\ a \in Seq(Job) /\ Len(a) = N + 1 /\ (\A i \in 1 .. N : a[i] = js[i]) /\ a[N + 1] = s[1].job
  BY <1>1, <1>2, AppendProperties
<1> HIDE DEF a
<1> HIDE DEF l
<1>4. \A m \in Nat : SubAt(a, l, m) = N + m
  <2>1. l # 0
    BY <1>2
  <2> HIDE DEF N
  <2> QED BY <2>1, <1>1, <1>3 DEF SubAt
<1>5. \A m \in Nat : SubAt(a, l, m) = N + m /\ SubAt(js, 0, m) = N + m
  <2>1. \A m \in Nat : SubAt(js, 0, m) = N + m
    BY DEF SubAt
  <2> HIDE DEF N
  <2> QED BY <1>4, <2>1
<1>6. /\ \A i \in 1 .. N : L[i] = js[i]
      /\ \A m \in 1 .. Len(s) : L[N + m] = s[m].job
  <2>1. \A m \in 1 .. Len(s) : L[SubAt(js, 0, m)] = s[m].job
    BY DEF WorkOf, Logs
  <2>2. \A i \in 1 .. N : L[i] = js[i]
    BY DEF WorkOf, Logs
  <2>3. \A m \in 1 .. Len(s) : SubAt(js, 0, m) = N + m
    BY <1>1, <1>5
  <2> HIDE DEF N
  <2> QED BY <2>1, <2>2, <2>3
<1>7. Logs(a, l, s, L)
  <2>1. ASSUME NEW i \in 1 .. N + 1 PROVE L[i] = a[i]
    <3> HIDE DEF N
    <3>1. CASE i <= N
      BY <1>1, <1>3, <1>6, <3>1
    <3>2. CASE i = N + 1
      <4>1. 1 \in 1 .. Len(s)
        BY <1>1
      <4>2. L[N + 1] = s[1].job
        BY <4>1, <1>6
      <4> QED BY <4>2, <3>2, <1>3
    <3> QED BY <1>1, <3>1, <3>2
  <2>2. Len(L) = SubAt(a, l, Len(s))
    BY <1>1, <1>4
  <2>3. ASSUME NEW m \in 1 .. Len(s) PROVE L[SubAt(a, l, m)] = s[m].job
    <3>1. SubAt(a, l, m) = N + m
      BY <1>1, <1>4
    <3> QED BY <3>1, <1>6
  <2>4. a \in Seq(Job) /\ \A i \in 1 .. Len(a) : L[i] = a[i]
    BY <2>1, <1>3
  <2> QED BY <2>2, <2>3, <2>4 DEF Logs
<1>8. Typed(L, E, U, P) /\ H \in [Pairs -> Nat] /\ Steps(L, E, U, P)
  BY DEF WorkOf
<1>9. Descs(a, l, h, L, E, U, P, H)
  <2>1. E[N + 1] = Len(h.descs) + l
    <3> HIDE DEF N
    <3>1. N + 1 \in 1 .. Len(L) /\ (N + 1) - 1 = N /\ 1 \in 1 .. Len(s)
      BY <1>1
    <3>2. E[N + 1] = E[(N + 1) - 1] + L[N + 1].descs
      <4>1. \A i \in 1 .. Len(L) : E[i] = E[i - 1] + L[i].descs
        BY <1>8, StepsAre
      <4> HIDE DEF N
      <4> QED BY <3>1, <4>1
    <3>3. L[N + 1] = s[1].job
      BY <3>1, <1>6
    <3> QED BY <3>1, <3>2, <3>3, <1>1, <1>2
  <2>2. ASSUME NEW i \in 1 .. N + 1, NEW k \in h.done + 1 .. Len(h.descs), E[i - 1] < k, k <= E[i]
        PROVE  Claim(L, U, P, H, i, h.descs[k])
    <3>1. i # N + 1
      <4>1. i = N + 1 => E[i - 1] = E[N]
        BY <1>1
      <4> QED BY <4>1, <1>1, <2>2
    <3>2. i \in 1 .. N
      BY <3>1, <1>1
    <3> QED BY <3>2, <2>2 DEF WorkOf, Descs
  <2>3. (N + 1) - 1 = N
    BY <1>1
  <2> HIDE DEF a, l
  <2> QED BY <1>1, <1>2, <1>3, <2>1, <2>2, <2>3 DEF Descs
<1>10. Subs(a, l, s, L, U, P, H)
  <2>1. ASSUME NEW m \in 1 .. Len(s)
        PROVE  /\ Entry(s[m])
               /\ s[m].job.descs = Len(s[m].descs)
               /\ \A k \in 1 .. Len(s[m].descs) : Claim(L, U, P, H, SubAt(a, l, m), s[m].descs[k])
    <3>1. /\ Entry(s[m])
          /\ s[m].job.descs = Len(s[m].descs)
          /\ \A k \in 1 .. Len(s[m].descs) : Claim(L, U, P, H, SubAt(js, 0, m), s[m].descs[k])
      BY DEF WorkOf, Subs
    <3>2. SubAt(a, l, m) = SubAt(js, 0, m)
      BY <1>5
    <3> HIDE DEF a, l
    <3> QED BY <3>1, <3>2
  <2>2. l <= Len(s[1].descs)
    BY <1>2 DEF l
  <2> HIDE DEF a, l
  <2> QED BY <1>1, <2>1, <2>2 DEF Subs
<1> HIDE DEF a, l
<1>11. WorkOf(a, l, s, h, L, E, U, P, H)
  BY <1>7, <1>8, <1>9, <1>10 DEF WorkOf
<1> QED BY <1>11 DEF a, l

\* The engine takes k descriptors of the job logged last.
LEMMA Offering ==
  ASSUME NEW js, NEW l, NEW s, NEW h, NEW L, NEW E, NEW U, NEW P, NEW H, WorkOf(js, l, s, h, L, E, U, P, H),
         l > 0, NEW k \in 1 .. l,
         NEW h2, h2 = [descs |-> h.descs \o SubSeq(s[1].descs, 1, k), done |-> h.done],
         NEW s2, s2 = IF k = l THEN Tail(s) ELSE s
  PROVE  WorkOf(js, l - k, s2, h2, L, E, U, P, H)
<1> DEFINE N == Len(js)
<1> DEFINE z == Len(h.descs)
<1> DEFINE add == SubSeq(s[1].descs, 1, k)
<1> DEFINE l2 == l - k
<1>1. /\ js \in Seq(Job) /\ IsSeq(js) /\ N \in Nat /\ IsSeq(s) /\ Len(s) \in Nat /\ l \in Nat
      /\ IsSeq(h.descs) /\ z \in Nat /\ h.done \in 0 .. z
      /\ Len(L) \in Nat /\ Len(L) = N + Len(s) - 1 /\ E[N] = z + l
  BY WorkIs DEF SubAt
<1>2. Len(s) >= 1 /\ l <= Len(s[1].descs) /\ N >= 1 /\ E[N - 1] <= z
  BY DEF WorkOf, Subs, Descs
<1>3. Entry(s[1]) /\ IsSeq(s[1].descs) /\ Len(s[1].descs) \in Nat
  <2>1. 1 \in 1 .. Len(s)
    BY <1>1, <1>2
  <2>2. Entry(s[1])
    BY <2>1 DEF WorkOf, Subs
  <2> QED BY <2>2 DEF Entry, IsSeq
<1>4. IsSeq(add) /\ Len(add) = k /\ \A i \in 1 .. k : add[i] = s[1].descs[i]
  <2> DEFINE t == s[1].descs
  <2>1. IsSeq(t) /\ k \in Nat /\ 1 \in Nat /\ 1 <= 1 /\ 1 <= k + 1 /\ k <= Len(t) /\ k - 1 + 1 = k
        /\ \A i \in 1 .. k : 1 + i - 1 = i
    BY <1>1, <1>2, <1>3
  <2> HIDE DEF t
  <2>2. IsSeq(SubSeq(t, 1, k)) /\ Len(SubSeq(t, 1, k)) = k - 1 + 1
        /\ \A i \in 1 .. k - 1 + 1 : SubSeq(t, 1, k)[i] = t[1 + i - 1]
    BY <2>1, SubIs
  <2> QED BY <2>1, <2>2 DEF t
<1>5. /\ h2.done = h.done /\ IsSeq(h2.descs) /\ Len(h2.descs) = z + k
      /\ (\A i \in 1 .. z : h2.descs[i] = h.descs[i])
      /\ \A i \in 1 .. k : h2.descs[z + i] = s[1].descs[i]
      /\ h2 = [descs |-> h2.descs, done |-> h2.done]
  <2> HIDE DEF add
  <2>1. h2.descs = h.descs \o add /\ h2.done = h.done /\ h2 = [descs |-> h2.descs, done |-> h2.done]
    BY DEF add
  <2> DEFINE hd == h.descs
  <2> DEFINE c == hd \o add
  <2>2. IsSeq(hd) /\ z = Len(hd)
    BY <1>1
  <2> HIDE DEF hd, z
  <2>0. IsSeq(hd) /\ IsSeq(add)
    BY <2>2, <1>4
  <2>6. /\ IsSeq(hd \o add) /\ Len(hd \o add) = Len(hd) + Len(add)
        /\ \A i \in 1 .. Len(hd) : (hd \o add)[i] = hd[i]
        /\ \A i \in 1 .. Len(add) : (hd \o add)[Len(hd) + i] = add[i]
    BY <2>0, CatIs
  <2>3. /\ IsSeq(c) /\ Len(c) = z + Len(add)
        /\ \A i \in 1 .. z : c[i] = hd[i]
        /\ \A i \in 1 .. Len(add) : c[z + i] = add[i]
    BY <2>2, <2>6
  <2>4. h2.descs = c
    BY <2>1 DEF hd
  <2> HIDE DEF c
  <2> QED BY <2>1, <2>3, <2>4, <1>4 DEF hd
<1>6. l2 \in Nat /\ (l2 = 0 <=> k = l) /\ l2 <= l
  BY <1>1
<1> HIDE DEF add, l2
\* the entries that are left
<1>7. /\ IsSeq(s2) /\ Len(s2) = IF k = l THEN Len(s) - 1 ELSE Len(s)
      /\ \A m \in 1 .. Len(s2) : \E o \in 1 .. Len(s) : /\ s2[m] = s[o] /\ SubAt(js, l2, m) = SubAt(js, l, o)
                                                        /\ (l2 = 0 \/ m > 1 => o > 1)
  <2>1. CASE k = l
    <3>1. s # <<>>
      BY <1>1, <1>2, LenZero
    <3>2. /\ IsSeq(Tail(s)) /\ Len(Tail(s)) = Len(s) - 1
          /\ \A i \in 1 .. Len(s) - 1 : Tail(s)[i] = s[i + 1]
      BY <1>1, <3>1, TailOf
    <3>3. s2 = Tail(s)
      BY <2>1
    <3>4. ASSUME NEW m \in 1 .. Len(s) - 1
          PROVE  /\ m + 1 \in 1 .. Len(s) /\ s2[m] = s[m + 1] /\ m + 1 > 1
                 /\ SubAt(js, l2, m) = SubAt(js, l, m + 1)
      <4>1. m + 1 \in 1 .. Len(s) /\ m + 1 > 1
        BY <1>1
      <4>2. SubAt(js, l2, m) = N + m
        BY <2>1, <1>6 DEF SubAt
      <4>3. SubAt(js, l, m + 1) = N + (m + 1) - 1
        BY <1>1 DEF SubAt
      <4> QED BY <4>1, <4>2, <4>3, <3>2, <3>3, <1>1
    <3> QED BY <3>2, <3>3, <3>4, <2>1
  <2>2. CASE k # l
    <3>1. s2 = s /\ l2 # 0
      BY <2>2, <1>6
    <3>2. ASSUME NEW m \in 1 .. Len(s) PROVE SubAt(js, l2, m) = SubAt(js, l, m)
      BY <3>1, <1>1 DEF SubAt
    <3> QED BY <3>1, <3>2, <2>2, <1>1
  <2> QED BY <2>1, <2>2
<1>8. Logs(js, l2, s2, L)
  <2>1. Len(L) = SubAt(js, l2, Len(s2))
    BY <1>1, <1>6, <1>7 DEF SubAt
  <2>2. ASSUME NEW m \in 1 .. Len(s2), l2 = 0 \/ m > 1
        PROVE  L[SubAt(js, l2, m)] = s2[m].job
    <3>1. PICK o \in 1 .. Len(s) : s2[m] = s[o] /\ SubAt(js, l2, m) = SubAt(js, l, o) /\ o > 1
      BY <1>7, <2>2
    <3>2. L[SubAt(js, l, o)] = s[o].job
      BY <3>1 DEF WorkOf, Logs
    <3> QED BY <3>1, <3>2
  <2>3. \A i \in 1 .. N : L[i] = js[i]
    BY DEF WorkOf, Logs
  <2> QED BY <2>1, <2>2, <2>3, <1>1 DEF Logs
<1>9. Typed(L, E, U, P) /\ H \in [Pairs -> Nat] /\ Steps(L, E, U, P)
  BY DEF WorkOf
<1>10. Descs(js, l2, h2, L, E, U, P, H)
  <2>1. ASSUME NEW i \in 1 .. N, NEW x \in h.done + 1 .. z + k, E[i - 1] < x, x <= E[i]
        PROVE  Claim(L, U, P, H, i, h2.descs[x])
    <3>1. CASE x <= z
      <4>1. x \in h.done + 1 .. z /\ x \in 1 .. z
        BY <3>1, <1>1
      <4>2. Claim(L, U, P, H, i, h.descs[x])
        BY <4>1, <2>1 DEF WorkOf, Descs
      <4> QED BY <4>1, <4>2, <1>5
    <3>2. CASE x > z
      <4>1. i = N
        <5> SUFFICES ASSUME i # N PROVE FALSE
          OBVIOUS
        <5>1. i \in 0 .. Len(L) /\ N - 1 \in 0 .. Len(L) /\ i <= N - 1
          BY <1>1, <1>2
        <5>2. E[i] <= E[N - 1] /\ E[i] \in Nat /\ E[N - 1] \in Nat
          BY <5>1, <1>9, StepsAre
        <5> QED BY SMTT(30), <5>2, <1>1, <1>2, <2>1, <3>2
      <4> DEFINE y == x - z
      <4>2. y \in 1 .. k /\ y \in 1 .. Len(s[1].descs) /\ z + y = x
        <5> DEFINE u == Len(s[1].descs)
        <5>1. z \in Nat /\ l \in Nat /\ u \in Nat /\ l <= u /\ x > z /\ x \in Int /\ x <= z + k
          BY <3>2, <1>1, <1>2, <1>3
        <5> HIDE DEF u, z
        <5>2. y \in 1 .. k /\ y <= u /\ z + y = x
          BY <5>1
        <5> QED BY <5>1, <5>2 DEF u
      <4>3. h2.descs[x] = s[1].descs[y]
        <5> HIDE DEF y
        <5>1. h2.descs[z + y] = s[1].descs[y]
          BY <4>2, <1>5
        <5> QED BY <5>1, <4>2
      <4>4. 1 \in 1 .. Len(s)
        BY <1>1, <1>2
      <4>5. Claim(L, U, P, H, SubAt(js, l, 1), s[1].descs[y])
        BY <4>2, <4>4 DEF WorkOf, Subs
      <4>6. SubAt(js, l, 1) = N
        BY <1>1 DEF SubAt
      <4> QED BY <4>1, <4>3, <4>5, <4>6
    <3> QED BY SMTT(30), <3>1, <3>2, <1>1
  <2>2. E[N] = (z + k) + l2
    BY <1>1 DEF l2
  <2>3. l2 > 0 => N >= 1 /\ E[N - 1] <= z + k
    <3>1. N - 1 \in 0 .. Len(L)
      BY <1>1, <1>2
    <3>2. E[N - 1] \in Nat
      BY <3>1, <1>9, StepsAre
    <3> QED BY <3>2, <1>1, <1>2
  <2>4. h2.done \in 0 .. Len(h2.descs)
    BY <1>1, <1>5
  <2> QED BY <1>5, <1>6, <2>1, <2>2, <2>3, <2>4 DEF Descs
<1>11. Subs(js, l2, s2, L, U, P, H)
  <2>1. l2 > 0 => Len(s2) >= 1 /\ l2 <= Len(s2[1].descs)
    <3>1. l2 > 0 => s2 = s
      BY <1>6
    <3> QED BY <3>1, <1>1, <1>2, <1>3, <1>6
  <2>2. ASSUME NEW m \in 1 .. Len(s2)
        PROVE  /\ Entry(s2[m])
               /\ l2 = 0 \/ m > 1 => s2[m].job.descs = Len(s2[m].descs)
               /\ \A i \in 1 .. Len(s2[m].descs) : Claim(L, U, P, H, SubAt(js, l2, m), s2[m].descs[i])
    <3>1. PICK o \in 1 .. Len(s) : s2[m] = s[o] /\ SubAt(js, l2, m) = SubAt(js, l, o)
                                   /\ (l2 = 0 \/ m > 1 => o > 1)
      BY <1>7
    <3>2. /\ Entry(s[o])
          /\ o > 1 => s[o].job.descs = Len(s[o].descs)
          /\ \A i \in 1 .. Len(s[o].descs) : Claim(L, U, P, H, SubAt(js, l, o), s[o].descs[i])
      BY DEF WorkOf, Subs
    <3> QED BY <3>1, <3>2
  <2> QED BY <1>7, <2>1, <2>2 DEF Subs
<1>12. WorkOf(js, l2, s2, h2, L, E, U, P, H)
  BY <1>8, <1>9, <1>10, <1>11 DEF WorkOf
<1> QED BY <1>12 DEF l2

-----------------------------------------------------------------------------
(* The log after cleaning up *)

\* The names of what gie_clean_dma_jobs leaves.
CleanedUp(js, h, L, E, U, P, n, N, M, r, a, h2, L2, E2, U2, P2) ==
  /\ n = h.done /\ N = Len(js) /\ M = Len(L) /\ r \in 0 .. N /\ Over(E, N, r, n)
  /\ a = Remaining(js, E, r, n) /\ L2 = Remaining(L, E, r, n)
  /\ h2 = [descs |-> SubSeq(h.descs, n + 1, Len(h.descs)), done |-> 0]
  /\ E2 = CutE(M, E, r, n) /\ U2 = CutU(M, U, r) /\ P2 = CutP(M, P, r)

\* gie_clean_dma_jobs, when it has got to the end of the r-th job.
LEMMA Cleaning ==
  ASSUME NEW js, NEW l, NEW s, NEW h, NEW L, NEW E, NEW U, NEW P, NEW H, WorkOf(js, l, s, h, L, E, U, P, H),
         NEW n, NEW N, NEW M, NEW r, NEW a, NEW h2, NEW L2, NEW E2, NEW U2, NEW P2,
         CleanedUp(js, h, L, E, U, P, n, N, M, r, a, h2, L2, E2, U2, P2)
  PROVE  /\ WorkOf(a, l, s, h2, L2, E2, U2, P2, H)
         /\ Over(E, M, r, n) /\ Len(L2) = M - r /\ r \in 0 .. M
<1> DEFINE z == Len(h.descs)
<1>1. /\ js \in Seq(Job) /\ N \in Nat /\ IsSeq(s) /\ Len(s) \in Nat /\ l \in Nat
      /\ IsSeq(h.descs) /\ z \in Nat /\ n \in 0 .. z /\ n \in Nat
      /\ M \in Nat /\ M = SubAt(js, l, Len(s)) /\ N <= M /\ E[N] = z + l
      /\ r \in 0 .. N /\ r \in Nat
  <2>1. n = h.done /\ N = Len(js) /\ M = Len(L) /\ r \in 0 .. N
    BY DEF CleanedUp
  <2> QED BY <2>1, WorkIs
<1>y. n = h.done /\ N = Len(js) /\ M = Len(L)
  BY DEF CleanedUp
<1>z. z = Len(h.descs)
  OBVIOUS
<1> HIDE DEF z
<1>2. Typed(L, E, U, P) /\ H \in [Pairs -> Nat] /\ Steps(L, E, U, P)
  BY DEF WorkOf
<1>3. L \in Seq(Job) /\ E \in [0 .. M -> Nat] /\ \A i \in 1 .. N : js[i] = L[i]
  BY <1>y, <1>2 DEF WorkOf, Logs, Typed
<1>4. E[r] <= n /\ (r < N => n < E[r + 1])
  BY DEF Over, CleanedUp
<1>5. r = N => l = 0 /\ n = z /\ E[N] = n
  BY <1>1, <1>4
<1>6. Over(E, M, r, n)
  <2>1. CASE r < N
    BY <2>1, <1>4 DEF Over
  <2>2. CASE r = N
    <3>1. N < M => E[N] < E[N + 1]
      <4>1. N < M => N \in 0 .. M /\ N + 1 \in 0 .. M /\ N < N + 1
        BY <1>1
      <4>2. \A i, j \in 0 .. M : i < j => E[i] < E[j]
        BY <1>2, <1>y, StepsAre
      <4> QED BY <4>1, <4>2
    <3>2. N < M => n < E[N + 1]
      BY <3>1, <2>2, <1>5
    <3> QED BY <3>2, <2>2, <1>4 DEF Over
  <2> QED BY <2>1, <2>2, <1>1
<1>7. r \in 0 .. M
  BY <1>1
<1>l. /\ r \in 0 .. Len(L) /\ n \in Nat /\ Over(E, Len(L), r, n) /\ L2 = Remaining(L, E, r, n)
      /\ E2 = CutE(Len(L), E, r, n) /\ U2 = CutU(Len(L), U, r) /\ P2 = CutP(Len(L), P, r)
      /\ Typed(L, E, U, P) /\ Steps(L, E, U, P)
  BY <1>1, <1>2, <1>6, <1>7, <1>y DEF CleanedUp
<1>8. /\ L2 \in Seq(Job) /\ Len(L2) = M - r
      /\ \A i \in 1 .. M - r :
              /\ JobOk(L2[i]) /\ L2[i].flag = L[i + r].flag /\ L2[i].src = L[i + r].src
              /\ L2[i].dst = L[i + r].dst /\ L2[i].epd = L[i + r].epd
              /\ L2[i].head = L[i + r].head /\ L2[i].tail = L[i + r].tail
              /\ L2[i].descs = IF i = 1 THEN E[r + 1] - n ELSE L[i + r].descs
  <2>1. CutOf(L, L2, E, r, n)
    BY <1>l, CutJobs
  <2> QED BY <2>1, <1>y DEF CutOf
<1>9. Typed(L2, E2, U2, P2) /\ Steps(L2, E2, U2, P2)
  BY <1>l, CutSteps
<1>10. a \in Seq(Job) /\ Len(a) = N - r /\ \A i \in 1 .. N - r : a[i] = L2[i]
  <2>1. r < N => E[r + 1] - n \in Nat
    <3>1. r < N => r + 1 \in 0 .. M
      BY <1>1
    <3>2. r < N => E[r + 1] \in Nat
      BY <3>1, <1>3
    <3> QED BY <3>2, <1>1, <1>4
  <2>2. CutAt(L, js, E, r, n)
    BY <2>1, <1>1, <1>3, <1>y DEF CutAt
  <2>3. CutIs(L, a, E, N - r, r, n)
    <3>1. CutIs(L, Remaining(js, E, r, n), E, Len(js) - r, r, n)
      BY <2>2, RemainingIs
    <3> QED BY <3>1 DEF CleanedUp
  <2>4. a = [i \in 1 .. N - r |-> IF i = 1 THEN [js[r + 1] EXCEPT !.descs = E[r + 1] - n] ELSE js[r + i]]
    BY DEF Remaining, CleanedUp
  <2>5. L2 = [i \in 1 .. M - r |-> IF i = 1 THEN [L[r + 1] EXCEPT !.descs = E[r + 1] - n] ELSE L[r + i]]
    BY DEF Remaining, CleanedUp
  <2>6. ASSUME NEW i \in 1 .. N - r PROVE a[i] = L2[i]
    <3>1. i \in 1 .. M - r /\ r + i \in 1 .. N /\ js[r + i] = L[r + i] /\ (i = 1 => r + i = r + 1)
      BY <1>1, <1>3
        <3> QED BY <2>4, <2>5, <3>1
  <2> QED BY <2>3, <2>6 DEF CutIs
<1>11. ASSUME NEW i \in 1 .. M - r, i + r > N PROVE L2[i] = L[i + r]
  <2>1. L2[i].descs = L[i + r].descs
    <3>1. CASE i # 1
      BY <3>1, <1>8
    <3>2. CASE i = 1
      <4>1. r = N /\ N + 1 \in 1 .. M /\ (N + 1) - 1 = N /\ 1 + r = N + 1 /\ r + 1 = N + 1
        BY <1>1, <1>11, <3>2
      <4>2. E[N + 1] = E[(N + 1) - 1] + L[N + 1].descs /\ L[N + 1].descs \in Nat
        <5>1. \A k \in 1 .. M : E[k] = E[k - 1] + L[k].descs /\ L[k].descs \in Nat
          BY <1>2, <1>y, StepsAre
        <5> QED BY <4>1, <5>1
      <4>3. L2[i].descs = E[r + 1] - n
        BY <1>8, <3>2
      <4>4. E[N] = n
        BY <4>1, <1>5
            <4> QED BY <4>1, <4>2, <4>3, <4>4, <3>2, <1>1
    <3> QED BY <3>1, <3>2
  <2> DEFINE g == L2[i]
  <2> DEFINE j == L[i + r]
  <2>2. i + r \in 1 .. M
    BY <1>1
  <2>3. g \in Job /\ j \in Job
    <3>1. JobOk(g)
      BY <1>8
    <3>2. j \in Job
      BY <1>3, <1>y, <2>2
    <3> HIDE DEF g
    <3> QED BY <3>1, <3>2 DEF JobOk
  <2>4. g.flag = j.flag /\ g.src = j.src /\ g.dst = j.dst /\ g.epd = j.epd /\ g.head = j.head
        /\ g.tail = j.tail /\ g.descs = j.descs
    BY <1>8, <2>1
  <2> HIDE DEF g, j
  <2>5. g = j
    BY <2>3, <2>4 DEF Job
  <2> QED BY <2>5 DEF g, j
<1>12. ASSUME NEW m \in 1 .. Len(s)
       PROVE  /\ SubAt(a, l, m) \in 1 .. M - r /\ SubAt(a, l, m) + r = SubAt(js, l, m)
              /\ (l = 0 \/ m > 1 => SubAt(js, l, m) > N)
  <2>1. Len(a) = N - r /\ r <= N /\ (l > 0 => r < N)
    BY <1>1, <1>5, <1>10
  <2>2. SubAt(a, l, m) = IF l = 0 THEN (N - r) + m ELSE (N - r) + m - 1
    BY <2>1 DEF SubAt
  <2>3. SubAt(js, l, m) = (IF l = 0 THEN N + m ELSE N + m - 1) /\ M = (IF l = 0 THEN N + Len(s) ELSE N + Len(s) - 1)
    BY <1>1, <1>y DEF SubAt
  <2> QED BY <1>1, <2>1, <2>2, <2>3
<1>13. Logs(a, l, s, L2)
  <2>1. Len(L2) = SubAt(a, l, Len(s))
    <3>1. M = IF l = 0 THEN N + Len(s) ELSE N + Len(s) - 1
      BY <1>1, <1>y DEF SubAt
    <3>2. SubAt(a, l, Len(s)) = IF l = 0 THEN (N - r) + Len(s) ELSE (N - r) + Len(s) - 1
      BY <1>10 DEF SubAt
    <3> QED BY <3>1, <3>2, <1>1, <1>8
  <2>2. ASSUME NEW m \in 1 .. Len(s), l = 0 \/ m > 1 PROVE L2[SubAt(a, l, m)] = s[m].job
    <3>1. L[SubAt(js, l, m)] = s[m].job
      BY <2>2 DEF WorkOf, Logs
    <3> DEFINE i == SubAt(a, l, m)
    <3>2. i \in 1 .. M - r /\ i + r = SubAt(js, l, m) /\ i + r > N
      BY <1>12, <2>2
    <3> HIDE DEF i
    <3>3. L2[i] = L[i + r]
      BY <3>2, <1>11
    <3> QED BY <3>1, <3>2, <3>3 DEF i
  <2> QED BY <2>1, <2>2, <1>10 DEF Logs
<1>14. /\ h2.done = 0 /\ h2 = [descs |-> h2.descs, done |-> h2.done]
       /\ IsSeq(h2.descs) /\ Len(h2.descs) = z - n /\ \A x \in 1 .. z - n : h2.descs[x] = h.descs[n + x]
  <2> DEFINE t == h.descs
  <2> DEFINE b == SubSeq(t, n + 1, z)
  <2>1. IsSeq(t) /\ n + 1 \in Nat /\ z \in Nat /\ 1 <= n + 1 /\ n + 1 <= z + 1 /\ z <= Len(t) /\ z - (n + 1) + 1 = z - n
    BY <1>1, <1>z
  <2>2. h2.done = 0 /\ h2.descs = b /\ h2 = [descs |-> h2.descs, done |-> h2.done]
    BY <1>z DEF CleanedUp
  <2> HIDE DEF t
  <2>3. IsSeq(b) /\ Len(b) = z - (n + 1) + 1 /\ \A i \in 1 .. z - (n + 1) + 1 : b[i] = t[(n + 1) + i - 1]
    BY <2>1, SubIs
  <2>4. \A i \in 1 .. z - n : (n + 1) + i - 1 = n + i
    BY <1>1
  <2> HIDE DEF b
  <2> QED BY <2>1, <2>2, <2>3, <2>4 DEF t
<1>15. \A i \in 0 .. M - r : E2[i] = IF i = 0 THEN 0 ELSE E[i + r] - n
  BY <1>1 DEF CutE, CleanedUp
<1>16. Descs(a, l, h2, L2, E2, U2, P2, H)
  <2>1. E2[Len(a)] = Len(h2.descs) + l
    <3>1. CASE r = N
      <4>1. Len(a) = 0 /\ 0 \in 0 .. M - r
        BY <3>1, <1>1, <1>10
      <4>2. E2[Len(a)] = 0
        BY <4>1, <1>15
      <4> QED BY <4>2, <3>1, <1>1, <1>5, <1>14
    <3>2. CASE r # N
      <4> DEFINE i == N - r
      <4>1. i \in 0 .. M - r /\ i # 0 /\ i + r = N
        BY <3>2, <1>1
      <4> HIDE DEF i
      <4>2. E2[i] = E[N] - n
        BY <4>1, <1>15
      <4> QED BY <4>2, <1>1, <1>10, <1>14 DEF i
    <3> QED BY <3>1, <3>2
  <2>2. l > 0 => Len(a) >= 1 /\ E2[Len(a) - 1] <= Len(h2.descs)
    <3> SUFFICES ASSUME l > 0 PROVE Len(a) >= 1 /\ E2[Len(a) - 1] <= Len(h2.descs)
      OBVIOUS
    <3> DEFINE i == N - r - 1
    <3>1. r < N /\ i \in 0 .. M - r /\ i + r = N - 1 /\ Len(a) >= 1 /\ Len(a) - 1 = i
      BY <1>1, <1>5, <1>10
    <3>2. E[N - 1] <= z
      BY <1>z, <1>y DEF WorkOf, Descs
    <3>3. E[N - 1] \in Nat
      <4>1. N - 1 \in 0 .. M
        BY <3>1, <1>1
      <4> QED BY <4>1, <1>3
    <3> HIDE DEF i
    <3>4. E2[i] = IF i = 0 THEN 0 ELSE E[N - 1] - n
      BY <3>1, <1>15
    <3> QED BY SMTT(30), <3>1, <3>2, <3>3, <3>4, <1>1, <1>14
  <2>3. ASSUME NEW i \in 1 .. Len(a), NEW x \in 1 .. Len(h2.descs), E2[i - 1] < x, x <= E2[i]
        PROVE  Claim(L2, U2, P2, H, i, h2.descs[x])
    <3> DEFINE k == i + r
    <3> DEFINE o == n + x
    <3>1. i \in 1 .. M - r /\ k \in 1 .. N /\ i \in 0 .. M - r /\ i - 1 \in 0 .. M - r /\ (i - 1) + r = k - 1
          /\ i # 0 /\ (i - 1 = 0 => k - 1 = r) /\ k - 1 \in 0 .. M /\ k \in 0 .. M
      BY <1>1, <1>10
    <3>2. o \in n + 1 .. z /\ x \in 1 .. z - n
      BY <1>1, <1>14
    <3>3. E[k - 1] \in Nat /\ E[k] \in Nat
      BY <3>1, <1>3
    <3>4. E2[i] = E[k] - n /\ E2[i - 1] = IF i - 1 = 0 THEN 0 ELSE E[k - 1] - n
      BY <3>1, <1>15
    <3>5. E[k - 1] < o /\ o <= E[k]
      <4>1. CASE i - 1 = 0
        <5>1. E[k - 1] <= n
          BY <4>1, <3>1, <1>4
        <5> HIDE DEF k
        <5> QED BY SMTT(30), <5>1, <3>3, <3>4, <2>3, <1>1, <3>2
      <4>2. CASE i - 1 # 0
        <5> HIDE DEF k
        <5> QED BY SMTT(30), <4>2, <3>3, <3>4, <2>3, <1>1, <3>2
      <4> QED BY <4>1, <4>2
    <3>6. Claim(L, U, P, H, k, h.descs[o])
      <4>1. \A ii \in 1 .. N : \A kk \in n + 1 .. z :
              E[ii - 1] < kk /\ kk <= E[ii] => Claim(L, U, P, H, ii, h.descs[kk])
        BY <1>z, <1>y DEF WorkOf, Descs
      <4> HIDE DEF k, o
      <4> QED BY <4>1, <3>1, <3>2, <3>5
    <3>7. h2.descs[x] = h.descs[o]
      BY <3>2, <1>14
    <3>8. Claim(L2, U2, P2, H, i, h.descs[o])
      <4> DEFINE d == h.descs[o]
      <4>1. Claim(L, U, P, H, i + r, d)
        BY <3>6
      <4> HIDE DEF d, o, k
      <4>2. Claim(L2, U2, P2, H, i, d)
        BY <4>1, <3>1, <1>l, <1>y, CutClaim
      <4> QED BY <4>2 DEF d
    <3> QED BY <3>7, <3>8
  <2>4. h2.done \in 0 .. Len(h2.descs) /\ h2.done + 1 = 1
    BY <1>1, <1>14
  <2>5. \A i \in 1 .. Len(a) : \A k \in h2.done + 1 .. Len(h2.descs) :
          E2[i - 1] < k /\ k <= E2[i] => Claim(L2, U2, P2, H, i, h2.descs[k])
    BY <2>3, <2>4
  <2> QED BY <2>1, <2>2, <2>4, <2>5, <1>1, <1>14 DEF Descs
<1>17. Subs(a, l, s, L2, U2, P2, H)
  <2>1. l > 0 => Len(s) >= 1 /\ l <= Len(s[1].descs)
    BY DEF WorkOf, Subs
  <2>2. ASSUME NEW m \in 1 .. Len(s)
        PROVE  /\ Entry(s[m])
               /\ l = 0 \/ m > 1 => s[m].job.descs = Len(s[m].descs)
               /\ \A k \in 1 .. Len(s[m].descs) : Claim(L2, U2, P2, H, SubAt(a, l, m), s[m].descs[k])
    <3>1. /\ Entry(s[m])
          /\ l = 0 \/ m > 1 => s[m].job.descs = Len(s[m].descs)
          /\ \A k \in 1 .. Len(s[m].descs) : Claim(L, U, P, H, SubAt(js, l, m), s[m].descs[k])
      BY DEF WorkOf, Subs
    <3>2. ASSUME NEW k \in 1 .. Len(s[m].descs) PROVE Claim(L2, U2, P2, H, SubAt(a, l, m), s[m].descs[k])
      <4> DEFINE d == s[m].descs[k]
      <4> DEFINE i == SubAt(a, l, m)
      <4>1. i \in 1 .. M - r /\ i + r = SubAt(js, l, m)
        BY <1>12
      <4>2. Claim(L, U, P, H, i + r, d)
        BY <4>1, <3>1
      <4> HIDE DEF d, i
      <4>3. Claim(L2, U2, P2, H, i, d)
        BY <4>1, <4>2, <1>l, <1>y, CutClaim
      <4> QED BY <4>3 DEF d, i
    <3> QED BY <3>1, <3>2
  <2> QED BY <1>1, <2>1, <2>2 DEF Subs
<1>18. WorkOf(a, l, s, h2, L2, E2, U2, P2, H)
  BY <1>2, <1>9, <1>13, <1>16, <1>17 DEF WorkOf
<1> QED BY <1>6, <1>7, <1>8, <1>18

-----------------------------------------------------------------------------
(* More to submit *)

\* What a job may copy from grows with the index of the GIE.
LEMMA CopyWider ==
  ASSUME NEW p, NEW lo \in Nat, NEW hi \in Nat, NEW h2 \in Nat, hi <= h2, NEW d, CopyFrom(p, lo, hi, d)
  PROVE  CopyFrom(p, lo, h2, d)
<1>1. CASE \E x \in lo .. hi - 1 : \E b : d = [op |-> "buf", src |-> <<Src[p], x % QLen>>, dst |-> b]
  <2>1. PICK x \in lo .. hi - 1 : \E b : d = [op |-> "buf", src |-> <<Src[p], x % QLen>>, dst |-> b]
    BY <1>1
  <2>2. x \in lo .. h2 - 1
    OBVIOUS
  <2> QED BY <2>1, <2>2 DEF CopyFrom
<1>2. CASE \E x \in lo .. hi - 1, n \in Nat :
       /\ p = "ingress" /\ x + n <= hi /\ (x % QLen) + n <= QLen
       /\ d = [op |-> "qe", src |-> Src[p], dst |-> Dst[p], first |-> x % QLen, cnt |-> n]
  <2>1. PICK x \in lo .. hi - 1, n \in Nat :
       /\ p = "ingress" /\ x + n <= hi /\ (x % QLen) + n <= QLen
       /\ d = [op |-> "qe", src |-> Src[p], dst |-> Dst[p], first |-> x % QLen, cnt |-> n]
    BY <1>2
  <2>2. x \in lo .. h2 - 1 /\ x + n <= h2
    BY <2>1
  <2> QED BY <2>1, <2>2 DEF CopyFrom
<1> QED BY <1>1, <1>2 DEF CopyFrom

\* The log stays what it is when the GIE's index of a pair moves on.
LEMMA Wider ==
  ASSUME NEW js, NEW l, NEW s, NEW h, NEW L, NEW E, NEW U, NEW P, NEW H, WorkOf(js, l, s, h, L, E, U, P, H),
         NEW G, G \in [Pairs -> Nat], \A p \in Pairs : H[p] <= G[p]
  PROVE  WorkOf(js, l, s, h, L, E, U, P, G)
<1>1. Typed(L, E, U, P) /\ H \in [Pairs -> Nat] /\ Steps(L, E, U, P) /\ Logs(js, l, s, L)
      /\ Descs(js, l, h, L, E, U, P, H) /\ Subs(js, l, s, L, U, P, H)
  BY DEF WorkOf
<1>2. /\ Len(js) \in Nat /\ Len(L) \in Nat /\ Len(js) <= Len(L) /\ Len(s) \in Nat /\ l \in Nat
      /\ Len(L) = SubAt(js, l, Len(s)) /\ (l > 0 => Len(js) >= 1)
  BY <1>1, WorkIs DEF Descs
<1>3. ASSUME NEW i \in 1 .. Len(L), NEW d, Claim(L, U, P, H, i, d) PROVE Claim(L, U, P, G, i, d)
  <2>1. ASSUME NEW p \in Pairs, CopyFrom(p, P[p][i - 1], H[p], d)
        PROVE  CopyFrom(p, P[p][i - 1], G[p], d)
    <3> DEFINE lo == P[p][i - 1]
    <3> DEFINE a == H[p]
    <3> DEFINE b == G[p]
    <3>1. lo \in Nat /\ a \in Nat /\ b \in Nat /\ a <= b
      <4>1. i - 1 \in 0 .. Len(L)
        BY <1>2
      <4> QED BY <4>1, <1>1 DEF Typed
    <3>2. CopyFrom(p, lo, a, d)
      BY <2>1
    <3> HIDE DEF lo, a, b
    <3>3. CopyFrom(p, lo, b, d)
      BY <3>1, <3>2, CopyWider
    <3> QED BY <3>3 DEF lo, b
  <2> QED BY <1>3, <2>1 DEF Claim
<1>4. Descs(js, l, h, L, E, U, P, G)
  <2>1. ASSUME NEW i \in 1 .. Len(js), NEW k \in h.done + 1 .. Len(h.descs), E[i - 1] < k, k <= E[i]
        PROVE  Claim(L, U, P, G, i, h.descs[k])
    <3>1. Claim(L, U, P, H, i, h.descs[k])
      BY <1>1, <2>1 DEF Descs
    <3>2. i \in 1 .. Len(L)
      BY <1>2
    <3> QED BY <3>1, <3>2, <1>3
  <2> QED BY <1>1, <2>1 DEF Descs
<1>5. Subs(js, l, s, L, U, P, G)
  <2>1. ASSUME NEW m \in 1 .. Len(s), NEW k \in 1 .. Len(s[m].descs)
        PROVE  Claim(L, U, P, G, SubAt(js, l, m), s[m].descs[k])
    <3>1. Claim(L, U, P, H, SubAt(js, l, m), s[m].descs[k])
      BY <1>1 DEF Subs
    <3>2. SubAt(js, l, m) \in 1 .. Len(L)
      BY <1>2 DEF SubAt
    <3> QED BY <3>1, <3>2, <1>3
  <2> QED BY <1>1, <2>1 DEF Subs
<1> QED BY <1>1, <1>4, <1>5 DEF WorkOf

\* The positions of a longer log agree with those of the log.
Ext(L, E, U, P, L2, E2, U2, P2) ==
  /\ Len(L) \in Nat /\ Len(L2) \in Nat /\ Len(L) <= Len(L2)
  /\ \A i \in 0 .. Len(L) : E2[i] = E[i] /\ (\A x \in Queues : U2[x][i] = U[x][i])
                                         /\ (\A p \in Pairs : P2[p][i] = P[p][i])
  /\ \A i \in Len(L) + 1 .. Len(L2) : E2[i] > E[Len(L)]

\* Growing twice is growing.
LEMMA ExtTrans ==
  ASSUME NEW L, NEW E, NEW U, NEW P, NEW L2, NEW E2, NEW U2, NEW P2, NEW L3, NEW E3, NEW U3, NEW P3,
         Ext(L, E, U, P, L2, E2, U2, P2), Ext(L2, E2, U2, P2, L3, E3, U3, P3),
         Typed(L2, E2, U2, P2), Typed(L3, E3, U3, P3)
  PROVE  Ext(L, E, U, P, L3, E3, U3, P3)
<1>1. Len(L) \in Nat /\ Len(L2) \in Nat /\ Len(L3) \in Nat /\ Len(L) <= Len(L2) /\ Len(L2) <= Len(L3)
  BY DEF Ext
<1>2. ASSUME NEW i \in 0 .. Len(L)
      PROVE E3[i] = E[i] /\ (\A x \in Queues : U3[x][i] = U[x][i]) /\ (\A p \in Pairs : P3[p][i] = P[p][i])
  <2>1. i \in 0 .. Len(L2)
    BY <1>1
  <2> QED BY <2>1 DEF Ext
<1>3. ASSUME NEW i \in Len(L) + 1 .. Len(L3) PROVE E3[i] > E[Len(L)]
  <2>1. CASE i <= Len(L2)
    <3>1. i \in Len(L) + 1 .. Len(L2) /\ i \in 0 .. Len(L2)
      BY <1>1, <2>1
    <3> QED BY <3>1 DEF Ext
  <2>2. CASE i > Len(L2)
    <3>1. i \in Len(L2) + 1 .. Len(L3) /\ i \in 0 .. Len(L3) /\ Len(L2) \in 0 .. Len(L2) /\ Len(L) \in 0 .. Len(L2)
          /\ Len(L) \in 0 .. Len(L)
      BY <1>1, <2>2
    <3>2. E3[i] > E2[Len(L2)] /\ E3[i] \in Nat /\ E2[Len(L2)] \in Nat /\ E2[Len(L)] = E[Len(L)] /\ E2[Len(L)] \in Nat
      BY <3>1 DEF Ext, Typed
    <3>3. E2[Len(L2)] >= E2[Len(L)]
      <4>1. CASE Len(L2) = Len(L)
        BY <4>1, <3>2
      <4>2. CASE Len(L2) # Len(L)
        <5>1. Len(L2) \in Len(L) + 1 .. Len(L2)
          BY <4>2, <1>1
        <5>2. E2[Len(L2)] > E[Len(L)]
          BY <5>1 DEF Ext
        <5> QED BY <5>2, <3>2
      <4> QED BY <4>1, <4>2
    <3> QED BY <3>2, <3>3
  <2> QED BY <1>1, <2>1, <2>2
<1> QED BY <1>1, <1>2, <1>3 DEF Ext

\* An entry that may follow a log of M jobs, which publishes up to w.
Fits(e, U, P, H, M, w) ==
  /\ JobOk(e.job) /\ IsSeq(e.descs) /\ e.job.descs = Len(e.descs)
  /\ e.job.flag = "update" => \A k \in 1 .. Len(e.descs) :
       /\ e.descs[k] = [op |-> "qe", src |-> e.job.src, dst |-> e.job.dst,
                        first |-> U[e.job.src][M] % Len_(e.job.src), cnt |-> e.job.epd]
       /\ e.descs[k].first + e.descs[k].cnt <= Len_(e.job.src)
  /\ e.job.flag # "update" => \A p \in Pairs : e.job.src = Src[p] =>
       \A k \in 1 .. Len(e.descs) : CopyFrom(p, P[p][M], H[p], e.descs[k])
  /\ w \in [Pairs -> Nat]
  /\ \A p \in Pairs : /\ P[p][M] <= w[p]
                      /\ IF Carries(e.job, p) THEN e.job.head = w[p] % QLen /\ e.job.tail = w[p] % QLen
                         ELSE w[p] = P[p][M]

\* What WorkOf becomes when more is to be submitted: the ends are u and w.
Grown(js, h, L, E, U, P, H, s2, u, w) ==
  \E L2, E2, U2, P2 :
     /\ WorkOf(js, 0, s2, h, L2, E2, U2, P2, H)
     /\ Ext(L, E, U, P, L2, E2, U2, P2)
     /\ \A x \in Queues : U2[x][Len(L2)] = u[x]
     /\ \A p \in Pairs : P2[p][Len(L2)] = w[p]

\* One entry more to submit.
LEMMA Adding ==
  ASSUME NEW js, NEW s, NEW h, NEW L, NEW E, NEW U, NEW P, NEW H, WorkOf(js, 0, s, h, L, E, U, P, H),
         NEW e, NEW w, Fits(e, U, P, H, Len(L), w),
         NEW u, u = [x \in Queues |-> U[x][Len(L)] + Upd(e.job, x)]
  PROVE  Grown(js, h, L, E, U, P, H, Append(s, e), u, w)
<1> DEFINE N == Len(js)
<1> DEFINE M == Len(L)
<1> DEFINE j == e.job
<1> DEFINE L2 == Append(L, j)
<1> DEFINE E2 == [i \in 0 .. M + 1 |-> IF i <= M THEN E[i] ELSE E[M] + j.descs]
<1> DEFINE U2 == [x \in Queues |-> [i \in 0 .. M + 1 |-> IF i <= M THEN U[x][i] ELSE u[x]]]
<1> DEFINE P2 == [p \in Pairs |-> [i \in 0 .. M + 1 |-> IF i <= M THEN P[p][i] ELSE w[p]]]
<1> DEFINE s2 == Append(s, e)
<1>1. /\ js \in Seq(Job) /\ N \in Nat /\ IsSeq(s) /\ Len(s) \in Nat /\ M \in Nat /\ M = N + Len(s) /\ N <= M
  BY WorkIs DEF SubAt
<1>2. Typed(L, E, U, P) /\ H \in [Pairs -> Nat] /\ Steps(L, E, U, P) /\ Logs(js, 0, s, L)
      /\ Descs(js, 0, h, L, E, U, P, H) /\ Subs(js, 0, s, L, U, P, H)
  BY DEF WorkOf
<1>3. L \in Seq(Job) /\ E \in [0 .. M -> Nat] /\ U \in [Queues -> [0 .. M -> Nat]] /\ P \in [Pairs -> [0 .. M -> Nat]]
  BY <1>2 DEF Typed
<1>4. JobOk(j) /\ j \in Job /\ j.descs \in Nat /\ j.descs >= 1 /\ j.epd \in Nat /\ j.src \in Queues
  <2>1. JobOk(j)
    BY DEF Fits
  <2> HIDE DEF j
  <2> QED BY <2>1 DEF JobOk, Job
<1>m. M = Len(L) /\ N = Len(js)
  OBVIOUS
<1> HIDE DEF M, N
<1>5. w \in [Pairs -> Nat] /\ \A x \in Queues : u[x] = U[x][M] + Upd(j, x) /\ u[x] \in Nat /\ U[x][M] \in Nat
  <2>1. w \in [Pairs -> Nat]
    BY DEF Fits
  <2>2. \A x \in Queues : u[x] = U[x][M] + Upd(j, x)
    BY <1>m
  <2> HIDE DEF j
  <2>3. \A x \in Queues : Upd(j, x) \in Nat
    BY <1>4 DEF Upd
  <2>4. \A x \in Queues : U[x][M] \in Nat
    BY <1>1, <1>3
  <2> QED BY <2>1, <2>2, <2>3, <2>4
<1> HIDE DEF j
<1>6. L2 \in Seq(Job) /\ Len(L2) = M + 1 /\ (\A i \in 1 .. M : L2[i] = L[i]) /\ L2[M + 1] = j
  BY <1>3, <1>4, <1>m, AppendProperties
<1>7. IsSeq(s2) /\ Len(s2) = Len(s) + 1 /\ (\A i \in 1 .. Len(s) : s2[i] = s[i]) /\ s2[Len(s) + 1] = e
  BY <1>1, AppendIs
<1>8. /\ \A i \in 0 .. M : E2[i] = E[i] /\ (\A x \in Queues : U2[x][i] = U[x][i])
                                        /\ (\A p \in Pairs : P2[p][i] = P[p][i])
      /\ E2[M + 1] = E[M] + j.descs /\ (\A x \in Queues : U2[x][M + 1] = u[x])
      /\ (\A p \in Pairs : P2[p][M + 1] = w[p])
  BY <1>1
<1>9. /\ E2 \in [0 .. M + 1 -> Nat] /\ U2 \in [Queues -> [0 .. M + 1 -> Nat]]
      /\ P2 \in [Pairs -> [0 .. M + 1 -> Nat]]
  <2>1. E2 \in [0 .. M + 1 -> Nat]
    <3> DEFINE c == E[M] + j.descs
    <3>1. c \in Nat
      <4>1. E[M] \in Nat
        BY <1>1, <1>3
      <4> QED BY <4>1, <1>4
    <3> HIDE DEF c
    <3>2. E2 = [i \in 0 .. M + 1 |-> IF i <= M THEN E[i] ELSE c]
      BY DEF c
    <3> HIDE DEF E2, U2, P2, L2, s2, M, N
    <3>3. M \in Nat /\ \A i \in 0 .. M : E[i] \in Nat
      BY <1>1, <1>3
    <3>4. \A i \in 0 .. M + 1 : i <= M => i \in 0 .. M
      BY <3>3
    <3>5. \A i \in 0 .. M + 1 : (IF i <= M THEN E[i] ELSE c) \in Nat
      BY <3>1, <3>3, <3>4
    <3> QED BY <3>2, <3>5
  <2>2. U2 \in [Queues -> [0 .. M + 1 -> Nat]]
    BY <1>1, <1>3, <1>5
  <2>3. P2 \in [Pairs -> [0 .. M + 1 -> Nat]]
    BY <1>1, <1>3, <1>5
  <2> QED BY <2>1, <2>2, <2>3
<1> HIDE DEF L2, E2, U2, P2, s2
<1>10. Typed(L2, E2, U2, P2)
  BY <1>6, <1>9 DEF Typed
<1>11. Steps(L2, E2, U2, P2)
  <2>1. E2[0] = 0
    <3>1. E[0] = 0 /\ 0 \in 0 .. M
      BY <1>1, <1>2 DEF Steps
    <3> QED BY <3>1, <1>8
  <2>2. ASSUME NEW i \in 1 .. M + 1
        PROVE  /\ JobOk(L2[i])
               /\ E2[i] = E2[i - 1] + L2[i].descs
               /\ \A x \in Queues : U2[x][i] = U2[x][i - 1] + Upd(L2[i], x)
               /\ \A p \in Pairs :
                    /\ P2[p][i - 1] <= P2[p][i]
                    /\ IF Carries(L2[i], p)
                       THEN L2[i].head = P2[p][i] % QLen /\ L2[i].tail = P2[p][i] % QLen
                       ELSE P2[p][i] = P2[p][i - 1]
    <3>1. CASE i <= M
      <4>1. i \in 1 .. M /\ i \in 0 .. M /\ i - 1 \in 0 .. M
        BY <1>1, <3>1
      <4>2. /\ JobOk(L[i])
            /\ E[i] = E[i - 1] + L[i].descs
            /\ \A x \in Queues : U[x][i] = U[x][i - 1] + Upd(L[i], x)
            /\ \A p \in Pairs :
                 /\ P[p][i - 1] <= P[p][i]
                 /\ IF Carries(L[i], p)
                    THEN L[i].head = P[p][i] % QLen /\ L[i].tail = P[p][i] % QLen
                    ELSE P[p][i] = P[p][i - 1]
        BY <4>1, <1>2, <1>m DEF Steps
      <4>3. L2[i] = L[i] /\ E2[i] = E[i] /\ E2[i - 1] = E[i - 1]
        BY <4>1, <1>6, <1>8
      <4>4. \A x \in Queues : U2[x][i] = U[x][i] /\ U2[x][i - 1] = U[x][i - 1]
        BY <4>1, <1>8
      <4>5. \A p \in Pairs : P2[p][i] = P[p][i] /\ P2[p][i - 1] = P[p][i - 1]
        BY <4>1, <1>8
      <4> QED BY <4>2, <4>3, <4>4, <4>5
    <3>2. CASE i = M + 1
      <4>1. i - 1 = M /\ M \in 0 .. M
        BY <1>1, <3>2
      <4>2. L2[i] = j /\ E2[i] = E[M] + j.descs /\ E2[i - 1] = E[M]
        BY <4>1, <3>2, <1>6, <1>8
      <4>3. \A x \in Queues : U2[x][i] = U[x][M] + Upd(j, x) /\ U2[x][i - 1] = U[x][M]
        BY <4>1, <3>2, <1>5, <1>8
      <4>4. \A p \in Pairs : P2[p][i] = w[p] /\ P2[p][i - 1] = P[p][M]
        BY <4>1, <3>2, <1>8
      <4>5. \A p \in Pairs : /\ P[p][M] <= w[p]
                             /\ IF Carries(j, p) THEN j.head = w[p] % QLen /\ j.tail = w[p] % QLen
                                ELSE w[p] = P[p][M]
        BY <1>m DEF Fits, j
      <4> QED BY <4>2, <4>3, <4>4, <4>5, <1>4
    <3> QED BY <1>1, <3>1, <3>2
  <2> QED BY <2>1, <2>2, <1>6 DEF Steps
<1>12. ASSUME NEW i \in 1 .. M, NEW d, Claim(L, U, P, H, i, d) PROVE Claim(L2, U2, P2, H, i, d)
  <2>1. i - 1 \in 0 .. M /\ L2[i] = L[i]
    BY <1>1, <1>6
  <2>2. (\A x \in Queues : U2[x][i - 1] = U[x][i - 1]) /\ (\A p \in Pairs : P2[p][i - 1] = P[p][i - 1])
    BY <2>1, <1>8
  <2>3. L[i].src \in Queues
    <3>1. L[i] \in Job
      BY <1>3, <1>m
    <3> DEFINE g == L[i]
    <3> HIDE DEF g
    <3>2. g \in Job => g.src \in Queues
      BY DEF Job
    <3> QED BY <3>1, <3>2 DEF g
  <2> QED BY <1>12, <2>1, <2>2, <2>3 DEF Claim
<1>13. \A m \in Nat : SubAt(js, 0, m) = N + m
  BY <1>m DEF SubAt
<1>14. Logs(js, 0, s2, L2)
  <2>1. ASSUME NEW i \in 1 .. N PROVE L2[i] = js[i]
    <3>1. i \in 1 .. M
      BY <1>1
    <3>2. L[i] = js[i]
      BY <1>2, <1>m DEF Logs
    <3> QED BY <3>1, <3>2, <1>6
  <2>2. ASSUME NEW m \in 1 .. Len(s) + 1 PROVE L2[N + m] = s2[m].job
    <3>1. CASE m <= Len(s)
      <4>1. m \in 1 .. Len(s) /\ N + m \in 1 .. M
        BY <3>1, <1>1
      <4>2. L[N + m] = s[m].job
        <5>1. L[SubAt(js, 0, m)] = s[m].job
          BY <4>1, <1>2 DEF Logs
        <5> QED BY <5>1, <1>13
      <4> QED BY <4>1, <4>2, <1>6, <1>7
    <3>2. CASE m = Len(s) + 1
      <4>1. N + m = M + 1 /\ s2[m] = e
        BY <3>2, <1>1, <1>7
      <4> QED BY <4>1, <1>6 DEF j
    <3> QED BY <1>1, <3>1, <3>2
  <2>3. Len(L2) = N + Len(s2)
    BY <1>1, <1>6, <1>7
  <2>4. Len(L2) = SubAt(js, 0, Len(s2)) /\ \A m \in 1 .. Len(s2) : SubAt(js, 0, m) = N + m
    <3>1. Len(s2) \in Nat
      BY <1>1, <1>7
    <3> QED BY <3>1, <2>3, <1>13
  <2>5. \A m \in 1 .. Len(s2) : L2[SubAt(js, 0, m)] = s2[m].job
    BY <2>2, <2>4, <1>7
  <2>6. \A i \in 1 .. Len(js) : L2[i] = js[i]
    BY <2>1, <1>m
  <2> QED BY <2>4, <2>5, <2>6, <1>1 DEF Logs
<1>15. Descs(js, 0, h, L2, E2, U2, P2, H)
  <2>1. /\ h = [descs |-> h.descs, done |-> h.done] /\ IsSeq(h.descs) /\ h.done \in 0 .. Len(h.descs)
        /\ E[N] = Len(h.descs) + 0
    BY <1>2, <1>m DEF Descs
  <2>2. E2[N] = E[N]
    <3>1. N \in 0 .. M
      BY <1>1
    <3> QED BY <3>1, <1>8
  <2>3. ASSUME NEW i \in 1 .. N, NEW k \in h.done + 1 .. Len(h.descs), E2[i - 1] < k, k <= E2[i]
        PROVE  Claim(L2, U2, P2, H, i, h.descs[k])
    <3>1. i \in 1 .. M /\ i \in 0 .. M /\ i - 1 \in 0 .. M
      BY <1>1
    <3>2. E2[i - 1] = E[i - 1] /\ E2[i] = E[i]
      BY <3>1, <1>8
    <3>3. Claim(L, U, P, H, i, h.descs[k])
      BY <2>3, <3>2, <1>2, <1>m DEF Descs
    <3> QED BY <3>1, <3>3, <1>12
  <2> QED BY <2>1, <2>2, <2>3, <1>m DEF Descs
<1>16. Subs(js, 0, s2, L2, U2, P2, H)
  <2>1. ASSUME NEW m \in 1 .. Len(s) + 1
        PROVE  /\ Entry(s2[m])
               /\ s2[m].job.descs = Len(s2[m].descs)
               /\ \A k \in 1 .. Len(s2[m].descs) : Claim(L2, U2, P2, H, N + m, s2[m].descs[k])
    <3>1. CASE m <= Len(s)
      <4>1. m \in 1 .. Len(s) /\ N + m \in 1 .. M /\ s2[m] = s[m]
        BY <3>1, <1>1, <1>7
      <4>2. /\ Entry(s[m])
            /\ s[m].job.descs = Len(s[m].descs)
            /\ \A k \in 1 .. Len(s[m].descs) : Claim(L, U, P, H, SubAt(js, 0, m), s[m].descs[k])
        BY <4>1, <1>2 DEF Subs
      <4>3. SubAt(js, 0, m) = N + m
        BY <1>13
      <4>4. ASSUME NEW k \in 1 .. Len(s[m].descs) PROVE Claim(L2, U2, P2, H, N + m, s[m].descs[k])
        <5>1. Claim(L, U, P, H, N + m, s[m].descs[k])
          BY <4>2, <4>3
        <5> QED BY <4>1, <5>1, <1>12
      <4> QED BY <4>1, <4>2, <4>4
    <3>2. CASE m = Len(s) + 1
      <4>1. N + m = M + 1 /\ s2[m] = e /\ (M + 1) - 1 = M /\ M \in 0 .. M
        BY <3>2, <1>1, <1>7
      <4>2. Entry(e) /\ e.job.descs = Len(e.descs)
        BY <1>4 DEF Fits, Entry, j
      <4>3. ASSUME NEW k \in 1 .. Len(e.descs) PROVE Claim(L2, U2, P2, H, M + 1, e.descs[k])
        <5>1. L2[M + 1] = j /\ (\A x \in Queues : U2[x][(M + 1) - 1] = U[x][M])
              /\ (\A p \in Pairs : P2[p][(M + 1) - 1] = P[p][M])
          BY <4>1, <1>6, <1>8
        <5>2. j.flag = "update" =>
                /\ e.descs[k] = [op |-> "qe", src |-> j.src, dst |-> j.dst,
                                 first |-> U[j.src][M] % Len_(j.src), cnt |-> j.epd]
                /\ e.descs[k].first + e.descs[k].cnt <= Len_(j.src)
          BY <1>m DEF Fits, j
        <5>3. j.flag # "update" => \A p \in Pairs : j.src = Src[p] => CopyFrom(p, P[p][M], H[p], e.descs[k])
          BY <1>m DEF Fits, j
        <5> QED BY <5>1, <5>2, <5>3, <1>4 DEF Claim
      <4> QED BY <4>1, <4>2, <4>3
    <3> QED BY <1>1, <3>1, <3>2
  <2>2. \A m \in 1 .. Len(s) + 1 : SubAt(js, 0, m) = N + m
    BY <1>1, <1>13
  <2> QED BY <2>1, <2>2, <1>7 DEF Subs
<1>17. WorkOf(js, 0, s2, h, L2, E2, U2, P2, H)
  BY <1>2, <1>10, <1>11, <1>14, <1>15, <1>16 DEF WorkOf
<1>18. Ext(L, E, U, P, L2, E2, U2, P2)
  <2>1. \A i \in M + 1 .. M + 1 : E2[i] > E[M]
    <3>1. E[M] \in Nat
      BY <1>1, <1>3
    <3>2. E2[M + 1] > E[M]
      BY <3>1, <1>4, <1>8
    <3> QED BY <3>2, <1>1
  <2>2. M + 1 \in Nat /\ M <= M + 1
    BY <1>1
  <2> QED BY <2>1, <2>2, <1>1, <1>6, <1>8, <1>m DEF Ext
<1>19. (\A x \in Queues : U2[x][Len(L2)] = u[x]) /\ (\A p \in Pairs : P2[p][Len(L2)] = w[p])
  BY <1>6, <1>8
<1>20. Grown(js, h, L, E, U, P, H, s2, u, w)
  BY <1>17, <1>18, <1>19 DEF Grown
<1> QED BY <1>20 DEF s2

\* The end of a ring is the start of it.
LEMMA WrapIs ==
  ASSUME NEW L \in Nat \ {0}, NEW x \in Nat
  PROVE  (x + (L - (x % L))) % L = 0
<1> DEFINE r == x % L
<1> DEFINE n == L - r
<1>1. r \in 0 .. L - 1 /\ n \in Nat
  BY ModRange
<1>2. q_idx_add(r, n, L) = 0
  <2> HIDE DEF r
  <2>1. r + n = L
    BY <1>1
  <2>2. L % L = 0
    <3>1. L \in Nat /\ 0 \in 0 .. L - 1 /\ 1 \in Int /\ L = 1 * L + 0
      OBVIOUS
    <3> QED BY <3>1, ModUnique
  <2> HIDE DEF n
  <2> QED BY <2>1, <2>2 DEF q_idx_add
<1>3. q_idx_add(x % L, n, L) = (x + n) % L
  <2> HIDE DEF n
  <2> QED BY <1>1, AddIs
<1> QED BY <1>2, <1>3

\* A sequence and one more element ...
LEMMA AppendCat ==
  ASSUME NEW s, IsSeq(s), NEW e
  PROVE  s \o <<e>> = Append(s, e) /\ IsSeq(s \o <<e>>)
<1> DEFINE t == <<e>>
<1> DEFINE a == s \o t
<1> DEFINE b == Append(s, e)
<1>1. IsSeq(t) /\ Len(t) = 1 /\ t[1] = e
  BY OneIs
<1> HIDE DEF t
<1>2. IsSeq(a) /\ Len(a) = Len(s) + Len(t) /\ (\A i \in 1 .. Len(s) : a[i] = s[i])
      /\ (\A i \in 1 .. Len(t) : a[Len(s) + i] = t[i])
  BY <1>1, CatIs
<1>3. IsSeq(b) /\ Len(b) = Len(s) + 1 /\ (\A i \in 1 .. Len(s) : b[i] = s[i]) /\ b[Len(s) + 1] = e
  BY AppendIs
<1>4. Len(s) \in Nat
  BY DEF IsSeq
<1> HIDE DEF a, b
<1>5. ASSUME NEW i \in 1 .. Len(a) PROVE a[i] = b[i]
  <2>1. CASE i <= Len(s)
    BY <1>1, <1>2, <1>3, <1>4, <2>1
  <2>2. CASE i = Len(s) + 1
    <3>1. 1 \in 1 .. Len(t)
      BY <1>1
    <3>2. a[Len(s) + 1] = t[1]
      BY <3>1, <1>2
    <3> QED BY <3>2, <2>2, <1>1, <1>3
  <2> QED BY <1>1, <1>2, <1>4, <2>1, <2>2
<1>6. a = b
  BY <1>1, <1>2, <1>3, <1>5, SameSeq
<1> QED BY <1>2, <1>6 DEF a, b, t

\* ... and two.
LEMMA AppendCat2 ==
  ASSUME NEW s, IsSeq(s), NEW e, NEW g
  PROVE  s \o <<e, g>> = Append(Append(s, e), g)
<1> DEFINE t == <<e, g>>
<1> DEFINE a == s \o t
<1> DEFINE c == Append(s, e)
<1> DEFINE b == Append(c, g)
<1>1. IsSeq(t) /\ Len(t) = 2 /\ t[1] = e /\ t[2] = g
  <2>1. t \in Seq({e, g})
    OBVIOUS
  <2> QED BY <2>1, SeqIs
<1> HIDE DEF t
<1> HIDE DEF b
<1>2. IsSeq(a) /\ Len(a) = Len(s) + Len(t) /\ (\A i \in 1 .. Len(s) : a[i] = s[i])
      /\ (\A i \in 1 .. Len(t) : a[Len(s) + i] = t[i])
  <2>1. IsSeq(t)
    BY <1>1
  <2> HIDE DEF a
  <2>2. IsSeq(s \o t) /\ Len(s \o t) = Len(s) + Len(t) /\ (\A i \in 1 .. Len(s) : (s \o t)[i] = s[i])
      /\ (\A i \in 1 .. Len(t) : (s \o t)[Len(s) + i] = t[i])
    BY <2>1, CatIs
  <2> QED BY <2>2 DEF a
<1> USE DEF b
<1>3. IsSeq(c) /\ Len(c) = Len(s) + 1 /\ (\A i \in 1 .. Len(s) : c[i] = s[i]) /\ c[Len(s) + 1] = e
  BY AppendIs
<1> HIDE DEF c
<1>4. IsSeq(b) /\ Len(b) = Len(c) + 1 /\ (\A i \in 1 .. Len(c) : b[i] = c[i]) /\ b[Len(c) + 1] = g
  BY <1>3, AppendIs
<1>5. Len(s) \in Nat
  BY DEF IsSeq
<1> HIDE DEF a, b
<1>6. ASSUME NEW i \in 1 .. Len(a) PROVE a[i] = b[i]
  <2>1. CASE i <= Len(s)
    <3>1. i \in 1 .. Len(s) /\ i \in 1 .. Len(c)
      BY <1>3, <1>5, <2>1
    <3> QED BY <3>1, <1>2, <1>3, <1>4
  <2>2. CASE i = Len(s) + 1
    <3>1. 1 \in 1 .. Len(t) /\ i \in 1 .. Len(c)
      BY <1>1, <1>3, <1>5, <2>2
    <3>2. a[Len(s) + 1] = t[1]
      BY <3>1, <1>2
    <3> QED BY <3>1, <3>2, <2>2, <1>1, <1>3, <1>4
  <2>3. CASE i = Len(s) + 2
    <3>1. 2 \in 1 .. Len(t) /\ i = Len(c) + 1
      BY <1>1, <1>3, <1>5, <2>3
    <3>2. a[Len(s) + 2] = t[2]
      BY <3>1, <1>2
    <3> QED BY <3>1, <3>2, <2>3, <1>1, <1>4
  <2> QED BY <1>1, <1>2, <1>5, <2>1, <2>2, <2>3
<1>7. Len(a) = Len(b)
  BY <1>1, <1>2, <1>3, <1>4, <1>5
<1>8. a = b
  BY <1>2, <1>4, <1>6, <1>7, SameSeq
<1> QED BY <1>8 DEF a, b, c, t

\* Growing twice, with what is submitted.
LEMMA GrownTrans ==
  ASSUME NEW js, NEW h, NEW H, NEW L, NEW E, NEW U, NEW P, NEW L2, NEW E2, NEW U2, NEW P2,
         Ext(L, E, U, P, L2, E2, U2, P2), Typed(L2, E2, U2, P2),
         NEW s3, NEW u, NEW w, Grown(js, h, L2, E2, U2, P2, H, s3, u, w)
  PROVE  Grown(js, h, L, E, U, P, H, s3, u, w)
<1>1. PICK L3, E3, U3, P3 :
     /\ WorkOf(js, 0, s3, h, L3, E3, U3, P3, H)
     /\ Ext(L2, E2, U2, P2, L3, E3, U3, P3)
     /\ \A x \in Queues : U3[x][Len(L3)] = u[x]
     /\ \A p \in Pairs : P3[p][Len(L3)] = w[p]
  BY DEF Grown
<1>2. Typed(L3, E3, U3, P3)
  BY <1>1 DEF WorkOf
<1>3. Ext(L, E, U, P, L3, E3, U3, P3)
  BY <1>1, <1>2, ExtTrans
<1> QED BY <1>1, <1>3 DEF Grown

\* The job of a copy of QEs.
LEMMA QeEntry ==
  ASSUME NEW src \in Queues, NEW dst \in Queues, NEW f \in Nat, NEW n \in Nat,
         NEW flag \in Flags, NEW hd \in Nat, NEW tl \in Nat,
         NEW e, e = QeCopy(src, dst, f, n, flag, hd, tl)
  PROVE  /\ e.job \in Job /\ e.job.flag = flag /\ e.job.src = src /\ e.job.dst = dst
         /\ e.job.epd = n /\ e.job.descs = 1 /\ e.job.head = hd /\ e.job.tail = tl
         /\ IsSeq(e.descs) /\ Len(e.descs) = 1
         /\ e.descs[1] = [op |-> "qe", src |-> src, dst |-> dst, first |-> f, cnt |-> n]
<1> DEFINE j == NewJob(flag, src, dst, hd, tl, n, 1)
<1> DEFINE d == [op |-> "qe", src |-> src, dst |-> dst, first |-> f, cnt |-> n]
<1>1. e.job = j /\ e.descs = <<d>>
  BY DEF QeCopy
<1>2. /\ j \in Job /\ j.flag = flag /\ j.src = src /\ j.dst = dst
      /\ j.epd = n /\ j.descs = 1 /\ j.head = hd /\ j.tail = tl
  BY DEF NewJob, Job
<1> HIDE DEF j, d
<1>3. IsSeq(<<d>>) /\ Len(<<d>>) = 1 /\ <<d>>[1] = d
  BY OneIs
<1> QED BY <1>1, <1>2, <1>3 DEF d

-----------------------------------------------------------------------------
(* Copies that move qe_head *)

\* Copies whose job moves qe_head of the source.
Updates(src, dst) ==
  \/ "egress" \in Pairs /\ src = Src["egress"] /\ dst = Dst["egress"]
  \/ "ingress" \in CopyPayload /\ src = "host_bp" /\ dst = "shadow"

\* Both kinds of them go from a queue to a queue.
LEMMA UpdatesIn ==
  ASSUME NEW src, NEW dst, Updates(src, dst)
  PROVE  src \in Queues /\ dst \in Queues /\ Len_(src) \in Nat \ {0}
<1>1. CASE "egress" \in Pairs /\ src = Src["egress"] /\ dst = Dst["egress"]
  BY <1>1, Names
<1>2. CASE "ingress" \in CopyPayload /\ src = "host_bp" /\ dst = "shadow"
  <2>1. "ingress" \in Pairs
    BY <1>2, Params
  <2> QED BY <1>2, <2>1, Names
<1> QED BY <1>1, <1>2 DEF Updates

\* The end of qe_head when n more are to be copied from src, and the end of
\* what is published when nothing more is.
Plus(U, M, src, n) == [x \in Queues |-> IF x = src THEN U[x][M] + n ELSE U[x][M]]
Ends(P, M) == [p \in Pairs |-> P[p][M]]

\* A copy that does not go round the ring.
LEMMA AddUpdate ==
  ASSUME NEW js, NEW s, NEW h, NEW L, NEW E, NEW U, NEW P, NEW H, WorkOf(js, 0, s, h, L, E, U, P, H),
         NEW src, NEW dst, Updates(src, dst), NEW n \in Nat,
         NEW f, f = U[src][Len(L)] % Len_(src), f + n <= Len_(src),
         NEW e, e = QeCopy(src, dst, f, n, "update", 0, 0)
  PROVE  Grown(js, h, L, E, U, P, H, Append(s, e), Plus(U, Len(L), src, n), Ends(P, Len(L)))
<1> DEFINE M == Len(L)
<1>1. src \in Queues /\ dst \in Queues /\ Len_(src) \in Nat \ {0}
  BY UpdatesIn
<1>2. M \in Nat /\ Typed(L, E, U, P)
  BY WorkIs DEF WorkOf
<1>m. M = Len(L)
  OBVIOUS
<1> HIDE DEF M
<1>3. M \in 0 .. M /\ (\A x \in Queues : U[x][M] \in Nat) /\ (\A p \in Pairs : P[p][M] \in Nat)
  BY <1>2, <1>m DEF Typed
<1>4. f \in Nat
  <2> DEFINE a == U[src][M]
  <2> DEFINE l == Len_(src)
  <2>1. a \in Nat /\ l \in Nat \ {0} /\ f = a % l
    BY <1>1, <1>3, <1>m
  <2> HIDE DEF a, l
  <2>2. a % l \in 0 .. l - 1
    BY <2>1, ModRange
  <2> QED BY <2>1, <2>2
<1>5. /\ e.job \in Job /\ e.job.flag = "update" /\ e.job.src = src /\ e.job.dst = dst
      /\ e.job.epd = n /\ e.job.descs = 1
      /\ IsSeq(e.descs) /\ Len(e.descs) = 1
      /\ e.descs[1] = [op |-> "qe", src |-> src, dst |-> dst, first |-> f, cnt |-> n]
  <2>1. "update" \in Flags
    BY DEF Flags
  <2>2. src \in Queues /\ dst \in Queues /\ f \in Nat /\ n \in Nat /\ 0 \in Nat
    BY <1>1, <1>4
  <2> QED BY <2>1, <2>2, QeEntry
<1> DEFINE u == [x \in Queues |-> U[x][M] + Upd(e.job, x)]
<1> DEFINE w == Ends(P, M)
<1>6. JobOk(e.job)
  <2> DEFINE j == e.job
  <2>1. ForPair(j, "egress") \/ ForShadow(j)
    BY <1>5 DEF Updates, ForPair, ForShadow
  <2>2. j \in Job /\ j.flag = "update" /\ j.descs = 1
    BY <1>5
  <2> HIDE DEF j
  <2>3. JobOk(j)
    BY SMTT(30), <2>1, <2>2 DEF JobOk
  <2> QED BY <2>3 DEF j
<1>7. Fits(e, U, P, H, M, w)
  <2>1. w \in [Pairs -> Nat] /\ \A p \in Pairs : P[p][M] <= w[p] /\ w[p] = P[p][M]
    BY <1>3 DEF Ends
  <2>2. \A p \in Pairs : ~Carries(e.job, p)
    BY SMTT(30), <1>5 DEF Carries
  <2>3. ASSUME NEW k \in 1 .. Len(e.descs)
        PROVE  /\ e.descs[k] = [op |-> "qe", src |-> e.job.src, dst |-> e.job.dst,
                                first |-> U[e.job.src][M] % Len_(e.job.src), cnt |-> e.job.epd]
               /\ e.descs[k].first + e.descs[k].cnt <= Len_(e.job.src)
    <3>1. k = 1
      <4>1. k \in 1 .. Len(e.descs) /\ Len(e.descs) = 1
        BY <1>5
      <4> DEFINE z == Len(e.descs)
      <4> HIDE DEF z
      <4>2. k \in 1 .. z /\ z = 1
        BY <4>1 DEF z
      <4> QED BY <4>2
    <3>2. e.descs[k] = [op |-> "qe", src |-> e.job.src, dst |-> e.job.dst,
                        first |-> f, cnt |-> e.job.epd]
      BY SMTT(30), <3>1, <1>5
    <3>3. f = U[e.job.src][M] % Len_(e.job.src) /\ f + e.job.epd <= Len_(e.job.src)
      BY <1>5, <1>m
    <3>4. e.descs[k].first = f /\ e.descs[k].cnt = e.job.epd
      BY <3>2
    <3> QED BY <3>2, <3>3, <3>4
  <2> HIDE DEF w
  <2> QED BY ZenonT(30), <2>1, <2>2, <2>3, <1>5, <1>6 DEF Fits
<1>8. Grown(js, h, L, E, U, P, H, Append(s, e), u, w)
  <2> HIDE DEF w
  <2>1. Fits(e, U, P, H, Len(L), w) /\ u = [x \in Queues |-> U[x][Len(L)] + Upd(e.job, x)]
    BY <1>7, <1>m
  <2> HIDE DEF u
  <2> QED BY <2>1, Adding
<1>9. u = Plus(U, M, src, n)
  <2>1. \A x \in Queues : U[x][M] + Upd(e.job, x) = IF x = src THEN U[x][M] + n ELSE U[x][M]
    BY <1>3, <1>5 DEF Upd
  <2> QED BY <2>1 DEF Plus
<1> QED BY <1>8, <1>9, <1>m

\* Only the values of the ends matter.
LEMMA Weaker ==
  ASSUME NEW js, NEW h, NEW H, NEW L, NEW E, NEW U, NEW P, NEW s2, NEW u, NEW w,
         Grown(js, h, L, E, U, P, H, s2, u, w), NEW u2, NEW w2,
         \A x \in Queues : u2[x] = u[x], \A p \in Pairs : w2[p] = w[p]
  PROVE  Grown(js, h, L, E, U, P, H, s2, u2, w2)
BY DEF Grown

\* gie_copy_qes, with one job or two that update.
LEMMA CopyUpdate ==
  ASSUME NEW js, NEW s, NEW h, NEW L, NEW E, NEW U, NEW P, NEW H, WorkOf(js, 0, s, h, L, E, U, P, H),
         NEW src, NEW dst, Updates(src, dst), NEW n \in Nat, n <= Len_(src),
         NEW f, f = U[src][Len(L)] % Len_(src),
         NEW t, t = gie_copy_qes(src, dst, n, f, "update", 0, 0)
  PROVE  Grown(js, h, L, E, U, P, H, s \o t, Plus(U, Len(L), src, n), Ends(P, Len(L)))
<1> DEFINE l == Len_(src)
<1> DEFINE a == U[src][Len(L)]
<1>1. src \in Queues /\ dst \in Queues /\ l \in Nat \ {0} /\ "shadow" \in Queues
  BY UpdatesIn, Names
<1>2. Len(L) \in Nat /\ Typed(L, E, U, P) /\ IsSeq(s)
  BY WorkIs DEF WorkOf
<1>3. a \in Nat /\ (\A x \in Queues : U[x][Len(L)] \in Nat)
  <2>1. Len(L) \in 0 .. Len(L)
    BY <1>2
  <2>2. \A x \in Queues : U[x][Len(L)] \in Nat
    BY <2>1, <1>2 DEF Typed
  <2> QED BY <2>2, <1>1
<1>4. f \in 0 .. l - 1 /\ f = a % l
  <2>1. f = a % l
    OBVIOUS
  <2> HIDE DEF a, l
  <2> QED BY <2>1, <1>1, <1>3, ModRange
<1>l. l = Len_(src) /\ a = U[src][Len(L)]
  OBVIOUS
<1>5. CASE f + n <= l
  <2> DEFINE e == QeCopy(src, dst, f, n, "update", 0, 0)
  <2>1. t = <<e>>
    <3> HIDE DEF e
    <3>1. ~(f + n > Len_(src))
      BY <1>5, <1>4, <1>1
    <3> QED BY <3>1 DEF gie_copy_qes, e
  <2>2. e = QeCopy(src, dst, f, n, "update", 0, 0)
    OBVIOUS
  <2> HIDE DEF e
  <2>3. s \o t = Append(s, e)
    BY <2>1, <1>2, AppendCat
  <2>4. Grown(js, h, L, E, U, P, H, Append(s, e), Plus(U, Len(L), src, n), Ends(P, Len(L)))
    BY <2>2, <1>5, AddUpdate
  <2> QED BY <2>3, <2>4
<1>6. CASE ~(f + n <= l)
  <2> DEFINE toEnd == l - f
  <2> DEFINE m == n - toEnd
  <2> DEFINE e == QeCopy(src, dst, f, toEnd, "update", 0, 0)
  <2> DEFINE g == QeCopy(src, dst, 0, m, "update", 0, 0)
  <2>1. toEnd \in Nat /\ f + toEnd = l /\ m \in Nat /\ m <= l
    BY <1>1, <1>4, <1>6, <1>l
  <2>2. t = <<e, g>>
    <3>1. f + n > Len_(src)
      BY <1>1, <1>4, <1>6
    <3>2. e = QeCopy(src, dst, f, Len_(src) - f, "update", 0, 0)
          /\ g = QeCopy(src, dst, 0, n - (Len_(src) - f), "update", 0, 0)
      OBVIOUS
    <3> HIDE DEF e, g
    <3> QED BY <3>1, <3>2 DEF gie_copy_qes
  <2>3. e = QeCopy(src, dst, f, toEnd, "update", 0, 0) /\ g = QeCopy(src, dst, 0, m, "update", 0, 0)
    OBVIOUS
  <2>4. toEnd = l - (a % l)
    BY <1>4
  <2>e. n = toEnd + m
    BY <2>1, <1>4
  <2> HIDE DEF e, g, m, toEnd
  <2>5. s \o t = Append(Append(s, e), g)
    <3>1. s \o <<e, g>> = Append(Append(s, e), g)
      BY <1>2, AppendCat2
    <3> QED BY <3>1, <2>2
  <2> DEFINE s1 == Append(s, e)
  <2>6. Grown(js, h, L, E, U, P, H, s1, Plus(U, Len(L), src, toEnd), Ends(P, Len(L)))
    <3>1. f + toEnd <= Len_(src)
      BY <2>1, <1>1
    <3> QED BY <3>1, <2>1, <2>3, AddUpdate
  <2> HIDE DEF s1
  <2>7. PICK L2, E2, U2, P2 :
           /\ WorkOf(js, 0, s1, h, L2, E2, U2, P2, H)
           /\ Ext(L, E, U, P, L2, E2, U2, P2)
           /\ \A x \in Queues : U2[x][Len(L2)] = Plus(U, Len(L), src, toEnd)[x]
           /\ \A p \in Pairs : P2[p][Len(L2)] = Ends(P, Len(L))[p]
    BY <2>6 DEF Grown
  <2>8. U2[src][Len(L2)] = a + toEnd
    BY <2>7, <1>1 DEF Plus
  <2>9. 0 = U2[src][Len(L2)] % Len_(src)
    <3> HIDE DEF a, l
    <3>1. (a + (l - (a % l))) % l = 0
      BY <1>1, <1>3, WrapIs
    <3> QED BY <3>1, <2>8, <2>4, <1>l
  <2>10. Grown(js, h, L2, E2, U2, P2, H, Append(s1, g), Plus(U2, Len(L2), src, m), Ends(P2, Len(L2)))
    <3>1. 0 + m <= Len_(src)
      BY <2>1
    <3>2. WorkOf(js, 0, s1, h, L2, E2, U2, P2, H)
      BY <2>7
    <3> QED BY <2>1, <2>3, <2>9, <3>1, <3>2, AddUpdate
  <2>11. Grown(js, h, L, E, U, P, H, Append(s1, g), Plus(U2, Len(L2), src, m), Ends(P2, Len(L2)))
    <3>1. Typed(L2, E2, U2, P2)
      BY <2>7 DEF WorkOf
    <3> QED BY <3>1, <2>7, <2>10, GrownTrans
  <2>12. \A x \in Queues : Plus(U, Len(L), src, n)[x] = Plus(U2, Len(L2), src, m)[x]
    <3>1. ASSUME NEW x \in Queues PROVE Plus(U, Len(L), src, n)[x] = Plus(U2, Len(L2), src, m)[x]
      <4>1. U2[x][Len(L2)] = IF x = src THEN U[x][Len(L)] + toEnd ELSE U[x][Len(L)]
        BY <2>7 DEF Plus
      <4>2. Plus(U, Len(L), src, n)[x] = IF x = src THEN U[x][Len(L)] + n ELSE U[x][Len(L)]
        BY DEF Plus
      <4>3. Plus(U2, Len(L2), src, m)[x] = IF x = src THEN U2[x][Len(L2)] + m ELSE U2[x][Len(L2)]
        BY DEF Plus
      <4> QED BY <4>1, <4>2, <4>3, <2>1, <2>e, <1>3
    <3> QED BY <3>1
  <2>13. \A p \in Pairs : Ends(P, Len(L))[p] = Ends(P2, Len(L2))[p]
    BY <2>7 DEF Ends
  <2>14. Grown(js, h, L, E, U, P, H, Append(s1, g), Plus(U, Len(L), src, n), Ends(P, Len(L)))
    BY <2>11, <2>12, <2>13, Weaker
  <2> QED BY <2>5, <2>14 DEF s1
<1> QED BY <1>5, <1>6

-----------------------------------------------------------------------------
(* Copies that publish *)

\* The end of qe_head when nothing more is copied that updates, and the end of
\* what is published when pair p publishes up to c.
EndsU(U, M) == [x \in Queues |-> U[x][M]]
To(P, M, p, c) == [o \in Pairs |-> IF o = p THEN c ELSE P[o][M]]

\* An entry that copies for pair p elements from its position on, and then
\* moves the position of the pair to c if the job publishes.
Copies(e, p, P, H, M, c) ==
  /\ JobOk(e.job) /\ e.job.flag # "update" /\ e.job.src = Src[p]
  /\ IsSeq(e.descs) /\ e.job.descs = Len(e.descs)
  /\ \A k \in 1 .. Len(e.descs) : CopyFrom(p, P[p][M], H[p], e.descs[k])
  /\ c \in Nat /\ P[p][M] <= c
  /\ IF e.job.flag \in {"buffer", "produce"}
     THEN e.job.head = c % QLen /\ e.job.tail = c % QLen ELSE c = P[p][M]

\* The source ring tells the pair.
LEMMA SrcOf == ASSUME NEW p \in Pairs, NEW o \in Pairs, Src[p] = Src[o] PROVE p = o
BY PairIs, Names

\* An entry of a pair more to submit.
LEMMA AddCopy ==
  ASSUME NEW js, NEW s, NEW h, NEW L, NEW E, NEW U, NEW P, NEW H, WorkOf(js, 0, s, h, L, E, U, P, H),
         NEW p \in Pairs, NEW e, NEW c, Copies(e, p, P, H, Len(L), c)
  PROVE  Grown(js, h, L, E, U, P, H, Append(s, e), EndsU(U, Len(L)), To(P, Len(L), p, c))
<1> DEFINE M == Len(L)
<1> DEFINE j == e.job
<1> DEFINE u == [x \in Queues |-> U[x][M] + Upd(j, x)]
<1> DEFINE w == To(P, M, p, c)
<1>1. M \in Nat /\ Typed(L, E, U, P)
  BY WorkIs DEF WorkOf
<1>m. M = Len(L)
  OBVIOUS
<1> HIDE DEF M
<1>2. (\A x \in Queues : U[x][M] \in Nat) /\ (\A o \in Pairs : P[o][M] \in Nat)
  <2>1. M \in 0 .. M
    BY <1>1
  <2> QED BY <2>1, <1>1, <1>m DEF Typed
<1>3. /\ JobOk(j) /\ j.flag # "update" /\ j.src = Src[p]
      /\ IsSeq(e.descs) /\ j.descs = Len(e.descs)
      /\ (\A k \in 1 .. Len(e.descs) : CopyFrom(p, P[p][M], H[p], e.descs[k]))
      /\ c \in Nat /\ P[p][M] <= c
      /\ IF j.flag \in {"buffer", "produce"}
         THEN j.head = c % QLen /\ j.tail = c % QLen ELSE c = P[p][M]
  BY <1>m DEF Copies
<1>j. j = e.job
  OBVIOUS
<1> HIDE DEF j
<1>4. w \in [Pairs -> Nat] /\ \A o \in Pairs : w[o] = IF o = p THEN c ELSE P[o][M]
  BY <1>2, <1>3 DEF To
<1> HIDE DEF w
<1>5. ASSUME NEW o \in Pairs
      PROVE  /\ P[o][M] <= w[o]
             /\ IF Carries(j, o) THEN j.head = w[o] % QLen /\ j.tail = w[o] % QLen
                ELSE w[o] = P[o][M]
  <2>1. CASE o = p
    BY <2>1, <1>3, <1>4 DEF Carries
  <2>2. CASE o # p
    <3>1. ~Carries(j, o)
      BY <2>2, <1>3, SrcOf DEF Carries
    <3>2. w[o] = P[o][M] /\ P[o][M] \in Nat
      BY <2>2, <1>2, <1>4
    <3> QED BY <3>1, <3>2
  <2> QED BY <2>1, <2>2
<1>6. \A o \in Pairs : j.src = Src[o] => \A k \in 1 .. Len(e.descs) : CopyFrom(o, P[o][M], H[o], e.descs[k])
  BY <1>3, SrcOf
<1>7. Fits(e, U, P, H, M, w)
  BY <1>3, <1>4, <1>5, <1>6, <1>j DEF Fits
<1>8. u = EndsU(U, M)
  <2>1. \A x \in Queues : U[x][M] + Upd(j, x) = U[x][M]
    BY <1>2, <1>3 DEF Upd
  <2> QED BY <2>1 DEF EndsU
<1>9. Grown(js, h, L, E, U, P, H, Append(s, e), u, w)
  <2>1. Fits(e, U, P, H, Len(L), w) /\ u = [x \in Queues |-> U[x][Len(L)] + Upd(e.job, x)]
    BY <1>7, <1>m, <1>j
  <2> HIDE DEF u
  <2> QED BY <2>1, Adding
<1> QED BY <1>8, <1>9, <1>m DEF w

\* The buffers of n elements from the position of the pair on.
LEMMA BuffersCopy ==
  ASSUME NEW P, NEW H, NEW M, NEW p \in Pairs, P[p][M] \in Nat, H[p] \in Nat,
         NEW n \in Nat \ {0}, P[p][M] + n <= H[p],
         NEW flag, NEW hd, NEW tl, NEW c,
         \/ p = "egress" /\ "egress" \in CopyPayload /\ flag = "buffer" /\ c = P[p][M] + n
            /\ hd = c % QLen /\ tl = c % QLen
         \/ p = "ingress" /\ flag = "none" /\ c = P[p][M] /\ hd = 0 /\ tl = 0,
         NEW from, \A k \in 0 .. n - 1 : from[k] = <<Src[p], (P[p][M] + k) % QLen>>,
         NEW to, NEW e, e = BufCopy(flag, Src[p], Dst[p], hd, tl, from, to, n)
  PROVE  Copies(e, p, P, H, M, c)
<1> DEFINE a == P[p][M]
<1> DEFINE b == H[p]
<1> DEFINE j == NewJob(flag, Src[p], Dst[p], hd, tl, 1, n)
<1> DEFINE d == [k \in 1 .. n |-> [op |-> "buf", src |-> from[k - 1], dst |-> to[k - 1]]]
<1>1. e.job = j /\ e.descs = d
  BY DEF BufCopy
<1>2. c \in Nat /\ hd \in Nat /\ tl \in Nat /\ a <= c /\ a \in Nat /\ b \in Nat /\ a + n <= b
  <2>1. a \in Nat /\ b \in Nat /\ QLen \in Nat \ {0} /\ a + n <= b
    BY Params
  <2>2. c \in Nat /\ a <= c
    BY <2>1
  <2>3. c % QLen \in Nat
    <3>1. c % QLen \in 0 .. QLen - 1
      BY <2>1, <2>2, ModRange
    <3> QED BY <3>1, <2>1
  <2> QED BY <2>1, <2>2, <2>3
<1>3. flag \in Flags /\ flag # "update" /\ Src[p] \in Queues /\ Dst[p] \in Queues
  BY Names DEF Flags
<1>4. /\ j \in Job /\ j.flag = flag /\ j.src = Src[p] /\ j.dst = Dst[p]
      /\ j.head = hd /\ j.tail = tl /\ j.descs = n
  BY <1>2, <1>3 DEF NewJob, Job
<1> HIDE DEF j
<1>5. JobOk(j)
  BY <1>4 DEF JobOk, ForPair
<1>6. Len(d) = n /\ IsSeq(d)
  BY DEF IsSeq
<1>7. ASSUME NEW k \in 1 .. n PROVE CopyFrom(p, a, b, d[k])
  <2> DEFINE x == a + (k - 1)
  <2>1. x \in a .. b - 1 /\ k - 1 \in 0 .. n - 1
    BY <1>2
  <2>2. from[k - 1] = <<Src[p], x % QLen>>
    BY <2>1
  <2>3. d[k] = [op |-> "buf", src |-> <<Src[p], x % QLen>>, dst |-> to[k - 1]]
    BY <2>2
  <2> HIDE DEF d, x, a, b
  <2> QED BY <2>1, <2>3 DEF CopyFrom
<1>8. \A k \in 1 .. Len(e.descs) : CopyFrom(p, P[p][M], H[p], e.descs[k])
  BY <1>1, <1>6, <1>7
<1>9. IF j.flag \in {"buffer", "produce"} THEN j.head = c % QLen /\ j.tail = c % QLen ELSE c = P[p][M]
  BY <1>4
<1> HIDE DEF d
<1> QED BY <1>1, <1>2, <1>3, <1>4, <1>5, <1>6, <1>8, <1>9 DEF Copies

\* The elements themselves, for the pair that does not copy them ahead.
LEMMA QesCopy ==
  ASSUME NEW P, NEW H, NEW M, NEW p \in Pairs, p = "ingress", P[p][M] \in Nat, H[p] \in Nat,
         NEW x \in Nat, P[p][M] <= x, NEW n \in Nat \ {0}, x + n <= H[p],
         NEW f, f = x % QLen, f + n <= QLen,
         NEW flag, NEW hd \in Nat, NEW tl \in Nat, NEW c \in Nat, P[p][M] <= c,
         \/ flag = "none" /\ c = P[p][M]
         \/ flag = "produce" /\ hd = c % QLen /\ tl = c % QLen,
         NEW e, e = QeCopy(Src[p], Dst[p], f, n, flag, hd, tl)
  PROVE  Copies(e, p, P, H, M, c)
<1> DEFINE a == P[p][M]
<1> DEFINE b == H[p]
<1>1. flag \in Flags /\ flag # "update" /\ Src[p] \in Queues /\ Dst[p] \in Queues
  BY Names DEF Flags
<1>2. f \in Nat
  <2>1. QLen \in Nat \ {0}
    BY Params
  <2>2. x % QLen \in 0 .. QLen - 1
    BY <2>1, ModRange
  <2> QED BY <2>1, <2>2
<1> DEFINE j == e.job
<1> DEFINE d == [op |-> "qe", src |-> Src[p], dst |-> Dst[p], first |-> f, cnt |-> n]
<1>3. /\ j \in Job /\ j.flag = flag /\ j.src = Src[p] /\ j.dst = Dst[p]
      /\ j.descs = 1 /\ j.head = hd /\ j.tail = tl
      /\ IsSeq(e.descs) /\ Len(e.descs) = 1
      /\ e.descs[1] = d
  <2>1. Src[p] \in Queues /\ Dst[p] \in Queues /\ f \in Nat /\ n \in Nat /\ flag \in Flags
    BY <1>1, <1>2
  <2> DEFINE src == Src[p]
  <2> DEFINE dst == Dst[p]
  <2>2. e = QeCopy(src, dst, f, n, flag, hd, tl) /\ src \in Queues /\ dst \in Queues
    BY <2>1
  <2> HIDE DEF src, dst
  <2>3. /\ e.job \in Job /\ e.job.flag = flag /\ e.job.src = src /\ e.job.dst = dst
         /\ e.job.epd = n /\ e.job.descs = 1 /\ e.job.head = hd /\ e.job.tail = tl
         /\ IsSeq(e.descs) /\ Len(e.descs) = 1
         /\ e.descs[1] = [op |-> "qe", src |-> src, dst |-> dst, first |-> f, cnt |-> n]
    BY SMTT(30), <2>1, <2>2, QeEntry
  <2> QED BY <2>3 DEF src, dst
<1>j. j = e.job
  OBVIOUS
<1> HIDE DEF j
<1>4. JobOk(j)
  BY <1>3 DEF JobOk, ForPair
<1>5. CopyFrom(p, a, b, d)
  <2>1. x \in a .. b - 1 /\ n \in Nat /\ x + n <= b /\ (x % QLen) + n <= QLen
    OBVIOUS
  <2>2. d = [op |-> "qe", src |-> Src[p], dst |-> Dst[p], first |-> x % QLen, cnt |-> n]
    OBVIOUS
  <2> HIDE DEF d, a, b
  <2> QED BY <2>1, <2>2 DEF CopyFrom
<1> HIDE DEF d
<1>6. ASSUME NEW k \in 1 .. Len(e.descs) PROVE CopyFrom(p, P[p][M], H[p], e.descs[k])
  <2>1. k = 1
    <3> DEFINE z == Len(e.descs)
    <3>1. z = 1
      BY <1>3
    <3> HIDE DEF z
    <3>2. k \in 1 .. z
      BY DEF z
    <3> QED BY <3>1, <3>2
  <2> QED BY <2>1, <1>3, <1>5
<1>7. IF j.flag \in {"buffer", "produce"} THEN j.head = c % QLen /\ j.tail = c % QLen ELSE c = P[p][M]
  BY <1>3
<1> QED BY <1>1, <1>3, <1>4, <1>6, <1>7, <1>j DEF Copies

\* The two parts of a copy that goes round the ring.
LEMMA SplitIs ==
  ASSUME NEW Q \in Nat, NEW f \in Nat, f < Q, NEW n \in Nat, n <= Q, f + n > Q, NEW a \in Nat,
         NEW d, d = Q - f, NEW m, m = n - d, NEW x, x = a + d
  PROVE  /\ d \in Nat \ {0} /\ f + d = Q /\ m \in Nat \ {0} /\ m <= Q /\ n = d + m
         /\ x \in Nat /\ x + m = a + n /\ a <= x
OBVIOUS

\* gie_copy_qes, with one job or two of which the last publishes.
LEMMA CopyProduce ==
  ASSUME NEW js, NEW s, NEW h, NEW L, NEW E, NEW U, NEW P, NEW H, WorkOf(js, 0, s, h, L, E, U, P, H),
         NEW p \in Pairs, p = "ingress", NEW n \in Nat \ {0}, n <= QLen,
         NEW c, c = P[p][Len(L)] + n, c <= H[p],
         NEW f, f = P[p][Len(L)] % QLen, NEW hd, hd = c % QLen,
         NEW t, t = gie_copy_qes(Src[p], Dst[p], n, f, "produce", hd, hd)
  PROVE  Grown(js, h, L, E, U, P, H, s \o t, EndsU(U, Len(L)), To(P, Len(L), p, c))
<1> DEFINE a == P[p][Len(L)]
<1>1. QLen \in Nat \ {0} /\ Len_(Src[p]) = QLen
  BY Params, Names
<1>2. Len(L) \in Nat /\ Typed(L, E, U, P) /\ IsSeq(s) /\ H \in [Pairs -> Nat]
  BY WorkIs DEF WorkOf
<1>3. a \in Nat /\ H[p] \in Nat /\ (\A o \in Pairs : P[o][Len(L)] \in Nat)
  <2>1. Len(L) \in 0 .. Len(L)
    BY <1>2
  <2>2. \A o \in Pairs : P[o][Len(L)] \in Nat
    BY <2>1, <1>2 DEF Typed
  <2> QED BY <2>2, <1>2
<1>a. a = P[p][Len(L)]
  OBVIOUS
<1>4. f \in 0 .. QLen - 1 /\ f = a % QLen /\ c = a + n
  <2>1. f = a % QLen /\ c = a + n
    OBVIOUS
  <2> HIDE DEF a
  <2> QED BY <2>1, <1>1, <1>3, ModRange
<1>5. c \in Nat /\ hd \in Nat /\ a <= c
  <2> HIDE DEF a
  <2>1. c \in Nat /\ a <= c
    BY <1>3, <1>4
  <2>2. c % QLen \in 0 .. QLen - 1
    BY <2>1, <1>1, ModRange
  <2> QED BY <2>1, <2>2, <1>1
<1> HIDE DEF a
<1>6. CASE f + n <= QLen
  <2> DEFINE e == QeCopy(Src[p], Dst[p], f, n, "produce", hd, hd)
  <2>1. t = <<e>>
    <3> HIDE DEF e
    <3>1. ~(f + n > Len_(Src[p]))
      BY <1>6, <1>4, <1>1
    <3> QED BY <3>1 DEF gie_copy_qes, e
  <2>2. Copies(e, p, P, H, Len(L), c)
    <3> DEFINE M == Len(L)
    <3>1. P[p][M] \in Nat /\ P[p][M] <= a /\ a + n <= H[p] /\ P[p][M] <= c /\ H[p] \in Nat
      BY <1>3, <1>4, <1>5, <1>a
    <3>2. e = QeCopy(Src[p], Dst[p], f, n, "produce", hd, hd)
      OBVIOUS
    <3> HIDE DEF e, M
    <3> DEFINE flag == "produce"
    <3>3. flag = "produce" /\ hd = c % QLen /\ f = a % QLen /\ e = QeCopy(Src[p], Dst[p], f, n, flag, hd, hd)
      BY <3>2, <1>4
    <3> HIDE DEF flag
    <3>4. Copies(e, p, P, H, M, c)
      BY <3>1, <3>3, <1>3, <1>5, <1>6, QesCopy
    <3> QED BY <3>4 DEF M
  <2> HIDE DEF e
  <2>3. s \o t = Append(s, e)
    BY <2>1, <1>2, AppendCat
  <2>4. Grown(js, h, L, E, U, P, H, Append(s, e), EndsU(U, Len(L)), To(P, Len(L), p, c))
    BY <2>2, AddCopy
  <2> QED BY <2>3, <2>4
<1>7. CASE ~(f + n <= QLen)
  <2> DEFINE toEnd == QLen - f
  <2> DEFINE m == n - toEnd
  <2> DEFINE x == a + toEnd
  <2> DEFINE e == QeCopy(Src[p], Dst[p], f, toEnd, "none", hd, hd)
  <2> DEFINE g == QeCopy(Src[p], Dst[p], 0, m, "produce", hd, hd)
  <2>1. toEnd \in Nat \ {0} /\ f + toEnd = QLen /\ m \in Nat \ {0} /\ m <= QLen /\ n = toEnd + m
        /\ x \in Nat /\ x + m = c /\ a <= x
    <3>1. QLen \in Nat /\ f \in Nat /\ f < QLen /\ f + n > QLen /\ a \in Nat /\ c = a + n
      BY SMTT(30), <1>1, <1>3, <1>4, <1>7
    <3> HIDE DEF e, g
    <3>2. n \in Nat /\ n >= 1 /\ n <= QLen
      OBVIOUS
    <3>3. toEnd \in Nat \ {0} /\ f + toEnd = QLen /\ x \in Nat /\ a <= x
         /\ m \in Nat \ {0} /\ m <= QLen /\ n = toEnd + m /\ x + m = a + n
      <4>1. toEnd = QLen - f /\ m = n - toEnd /\ x = a + toEnd
        OBVIOUS
      <4> HIDE DEF toEnd, m, x
      <4> QED BY SMTT(30), <3>1, <3>2, <4>1, SplitIs
    <3> QED BY <3>3, <3>1
  <2>2. t = <<e, g>>
    <3>1. f + n > Len_(Src[p])
      BY <1>1, <1>4, <1>7
    <3>2. e = QeCopy(Src[p], Dst[p], f, Len_(Src[p]) - f, "none", hd, hd)
          /\ g = QeCopy(Src[p], Dst[p], 0, n - (Len_(Src[p]) - f), "produce", hd, hd)
      BY <1>1
    <3> HIDE DEF e, g
    <3> QED BY <3>1, <3>2 DEF gie_copy_qes
  <2>3. e = QeCopy(Src[p], Dst[p], f, toEnd, "none", hd, hd) /\ g = QeCopy(Src[p], Dst[p], 0, m, "produce", hd, hd)
    OBVIOUS
  <2>4. toEnd = QLen - (a % QLen) /\ x = a + toEnd
    BY <1>4
  <2> HIDE DEF e, g, m, toEnd, x
  <2>5. s \o t = Append(Append(s, e), g)
    <3>1. s \o <<e, g>> = Append(Append(s, e), g)
      BY <1>2, AppendCat2
    <3> QED BY <3>1, <2>2
  <2> DEFINE s1 == Append(s, e)
  <2>6. Copies(e, p, P, H, Len(L), a)
    <3> DEFINE M == Len(L)
    <3> DEFINE flag == "none"
    <3>1. P[p][M] \in Nat /\ P[p][M] <= a /\ a + toEnd <= H[p] /\ H[p] \in Nat /\ a = P[p][M]
      <4>1. P[p][M] = a
        BY <1>a
      <4>2. a + toEnd <= a + n /\ a + n <= H[p]
        BY <1>3, <1>4, <2>1
      <4> HIDE DEF M
      <4> QED BY <4>1, <4>2, <1>3, <2>1
    <3>2. flag = "none" /\ e = QeCopy(Src[p], Dst[p], f, toEnd, flag, hd, hd) /\ f + toEnd <= QLen
      BY <2>3, <2>1, <1>1
    <3> HIDE DEF M, flag
    <3>3. Copies(e, p, P, H, M, a)
      BY <3>1, <3>2, <2>1, <1>3, <1>4, <1>5, QesCopy
    <3> QED BY <3>3 DEF M
  <2>7. Grown(js, h, L, E, U, P, H, s1, EndsU(U, Len(L)), To(P, Len(L), p, a))
    BY <2>6, AddCopy
  <2> HIDE DEF s1
  <2>8. PICK L2, E2, U2, P2 :
           /\ WorkOf(js, 0, s1, h, L2, E2, U2, P2, H)
           /\ Ext(L, E, U, P, L2, E2, U2, P2)
           /\ \A y \in Queues : U2[y][Len(L2)] = EndsU(U, Len(L))[y]
           /\ \A o \in Pairs : P2[o][Len(L2)] = To(P, Len(L), p, a)[o]
    BY <2>7 DEF Grown
  <2>9. \A o \in Pairs : P2[o][Len(L2)] = P[o][Len(L)]
    BY <2>8, <1>a DEF To
  <2>10. \A y \in Queues : U2[y][Len(L2)] = U[y][Len(L)]
    BY <2>8 DEF EndsU
  <2>11. x % QLen = 0
    <3>1. (a + (QLen - (a % QLen))) % QLen = 0
      BY <1>1, <1>3, WrapIs
    <3> QED BY <3>1, <2>4
  <2>12. Copies(g, p, P2, H, Len(L2), c)
    <3> DEFINE M == Len(L2)
    <3> DEFINE flag == "produce"
    <3>1. P2[p][M] \in Nat /\ P2[p][M] <= x /\ x + m <= H[p] /\ H[p] \in Nat /\ P2[p][M] <= c
      BY <1>3, <1>4, <1>5, <1>a, <2>1, <2>9
    <3> DEFINE z == 0
    <3>2. flag = "produce" /\ g = QeCopy(Src[p], Dst[p], z, m, flag, hd, hd) /\ z + m <= QLen /\ z = x % QLen
          /\ hd = c % QLen
      BY <2>3, <2>1, <2>11, <1>1
    <3> HIDE DEF M, flag, z
    <3>3. Copies(g, p, P2, H, M, c)
      BY <3>1, <3>2, <2>1, <1>3, <1>5, QesCopy
    <3> QED BY <3>3 DEF M
  <2>13. Grown(js, h, L2, E2, U2, P2, H, Append(s1, g), EndsU(U2, Len(L2)), To(P2, Len(L2), p, c))
    <3>1. WorkOf(js, 0, s1, h, L2, E2, U2, P2, H)
      BY <2>8
    <3> QED BY <2>12, <3>1, AddCopy
  <2>14. Grown(js, h, L, E, U, P, H, Append(s1, g), EndsU(U2, Len(L2)), To(P2, Len(L2), p, c))
    <3>1. Typed(L2, E2, U2, P2)
      BY <2>8 DEF WorkOf
    <3> QED BY <3>1, <2>8, <2>13, GrownTrans
  <2>15. \A y \in Queues : EndsU(U, Len(L))[y] = EndsU(U2, Len(L2))[y]
    BY <2>10 DEF EndsU
  <2>16. \A o \in Pairs : To(P, Len(L), p, c)[o] = To(P2, Len(L2), p, c)[o]
    BY <2>9 DEF To
  <2>17. Grown(js, h, L, E, U, P, H, Append(s1, g), EndsU(U, Len(L)), To(P, Len(L), p, c))
    BY <2>14, <2>15, <2>16, Weaker
  <2> QED BY <2>5, <2>17 DEF s1
<1> QED BY <1>6, <1>7

-----------------------------------------------------------------------------
(* What the invariant says of the pairs *)

\* The positions of a pair.
Spot == [rd: Nat, sd: Nat, qt: Nat, tl: Nat, sp: Nat]

\* The parts of the invariant.
LEMMA Parts ==
  ASSUME NEW L, NEW E, NEW U, NEW P, NEW H, NEW X, NEW y, Whole(L, E, U, P, H, X, y)
  PROVE  /\ WorkOf(jobs, left, sub, hw, L, E, U, P, H)
         /\ Typed(L, E, U, P) /\ Steps(L, E, U, P) /\ H \in [Pairs -> Nat]
         /\ Len(L) \in Nat /\ 0 \in 0 .. Len(L) /\ Len(L) \in 0 .. Len(L)
         /\ IndexOk /\ Heads(U) /\ X \in [Pairs -> Spot] /\ y \in [sh: Nat, st: Nat]
         /\ (\A p \in Pairs : PairOk(p, U, P, H, Len(L), X[p]))
         /\ ShadowOk(U, Len(L), y)
         /\ RingOk /\ (\A p \in Pairs : Sent(p, P, H, X[p].sp)) /\ Arrived(E, U, H, Len(L), hw.done)
<1>1. WorkOf(jobs, left, sub, hw, L, E, U, P, H)
  BY DEF Whole
<1>2. Len(L) \in Nat
  BY <1>1, WorkIs
<1>3. 0 \in 0 .. Len(L) /\ Len(L) \in 0 .. Len(L)
  BY <1>2
<1> QED BY <1>1, <1>2, <1>3 DEF Whole, WorkOf, Spot

\* The positions of a pair are numbers in this order.
LEMMA PairNum ==
  ASSUME NEW L, NEW E, NEW U, NEW P, NEW H, NEW X, NEW y, Whole(L, E, U, P, H, X, y), NEW p \in Pairs
  PROVE  /\ X[p].rd \in Nat /\ X[p].sd \in Nat /\ X[p].qt \in Nat /\ X[p].tl \in Nat /\ X[p].sp \in Nat
         /\ P[p][0] \in Nat /\ P[p][Len(L)] \in Nat /\ H[p] \in Nat /\ P[p][0] <= P[p][Len(L)]
         /\ X[p] = [rd |-> X[p].rd, sd |-> X[p].sd, qt |-> X[p].qt, tl |-> X[p].tl, sp |-> X[p].sp]
         /\ X[p].sd <= X[p].rd /\ X[p].rd <= P[p][0] /\ P[p][Len(L)] = H[p] /\ P[p][0] <= H[p]
         /\ H[p] <= X[p].qt /\ X[p].qt <= X[p].tl /\ X[p].tl <= X[p].sp
         /\ X[p].sp - P[p][0] < QLen /\ X[p].qt - X[p].sd < QLen
         /\ QLen \in Nat \ {0}
<1>1. X[p] \in Spot
  BY Parts
<1>2. /\ X[p].rd \in Nat /\ X[p].sd \in Nat /\ X[p].qt \in Nat /\ X[p].tl \in Nat /\ X[p].sp \in Nat
      /\ X[p] = [rd |-> X[p].rd, sd |-> X[p].sd, qt |-> X[p].qt, tl |-> X[p].tl, sp |-> X[p].sp]
  <2> DEFINE x == X[p]
  <2> HIDE DEF x
  <2>1. x \in Spot
    BY <1>1 DEF x
  <2>2. /\ x.rd \in Nat /\ x.sd \in Nat /\ x.qt \in Nat /\ x.tl \in Nat /\ x.sp \in Nat
        /\ x = [rd |-> x.rd, sd |-> x.sd, qt |-> x.qt, tl |-> x.tl, sp |-> x.sp]
    BY <2>1 DEF Spot
  <2> QED BY <2>2 DEF x
<1>3. Typed(L, E, U, P) /\ Steps(L, E, U, P) /\ H \in [Pairs -> Nat] /\ 0 \in 0 .. Len(L) /\ Len(L) \in 0 .. Len(L)
      /\ Len(L) \in Nat
  BY Parts
<1>4. P[p][0] \in Nat /\ P[p][Len(L)] \in Nat
  BY <1>3 DEF Typed
<1>5. P[p][0] <= P[p][Len(L)]
  <2>1. \A i, j \in 0 .. Len(L) : i <= j => \A o \in Pairs : P[o][i] <= P[o][j]
    BY <1>3, StepsAre
  <2> DEFINE M == Len(L)
  <2>2. 0 \in 0 .. M /\ M \in 0 .. M /\ 0 <= M
    BY <1>3
  <2> QED BY <2>1, <2>2
<1>6. PairOk(p, U, P, H, Len(L), X[p])
  BY Parts
<1>7. /\ X[p].sd <= X[p].rd /\ X[p].rd <= P[p][0] /\ P[p][Len(L)] = H[p]
      /\ H[p] <= X[p].qt /\ X[p].qt <= X[p].tl /\ X[p].tl <= X[p].sp
      /\ X[p].sp - P[p][0] < QLen /\ X[p].qt - X[p].sd < QLen
  BY <1>6 DEF PairOk, PairAt
<1> QED BY <1>2, <1>3, <1>4, <1>5, <1>7, Params

\* GiveUp leaves everything alone.
LEMMA GiveUpStep == IInv /\ GiveUp => IInv'
<1> SUFFICES ASSUME IInv, GiveUp PROVE IInv'
  OBVIOUS
<1>1. PICK L, E, U, P, H, X, y : Whole(L, E, U, P, H, X, y)
  BY DEF IInv
<1>2. UNCHANGED <<q, msg, ring, hw, jobs, sub, left>>
  BY DEF GiveUp
<1>3. Whole(L, E, U, P, H, X, y)'
  BY <1>1, <1>2 DEF Whole, IndexOk, Heads, PairOk, ShadowOk, RingOk, Sent, Arrived
<1> QED BY <1>3 DEF IInv

-----------------------------------------------------------------------------
(* The users of the rings *)

\* An index that moves on is a number.
LEMMA AheadIn == ASSUME NEW x \in Queues, NEW i \in Nat, NEW k \in Nat PROVE Ahead(i, k, x) \in Nat
<1>1. Len_(x) \in Nat \ {0}
  BY Names
<1> DEFINE l == Len_(x)
<1> DEFINE a == i + k
<1>2. l \in Nat \ {0} /\ a \in Nat
  BY <1>1
<1>3. a % l = Ahead(i, k, x)
  BY DEF Ahead, q_idx_add
<1> HIDE DEF l, a
<1>4. a % l \in 0 .. l - 1
  BY <1>2, ModRange
<1>5. a % l \in Nat
  BY <1>2, <1>4
<1> QED BY <1>3, <1>5

\* One word of one queue changes: the producer's ...
LEMMA ProdIs ==
  ASSUME IndexOk, NEW x \in Queues, NEW v, msg' = [msg EXCEPT ![x].prod = v]
  PROVE  /\ \A z \in Queues : z # x => msg'[z] = msg[z]
         /\ msg'[x].cons = msg[x].cons /\ msg'[x].prod = v
         /\ v \in Nat => msg' \in [Queues -> Words]
<1>1. msg \in [Queues -> Words]
  BY DEF IndexOk
<1>2. msg' = [z \in Queues |-> IF z = x THEN [msg[x] EXCEPT !.prod = v] ELSE msg[z]]
  BY <1>1
<1>3. msg[x] \in Words
  BY <1>1
<1> DEFINE m == msg[x]
<1> DEFINE g == [m EXCEPT !.prod = v]
<1>4. g.cons = m.cons /\ g.prod = v /\ (v \in Nat => g \in Words)
  <2>1. m \in Words
    BY <1>3
  <2> HIDE DEF m
  <2> QED BY <2>1 DEF Words
<1>5. msg' = [z \in Queues |-> IF z = x THEN g ELSE msg[z]]
  BY <1>2
<1> HIDE DEF g
<1> QED BY <1>1, <1>4, <1>5 DEF m

\* ... or the consumer's.
LEMMA ConsIs ==
  ASSUME IndexOk, NEW x \in Queues, NEW v, msg' = [msg EXCEPT ![x].cons = v]
  PROVE  /\ \A z \in Queues : z # x => msg'[z] = msg[z]
         /\ msg'[x].prod = msg[x].prod /\ msg'[x].cons = v
         /\ v \in Nat => msg' \in [Queues -> Words]
<1>1. msg \in [Queues -> Words]
  BY DEF IndexOk
<1>2. msg' = [z \in Queues |-> IF z = x THEN [msg[x] EXCEPT !.cons = v] ELSE msg[z]]
  BY <1>1
<1>3. msg[x] \in Words
  BY <1>1
<1> DEFINE m == msg[x]
<1> DEFINE g == [m EXCEPT !.cons = v]
<1>4. g.prod = m.prod /\ g.cons = v /\ (v \in Nat => g \in Words)
  <2>1. m \in Words
    BY <1>3
  <2> HIDE DEF m
  <2> QED BY <2>1 DEF Words
<1>5. msg' = [z \in Queues |-> IF z = x THEN g ELSE msg[z]]
  BY <1>2
<1> HIDE DEF g
<1> QED BY <1>1, <1>4, <1>5 DEF m

\* The queues of the pairs are different ones.
LEMMA Apart ==
  ASSUME NEW p \in Pairs, NEW o \in Pairs
  PROVE  /\ Src[p] # Dst[o] /\ Src[p] # Pool[o] /\ Dst[p] # Pool[o]
         /\ Src[p] # "shadow" /\ Dst[p] # "shadow" /\ Pool[p] # "shadow"
         /\ (p # o => Src[p] # Src[o] /\ Dst[p] # Dst[o] /\ Pool[p] # Pool[o])
BY PairIs, Names

\* PutBuff writes the ring and the word of a pool: no pair knows either.
LEMMA PutBuffStep == ASSUME NEW p0 \in Pairs PROVE IInv /\ PutBuff(p0) => IInv'
<1> SUFFICES ASSUME IInv, PutBuff(p0) PROVE IInv'
  OBVIOUS
<1>1. PICK L, E, U, P, H, X, y : Whole(L, E, U, P, H, X, y)
  BY DEF IInv
<1> DEFINE pool == Pool[p0]
<1>2. PICK b \in owned[p0] :
         /\ ring' = [ring EXCEPT ![pool][msg[pool].prod] = b]
         /\ msg' = [msg EXCEPT ![pool].prod = Ahead(@, 1, pool)]
         /\ UNCHANGED <<q, hw, jobs, sub, left, pc>>
  BY DEF PutBuff, gie
<1>3. UNCHANGED <<q, hw, jobs, sub, left>>
  BY <1>2
<1>w. IndexOk /\ RingOk
  BY <1>1, Parts
<1>p. pool \in Queues
  BY Names
<1>4. /\ \A z \in Queues : z # pool => msg'[z] = msg[z]
      /\ msg' \in [Queues -> Words]
  <2> DEFINE v == Ahead(msg[pool].prod, 1, pool)
  <2>1. msg' = [msg EXCEPT ![pool].prod = v]
    BY <1>2
  <2>2. v \in Nat
    <3>1. msg[pool].prod \in Nat
      BY <1>w, <1>p DEF IndexOk, Words
    <3> QED BY <3>1, <1>p, AheadIn
  <2> HIDE DEF v, pool
  <2> QED BY <2>1, <2>2, <1>p, <1>w, ProdIs
<1>5. DOMAIN ring' = Queues /\ (\A z \in Queues : z # pool => ring'[z] = ring[z])
      /\ \A z \in Queues : DOMAIN ring'[z] = 0 .. Len_(z) - 1
  BY <1>2, <1>w, <1>p DEF RingOk
<1>6. \A p \in Pairs : /\ Src[p] # pool /\ Dst[p] # pool /\ Src[p] \in Queues /\ Dst[p] \in Queues
  BY Apart, Names
<1>7. "egress" \in Pairs => "lcl_rx" \in Queues /\ "lcl_rx" # pool
  BY <1>6, Names
<1> HIDE DEF pool
<1>8. Whole(L, E, U, P, H, X, y)'
  <2>1. IndexOk'
    BY <1>3, <1>4, <1>w DEF IndexOk
  <2>2. \A p \in Pairs : PairOk(p, U, P, H, Len(L), X[p])'
    <3>1. \A p \in Pairs : msg'[Src[p]] = msg[Src[p]] /\ msg'[Dst[p]] = msg[Dst[p]]
      BY <1>4, <1>6
    <3>2. \A p \in Pairs : PairOk(p, U, P, H, Len(L), X[p])
      BY <1>1, Parts
    <3> QED BY <3>1, <3>2, <1>3 DEF PairOk, PairAt
  <2>3. RingOk'
    BY <1>5 DEF RingOk
  <2>4. \A p \in Pairs : Sent(p, P, H, X[p].sp)'
    <3>1. \A p \in Pairs : ring'[Src[p]] = ring[Src[p]]
      BY <1>5, <1>6
    <3>2. \A p \in Pairs : Sent(p, P, H, X[p].sp)
      BY <1>1, Parts
    <3> QED BY <3>1, <3>2 DEF Sent
  <2>5. Arrived(E, U, H, Len(L), hw.done)'
    <3>1. "egress" \in Pairs => ring'["lcl_rx"] = ring["lcl_rx"]
      BY <1>5, <1>7
    <3> QED BY <3>1, <1>1, <1>3, Parts DEF Arrived
  <2> QED BY <2>1, <2>2, <2>3, <2>4, <2>5, <1>1, <1>3 DEF Whole, Heads, ShadowOk
<1> QED BY <1>8 DEF IInv

\* The positions of a pair, with one of them replaced.
With(x, rd, sp) == [rd |-> rd, sd |-> x.sd, qt |-> x.qt, tl |-> x.tl, sp |-> sp]
Put(X, o, x) == [p \in Pairs |-> IF p = o THEN x ELSE X[p]]

\* One pair has other positions.
LEMMA PutIs ==
  ASSUME NEW X, X \in [Pairs -> Spot], NEW o \in Pairs, NEW x \in Spot
  PROVE  /\ Put(X, o, x) \in [Pairs -> Spot] /\ Put(X, o, x)[o] = x
         /\ \A p \in Pairs : p # o => Put(X, o, x)[p] = X[p]
<1>1. \A p \in Pairs : (IF p = o THEN x ELSE X[p]) \in Spot
  OBVIOUS
<1> QED BY <1>1 DEF Put

\* What a user of the rings leaves alone.
LEMMA UserStep ==
  ASSUME NEW L, NEW E, NEW U, NEW P, NEW H, NEW X, NEW y, Whole(L, E, U, P, H, X, y),
         UNCHANGED <<q, hw, jobs, sub, left>>, msg' \in [Queues -> Words], RingOk',
         NEW X2 \in [Pairs -> Spot], \A p \in Pairs : PairOk(p, U, P, H, Len(L), X2[p])',
         \A p \in Pairs : Sent(p, P, H, X2[p].sp)',
         "egress" \in Pairs => ring'["lcl_rx"] = ring["lcl_rx"]
  PROVE  IInv'
<1>1. IndexOk'
  BY Parts DEF IndexOk
<1>2. Arrived(E, U, H, Len(L), hw.done)'
  BY Parts DEF Arrived
<1>3. Whole(L, E, U, P, H, X2, y)'
  BY <1>1, <1>2 DEF Whole, Heads, ShadowOk, Spot
<1> QED BY <1>3 DEF IInv

\* Recv moves the consumer's index of a destination: rd.
LEMMA RecvStep == ASSUME NEW p0 \in Pairs PROVE IInv /\ Recv(p0) => IInv'
<1> SUFFICES ASSUME IInv, Recv(p0) PROVE IInv'
  OBVIOUS
<1>1. PICK L, E, U, P, H, X, y : Whole(L, E, U, P, H, X, y)
  BY DEF IInv
<1> DEFINE dst == Dst[p0]
<1> DEFINE rd == X[p0].rd
<1>2. /\ Posted(dst) # {} /\ msg' = [msg EXCEPT ![dst].cons = Ahead(@, 1, dst)]
      /\ UNCHANGED <<q, hw, jobs, sub, left, ring>>
  BY DEF Recv, gie
<1>3. IndexOk /\ RingOk /\ X \in [Pairs -> Spot] /\ (\A p \in Pairs : PairOk(p, U, P, H, Len(L), X[p]))
      /\ (\A p \in Pairs : Sent(p, P, H, X[p].sp))
  BY <1>1, Parts
<1>4. /\ X[p0].rd \in Nat /\ X[p0].sd \in Nat /\ X[p0].qt \in Nat /\ X[p0].tl \in Nat /\ X[p0].sp \in Nat
      /\ P[p0][0] \in Nat /\ H[p0] \in Nat /\ P[p0][0] <= H[p0]
      /\ X[p0].sd <= X[p0].rd /\ X[p0].rd <= P[p0][0]
      /\ H[p0] <= X[p0].qt /\ X[p0].qt <= X[p0].tl /\ X[p0].tl <= X[p0].sp
      /\ X[p0].qt - X[p0].sd < QLen /\ QLen \in Nat \ {0}
  BY <1>1, PairNum
<1>5. dst \in Queues /\ Len_(dst) = QLen
  BY Names
<1>6. msg[dst].cons = rd % QLen /\ msg[dst].prod = P[p0][0] % QLen
  BY <1>3 DEF PairOk, PairAt
<1> DEFINE a == P[p0][0]
<1>7. rd < a
  <2>1. rd \in Nat /\ a \in Nat /\ rd <= a /\ a - rd < QLen /\ QLen \in Nat \ {0}
    BY <1>4
  <2>2. Slots(rd % QLen, a % QLen, QLen) # {}
    BY <1>2, <1>5, <1>6 DEF Posted
  <2> HIDE DEF rd, a
  <2>3. PICK i : i \in Slots(rd % QLen, a % QLen, QLen)
    BY <2>2
  <2>4. \E x \in Nat : rd <= x /\ x < a /\ i = x % QLen
    BY <2>1, <2>3, SlotOf
  <2>5. \A x \in Nat : rd <= x /\ x < a => rd < a
    BY <2>1
  <2> QED BY <2>4, <2>5
<1> DEFINE v == Ahead(msg[dst].cons, 1, dst)
<1>8. v = (rd + 1) % QLen
  <2>1. q_idx_add(rd % QLen, 1, QLen) = (rd + 1) % QLen
    <3>1. rd \in Nat /\ 1 \in Nat
      BY <1>4
    <3> HIDE DEF rd
    <3> QED BY <3>1, <1>4, AddIs
  <2> QED BY <2>1, <1>5, <1>6 DEF Ahead
<1>9. v \in Nat
  <2>1. msg[dst].cons \in Nat
    BY <1>3, <1>5 DEF IndexOk, Words
  <2> QED BY <2>1, <1>5, AheadIn
<1>v. msg' = [msg EXCEPT ![dst].cons = v]
  BY <1>2
<1>d. dst = Dst[p0] /\ rd = X[p0].rd
  OBVIOUS
<1> HIDE DEF v, dst
<1>10. /\ \A z \in Queues : z # dst => msg'[z] = msg[z]
       /\ msg'[dst].prod = msg[dst].prod /\ msg'[dst].cons = v /\ msg' \in [Queues -> Words]
  BY <1>v, <1>9, <1>5, <1>3, ConsIs
<1> DEFINE x2 == With(X[p0], rd + 1, X[p0].sp)
<1> DEFINE X2 == Put(X, p0, x2)
<1>11. /\ x2.rd = rd + 1 /\ x2.sd = X[p0].sd /\ x2.qt = X[p0].qt /\ x2.tl = X[p0].tl /\ x2.sp = X[p0].sp
       /\ x2 \in Spot
  BY <1>4 DEF With, Spot
<1> HIDE DEF x2
<1>12. X2 \in [Pairs -> Spot] /\ X2[p0] = x2 /\ \A p \in Pairs : p # p0 => X2[p] = X[p]
  BY <1>3, <1>11, PutIs
<1> HIDE DEF X2
<1>13. ASSUME NEW p \in Pairs PROVE PairOk(p, U, P, H, Len(L), X2[p])'
  <2>1. PairOk(p, U, P, H, Len(L), X[p])
    BY <1>3
  <2>2. Src[p] # dst /\ Src[p] \in Queues /\ Dst[p] \in Queues /\ (p # p0 => Dst[p] # dst)
    BY Apart, Names, <1>d
  <2>3. msg'[Src[p]] = msg[Src[p]] /\ msg'[Dst[p]].prod = msg[Dst[p]].prod
    BY <2>2, <1>10, <1>d
  <2>4. CASE p = p0
    <3>1. msg'[Dst[p]].cons = x2.rd % QLen
      BY <2>4, <1>8, <1>10, <1>11, <1>d
    <3>2. x2.sd <= x2.rd /\ x2.rd <= P[p][0]
      BY <2>4, <1>4, <1>7, <1>11
    <3> QED BY <2>1, <2>3, <2>4, <3>1, <3>2, <1>2, <1>11, <1>12 DEF PairOk, PairAt
  <2>5. CASE p # p0
    <3>1. msg'[Dst[p]] = msg[Dst[p]]
      BY <2>2, <2>5, <1>10
    <3> QED BY <2>1, <2>3, <2>5, <3>1, <1>2, <1>12 DEF PairOk, PairAt
  <2> QED BY <2>4, <2>5
<1>14. ASSUME NEW p \in Pairs PROVE Sent(p, P, H, X2[p].sp)'
  <2>1. X2[p].sp = X[p].sp
    BY <1>11, <1>12
  <2>2. Sent(p, P, H, X[p].sp)
    BY <1>3
  <2> QED BY <2>1, <2>2, <1>2 DEF Sent
<1>15. RingOk'
  BY <1>2, <1>3 DEF RingOk
<1> QED BY <1>1, <1>2, <1>10, <1>12, <1>13, <1>14, <1>15, UserStep

\* What a packet of n elements does to a source ring whose end is at position sp.
Written(Q, lo, hi, r, nm) == \A x \in lo .. hi - 1 : r[x % Q].buf = <<nm, x % Q>>

Refilled(Q, sp, n, r, r2, nm) ==
  \A i \in 0 .. Q - 1 : r2[i].buf = IF Occupancy(i, sp % Q, Q) < n THEN <<nm, i>> ELSE r[i].buf

\* The packet is in place, and what was there before it still is.
LEMMA Filled ==
  ASSUME NEW Q \in Nat \ {0}, NEW lo \in Nat, NEW sp \in Nat, NEW n \in Nat, lo <= sp, (sp + n) - lo < Q,
         NEW r, NEW r2, NEW nm,
         Refilled(Q, sp, n, r, r2, nm), Written(Q, lo, sp, r, nm)
  PROVE  Written(Q, lo, sp + n, r2, nm)
<1> SUFFICES ASSUME NEW x \in lo .. (sp + n) - 1 PROVE r2[x % Q].buf = <<nm, x % Q>>
  BY DEF Written
<1> DEFINE i == x % Q
<1>1. x \in Nat /\ i \in 0 .. Q - 1
  <2>1. x \in Nat
    OBVIOUS
  <2>2. x % Q \in 0 .. Q - 1
    BY <2>1, ModRange
  <2> QED BY <2>1, <2>2
<1>2. CASE x < sp
  <2>1. x \in lo .. sp - 1
    BY <1>2, <1>1
  <2>2. r[i].buf = <<nm, i>>
    BY <2>1 DEF Written
  <2> HIDE DEF i
  <2>3. r2[i].buf = IF Occupancy(i, sp % Q, Q) < n THEN <<nm, i>> ELSE r[i].buf
    BY <1>1 DEF Refilled
  <2>4. r2[i].buf = <<nm, i>>
    BY <2>2, <2>3
  <2> QED BY <2>4 DEF i
<1>3. CASE ~(x < sp)
  <2>1. sp <= x /\ x - sp < Q /\ x - sp < n
    BY <1>1, <1>3
  <2>2. Occupancy(x % Q, sp % Q, Q) = x - sp
    BY <1>1, <2>1, OccIs
  <2>3. Occupancy(i, sp % Q, Q) < n
    BY <2>1, <2>2
  <2> HIDE DEF i
  <2>4. r2[i].buf = IF Occupancy(i, sp % Q, Q) < n THEN <<nm, i>> ELSE r[i].buf
    BY <1>1 DEF Refilled
  <2>5. r2[i].buf = <<nm, i>>
    BY <2>3, <2>4
  <2> QED BY <2>5 DEF i
<1> QED BY <1>2, <1>3

\* Send moves the producer's index of a source: sp.
LEMMA SendStep == ASSUME NEW p0 \in Pairs, NEW n \in Nat PROVE IInv /\ Send(p0, n) => IInv'
<1> SUFFICES ASSUME IInv, Send(p0, n) PROVE IInv'
  OBVIOUS
<1>1. PICK L, E, U, P, H, X, y : Whole(L, E, U, P, H, X, y)
  BY DEF IInv
<1> DEFINE src == Src[p0]
<1> DEFINE prod == msg[src].prod
<1> DEFINE sp == X[p0].sp
<1> DEFINE lo == IF p0 = "egress" THEN P[p0][0] ELSE H[p0]
<1> DEFINE new == [i \in 0 .. QLen - 1 |->
                   IF Occupancy(i, prod, QLen) < n
                   THEN [tag |-> (nxt[p0] + Occupancy(i, prod, QLen)) % Tags, buf |-> <<src, i>>,
                         sg |-> IF Occupancy(i, prod, QLen) = 0 THEN n ELSE 1]
                   ELSE ring[src][i]]
<1>2. /\ Space(prod, msg[src].cons, QLen) >= n
      /\ ring' = [ring EXCEPT ![src] = new]
      /\ msg' = [msg EXCEPT ![src].prod = Ahead(prod, n, src)]
      /\ UNCHANGED <<q, hw, jobs, sub, left>>
  BY DEF Send, gie
<1>3. IndexOk /\ RingOk /\ X \in [Pairs -> Spot] /\ (\A p \in Pairs : PairOk(p, U, P, H, Len(L), X[p]))
      /\ (\A p \in Pairs : Sent(p, P, H, X[p].sp))
  BY <1>1, Parts
<1>4. /\ X[p0].rd \in Nat /\ X[p0].sd \in Nat /\ X[p0].qt \in Nat /\ X[p0].tl \in Nat /\ sp \in Nat
      /\ P[p0][0] \in Nat /\ H[p0] \in Nat /\ P[p0][0] <= H[p0]
      /\ H[p0] <= X[p0].qt /\ X[p0].qt <= X[p0].tl /\ X[p0].tl <= sp
      /\ sp - P[p0][0] < QLen /\ QLen \in Nat \ {0}
  BY <1>1, PairNum
<1>5. src \in Queues /\ Len_(src) = QLen
  BY Names
<1>6. msg[src].cons = P[p0][0] % QLen /\ prod = sp % QLen
  BY <1>3 DEF PairOk, PairAt
<1> DEFINE a == P[p0][0]
<1>7. (sp + n) - a < QLen /\ a <= sp /\ sp <= sp + n
  <2>1. sp \in Nat /\ a \in Nat /\ a <= sp /\ sp - a < QLen /\ QLen \in Nat \ {0}
    BY <1>4
  <2>2. QLen - Occupancy(sp % QLen, a % QLen, QLen) - 1 >= n
    BY <1>2, <1>6 DEF Space
  <2> HIDE DEF sp, a
  <2>3. Occupancy(sp % QLen, a % QLen, QLen) = sp - a
    BY <2>1, OccIs
  <2> QED BY <2>1, <2>2, <2>3
<1> DEFINE v == Ahead(prod, n, src)
<1>8. v = (sp + n) % QLen
  <2>1. q_idx_add(sp % QLen, n, QLen) = (sp + n) % QLen
    <3>1. sp \in Nat
      BY <1>4
    <3> HIDE DEF sp
    <3> QED BY <3>1, <1>4, AddIs
  <2> QED BY <2>1, <1>5, <1>6 DEF Ahead
<1>9. v \in Nat
  <2>1. prod \in Nat
    BY <1>3, <1>5 DEF IndexOk, Words
  <2> HIDE DEF prod
  <2> QED BY <2>1, <1>5, AheadIn
<1>v. msg' = [msg EXCEPT ![src].prod = v]
  BY <1>2
<1>d. src = Src[p0] /\ sp = X[p0].sp
  OBVIOUS
<1>10. /\ \A z \in Queues : z # src => msg'[z] = msg[z]
       /\ msg'[src].cons = msg[src].cons /\ msg'[src].prod = v /\ msg' \in [Queues -> Words]
  <2> HIDE DEF v, src
  <2> QED BY <1>v, <1>9, <1>5, <1>3, ProdIs
<1> DEFINE x2 == With(X[p0], X[p0].rd, sp + n)
<1> DEFINE X2 == Put(X, p0, x2)
<1>11. /\ x2.rd = X[p0].rd /\ x2.sd = X[p0].sd /\ x2.qt = X[p0].qt /\ x2.tl = X[p0].tl /\ x2.sp = sp + n
       /\ x2 \in Spot
  BY <1>4 DEF With, Spot
<1> HIDE DEF x2
<1>12. X2 \in [Pairs -> Spot] /\ X2[p0] = x2 /\ \A p \in Pairs : p # p0 => X2[p] = X[p]
  BY <1>3, <1>11, PutIs
<1> HIDE DEF X2, v, prod
<1>13. ASSUME NEW p \in Pairs PROVE PairOk(p, U, P, H, Len(L), X2[p])'
  <2> HIDE DEF sp, src
  <2>1. PairOk(p, U, P, H, Len(L), X[p])
    BY <1>3
  <2>2. Dst[p] # src /\ Src[p] \in Queues /\ Dst[p] \in Queues /\ (p # p0 => Src[p] # src)
    BY Apart, Names, <1>d
  <2>3. msg'[Dst[p]] = msg[Dst[p]] /\ msg'[Src[p]].cons = msg[Src[p]].cons
    BY <2>2, <1>10, <1>d
  <2>4. CASE p = p0
    <3>1. msg'[Src[p]].prod = x2.sp % QLen
      BY <2>4, <1>8, <1>10, <1>11, <1>d
    <3>2. x2.tl <= x2.sp /\ x2.sp - P[p][0] < QLen
      BY <2>4, <1>4, <1>7, <1>11, <1>d
    <3> QED BY <2>1, <2>3, <2>4, <3>1, <3>2, <1>2, <1>11, <1>12 DEF PairOk, PairAt
  <2>5. CASE p # p0
    <3>1. msg'[Src[p]] = msg[Src[p]]
      BY <2>2, <2>5, <1>10
    <3> QED BY <2>1, <2>3, <2>5, <3>1, <1>2, <1>12 DEF PairOk, PairAt
  <2> QED BY <2>4, <2>5
<1>14. /\ ring'[src] = new /\ (\A z \in Queues : z # src => ring'[z] = ring[z])
       /\ DOMAIN ring' = Queues /\ DOMAIN new = 0 .. QLen - 1
  <2>1. DOMAIN new = 0 .. QLen - 1
    OBVIOUS
  <2> HIDE DEF new
  <2> QED BY <2>1, <1>2, <1>3, <1>5 DEF RingOk
<1>15. ASSUME NEW p \in Pairs PROVE Sent(p, P, H, X2[p].sp)'
  <2>1. Sent(p, P, H, X[p].sp)
    BY <1>3
  <2>2. CASE p = p0
    <3>1. \A i \in 0 .. QLen - 1 : new[i].buf = IF Occupancy(i, sp % QLen, QLen) < n THEN <<src, i>> ELSE ring[src][i].buf
      BY <1>6
    <3>2. \A x \in lo .. sp - 1 : ring[src][x % QLen].buf = <<src, x % QLen>>
      BY <2>1, <2>2 DEF Sent
    <3>3. lo \in Nat /\ lo <= sp /\ (sp + n) - lo < QLen /\ sp \in Nat /\ QLen \in Nat \ {0}
      BY <1>4, <1>7
    <3>4. lo = IF p0 = "egress" THEN P[p0][0] ELSE H[p0]
      OBVIOUS
    <3> HIDE DEF new, sp, lo, src
    <3> DEFINE r == ring[src]
    <3> DEFINE r2 == new
    <3>5. Refilled(QLen, sp, n, r, r2, src) /\ Written(QLen, lo, sp, r, src)
      BY <3>1, <3>2 DEF Refilled, Written
    <3> HIDE DEF r, r2
    <3>6. Written(QLen, lo, sp + n, r2, src)
      BY <3>3, <3>5, Filled
    <3>7. r2 = ring'[src]
      BY <1>14 DEF r2
    <3>8. X2[p].sp = sp + n
      BY <2>2, <1>11, <1>12
    <3> QED BY <3>4, <3>6, <3>7, <3>8, <2>2, <1>d DEF Sent, Written
  <2>3. CASE p # p0
    <3>1. Src[p] \in Queues /\ Src[p] # src
      BY <2>3, Names, Apart
    <3>2. ring'[Src[p]] = ring[Src[p]] /\ X2[p] = X[p]
      BY <2>3, <3>1, <1>12, <1>14
    <3> QED BY <2>1, <3>2 DEF Sent
  <2> QED BY <2>2, <2>3
<1>16. RingOk'
  <2>1. \A z \in Queues : DOMAIN ring[z] = 0 .. Len_(z) - 1
    BY <1>3 DEF RingOk
  <2> HIDE DEF new
  <2>2. \A z \in Queues : DOMAIN ring'[z] = 0 .. Len_(z) - 1
    BY <2>1, <1>5, <1>14
  <2> QED BY <2>2, <1>14 DEF RingOk
<1>17. "egress" \in Pairs => ring'["lcl_rx"] = ring["lcl_rx"]
  <2>1. "egress" \in Pairs => "lcl_rx" \in Queues /\ "lcl_rx" # src
    BY Names, Apart
  <2> HIDE DEF new
  <2> QED BY <2>1, <1>14
<1> HIDE DEF new
<1> QED BY <1>1, <1>2, <1>10, <1>12, <1>13, <1>15, <1>16, <1>17, UserStep

-----------------------------------------------------------------------------
(* Submission: gie_dma_copy_single *)

\* What is to be submitted next, if its job is logged (it is when left > 0).
LEMMA Pending ==
  ASSUME NEW js, NEW l, NEW s, NEW h, NEW L, NEW E, NEW U, NEW P, NEW H, WorkOf(js, l, s, h, L, E, U, P, H),
         s # <<>>
  PROVE  /\ Head(s) = s[1] /\ Len(s) >= 1 /\ IsSeq(s[1].descs) /\ Len(s[1].descs) \in Nat /\ Len(s[1].descs) >= 1
         /\ l \in Nat /\ (l > 0 => l <= Len(s[1].descs))
         /\ (l = 0 => WorkOf(Append(js, s[1].job), Len(s[1].descs), s, h, L, E, U, P, H))
<1>1. IsSeq(s) /\ Subs(js, l, s, L, U, P, H) /\ l \in Nat
  BY WorkIs DEF WorkOf
<1>2. Head(s) = s[1] /\ Len(s) >= 1 /\ Len(s) \in Nat
  BY <1>1, TailOf DEF IsSeq
<1>3. 1 \in 1 .. Len(s)
  BY <1>2
<1>4. Entry(s[1]) /\ (l > 0 => l <= Len(s[1].descs))
  BY <1>1, <1>3 DEF Subs
<1>5. IsSeq(s[1].descs) /\ Len(s[1].descs) \in Nat /\ Len(s[1].descs) >= 1
  BY <1>4 DEF Entry, IsSeq
<1>6. l = 0 => WorkOf(Append(js, s[1].job), Len(s[1].descs), s, h, L, E, U, P, H)
  BY <1>2, Logging
<1> QED BY <1>1, <1>2, <1>4, <1>5, <1>6

\* When nothing is to be submitted the log is dma_jobs.
LEMMA NothingLeft ==
  ASSUME NEW js, NEW l, NEW s, NEW h, NEW L, NEW E, NEW U, NEW P, NEW H, WorkOf(js, l, s, h, L, E, U, P, H),
         s = <<>>
  PROVE  l = 0 /\ Len(L) = Len(js)
<1>1. Len(s) = 0
  BY EmptyIs
<1>2. l \in Nat /\ (l > 0 => Len(s) >= 1)
  BY WorkIs DEF WorkOf, Subs
<1>3. l = 0
  BY <1>1, <1>2
<1>4. Len(L) = SubAt(js, l, Len(s)) /\ Len(js) \in Nat
  BY WorkIs
<1> QED BY <1>1, <1>3, <1>4 DEF SubAt

\* Submitting moves no index.
LEMMA ThreadStep ==
  ASSUME NEW L, NEW E, NEW U, NEW P, NEW H, NEW X, NEW y, Whole(L, E, U, P, H, X, y),
         UNCHANGED <<q, msg, ring>>, WorkOf(jobs', left', sub', hw', L, E, U, P, H), hw'.done = hw.done
  PROVE  IInv'
<1>1. Whole(L, E, U, P, H, X, y)'
  BY DEF Whole, IndexOk, Heads, PairOk, ShadowOk, RingOk, Sent, Arrived
<1> QED BY <1>1 DEF IInv

\* The job of what is submitted next is in the log.
LEMMA LoggedIs ==
  ASSUME NEW L, NEW E, NEW U, NEW P, NEW H, NEW X, NEW y, Whole(L, E, U, P, H, X, y), sub # <<>>
  PROVE  /\ WorkOf(Logged, Wanted, sub, hw, L, E, U, P, H)
         /\ Wanted \in Nat /\ Wanted >= 1 /\ Head(sub) = sub[1]
<1>1. WorkOf(jobs, left, sub, hw, L, E, U, P, H)
  BY Parts
<1>2. /\ Head(sub) = sub[1] /\ Len(sub[1].descs) \in Nat /\ Len(sub[1].descs) >= 1
      /\ left \in Nat
      /\ (left = 0 => WorkOf(Append(jobs, sub[1].job), Len(sub[1].descs), sub, hw, L, E, U, P, H))
  BY <1>1, Pending
<1>3. Wanted = IF left = 0 THEN Len(sub[1].descs) ELSE left
  BY <1>2 DEF Wanted
<1>4. Logged = IF left = 0 THEN Append(jobs, sub[1].job) ELSE jobs
  BY <1>2 DEF Logged
<1> QED BY <1>1, <1>2, <1>3, <1>4

\* Enqueue logs the job at its first attempt and moves descriptors to the
\* engine.
LEMMA EnqueueStep == IInv /\ Enqueue => IInv'
<1> SUFFICES ASSUME IInv, Enqueue PROVE IInv'
  OBVIOUS
<1>1. PICK L, E, U, P, H, X, y : Whole(L, E, U, P, H, X, y)
  BY DEF IInv
<1> DEFINE k == Lesser(Wanted, DmaSpace)
<1>2. /\ sub # <<>> /\ DmaSpace > 0
      /\ hw' = [hw EXCEPT !.descs = @ \o SubSeq(Head(sub).descs, 1, k)]
      /\ left' = Wanted - k
      /\ sub' = IF k = Wanted THEN Tail(sub) ELSE sub
      /\ jobs' = Logged
      /\ UNCHANGED <<q, msg, ring>>
  BY DEF Enqueue
<1>3. /\ WorkOf(Logged, Wanted, sub, hw, L, E, U, P, H)
      /\ Wanted \in Nat /\ Wanted >= 1 /\ Head(sub) = sub[1]
  BY <1>1, <1>2, LoggedIs
<1>4. hw = [descs |-> hw.descs, done |-> hw.done] /\ Len(hw.descs) \in Nat
  BY <1>3, WorkIs
<1>5. k \in 1 .. Wanted
  <2>1. DmaSpace \in Int /\ DmaSpace > 0
    BY <1>2, <1>4, Params DEF DmaSpace
  <2> QED BY <2>1, <1>3 DEF Lesser
<1> HIDE DEF k
<1> DEFINE d == hw.descs \o SubSeq(sub[1].descs, 1, k)
<1>6. hw' = [descs |-> d, done |-> hw.done]
  <2>1. hw' = [hw EXCEPT !.descs = d]
    BY <1>2, <1>3
  <2> HIDE DEF d
  <2> QED BY <2>1, <1>4
<1>7. hw'.done = hw.done
  BY <1>6
<1>8. WorkOf(jobs', left', sub', hw', L, E, U, P, H)
  <2> DEFINE js == Logged
  <2> DEFINE l == Wanted
  <2> DEFINE h2 == [descs |-> hw.descs \o SubSeq(sub[1].descs, 1, k), done |-> hw.done]
  <2> DEFINE s2 == IF k = l THEN Tail(sub) ELSE sub
  <2>1. WorkOf(js, l, sub, hw, L, E, U, P, H) /\ l > 0 /\ k \in 1 .. l
    BY <1>3, <1>5
  <2>2. h2 = [descs |-> hw.descs \o SubSeq(sub[1].descs, 1, k), done |-> hw.done]
        /\ s2 = IF k = l THEN Tail(sub) ELSE sub
    OBVIOUS
  <2>3. jobs' = js /\ left' = l - k /\ sub' = s2 /\ hw' = h2
    BY <1>2, <1>6
  <2> HIDE DEF js, l, h2, s2, d
  <2>4. WorkOf(js, l - k, s2, h2, L, E, U, P, H)
    BY <2>1, <2>2, Offering
  <2> QED BY <2>3, <2>4
<1> QED BY <1>1, <1>2, <1>7, <1>8, ThreadStep

-----------------------------------------------------------------------------
(* gie_clean_dma_jobs *)

\* A remainder is a number.
LEMMA ModNat == ASSUME NEW l \in Nat \ {0}, NEW x \in Nat PROVE x % l \in Nat
<1>1. x % l \in 0 .. l - 1
  BY ModRange
<1> QED BY <1>1

\* Of the indices, cleaning up moves only qe_head ...
LEMMA QAtIs ==
  ASSUME IndexOk, NEW U, NEW r, \A x \in Queues : U[x][r] \in Nat, NEW q2, q2 = QAt(U, r)
  PROVE  /\ q2 \in [Queues -> QIdx]
         /\ \A x \in Queues : /\ q2[x].tail = q[x].tail /\ q2[x].head = q[x].head
                              /\ q2[x].qe_tail = q[x].qe_tail /\ q2[x].qe_head = U[x][r] % Len_(x)
<1>1. q \in [Queues -> QIdx]
  BY DEF IndexOk
<1>2. ASSUME NEW x \in Queues
      PROVE  /\ q2[x] \in QIdx
             /\ q2[x].tail = q[x].tail /\ q2[x].head = q[x].head
             /\ q2[x].qe_tail = q[x].qe_tail /\ q2[x].qe_head = U[x][r] % Len_(x)
  <2> DEFINE v == U[x][r] % Len_(x)
  <2> DEFINE g == q[x]
  <2>1. v \in Nat
    <3> DEFINE a == U[x][r]
    <3> DEFINE l == Len_(x)
    <3>1. a \in Nat /\ l \in Nat \ {0}
      BY Names
    <3> HIDE DEF a, l
    <3>2. a % l \in Nat
      BY <3>1, ModNat
    <3> QED BY <3>2 DEF a, l
  <2>2. q2[x] = [g EXCEPT !.qe_head = v] /\ g \in QIdx
    BY <1>1 DEF QAt
  <2> HIDE DEF v, g
  <2>3. /\ q2[x] \in QIdx /\ q2[x].tail = g.tail /\ q2[x].head = g.head
        /\ q2[x].qe_tail = g.qe_tail /\ q2[x].qe_head = v
    BY <2>1, <2>2 DEF QIdx
  <2> QED BY <2>3 DEF v, g
<1>3. q2 = [x \in Queues |-> q2[x]]
  BY DEF QAt
<1> QED BY <1>2, <1>3

\* ... and of the words only those the jobs publish.
LEMMA MAtIs ==
  ASSUME IndexOk, NEW P, NEW r, \A p \in Pairs : P[p][r] \in Nat, NEW m2, m2 = MAt(P, r)
  PROVE  /\ m2 \in [Queues -> Words]
         /\ \A p \in Pairs : /\ m2[Src[p]].cons = P[p][r] % QLen /\ m2[Src[p]].prod = msg[Src[p]].prod
                             /\ m2[Dst[p]].prod = P[p][r] % QLen /\ m2[Dst[p]].cons = msg[Dst[p]].cons
<1>1. msg \in [Queues -> Words]
  BY DEF IndexOk
<1>2. \A p \in Pairs : P[p][r] % QLen \in Nat
  <2>1. ASSUME NEW p \in Pairs PROVE P[p][r] % QLen \in Nat
    <3> DEFINE a == P[p][r]
    <3>1. a \in Nat /\ QLen \in Nat \ {0}
      BY Params
    <3> HIDE DEF a
    <3>2. a % QLen \in Nat
      BY <3>1, ModNat
    <3> QED BY <3>2 DEF a
  <2> QED BY <2>1
<1>3. ASSUME NEW x \in Queues PROVE ConsAt(P, r, x) \in Nat /\ ProdAt(P, r, x) \in Nat
  <2>1. msg[x].cons \in Nat /\ msg[x].prod \in Nat
    BY <1>1 DEF Words
  <2>2. (x = "host_tx" \/ x = "lcl_rx" => "egress" \in Pairs) /\ (x = "lcl_tx" \/ x = "host_rx" => "ingress" \in Pairs)
    BY Names
  <2> QED BY <2>1, <2>2, <1>2 DEF ConsAt, ProdAt
<1>4. \A x \in Queues : m2[x] = [cons |-> ConsAt(P, r, x), prod |-> ProdAt(P, r, x)]
  BY DEF MAt
<1>5. m2 \in [Queues -> Words]
  <2>1. m2 = [x \in Queues |-> m2[x]]
    BY DEF MAt
  <2>2. ASSUME NEW x \in Queues PROVE m2[x] \in Words
    <3> DEFINE a == ConsAt(P, r, x)
    <3> DEFINE b == ProdAt(P, r, x)
    <3>1. a \in Nat /\ b \in Nat /\ m2[x] = [cons |-> a, prod |-> b]
      BY <1>3, <1>4
    <3> HIDE DEF a, b
    <3> QED BY <3>1 DEF Words
  <2> QED BY <2>1, <2>2
<1>6. ASSUME NEW p \in Pairs
      PROVE  /\ m2[Src[p]].cons = P[p][r] % QLen /\ m2[Src[p]].prod = msg[Src[p]].prod
             /\ m2[Dst[p]].prod = P[p][r] % QLen /\ m2[Dst[p]].cons = msg[Dst[p]].cons
  <2>1. Src[p] \in Queues /\ Dst[p] \in Queues
    BY Names
  <2>2. /\ m2[Src[p]].cons = ConsAt(P, r, Src[p]) /\ m2[Src[p]].prod = ProdAt(P, r, Src[p])
        /\ m2[Dst[p]].cons = ConsAt(P, r, Dst[p]) /\ m2[Dst[p]].prod = ProdAt(P, r, Dst[p])
    <3>1. \A x \in Queues : m2[x].cons = ConsAt(P, r, x) /\ m2[x].prod = ProdAt(P, r, x)
      <4> SUFFICES ASSUME NEW x \in Queues PROVE m2[x].cons = ConsAt(P, r, x) /\ m2[x].prod = ProdAt(P, r, x)
        OBVIOUS
      <4> DEFINE a == ConsAt(P, r, x)
      <4> DEFINE b == ProdAt(P, r, x)
      <4>1. m2[x] = [cons |-> a, prod |-> b]
        BY <1>4
      <4> HIDE DEF a, b
      <4>2. m2[x].cons = a /\ m2[x].prod = b
        BY <4>1
      <4> QED BY <4>2 DEF a, b
    <3> QED BY <3>1, <2>1
  <2>3. /\ ConsAt(P, r, Src[p]) = P[p][r] % QLen /\ ProdAt(P, r, Src[p]) = msg[Src[p]].prod
        /\ ConsAt(P, r, Dst[p]) = msg[Dst[p]].cons /\ ProdAt(P, r, Dst[p]) = P[p][r] % QLen
    <3>1. CASE p = "egress"
      BY <3>1, Names DEF ConsAt, ProdAt
    <3>2. CASE p = "ingress"
      BY <3>2, Names DEF ConsAt, ProdAt
    <3> QED BY <3>1, <3>2, PairIs
  <2> QED BY <2>2, <2>3
<1> QED BY <1>5, <1>6

\* The published position moves on.
LEMMA PairLater ==
  ASSUME NEW p, NEW s, NEW d, NEW ms, NEW md, NEW u0, NEW uM, NEW p0, NEW pM, NEW h, NEW x,
         PairAt(p, s, d, ms, md, u0, uM, p0, pM, h, x),
         x.rd \in Nat, x.sp \in Nat, h \in Nat, p0 \in Nat, u0 \in Nat,
         NEW p2 \in Nat, p0 <= p2, NEW u2 \in Nat, u0 <= u2,
         NEW s2, s2.tail = s.tail, s2.head = s.head, s2.qe_tail = s.qe_tail,
         NEW d2, d2.tail = d.tail, d2.head = d.head, d2.qe_tail = d.qe_tail,
         NEW ms2, ms2.cons = p2 % QLen, ms2.prod = ms.prod,
         NEW md2, md2.prod = p2 % QLen, md2.cons = md.cons
  PROVE  PairAt(p, s2, d2, ms2, md2, u2, uM, p2, pM, h, x)
<1>1. x.rd <= p0 /\ x.sp - p0 < QLen /\ (p = "egress" => h <= u0) /\ QLen \in Nat
  BY Params DEF PairAt
<1>2. x.rd <= p2 /\ x.sp - p2 < QLen /\ (p = "egress" => h <= u2)
  BY <1>1
<1> QED BY <1>2 DEF PairAt

\* gie_clean_dma_jobs keeps the invariant, with the jobs as the caller has
\* them.
LEMMA CleanAction ==
  ASSUME NEW L, NEW E, NEW U, NEW P, NEW H, NEW X, NEW y, Whole(L, E, U, P, H, X, y),
         NEW js, NEW l, WorkOf(js, l, sub, hw, L, E, U, P, H),
         gie_clean_dma_jobs(js), left' = l, UNCHANGED <<sub, ring>>
  PROVE  IInv'
<1>n. PICK n : n = hw.done
  OBVIOUS
<1> DEFINE N == Len(js)
<1> DEFINE M == Len(L)
<1>1. /\ Typed(L, E, U, P) /\ Steps(L, E, U, P) /\ M \in Nat /\ IndexOk /\ Heads(U)
      /\ X \in [Pairs -> Spot] /\ y \in [sh: Nat, st: Nat]
      /\ (\A p \in Pairs : PairOk(p, U, P, H, M, X[p])) /\ ShadowOk(U, M, y)
      /\ RingOk /\ (\A p \in Pairs : Sent(p, P, H, X[p].sp)) /\ Arrived(E, U, H, M, n)
  BY <1>n, Parts
<1>2. /\ js \in Seq(Job) /\ N \in Nat /\ l \in Nat /\ Len(hw.descs) \in Nat /\ n \in 0 .. Len(hw.descs)
      /\ N <= M /\ E[N] = Len(hw.descs) + l
  BY <1>n, WorkIs
<1>3. Prefix(js, L)
  BY <1>2 DEF Prefix, WorkOf, Logs
<1>4. Published(P)
  BY <1>1 DEF Published, PairOk, PairAt
<1>5. PICK r \in 0 .. N : Over(E, N, r, n) /\ Cleaned(js, n) = At(js, E, U, P, r, n)
  <2>1. n \in Nat /\ n <= E[Len(js)]
    BY <1>2
  <2>2. \E r \in 0 .. Len(js) : Over(E, Len(js), r, n) /\ Cleaned(js, n) = At(js, E, U, P, r, n)
    BY <2>1, <1>1, <1>3, <1>4, CleanedIs
  <2> QED BY <2>2
<1> DEFINE a == Remaining(js, E, r, n)
<1> DEFINE q2 == QAt(U, r)
<1> DEFINE m2 == MAt(P, r)
<1> DEFINE h2 == [descs |-> SubSeq(hw.descs, n + 1, Len(hw.descs)), done |-> 0]
<1>6. jobs' = a /\ q' = q2 /\ msg' = m2 /\ hw' = h2
  BY <1>n, <1>5, AtFields DEF gie_clean_dma_jobs
<1> DEFINE L2 == Remaining(L, E, r, n)
<1> DEFINE E2 == CutE(M, E, r, n)
<1> DEFINE U2 == CutU(M, U, r)
<1> DEFINE P2 == CutP(M, P, r)
<1>7. CleanedUp(js, hw, L, E, U, P, n, N, M, r, a, h2, L2, E2, U2, P2)
  <2>1. n = hw.done /\ N = Len(js) /\ M = Len(L)
    BY <1>n
  <2>2. h2 = [descs |-> SubSeq(hw.descs, n + 1, Len(hw.descs)), done |-> 0]
    OBVIOUS
  <2> HIDE DEF N, M, h2
  <2> QED BY <2>1, <2>2, <1>5 DEF CleanedUp
<1>d. n = hw.done /\ N = Len(js) /\ M = Len(L) /\ h2.done = 0
  BY <1>n
<1>e. /\ \A i \in 0 .. M - r : E2[i] = IF i = 0 THEN 0 ELSE E[i + r] - n
      /\ \A x \in Queues : \A i \in 0 .. M - r : U2[x][i] = U[x][i + r]
      /\ \A p \in Pairs : \A i \in 0 .. M - r : P2[p][i] = P[p][i + r]
  BY DEF CutE, CutU, CutP
<1>q. q2 = QAt(U, r) /\ m2 = MAt(P, r)
  OBVIOUS
<1> HIDE DEF N, M, a, q2, m2, h2, L2, E2, U2, P2
<1>8. WorkOf(a, l, sub, h2, L2, E2, U2, P2, H) /\ Over(E, M, r, n) /\ Len(L2) = M - r /\ r \in 0 .. M
  BY <1>7, Cleaning
<1>9. /\ 0 \in 0 .. M - r /\ 0 + r = r /\ M - r \in 0 .. M - r /\ (M - r) + r = M
      /\ r \in 0 .. M /\ 0 \in 0 .. M /\ M \in 0 .. M /\ 0 <= r /\ n \in Nat
  BY <1>1, <1>2, <1>8
<1>10. /\ \A i \in 0 .. M : E[i] \in Nat /\ (\A p \in Pairs : P[p][i] \in Nat)
                                /\ (\A x \in Queues : U[x][i] \in Nat)
       /\ \A i, j \in 0 .. M : i <= j => /\ \A p \in Pairs : P[p][i] <= P[p][j]
                                         /\ \A x \in Queues : U[x][i] <= U[x][j]
  BY <1>1, <1>d, StepsAre
<1>11. /\ (\A x \in Queues : U2[x][0] = U[x][r] /\ U2[x][M - r] = U[x][M] /\ U[x][0] <= U[x][r]
                             /\ U[x][0] \in Nat /\ U[x][r] \in Nat /\ U[x][M] \in Nat)
       /\ (\A p \in Pairs : P2[p][0] = P[p][r] /\ P2[p][M - r] = P[p][M] /\ P[p][0] <= P[p][r]
                            /\ P[p][0] \in Nat /\ P[p][r] \in Nat /\ P[p][M] \in Nat)
  <2>1. (\A x \in Queues : U2[x][0] = U[x][r] /\ U2[x][M - r] = U[x][M])
        /\ (\A p \in Pairs : P2[p][0] = P[p][r] /\ P2[p][M - r] = P[p][M])
    <3>1. \A i \in 0 .. M - r : i = 0 \/ i = M - r => i + r = IF i = 0 THEN r ELSE M
      BY <1>9
    <3>2. (\A x \in Queues : U2[x][0] = U[x][0 + r] /\ U2[x][M - r] = U[x][(M - r) + r])
          /\ (\A p \in Pairs : P2[p][0] = P[p][0 + r] /\ P2[p][M - r] = P[p][(M - r) + r])
      BY <1>9, <1>e
    <3> QED BY <3>2, <1>9
  <2> QED BY <2>1, <1>9, <1>10
<1>12. /\ q2 \in [Queues -> QIdx]
       /\ \A x \in Queues : /\ q2[x].tail = q[x].tail /\ q2[x].head = q[x].head
                            /\ q2[x].qe_tail = q[x].qe_tail /\ q2[x].qe_head = U[x][r] % Len_(x)
  BY <1>1, <1>11, <1>q, QAtIs
<1>13. /\ m2 \in [Queues -> Words]
       /\ \A p \in Pairs : /\ m2[Src[p]].cons = P[p][r] % QLen /\ m2[Src[p]].prod = msg[Src[p]].prod
                           /\ m2[Dst[p]].prod = P[p][r] % QLen /\ m2[Dst[p]].cons = msg[Dst[p]].cons
  BY <1>1, <1>11, <1>q, MAtIs
<1>14. ASSUME NEW p \in Pairs PROVE PairOk(p, U2, P2, H, M - r, X[p])'
  <2>1. PairOk(p, U, P, H, M, X[p])
    BY <1>1
  <2> DEFINE s == Src[p]
  <2> DEFINE t == Dst[p]
  <2>2. s \in Queues /\ t \in Queues
    BY Names
  <2>3. /\ q2[s].tail = q[s].tail /\ q2[s].head = q[s].head /\ q2[s].qe_tail = q[s].qe_tail
        /\ q2[t].tail = q[t].tail /\ q2[t].head = q[t].head /\ q2[t].qe_tail = q[t].qe_tail
    BY <2>2, <1>12
  <2>4. /\ m2[s].cons = P2[p][0] % QLen /\ m2[s].prod = msg[s].prod
        /\ m2[t].prod = P2[p][0] % QLen /\ m2[t].cons = msg[t].cons
    BY <1>11, <1>13
  <2>5. P2[p][M - r] = P[p][M] /\ P[p][0] <= P2[p][0] /\ P[p][0] \in Nat /\ P2[p][0] \in Nat
    BY <1>11
  <2>6. U2[s][0] = U[s][r] /\ U[s][0] <= U2[s][0] /\ U2[s][M - r] = U[s][M] /\ U[s][0] \in Nat /\ U2[s][0] \in Nat
    BY <2>2, <1>11
  <2>7. X[p].rd \in Nat /\ X[p].sp \in Nat /\ H[p] \in Nat
    BY PairNum
  <2>8. X[p] \in Spot /\ X[p].rd \in Nat /\ X[p].sp \in Nat /\ H[p] \in Nat
    BY <1>1, PairNum
  <2>9. PairAt(p, q[s], q[t], msg[s], msg[t], U[s][0], U[s][M], P[p][0], P[p][M], H[p], X[p])
    BY <2>1 DEF PairOk
  <2>10. PairAt(p, q2[s], q2[t], m2[s], m2[t], U2[s][0], U2[s][M - r], P2[p][0], P2[p][M - r], H[p], X[p])
    <3> DEFINE p0 == P[p][0]
    <3> DEFINE p2 == P2[p][0]
    <3> DEFINE u0 == U[s][0]
    <3> DEFINE u2 == U2[s][0]
    <3>1. PairAt(p, q[s], q[t], msg[s], msg[t], u0, U[s][M], p0, P[p][M], H[p], X[p])
      BY <2>9
    <3>2. p0 \in Nat /\ p2 \in Nat /\ p0 <= p2 /\ u0 \in Nat /\ u2 \in Nat /\ u0 <= u2
      BY <2>5, <2>6
    <3>3. m2[s].cons = p2 % QLen /\ m2[t].prod = p2 % QLen
      BY <2>4
    <3>4. U2[s][M - r] = U[s][M] /\ P2[p][M - r] = P[p][M]
      BY <2>5, <2>6
    <3> HIDE DEF p0, p2, u0, u2, s, t
    <3>5. PairAt(p, q2[s], q2[t], m2[s], m2[t], u2, U[s][M], p2, P[p][M], H[p], X[p])
      BY <2>3, <2>4, <2>8, <3>1, <3>2, <3>3, PairLater
    <3> QED BY <3>4, <3>5 DEF p2, u2
  <2> QED BY <2>10, <1>6 DEF PairOk
<1>15. ShadowOk(U2, M - r, y)'
  <2> SUFFICES ASSUME "ingress" \in CopyPayload PROVE ShadowOk(U2, M - r, y)'
    BY DEF ShadowOk
  <2>1. "host_bp" \in Queues /\ "shadow" \in Queues
    BY Names, Params
  <2>2. U2["host_bp"][0] = U["host_bp"][r] /\ U["host_bp"][0] <= U["host_bp"][r] /\ U2["host_bp"][M - r] = U["host_bp"][M]
        /\ U["host_bp"][0] \in Nat /\ U["host_bp"][r] \in Nat
    BY <2>1, <1>11
  <2>3. /\ q2["shadow"].head = q["shadow"].head /\ q2["shadow"].tail = q["shadow"].tail
        /\ q2["host_bp"].head = q["host_bp"].head /\ q2["host_bp"].qe_tail = q["host_bp"].qe_tail
    BY <2>1, <1>12
  <2>4. /\ q["shadow"].head = y.sh % BpLen /\ q["shadow"].tail = y.st % BpLen
        /\ q["host_bp"].head = y.st % BpLen
        /\ q["host_bp"].qe_tail = U["host_bp"][M] % BpLen
        /\ y.st <= U["host_bp"][0] /\ U["host_bp"][M] - y.st < BpLen
        /\ FillFits => y.sh <= y.st /\ U["host_bp"][M] - y.sh < BpLen
    BY <1>1 DEF ShadowOk
  <2>5. y.st \in Nat
    BY <1>1
  <2>6. y.st <= U2["host_bp"][0]
    BY <2>2, <2>4, <2>5
  <2> QED BY <2>2, <2>3, <2>4, <2>6, <1>6 DEF ShadowOk
<1>16. ASSUME NEW p \in Pairs PROVE Sent(p, P2, H, X[p].sp)'
  <2>1. Sent(p, P, H, X[p].sp)
    BY <1>1
  <2>2. P[p][0] \in Nat /\ P2[p][0] \in Nat /\ P[p][0] <= P2[p][0] /\ H[p] \in Nat /\ X[p].sp \in Nat
    BY <1>11, PairNum
  <2>3. \A x \in (IF p = "egress" THEN P2[p][0] ELSE H[p]) .. X[p].sp - 1 :
          x \in (IF p = "egress" THEN P[p][0] ELSE H[p]) .. X[p].sp - 1
    BY <2>2
  <2> QED BY <2>1, <2>3 DEF Sent
<1>17. Arrived(E2, U2, H, M - r, 0)'
  <2> SUFFICES ASSUME "egress" \in Pairs, NEW i \in 0 .. M - r, E2[i] <= 0
               PROVE  \A x \in H["egress"] .. U2["host_tx"][i] - 1 :
                        ring["lcl_rx"][x % QLen].buf = <<"host_tx", x % QLen>>
    BY DEF Arrived
  <2> DEFINE k == i + r
  <2>1. k \in 0 .. M /\ (i = 0 => k = r)
    BY <1>1, <1>9
  <2>2. E2[i] = IF i = 0 THEN 0 ELSE E[k] - n
    BY <1>e
  <2>3. U2["host_tx"][i] = U["host_tx"][k]
    BY <1>e, Names
  <2>4. E[r] <= n
    BY <1>8 DEF Over
  <2> HIDE DEF k
  <2>5. E[k] <= n
    <3>1. E[k] \in Nat
      BY <2>1, <1>10
    <3>2. CASE i = 0
      BY <3>2, <2>1, <2>4
    <3>3. CASE i # 0
      BY <3>1, <3>3, <2>2, <1>9
    <3> QED BY <3>2, <3>3
  <2> QED BY <2>1, <2>3, <2>5, <1>1 DEF Arrived
<1>18. Whole(L2, E2, U2, P2, H, X, y)'
  <2>1. WorkOf(jobs', left', sub', hw', L2, E2, U2, P2, H)
    BY <1>6, <1>8
  <2>2. IndexOk'
    BY <1>6, <1>12, <1>13 DEF IndexOk
  <2>3. Heads(U2)'
    BY <1>6, <1>11, <1>12 DEF Heads
  <2>4. \A p \in Pairs : PairOk(p, U2, P2, H, Len(L2), X[p])'
    BY <1>8, <1>14
  <2>5. ShadowOk(U2, Len(L2), y)'
    BY <1>8, <1>15
  <2>6. RingOk'
    BY <1>1 DEF RingOk
  <2>7. Arrived(E2, U2, H, Len(L2), hw.done)'
    <3>1. hw'.done = 0
      BY <1>6, <1>d
    <3> QED BY <3>1, <1>8, <1>17 DEF Arrived
  <2>8. X \in [Pairs -> [rd: Nat, sd: Nat, qt: Nat, tl: Nat, sp: Nat]] /\ y \in [sh: Nat, st: Nat]
    BY <1>1 DEF Spot
  <2> QED BY <2>1, <2>2, <2>3, <2>4, <2>5, <2>6, <2>7, <2>8, <1>16 DEF Whole
<1> QED BY <1>18 DEF IInv

\* The clean-up at the beginning of gie_schedule ...
LEMMA CleanAct == IInv /\ Clean => IInv'
<1> SUFFICES ASSUME IInv, Clean PROVE IInv'
  OBVIOUS
<1>1. PICK L, E, U, P, H, X, y : Whole(L, E, U, P, H, X, y)
  BY DEF IInv
<1>2. gie_clean_dma_jobs(jobs) /\ UNCHANGED <<ring, sub, left>>
  BY DEF Clean
<1>3. WorkOf(jobs, left, sub, hw, L, E, U, P, H)
  BY <1>1, Parts
<1>4. PICK js, l : js = jobs /\ l = left
  OBVIOUS
<1>5. WorkOf(js, l, sub, hw, L, E, U, P, H) /\ gie_clean_dma_jobs(js) /\ left' = l
  BY <1>2, <1>3, <1>4
<1> QED BY <1>1, <1>2, <1>5, CleanAction

\* ... and the one when the engine's queue is full.
LEMMA RetryStep == IInv /\ Retry => IInv'
<1> SUFFICES ASSUME IInv, Retry PROVE IInv'
  OBVIOUS
<1>1. PICK L, E, U, P, H, X, y : Whole(L, E, U, P, H, X, y)
  BY DEF IInv
<1>2. sub # <<>> /\ gie_clean_dma_jobs(Logged) /\ left' = Wanted /\ UNCHANGED <<ring, sub>>
  BY DEF Retry
<1>3. WorkOf(Logged, Wanted, sub, hw, L, E, U, P, H)
  BY <1>1, <1>2, LoggedIs
<1>4. PICK js, l : js = Logged /\ l = Wanted
  OBVIOUS
<1>5. WorkOf(js, l, sub, hw, L, E, U, P, H) /\ gie_clean_dma_jobs(js) /\ left' = l
  BY <1>2, <1>3, <1>4
<1> QED BY <1>1, <1>2, <1>5, CleanAction

-----------------------------------------------------------------------------
(* The DMA engine *)

\* A function that starts below k and gets to k crosses it.
LEMMA Crossing ==
  ASSUME NEW M \in Nat, NEW f \in [0 .. M -> Nat], NEW k \in Nat, f[0] < k, k <= f[M]
  PROVE  \E i \in 1 .. M : f[i - 1] < k /\ k <= f[i]
<1> DEFINE S == {j \in 0 .. M : k <= f[j]}
<1>1. S \in SUBSET Nat /\ S # {}
  OBVIOUS
<1>2. \E x \in S : \A y \in S : x <= y
  <2> HIDE DEF S
  <2> QED BY <1>1, NatMin
<1>3. PICK m \in S : \A y \in S : m <= y
  BY <1>2
<1>4. m # 0 /\ m \in 0 .. M /\ k <= f[m]
  OBVIOUS
<1>5. m \in 1 .. M /\ m - 1 \in 0 .. M /\ ~(m <= m - 1)
  BY <1>4
<1>6. ~(k <= f[m - 1])
  BY <1>3, <1>5
<1>7. f[m - 1] \in Nat
  BY <1>5
<1>8. f[m - 1] < k
  BY <1>6, <1>7
<1> HIDE DEF S
<1> QED BY <1>4, <1>5, <1>8

\* The job a descriptor in flight belongs to, and what it copies.
LEMMA JobOf ==
  ASSUME NEW js, NEW l, NEW s, NEW h, NEW L, NEW E, NEW U, NEW P, NEW H, WorkOf(js, l, s, h, L, E, U, P, H),
         NEW k \in h.done + 1 .. Len(h.descs)
  PROVE  \E i \in 1 .. Len(L) : /\ E[i - 1] < k /\ k <= E[i] /\ JobOk(L[i])
                                /\ Claim(L, U, P, H, i, h.descs[k])
<1>1. /\ Len(js) \in Nat /\ l \in Nat /\ Len(h.descs) \in Nat /\ h.done \in 0 .. Len(h.descs)
      /\ Len(L) \in Nat /\ Len(js) <= Len(L) /\ E[Len(js)] = Len(h.descs) + l
  BY WorkIs
<1>2. Typed(L, E, U, P) /\ Steps(L, E, U, P) /\ Descs(js, l, h, L, E, U, P, H)
  BY DEF WorkOf
<1>3. k \in Nat /\ 0 < k /\ k <= Len(h.descs)
  BY <1>1
<1> DEFINE N == Len(js)
<1> DEFINE f == [i \in 0 .. N |-> E[i]]
<1>4. f \in [0 .. N -> Nat] /\ f[0] < k /\ k <= f[N] /\ N \in Nat /\ \A i \in 0 .. N : f[i] = E[i]
  <2>1. \A i \in 0 .. N : i \in 0 .. Len(L)
    BY <1>1
  <2>2. E[0] = 0 /\ E \in [0 .. Len(L) -> Nat]
    BY <1>2 DEF Steps, Typed
  <2>3. N \in Nat /\ k <= E[N]
    BY <1>1, <1>3
  <2>4. \A i \in 0 .. N : f[i] = E[i] /\ E[i] \in Nat
    BY <2>1, <2>2
  <2> HIDE DEF N
  <2>5. 0 \in 0 .. N /\ N \in 0 .. N
    BY <2>3
  <2>6. f \in [0 .. N -> Nat]
    BY <2>4
  <2> HIDE DEF f
  <2> QED BY <2>2, <2>3, <2>4, <2>5, <2>6, <1>3
<1> HIDE DEF f
<1>5. PICK i \in 1 .. N : f[i - 1] < k /\ k <= f[i]
  <2> HIDE DEF N
  <2>1. \E i \in 1 .. N : f[i - 1] < k /\ k <= f[i]
    BY <1>3, <1>4, Crossing
  <2> QED BY <2>1 DEF N
<1>6. i \in 0 .. N /\ i - 1 \in 0 .. N /\ i \in 1 .. Len(L)
  BY <1>1
<1>7. E[i - 1] < k /\ k <= E[i]
  BY <1>4, <1>5, <1>6
<1>8. Claim(L, U, P, H, i, h.descs[k])
  BY <1>2, <1>7 DEF Descs
<1>9. JobOk(L[i])
  BY <1>2, <1>6 DEF Steps
<1> QED BY <1>6, <1>7, <1>8, <1>9

\* A descriptor that copies c elements from position x of the ring src on.
Run(d, src, dst, x, c) ==
  /\ d.op = "qe" /\ d.src = src /\ d.dst = dst
  /\ x \in Nat /\ c \in Nat /\ d.first = x % Len_(src) /\ d.cnt = c
  /\ (x % Len_(src)) + c <= Len_(src)

\* What a descriptor of job j may be.
Effect(j, U, P, H, M, i, d) ==
  \/ d.op = "buf" /\ ~(j.flag = "update" /\ j.src = "host_tx")
  \/ \E src, dst \in Queues, x, c \in Nat :
       /\ Run(d, src, dst, x, c)
       /\ \/ dst \in {"shadow", "host_rx"} /\ ~(j.flag = "update" /\ j.src = "host_tx")
          \/ /\ "egress" \in Pairs /\ src = "host_tx" /\ dst = "lcl_rx"
             /\ \/ j.flag = "update" /\ j.src = "host_tx" /\ x = U["host_tx"][i - 1] /\ c = j.epd
                \/ j.flag # "update" /\ P["egress"][i - 1] <= x /\ x + c <= H["egress"]

\* A descriptor of a job is one of these.
LEMMA EffectIs ==
  ASSUME NEW L, NEW U, NEW P, NEW H, NEW i, NEW d, Claim(L, U, P, H, i, d), NEW j, j = L[i], JobOk(j),
         \A x \in Queues : U[x][i - 1] \in Nat,
         \A p \in Pairs : P[p][i - 1] \in Nat, H \in [Pairs -> Nat]
  PROVE  Effect(j, U, P, H, Len(L), i, d)
<1>1. j \in Job /\ j.src \in Queues /\ j.dst \in Queues /\ j.epd \in Nat
  BY DEF JobOk, Job
<1>2. CASE j.flag = "update"
  <2> DEFINE src == j.src
  <2> DEFINE x == U[src][i - 1]
  <2>1. /\ d = [op |-> "qe", src |-> src, dst |-> j.dst, first |-> x % Len_(src), cnt |-> j.epd]
        /\ d.first + d.cnt <= Len_(src)
    BY <1>2 DEF Claim
  <2>2. x \in Nat
    BY <1>1
  <2>3. \/ "egress" \in Pairs /\ src = "host_tx" /\ j.dst = "lcl_rx"
        \/ j.dst = "shadow" /\ src = "host_bp"
    BY <1>2, Names DEF JobOk, ForPair, ForShadow
  <2>x. x = U[src][i - 1] /\ src = j.src
    OBVIOUS
  <2> HIDE DEF x, src
  <2>4. Run(d, src, j.dst, x, j.epd)
    <3>1. d.op = "qe" /\ d.src = src /\ d.dst = j.dst /\ d.first = x % Len_(src) /\ d.cnt = j.epd
      BY <2>1
    <3> QED BY <3>1, <2>1, <2>2, <1>1 DEF Run
  <2>5. CASE "egress" \in Pairs /\ src = "host_tx" /\ j.dst = "lcl_rx"
    <3>1. x = U["host_tx"][i - 1]
      BY <2>5, <2>x
    <3> QED BY <3>1, <2>4, <2>5, <2>2, <2>x, <1>1, <1>2 DEF Effect
  <2>6. CASE j.dst = "shadow" /\ src = "host_bp"
    BY <2>6, <2>4, <2>2, <2>x, <1>1 DEF Effect
  <2> QED BY <2>3, <2>5, <2>6
<1>3. CASE j.flag # "update"
  <2>1. PICK p \in Pairs : j.src = Src[p] /\ j.dst = Dst[p]
    BY <1>3 DEF JobOk, ForPair
  <2>2. CopyFrom(p, P[p][i - 1], H[p], d)
    BY <1>3, <2>1 DEF Claim
  <2>3. CASE \E x \in P[p][i - 1] .. H[p] - 1 : \E b : d = [op |-> "buf", src |-> <<Src[p], x % QLen>>, dst |-> b]
    <3>1. d.op = "buf"
      BY <2>3
    <3> QED BY <3>1, <1>3 DEF Effect
  <2>4. CASE \E x \in P[p][i - 1] .. H[p] - 1, n \in Nat :
               /\ x + n <= H[p] /\ (x % QLen) + n <= QLen
               /\ d = [op |-> "qe", src |-> Src[p], dst |-> Dst[p], first |-> x % QLen, cnt |-> n]
    <3>1. PICK x \in P[p][i - 1] .. H[p] - 1, n \in Nat :
               /\ x + n <= H[p] /\ (x % QLen) + n <= QLen
               /\ d = [op |-> "qe", src |-> Src[p], dst |-> Dst[p], first |-> x % QLen, cnt |-> n]
      BY <2>4
    <3>2. x \in Nat /\ P[p][i - 1] <= x
      <4> DEFINE a == P[p][i - 1]
      <4> DEFINE b == H[p]
      <4>1. a \in Nat /\ b \in Nat /\ x \in a .. b - 1
        OBVIOUS
      <4> HIDE DEF a, b
      <4>2. x \in Nat /\ a <= x
        BY <4>1
      <4> QED BY <4>2 DEF a
    <3>3. Len_(Src[p]) = QLen /\ Src[p] \in Queues /\ Dst[p] \in Queues
      BY Names
    <3>4. Run(d, Src[p], Dst[p], x, n)
      <4>1. d.op = "qe" /\ d.src = Src[p] /\ d.dst = Dst[p] /\ d.first = x % QLen /\ d.cnt = n
        BY <3>1
      <4> QED BY <4>1, <3>1, <3>2, <3>3 DEF Run
    <3>5. CASE p = "egress"
      <4>1. Src[p] = "host_tx" /\ Dst[p] = "lcl_rx" /\ P["egress"][i - 1] <= x /\ x + n <= H["egress"]
        BY <3>5, <3>1, <3>2, Names
      <4> QED BY <4>1, <3>2, <3>3, <3>4, <3>5, <1>3 DEF Effect
    <3>6. CASE p = "ingress"
      <4>1. Dst[p] = "host_rx"
        BY <3>6, Names
      <4> QED BY <4>1, <3>2, <3>3, <3>4, <1>3 DEF Effect
    <3> QED BY <3>5, <3>6, PairIs
  <2> QED BY <2>2, <2>3, <2>4 DEF CopyFrom
<1> QED BY <1>2, <1>3

\* One more completion.
LEMMA Completing ==
  ASSUME NEW js, NEW l, NEW s, NEW h, NEW L, NEW E, NEW U, NEW P, NEW H, WorkOf(js, l, s, h, L, E, U, P, H),
         h.done < Len(h.descs), NEW h2, h2 = [h EXCEPT !.done = @ + 1]
  PROVE  WorkOf(js, l, s, h2, L, E, U, P, H) /\ h2.done = h.done + 1
<1>1. /\ h = [descs |-> h.descs, done |-> h.done] /\ Len(h.descs) \in Nat /\ h.done \in 0 .. Len(h.descs)
  BY WorkIs
<1>2. h2.done = h.done + 1 /\ h2.descs = h.descs /\ h2 = [descs |-> h2.descs, done |-> h2.done]
  BY <1>1
<1>3. Descs(js, l, h, L, E, U, P, H)
  BY DEF WorkOf
<1>4. h2.done \in 0 .. Len(h2.descs) /\ \A k \in h2.done + 1 .. Len(h2.descs) : k \in h.done + 1 .. Len(h.descs)
  BY <1>1, <1>2
<1>5. Descs(js, l, h2, L, E, U, P, H)
  BY <1>2, <1>3, <1>4 DEF Descs
<1> QED BY <1>2, <1>5 DEF WorkOf

\* What such a descriptor does to the rings.
LEMMA RunEffect ==
  ASSUME RingOk, NEW d, NEW src \in Queues, NEW dst \in Queues, NEW x, NEW c, Run(d, src, dst, x, c),
         Execute(d)
  PROVE  /\ RingOk' /\ \A z \in Queues : z # dst => ring'[z] = ring[z]
         /\ \A i \in 0 .. Len_(dst) - 1 : ring'[dst][i] =
              IF i \in (x % Len_(src)) .. (x % Len_(src)) + c - 1 THEN ring[src][i] ELSE ring[dst][i]
<1> DEFINE run == d.first .. d.first + d.cnt - 1
<1> DEFINE g == [i \in DOMAIN ring[dst] |-> IF i \in run THEN ring[src][i] ELSE ring[dst][i]]
<1>1. d.op = "qe" /\ d.src = src /\ d.dst = dst
  BY DEF Run
<1>2. ring' = [ring EXCEPT ![dst] = g]
  BY <1>1 DEF Execute
<1>3. DOMAIN ring = Queues /\ \A z \in Queues : DOMAIN ring[z] = 0 .. Len_(z) - 1
  BY DEF RingOk
<1>4. DOMAIN g = 0 .. Len_(dst) - 1
  BY <1>3
<1>5. \A i \in 0 .. Len_(dst) - 1 : g[i] = IF i \in run THEN ring[src][i] ELSE ring[dst][i]
  BY <1>3
<1>6. run = (x % Len_(src)) .. (x % Len_(src)) + c - 1
  BY DEF Run
<1> HIDE DEF g, run
<1>7. /\ DOMAIN ring' = Queues /\ ring'[dst] = g /\ \A z \in Queues : z # dst => ring'[z] = ring[z]
  BY <1>2, <1>3
<1>8. \A z \in Queues : DOMAIN ring'[z] = 0 .. Len_(z) - 1
  BY <1>3, <1>4, <1>7
<1>9. RingOk'
  BY <1>7, <1>8 DEF RingOk
<1> QED BY <1>5, <1>6, <1>7, <1>9

\* r2 is r with a run of r0 copied over it.
Copied(Q, x, c, r0, r, r2) ==
  \A i \in 0 .. Q - 1 : r2[i] = IF i \in (x % Q) .. (x % Q) + c - 1 THEN r0[i] ELSE r[i]

\* Copying a run that holds what its producer wrote leaves, behind what was
\* copied before, the same in the destination.
LEMMA Overwritten ==
  ASSUME NEW Q \in Nat \ {0}, NEW x \in Nat, NEW c \in Nat, (x % Q) + c <= Q,
         NEW r0, NEW r, NEW r2, NEW nm, Copied(Q, x, c, r0, r, r2),
         NEW lo \in Nat, NEW lim \in Nat, Written(Q, lo, lim, r0, nm), lo <= x, x + c <= lim,
         NEW a \in Nat, NEW hi \in Nat, Written(Q, a, hi, r, nm)
  PROVE  Written(Q, a, hi, r2, nm) /\ (hi = x => Written(Q, a, x + c, r2, nm))
<1> DEFINE Good(i) == r2[i].buf = <<nm, i>>
<1>1. ASSUME NEW i \in (x % Q) .. (x % Q) + c - 1 PROVE i \in 0 .. Q - 1 /\ Good(i)
  <2>1. PICK z \in Nat : x <= z /\ z < x + c /\ i = z % Q
    BY ZenonT(30), RunOf
  <2>2. z \in lo .. lim - 1
    BY <2>1
  <2>3. r0[i].buf = <<nm, i>>
    BY <2>1, <2>2 DEF Written
  <2>4. i \in 0 .. Q - 1
    <3>1. z % Q \in 0 .. Q - 1
      BY ModRange
    <3> QED BY <2>1, <3>1
  <2>5. r2[i] = r0[i]
    BY <2>4 DEF Copied
  <2> QED BY <2>3, <2>4, <2>5
<1>2. ASSUME NEW i \in 0 .. Q - 1, r[i].buf = <<nm, i>> PROVE Good(i)
  <2>1. CASE i \in (x % Q) .. (x % Q) + c - 1
    BY <2>1, <1>1
  <2>2. CASE i \notin (x % Q) .. (x % Q) + c - 1
    <3>1. r2[i] = r[i]
      BY <2>2 DEF Copied
    <3> QED BY <3>1, <1>2
  <2> QED BY <2>1, <2>2
<1>3. ASSUME NEW z \in a .. hi - 1 PROVE Good(z % Q)
  <2> DEFINE i == z % Q
  <2>1. r[i].buf = <<nm, i>> /\ z \in Nat
    <3>1. \A w \in a .. hi - 1 : r[w % Q].buf = <<nm, w % Q>>
      BY DEF Written
    <3>2. z \in Nat
      OBVIOUS
    <3> QED BY <3>1, <3>2
  <2>2. i \in 0 .. Q - 1
    BY <2>1, ModRange
  <2> HIDE DEF i
  <2>3. Good(i)
    BY <2>1, <2>2, <1>2
  <2> QED BY <2>3 DEF i
<1>4. ASSUME NEW z \in x .. x + c - 1 PROVE Good(z % Q)
  <2>1. z \in Nat /\ x <= z /\ z < x + c
    OBVIOUS
  <2>2. z % Q \in (x % Q) .. (x % Q) + c - 1
    BY <2>1, RunIn
  <2> DEFINE i == z % Q
  <2> HIDE DEF i
  <2>3. i \in (x % Q) .. (x % Q) + c - 1
    BY <2>2 DEF i
  <2>4. Good(i)
    BY <2>3, <1>1
  <2> QED BY <2>4 DEF i
<1>5. Written(Q, a, hi, r2, nm)
  BY <1>3 DEF Written
<1>6. hi = x => Written(Q, a, x + c, r2, nm)
  <2> SUFFICES ASSUME hi = x, NEW z \in a .. (x + c) - 1 PROVE Good(z % Q)
    BY DEF Written
  <2>1. z \in a .. hi - 1 \/ z \in x .. x + c - 1
    OBVIOUS
  <2> HIDE DEF Good
  <2> QED BY <2>1, <1>3, <1>4
<1> QED BY <1>5, <1>6

\* Dma completes one descriptor: it writes a destination ring behind the GIE's
\* index, the shadow, or a buffer.
LEMMA DmaStep == IInv /\ Dma => IInv'
<1> SUFFICES ASSUME IInv, Dma PROVE IInv'
  OBVIOUS
<1>1. PICK L, E, U, P, H, X, y : Whole(L, E, U, P, H, X, y)
  BY DEF IInv
<1> DEFINE M == Len(L)
<1>2. /\ WorkOf(jobs, left, sub, hw, L, E, U, P, H)
      /\ Typed(L, E, U, P) /\ Steps(L, E, U, P) /\ H \in [Pairs -> Nat] /\ M \in Nat
      /\ IndexOk /\ Heads(U) /\ X \in [Pairs -> Spot]
      /\ (\A p \in Pairs : PairOk(p, U, P, H, M, X[p]))
      /\ RingOk /\ (\A p \in Pairs : Sent(p, P, H, X[p].sp)) /\ Arrived(E, U, H, M, hw.done)
  BY <1>1, Parts
<1>n. PICK n, d : n = hw.done /\ d = hw.descs[hw.done + 1]
  OBVIOUS
<1>3. /\ n < Len(hw.descs) /\ Execute(d) /\ hw' = [hw EXCEPT !.done = @ + 1]
      /\ UNCHANGED <<q, msg, jobs, sub, left>>
  BY <1>n DEF Dma
<1>4. Len(hw.descs) \in Nat /\ n \in Nat /\ n + 1 \in hw.done + 1 .. Len(hw.descs)
  <2>1. Len(hw.descs) \in Nat /\ hw.done \in 0 .. Len(hw.descs)
    BY <1>2, WorkIs
  <2> QED BY <2>1, <1>n, <1>3
<1>5. PICK i \in 1 .. M : E[i - 1] < n + 1 /\ n + 1 <= E[i] /\ JobOk(L[i]) /\ Claim(L, U, P, H, i, d)
  <2>1. \E i \in 1 .. Len(L) : /\ E[i - 1] < n + 1 /\ n + 1 <= E[i] /\ JobOk(L[i])
                               /\ Claim(L, U, P, H, i, hw.descs[n + 1])
    BY <1>2, <1>4, JobOf
  <2> QED BY <2>1, <1>n
<1>6. WorkOf(jobs', left', sub', hw', L, E, U, P, H) /\ hw'.done = n + 1
  <2> DEFINE h2 == [hw EXCEPT !.done = @ + 1]
  <2>1. h2 = [hw EXCEPT !.done = @ + 1] /\ hw' = h2
    BY <1>3
  <2> HIDE DEF h2
  <2>2. hw.done < Len(hw.descs)
    BY <1>n, <1>3
  <2>3. WorkOf(jobs, left, sub, h2, L, E, U, P, H) /\ h2.done = hw.done + 1
    BY <1>2, <2>1, <2>2, Completing
  <2> QED BY <2>1, <2>3, <1>n, <1>3
<1> DEFINE j == L[i]
<1>7. /\ \A k \in 0 .. M : E[k] \in Nat /\ (\A p \in Pairs : P[p][k] \in Nat)
                                /\ (\A x \in Queues : U[x][k] \in Nat)
      /\ \A k \in 1 .. M : /\ JobOk(L[k]) /\ E[k] = E[k - 1] + L[k].descs
                           /\ L[k].descs \in Nat /\ L[k].descs >= 1 /\ L[k].epd \in Nat
      /\ \A k, m \in 0 .. M : k <= m => /\ E[k] <= E[m]
                                        /\ \A p \in Pairs : P[p][k] <= P[p][m]
                                        /\ \A x \in Queues : U[x][k] <= U[x][m]
      /\ \A k, m \in 0 .. M : k < m => E[k] < E[m]
  BY <1>2, StepsAre
<1>8. i - 1 \in 0 .. M /\ i \in 0 .. M /\ 0 \in 0 .. M /\ M \in 0 .. M /\ 0 <= i - 1 /\ i <= M
  BY <1>2
<1>9. Effect(j, U, P, H, M, i, d)
  <2>1. (\A x \in Queues : U[x][i - 1] \in Nat) /\ (\A p \in Pairs : P[p][i - 1] \in Nat)
    BY <1>7, <1>8
  <2>2. j = L[i] /\ JobOk(j)
    BY <1>5
  <2> HIDE DEF j
  <2> QED BY <2>1, <2>2, <1>2, <1>5, EffectIs
<1>10. \A x \in Queues : U[x][i] = U[x][i - 1] + Upd(j, x)
  BY <1>2 DEF Steps
<1>m. M = Len(L)
  OBVIOUS
<1> HIDE DEF j, M
<1>11. "egress" \in Pairs => "host_tx" \in Queues /\ "lcl_rx" \in Queues /\ Len_("host_tx") = QLen /\ Len_("lcl_rx") = QLen
  BY Names
<1>12. QLen \in Nat \ {0}
  BY Params
\* What is in place before the step.
<1>13. "egress" \in Pairs => Written(QLen, H["egress"], U["host_tx"][i - 1], ring["lcl_rx"], "host_tx")
  <2> SUFFICES ASSUME "egress" \in Pairs
               PROVE  Written(QLen, H["egress"], U["host_tx"][i - 1], ring["lcl_rx"], "host_tx")
    OBVIOUS
  <2>1. E[i - 1] <= n
    BY <1>4, <1>5, <1>7, <1>8
  <2> QED BY <2>1, <1>2, <1>8, <1>n DEF Arrived, Written
<1>14. "egress" \in Pairs =>
         /\ Written(QLen, P["egress"][0], X["egress"].sp, ring["host_tx"], "host_tx")
         /\ P["egress"][0] \in Nat /\ X["egress"].sp \in Nat /\ H["egress"] \in Nat
         /\ P["egress"][0] <= H["egress"] /\ H["egress"] <= X["egress"].sp
         /\ H["egress"] <= U["host_tx"][0] /\ U["host_tx"][M] <= X["egress"].sp
  <2> SUFFICES ASSUME "egress" \in Pairs
               PROVE  /\ Written(QLen, P["egress"][0], X["egress"].sp, ring["host_tx"], "host_tx")
                      /\ P["egress"][0] \in Nat /\ X["egress"].sp \in Nat /\ H["egress"] \in Nat
                      /\ P["egress"][0] <= H["egress"] /\ H["egress"] <= X["egress"].sp
                      /\ H["egress"] <= U["host_tx"][0] /\ U["host_tx"][M] <= X["egress"].sp
    OBVIOUS
  <2> DEFINE p == "egress"
  <2>1. Sent(p, P, H, X[p].sp)
    BY <1>2
  <2>2. Src["egress"] = "host_tx"
    BY Names
  <2>3. Written(QLen, P["egress"][0], X["egress"].sp, ring["host_tx"], "host_tx")
    BY <2>1, <2>2 DEF Sent, Written
  <2>4. PairOk("egress", U, P, H, M, X["egress"])
    BY <1>2
  <2>5. H["egress"] <= U["host_tx"][0] /\ U["host_tx"][M] = X["egress"].qt
    BY <2>2, <2>4 DEF PairOk, PairAt
  <2>6. /\ X[p].qt \in Nat /\ X[p].tl \in Nat /\ X[p].sp \in Nat
        /\ P[p][0] \in Nat /\ H[p] \in Nat /\ P[p][0] <= H[p]
        /\ H[p] <= X[p].qt /\ X[p].qt <= X[p].tl /\ X[p].tl <= X[p].sp
    BY <1>1, PairNum
  <2>7. H[p] <= X[p].sp /\ X[p].qt <= X[p].sp
    BY <2>6
  <2> QED BY <2>3, <2>5, <2>6, <2>7
\* The effect on the rings.
<1> DEFINE Fine ==
      /\ RingOk' /\ (\A p \in Pairs : ring'[Src[p]] = ring[Src[p]])
      /\ "egress" \in Pairs =>
           /\ Written(QLen, H["egress"], U["host_tx"][i - 1], ring'["lcl_rx"], "host_tx")
           /\ Written(QLen, H["egress"], U["host_tx"][i], ring'["lcl_rx"], "host_tx")
<1>15. ASSUME ~(j.flag = "update" /\ j.src = "host_tx"), "egress" \in Pairs
       PROVE  U["host_tx"][i] = U["host_tx"][i - 1]
  <2>1. Upd(j, "host_tx") = 0
    BY <1>15 DEF Upd
  <2>2. U["host_tx"][i] = U["host_tx"][i - 1] + 0 /\ U["host_tx"][i - 1] \in Nat
    BY <2>1, <1>7, <1>8, <1>10, <1>11, <1>15
  <2> QED BY <2>2
<1>16. Fine
  <2>1. CASE d.op = "buf" /\ ~(j.flag = "update" /\ j.src = "host_tx")
    <3>1. UNCHANGED ring
      BY <2>1, <1>3 DEF Execute
    <3> QED BY <3>1, <2>1, <1>2, <1>13, <1>15 DEF RingOk
  <2>2. ASSUME NEW src \in Queues, NEW dst \in Queues, NEW x \in Nat, NEW c \in Nat, Run(d, src, dst, x, c),
               dst \in {"shadow", "host_rx"}, ~(j.flag = "update" /\ j.src = "host_tx")
        PROVE  Fine
    <3>1. RingOk' /\ \A z \in Queues : z # dst => ring'[z] = ring[z]
      BY <2>2, <1>2, <1>3, RunEffect
    <3>2. \A p \in Pairs : Src[p] \in Queues /\ Src[p] # dst
      BY <2>2, Names, PairIs
    <3>3. "egress" \in Pairs => ring'["lcl_rx"] = ring["lcl_rx"]
      BY <3>1, <2>2, <1>11
    <3> QED BY <3>1, <3>2, <3>3, <2>2, <1>13, <1>15
  <2>3. ASSUME NEW x \in Nat, NEW c \in Nat, Run(d, "host_tx", "lcl_rx", x, c), "egress" \in Pairs,
               \/ j.flag = "update" /\ j.src = "host_tx" /\ x = U["host_tx"][i - 1] /\ c = j.epd
               \/ j.flag # "update" /\ P["egress"][i - 1] <= x /\ x + c <= H["egress"]
        PROVE  Fine
    <3>1. /\ RingOk' /\ (\A z \in Queues : z # "lcl_rx" => ring'[z] = ring[z])
          /\ \A k \in 0 .. QLen - 1 : ring'["lcl_rx"][k] =
               IF k \in (x % QLen) .. (x % QLen) + c - 1 THEN ring["host_tx"][k] ELSE ring["lcl_rx"][k]
      BY <2>3, <1>2, <1>3, <1>11, RunEffect
    <3>2. \A p \in Pairs : Src[p] \in Queues /\ Src[p] # "lcl_rx"
      BY Names, PairIs
    <3>3. Copied(QLen, x, c, ring["host_tx"], ring["lcl_rx"], ring'["lcl_rx"]) /\ (x % QLen) + c <= QLen
      BY <3>1, <2>3, <1>11 DEF Copied, Run
    <3> DEFINE p0 == P["egress"][0]
    <3> DEFINE u == U["host_tx"][i - 1]
    <3> DEFINE h == H["egress"]
    <3> DEFINE sp == X["egress"].sp
    <3>4. /\ U["host_tx"][0] <= u /\ u <= U["host_tx"][i] /\ U["host_tx"][i] <= U["host_tx"][M] /\ p0 <= P["egress"][i - 1]
          /\ u \in Nat /\ U["host_tx"][0] \in Nat /\ U["host_tx"][i] \in Nat /\ U["host_tx"][M] \in Nat /\ P["egress"][i - 1] \in Nat
      <4>1. i - 1 <= i
        BY <1>8
      <4> QED BY <4>1, <1>7, <1>8, <1>11, <2>3
    <3>5. j.flag = "update" /\ j.src = "host_tx" => U["host_tx"][i] = u + j.epd
      <4> HIDE DEF u
      <4>1. "host_tx" \in Queues
        BY <2>3, <1>11
      <4>2. U["host_tx"][i] = U["host_tx"][i - 1] + Upd(j, "host_tx")
        BY <4>1, <1>10
      <4> QED BY <4>2 DEF Upd, u
    <3>6. p0 <= x /\ x + c <= sp /\ p0 \in Nat /\ sp \in Nat /\ h \in Nat
      <4>1. CASE j.flag = "update" /\ j.src = "host_tx" /\ x = u /\ c = j.epd
        <5>1. x = u /\ x + c = U["host_tx"][i]
          BY <4>1, <3>5
        <5> QED BY <5>1, <3>4, <1>14, <2>3
      <4>2. CASE j.flag # "update" /\ P["egress"][i - 1] <= x /\ x + c <= h
        BY <4>2, <3>4, <1>14, <2>3
      <4> QED BY <4>1, <4>2, <2>3
    <3> DEFINE r0 == ring["host_tx"]
    <3> DEFINE r == ring["lcl_rx"]
    <3> DEFINE r2 == ring'["lcl_rx"]
    <3>7. Written(QLen, p0, sp, r0, "host_tx") /\ Written(QLen, h, u, r, "host_tx") /\ Copied(QLen, x, c, r0, r, r2)
      BY <3>3, <1>13, <1>14, <2>3
    <3>8. u \in Nat
      BY <3>4
    <3> HIDE DEF p0, u, h, sp, r0, r, r2
    <3>9. Written(QLen, h, u, r2, "host_tx") /\ (u = x => Written(QLen, h, x + c, r2, "host_tx"))
      <4> DEFINE nm == "host_tx"
      <4>1. Written(QLen, p0, sp, r0, nm) /\ Written(QLen, h, u, r, nm)
        BY <3>7
      <4> HIDE DEF nm
      <4>2. Written(QLen, h, u, r2, nm) /\ (u = x => Written(QLen, h, x + c, r2, nm))
        BY <4>1, <3>3, <3>6, <3>7, <3>8, <1>12, Overwritten
      <4> QED BY <4>2 DEF nm
    <3>10. Written(QLen, h, U["host_tx"][i], r2, "host_tx")
      <4>1. CASE j.flag = "update" /\ j.src = "host_tx" /\ x = u /\ c = j.epd
        BY <4>1, <3>5, <3>9
      <4>2. CASE j.flag # "update"
        <5>1. U["host_tx"][i] = u
          BY <4>2, <1>15, <2>3 DEF u
        <5> QED BY <5>1, <3>9
      <4> QED BY <4>1, <4>2, <2>3 DEF u
    <3> QED BY <3>1, <3>2, <3>9, <3>10 DEF r2, h, u
  <2> HIDE DEF Fine
  <2> QED BY <1>9, <2>1, <2>2, <2>3 DEF Effect
<1>17. Arrived(E, U, H, M, n + 1)'
  <2> SUFFICES ASSUME "egress" \in Pairs, NEW k \in 0 .. M, E[k] <= n + 1
               PROVE  \A x \in H["egress"] .. U["host_tx"][k] - 1 :
                        ring'["lcl_rx"][x % QLen].buf = <<"host_tx", x % QLen>>
    BY DEF Arrived
  <2>1. k <= i
    <3> SUFFICES ASSUME ~(k <= i) PROVE FALSE
      OBVIOUS
    <3>1. i < k
      BY <1>8
    <3>2. E[i] < E[k] /\ E[i] \in Nat /\ E[k] \in Nat
      BY <3>1, <1>7, <1>8
    <3> QED BY <3>2, <1>4, <1>5
  <2>2. CASE k = i
    BY <2>2, <1>16 DEF Written
  <2>3. CASE k # i
    <3>1. k <= i - 1
      BY <2>1, <2>3, <1>8
    <3>2. U["host_tx"][k] <= U["host_tx"][i - 1] /\ U["host_tx"][k] \in Nat /\ U["host_tx"][i - 1] \in Nat
      BY <3>1, <1>7, <1>8, <1>11
    <3>3. H["egress"] \in Nat
      BY <1>2
    <3>4. \A x \in H["egress"] .. U["host_tx"][k] - 1 : x \in H["egress"] .. U["host_tx"][i - 1] - 1
      BY <3>2, <3>3
    <3> QED BY <3>4, <1>16 DEF Written
  <2> QED BY <2>2, <2>3
<1>18. Whole(L, E, U, P, H, X, y)'
  <2>1. \A p \in Pairs : Sent(p, P, H, X[p].sp)'
    BY <1>2, <1>16 DEF Sent
  <2>2. Arrived(E, U, H, Len(L), hw.done)'
    BY <1>6, <1>17, <1>m DEF Arrived
  <2>3. RingOk'
    BY <1>16
  <2> HIDE DEF Fine
  <2> QED BY <2>1, <2>2, <2>3, <1>1, <1>3, <1>6 DEF Whole, IndexOk, Heads, PairOk, ShadowOk
<1> QED BY <1>18 DEF IInv

-----------------------------------------------------------------------------
(* The GIE thread has built what is to be submitted *)

\* The shadow and the pool it is filled from, like PairAt.
ShadowAt(b, s, u0, uM, y) ==
  /\ s.head = y.sh % BpLen /\ s.tail = y.st % BpLen
  /\ b.head = y.st % BpLen /\ b.qe_tail = uM % BpLen
  /\ y.st <= u0 /\ uM - y.st < BpLen
  /\ FillFits => y.sh <= y.st /\ uM - y.sh < BpLen

\* The GIE thread has built what is to be submitted next.
LEMMA Built ==
  ASSUME NEW L, NEW E, NEW U, NEW P, NEW G, WorkOf(jobs, 0, <<>>, hw, L, E, U, P, G),
         NEW u, NEW w, Grown(jobs, hw, L, E, U, P, G, sub', u, w),
         left = 0, UNCHANGED <<hw, jobs, left>>,
         Heads(U), \A x \in Queues : q'[x].qe_head = q[x].qe_head,
         IndexOk', RingOk',
         NEW X, X \in [Pairs -> Spot], NEW y, y \in [sh: Nat, st: Nat],
         \A p \in Pairs : PairAt(p, q'[Src[p]], q'[Dst[p]], msg'[Src[p]], msg'[Dst[p]],
                                 U[Src[p]][0], u[Src[p]], P[p][0], w[p], G[p], X[p]),
         "ingress" \in CopyPayload =>
            ShadowAt(q'["host_bp"], q'["shadow"], U["host_bp"][0], u["host_bp"], y),
         \A p \in Pairs : Sent(p, P, G, X[p].sp)',
         Arrived(E, U, G, Len(L), hw.done)'
  PROVE  IInv'
<1>0. /\ Len(L) \in Nat /\ Len(L) = Len(jobs) /\ E[Len(L)] = Len(hw.descs) /\ Len(hw.descs) \in Nat
      /\ hw.done \in 0 .. Len(hw.descs)
  <2>1. /\ Len(L) = SubAt(jobs, 0, Len(<<>>)) /\ E[Len(jobs)] = Len(hw.descs) + 0
        /\ Len(L) \in Nat /\ Len(hw.descs) \in Nat /\ hw.done \in 0 .. Len(hw.descs) /\ Len(jobs) \in Nat
    <3> DEFINE s == <<>>
    <3> DEFINE z == 0
    <3>1. WorkOf(jobs, z, s, hw, L, E, U, P, G)
      OBVIOUS
    <3> HIDE DEF s, z
    <3>2. /\ Len(L) = SubAt(jobs, z, Len(s)) /\ E[Len(jobs)] = Len(hw.descs) + z
          /\ Len(L) \in Nat /\ Len(hw.descs) \in Nat /\ hw.done \in 0 .. Len(hw.descs) /\ Len(jobs) \in Nat
      BY <3>1, WorkIs
    <3> QED BY <3>2 DEF s, z
  <2>2. Len(L) = Len(jobs)
    BY <2>1, EmptyIs DEF SubAt
  <2> QED BY <2>1, <2>2
<1>1. PICK L2, E2, U2, P2 :
        /\ WorkOf(jobs, 0, sub', hw, L2, E2, U2, P2, G)
        /\ Ext(L, E, U, P, L2, E2, U2, P2)
        /\ \A x \in Queues : U2[x][Len(L2)] = u[x]
        /\ \A p \in Pairs : P2[p][Len(L2)] = w[p]
  BY DEF Grown
<1>2. /\ Len(L2) \in Nat /\ Len(L) <= Len(L2) /\ 0 \in 0 .. Len(L)
      /\ \A i \in 0 .. Len(L) : E2[i] = E[i] /\ (\A x \in Queues : U2[x][i] = U[x][i])
                                             /\ (\A p \in Pairs : P2[p][i] = P[p][i])
      /\ \A i \in Len(L) + 1 .. Len(L2) : E2[i] > E[Len(L)]
  BY <1>0, <1>1 DEF Ext
<1>3. (\A x \in Queues : U2[x][0] = U[x][0]) /\ \A p \in Pairs : P2[p][0] = P[p][0]
  BY <1>2
<1>4. WorkOf(jobs', left', sub', hw', L2, E2, U2, P2, G)
  BY <1>1
<1>5. Heads(U2)'
  BY <1>3 DEF Heads
<1>6. \A p \in Pairs : PairOk(p, U2, P2, G, Len(L2), X[p])'
  <2> SUFFICES ASSUME NEW p \in Pairs PROVE PairOk(p, U2, P2, G, Len(L2), X[p])'
    OBVIOUS
  <2>1. Src[p] \in Queues
    BY Names
  <2>2. /\ U2[Src[p]][0] = U[Src[p]][0] /\ P2[p][0] = P[p][0]
        /\ U2[Src[p]][Len(L2)] = u[Src[p]] /\ P2[p][Len(L2)] = w[p]
    BY <2>1, <1>1, <1>3
  <2> QED BY <2>2 DEF PairOk
<1>7. ShadowOk(U2, Len(L2), y)'
  <2> SUFFICES ASSUME "ingress" \in CopyPayload PROVE ShadowOk(U2, Len(L2), y)'
    BY DEF ShadowOk
  <2>1. "host_bp" \in Queues
    BY Names, Params
  <2>2. U2["host_bp"][0] = U["host_bp"][0] /\ U2["host_bp"][Len(L2)] = u["host_bp"]
    BY <2>1, <1>1, <1>3
  <2> QED BY <2>2 DEF ShadowOk, ShadowAt
<1>8. \A p \in Pairs : Sent(p, P2, G, X[p].sp)'
  BY <1>3 DEF Sent
<1>9. Arrived(E2, U2, G, Len(L2), hw.done)'
  <2> SUFFICES ASSUME "egress" \in Pairs, NEW i \in 0 .. Len(L2), E2[i] <= hw.done
               PROVE  \A x \in G["egress"] .. U2["host_tx"][i] - 1 :
                        ring'["lcl_rx"][x % QLen].buf = <<"host_tx", x % QLen>>
    BY DEF Arrived
  <2>1. i \in 0 .. Len(L)
    <3> DEFINE M == Len(L)
    <3> DEFINE N == Len(L2)
    <3>1. M \in Nat /\ N \in Nat /\ i \in 0 .. N /\ \A k \in M + 1 .. N : E2[k] > E[M]
      BY <1>0, <1>2
    <3>2. E[M] \in Nat /\ hw.done <= E[M] /\ hw.done \in Nat
      BY <1>0
    <3> HIDE DEF M, N
    <3>3. i \in M + 1 .. N => E2[i] > E[M]
      BY <3>1
    <3>4. i \in M + 1 .. N => FALSE
      <4>1. ASSUME i \in M + 1 .. N PROVE FALSE
        <5>1. E2[i] > E[M] /\ E2[i] <= hw.done
          BY <3>3, <4>1
        <5>2. E2[i] \in Nat
          <6>1. Typed(L2, E2, U2, P2) /\ i \in 0 .. Len(L2)
            BY <1>1, <3>1 DEF WorkOf, N
          <6> QED BY <6>1 DEF Typed
        <5> QED BY <5>1, <5>2, <3>2
      <4> QED BY <4>1
    <3>5. i \in 0 .. M
      BY <3>1, <3>4
    <3> QED BY <3>5 DEF M
  <2>2. E2[i] = E[i] /\ U2["host_tx"][i] = U["host_tx"][i]
    BY <2>1, <1>2, Names
  <2> QED BY <2>1, <2>2 DEF Arrived
<1>10. Whole(L2, E2, U2, P2, G, X, y)'
  BY <1>4, <1>5, <1>6, <1>7, <1>8, <1>9 DEF Whole, Spot
<1> QED BY <1>10 DEF IInv

-----------------------------------------------------------------------------
(* gie_process_remote_q, phase one *)

\* The room qes_copy_space finds.
LEMMA CopySpaceIs ==
  ASSUME NEW Q \in Nat \ {0}, NEW a \in Nat, NEW b \in Nat, a <= b, b - a < Q,
         NEW d, d.head = a % Q, d.qe_tail = b % Q
  PROVE  qes_copy_space(d, Q) = (Q - 1) - (b - a)
<1> DEFINE r == a % Q
<1> DEFINE s == b % Q
<1>1. r \in 0 .. Q - 1 /\ s \in 0 .. Q - 1
  BY ModRange
<1>2. Occupancy(s, r, Q) = b - a
  BY OccIs
<1>3. qes_copy_space(d, Q) = (r - s + Q - 1) % Q
  BY DEF qes_copy_space
<1> HIDE DEF r, s
<1>4. b - a = IF s >= r THEN s - r ELSE s - r + Q
  BY <1>1, <1>2, OccupancyCases
<1> DEFINE z == r - s + Q - 1
<1>5. z \in 0 .. 2 * Q - 1
  BY <1>1
<1>6. z % Q = IF z < Q THEN z ELSE z - Q
  <2> HIDE DEF z
  <2> QED BY <1>5, ModWrap
<1>7. (IF z < Q THEN z ELSE z - Q) = (Q - 1) - (b - a)
  BY <1>1, <1>4
<1>8. qes_copy_space(d, Q) = z % Q
  BY <1>3
<1> QED BY <1>6, <1>7, <1>8

\* An occupancy is less than a round.
LEMMA OccNum ==
  ASSUME NEW Q \in Nat \ {0}, NEW a \in Nat, NEW b \in Nat
  PROVE  Occupancy(a % Q, b % Q, Q) \in 0 .. Q - 1
<1> DEFINE r == a % Q
<1> DEFINE s == b % Q
<1>1. r \in 0 .. Q - 1 /\ s \in 0 .. Q - 1
  BY ModRange
<1> HIDE DEF r, s
<1>2. Occupancy(r, s, Q) \in 0 .. Q - 1
  BY <1>1, OccupancyCases
<1> QED BY <1>2 DEF r, s

\* The bounds of gie_clip_batch.
LEMMA ClipIs ==
  ASSUME NEW a \in Nat, NEW b \in Nat, NEW d, d.tail = a % QLen, d.head = b % QLen, NEW n \in Nat
  PROVE  /\ gie_clip_batch(d, n) \in Nat /\ gie_clip_batch(d, n) <= n /\ gie_clip_batch(d, n) <= Batch
         /\ gie_clip_batch(d, n) <= (QLen - 1) - Occupancy(a % QLen, b % QLen, QLen)
         /\ gie_clip_batch(d, n) < QLen
<1> DEFINE o == Occupancy(a % QLen, b % QLen, QLen)
<1>1. o \in 0 .. QLen - 1 /\ QLen \in Nat \ {0} /\ Batch \in Nat \ {0}
  BY Params, OccNum
<1>2. gie_clip_batch(d, n) = Lesser(Lesser(n, Batch), QLen - o - 1)
  BY DEF gie_clip_batch, q_space, q_occupancy
<1> HIDE DEF o
<1>3. QLen - o - 1 \in Nat
  BY <1>1
<1>4. QED BY <1>1, <1>2, <1>3 DEF Lesser, o

\* Two queues change.
LEMMA TwoQueues ==
  ASSUME q \in [Queues -> QIdx], NEW a \in Queues, NEW b \in Queues, a # b, NEW v \in QIdx, NEW w \in QIdx,
         q' = [q EXCEPT ![a] = v, ![b] = w], v.qe_head = q[a].qe_head, w.qe_head = q[b].qe_head
  PROVE  /\ q' \in [Queues -> QIdx] /\ q'[a] = v /\ q'[b] = w
         /\ (\A x \in Queues : x # a /\ x # b => q'[x] = q[x])
         /\ \A x \in Queues : q'[x].qe_head = q[x].qe_head
<1>1. q' = [x \in Queues |-> IF x = b THEN w ELSE IF x = a THEN v ELSE q[x]]
  OBVIOUS
<1>2. q'[a] = v /\ q'[b] = w /\ \A x \in Queues : x # a /\ x # b => q'[x] = q[x]
  BY <1>1
<1>3. \A x \in Queues : q'[x] \in QIdx
  BY <1>1
<1>4. \A x \in Queues : q'[x].qe_head = q[x].qe_head
  <2> SUFFICES ASSUME NEW x \in Queues PROVE q'[x].qe_head = q[x].qe_head
    OBVIOUS
  <2>1. CASE x = a
    BY <2>1, <1>2
  <2>2. CASE x = b
    BY <2>2, <1>2
  <2>3. CASE x # a /\ x # b
    BY <2>3, <1>2
  <2> QED BY <2>1, <2>2, <2>3
<1> QED BY <1>1, <1>2, <1>3, <1>4

\* The GIE reads the words of the notification area.
ReadWords(s, d, ms, md, x, s2, d2, x2) ==
  /\ s2 = [s EXCEPT !.tail = ms.prod] /\ d2 = [d EXCEPT !.head = md.cons]
  /\ x2 = [rd |-> x.rd, sd |-> x.rd, qt |-> x.qt, tl |-> x.sp, sp |-> x.sp]

\* Both ends are read again: sd becomes rd, tl becomes sp.
LEMMA Reread ==
  ASSUME NEW p, NEW s \in QIdx, NEW d \in QIdx, NEW ms, NEW md, NEW u0, NEW uM, NEW p0 \in Nat, NEW pM,
         NEW h \in Nat, p0 <= h,
         NEW x \in Spot, PairAt(p, s, d, ms, md, u0, uM, p0, pM, h, x), ms.prod \in Nat, md.cons \in Nat,
         NEW s2, NEW d2, NEW x2, ReadWords(s, d, ms, md, x, s2, d2, x2)
  PROVE  /\ PairAt(p, s2, d2, ms, md, u0, uM, p0, pM, h, x2)
         /\ s2 \in QIdx /\ d2 \in QIdx /\ x2 \in Spot
         /\ s2.qe_head = s.qe_head /\ d2.qe_head = d.qe_head
<1>1. /\ s2.tail = ms.prod /\ s2.head = s.head /\ s2.qe_tail = s.qe_tail /\ s2.qe_head = s.qe_head /\ s2 \in QIdx
      /\ d2.head = md.cons /\ d2.tail = d.tail /\ d2.qe_tail = d.qe_tail /\ d2.qe_head = d.qe_head /\ d2 \in QIdx
  BY DEF QIdx, ReadWords
<1>2. /\ x.rd \in Nat /\ x.sd \in Nat /\ x.qt \in Nat /\ x.tl \in Nat /\ x.sp \in Nat /\ x2 \in Spot
      /\ x2.rd = x.rd /\ x2.sd = x.rd /\ x2.qt = x.qt /\ x2.tl = x.sp /\ x2.sp = x.sp
  BY DEF Spot, ReadWords
<1>3. /\ md.cons = x.rd % QLen /\ d.head = x.sd % QLen
      /\ ms.cons = p0 % QLen /\ md.prod = p0 % QLen
      /\ s.head = h % QLen /\ d.tail = h % QLen
      /\ s.tail = x.tl % QLen /\ ms.prod = x.sp % QLen
      /\ p = "egress" => /\ h <= u0 /\ uM = x.qt
                         /\ s.qe_tail = x.qt % QLen /\ d.qe_tail = x.qt % QLen
      /\ p = "ingress" => x.qt = h
  BY DEF PairAt
<1>4. /\ x.sd <= x.rd /\ x.rd <= p0 /\ pM = h
      /\ h <= x.qt /\ x.qt <= x.tl /\ x.tl <= x.sp
      /\ x.sp - p0 < QLen /\ x.qt - x.sd < QLen /\ QLen \in Nat
  BY Params DEF PairAt
<1>5. x.rd <= x.rd /\ x.qt <= x.sp /\ x.sp <= x.sp /\ x.qt - x.rd < QLen
  BY <1>2, <1>4
<1>6. PairAt(p, s2, d2, ms, md, u0, uM, p0, pM, h, x2)
  BY <1>1, <1>2, <1>3, <1>4, <1>5 DEF PairAt
<1> QED BY <1>1, <1>2, <1>6

\* QEs are copied ahead of the buffers.
CopiedOn(s, d, x, n, v, s2, d2, x2) ==
  /\ v = (x.qt + n) % QLen /\ s2 = [s EXCEPT !.qe_tail = v] /\ d2 = [d EXCEPT !.qe_tail = v]
  /\ x2 = [rd |-> x.rd, sd |-> x.sd, qt |-> x.qt + n, tl |-> x.tl, sp |-> x.sp]
RoomFor(x, n) == x.qt + n <= x.tl /\ (x.qt + n) - x.sd < QLen

\* qe_tail of both ends moves on by n.
LEMMA CopyOn ==
  ASSUME NEW p, p = "egress", NEW s \in QIdx, NEW d \in QIdx, NEW ms, NEW md, NEW u0, NEW uM, NEW p0, NEW pM,
         NEW h \in Nat,
         NEW x \in Spot, PairAt(p, s, d, ms, md, u0, uM, p0, pM, h, x),
         NEW n \in Nat, RoomFor(x, n), NEW uN, uN = uM + n,
         NEW v, NEW s2, NEW d2, NEW x2, CopiedOn(s, d, x, n, v, s2, d2, x2)
  PROVE  /\ PairAt(p, s2, d2, ms, md, u0, uN, p0, pM, h, x2)
         /\ s2 \in QIdx /\ d2 \in QIdx /\ x2 \in Spot
         /\ s2.qe_head = s.qe_head /\ d2.qe_head = d.qe_head
<1>2. /\ x.rd \in Nat /\ x.sd \in Nat /\ x.qt \in Nat /\ x.tl \in Nat /\ x.sp \in Nat /\ x2 \in Spot
      /\ x2.rd = x.rd /\ x2.sd = x.sd /\ x2.qt = x.qt + n /\ x2.tl = x.tl /\ x2.sp = x.sp
  BY DEF Spot, CopiedOn
<1>v. v \in Nat
  <2> DEFINE z == x.qt + n
  <2>1. z \in Nat /\ QLen \in Nat \ {0}
    BY <1>2, Params
  <2> HIDE DEF z
  <2>2. z % QLen \in Nat
    BY <2>1, ModNat
  <2> QED BY <2>2 DEF z, CopiedOn
<1>1. /\ s2.tail = s.tail /\ s2.head = s.head /\ s2.qe_tail = v /\ s2.qe_head = s.qe_head /\ s2 \in QIdx
      /\ d2.head = d.head /\ d2.tail = d.tail /\ d2.qe_tail = v /\ d2.qe_head = d.qe_head /\ d2 \in QIdx
  BY <1>v DEF QIdx, CopiedOn
<1>3. /\ md.cons = x.rd % QLen /\ d.head = x.sd % QLen
      /\ ms.cons = p0 % QLen /\ md.prod = p0 % QLen
      /\ s.head = h % QLen /\ d.tail = h % QLen
      /\ s.tail = x.tl % QLen /\ ms.prod = x.sp % QLen
      /\ h <= u0 /\ uM = x.qt
      /\ x.sd <= x.rd /\ x.rd <= p0 /\ pM = h /\ h <= x.qt /\ x.tl <= x.sp /\ x.sp - p0 < QLen
  BY DEF PairAt
<1>4. h <= x.qt + n /\ uM + n = x.qt + n
  BY <1>2, <1>3
<1>5. PairAt(p, s2, d2, ms, md, u0, uN, p0, pM, h, x2)
  <2>1. s2.qe_tail = x2.qt % QLen /\ d2.qe_tail = x2.qt % QLen
    BY <1>1, <1>2 DEF CopiedOn
  <2>2. h <= x2.qt /\ x2.qt <= x2.tl /\ x2.qt - x2.sd < QLen /\ uN = x2.qt
    BY <1>2, <1>4 DEF RoomFor
  <2> QED BY <2>1, <2>2, <1>1, <1>2, <1>3 DEF PairAt
<1> QED BY <1>1, <1>2, <1>5

\* Nothing more is submitted.
LEMMA GrownSame ==
  ASSUME NEW js, NEW s, NEW h, NEW L, NEW E, NEW U, NEW P, NEW H, WorkOf(js, 0, s, h, L, E, U, P, H)
  PROVE  Grown(js, h, L, E, U, P, H, s, EndsU(U, Len(L)), Ends(P, Len(L)))
<1>1. Len(L) \in Nat
  <2> DEFINE z == 0
  <2>1. WorkOf(js, z, s, h, L, E, U, P, H)
    OBVIOUS
  <2> HIDE DEF z
  <2> QED BY <2>1, WorkIs
<1>2. Ext(L, E, U, P, L, E, U, P)
  BY <1>1 DEF Ext
<1>3. (\A x \in Queues : U[x][Len(L)] = EndsU(U, Len(L))[x]) /\ \A p \in Pairs : P[p][Len(L)] = Ends(P, Len(L))[p]
  BY DEF EndsU, Ends
<1> QED BY <1>2, <1>3 DEF Grown

\* Nothing is being submitted.
LEMMA Idle ==
  ASSUME NEW L, NEW E, NEW U, NEW P, NEW H, NEW X, NEW y, Whole(L, E, U, P, H, X, y), sub = <<>>
  PROVE  left = 0 /\ WorkOf(jobs, 0, <<>>, hw, L, E, U, P, H)
<1>1. WorkOf(jobs, left, sub, hw, L, E, U, P, H)
  BY Parts
<1>2. left = 0
  BY <1>1, NothingLeft
<1> QED BY <1>1, <1>2

\* What a pair is like for the handlers.
LEMMA PairData ==
  ASSUME NEW L, NEW E, NEW U, NEW P, NEW H, NEW X, NEW y, Whole(L, E, U, P, H, X, y), NEW p \in Pairs
  PROVE  /\ PairAt(p, q[Src[p]], q[Dst[p]], msg[Src[p]], msg[Dst[p]],
                   U[Src[p]][0], U[Src[p]][Len(L)], P[p][0], P[p][Len(L)], H[p], X[p])
         /\ q[Src[p]] \in QIdx /\ q[Dst[p]] \in QIdx /\ X[p] \in Spot
         /\ msg[Src[p]].prod \in Nat /\ msg[Dst[p]].cons \in Nat /\ msg[Src[p]].cons \in Nat /\ msg[Dst[p]].prod \in Nat
         /\ U[Src[p]][0] \in Nat /\ U[Src[p]][Len(L)] \in Nat /\ P[p][0] \in Nat /\ H[p] \in Nat /\ P[p][0] <= H[p]
         /\ P[p][Len(L)] = H[p]
<1>1. /\ PairOk(p, U, P, H, Len(L), X[p]) /\ IndexOk /\ X \in [Pairs -> Spot] /\ Typed(L, E, U, P)
      /\ Len(L) \in 0 .. Len(L) /\ 0 \in 0 .. Len(L)
  BY Parts
<1>2. Src[p] \in Queues /\ Dst[p] \in Queues
  BY Names
<1>3. q[Src[p]] \in QIdx /\ q[Dst[p]] \in QIdx /\ msg[Src[p]] \in Words /\ msg[Dst[p]] \in Words
  BY <1>1, <1>2 DEF IndexOk
<1>4. U[Src[p]][0] \in Nat /\ U[Src[p]][Len(L)] \in Nat
  BY <1>1, <1>2 DEF Typed
<1>5. P[p][0] \in Nat /\ H[p] \in Nat /\ P[p][0] <= H[p] /\ P[p][Len(L)] = H[p]
  <2>1. P[p][0] \in Nat /\ H[p] \in Nat /\ P[p][0] <= H[p]
    BY PairNum
  <2>2. P[p][Len(L)] = H[p]
    BY <1>1 DEF PairOk, PairAt
  <2> QED BY <2>1, <2>2
<1>6. X[p] \in Spot
  BY <1>1
<1>7. /\ msg[Src[p]].prod \in Nat /\ msg[Dst[p]].cons \in Nat /\ msg[Src[p]].cons \in Nat /\ msg[Dst[p]].prod \in Nat
  BY <1>3 DEF Words
<1>8. PairAt(p, q[Src[p]], q[Dst[p]], msg[Src[p]], msg[Dst[p]],
                   U[Src[p]][0], U[Src[p]][Len(L)], P[p][0], P[p][Len(L)], H[p], X[p])
  BY <1>1 DEF PairOk
<1> QED BY <1>3, <1>4, <1>5, <1>6, <1>7, <1>8

\* How far the rings are, for gie_process_remote_q.
Apart3(a, b, c, h) ==
  a \in Nat /\ b \in Nat /\ c \in Nat /\ h \in Nat /\ a <= b /\ b - a < QLen /\ b <= c /\ c - b < QLen

ReadAt(s, d, a, b, c, h) ==
  /\ s.tail = c % QLen /\ s.qe_tail = b % QLen /\ d.head = a % QLen /\ d.qe_tail = b % QLen
  /\ d.tail = h % QLen
ToCopy(s, d) == Lesser(qes_to_copy(s, QLen), qes_copy_space(d, QLen))
Clipped(d, want) == IF want > 0 THEN gie_clip_batch(d, want) ELSE 0

\* gie_process_remote_q copies no more than there are, than the destination
\* has room for, and than a batch.
LEMMA CountIs ==
  ASSUME NEW a, NEW b, NEW c, NEW h, Apart3(a, b, c, h), NEW s, NEW d, ReadAt(s, d, a, b, c, h),
         NEW want, want = ToCopy(s, d), NEW n, n = Clipped(d, want)
  PROVE  n \in Nat /\ b + n <= c /\ (b + n) - a < QLen /\ n <= QLen
<1>0. QLen \in Nat \ {0}
  BY Params
<1> SUFFICES ASSUME NEW A \in Nat, NEW B \in Nat, NEW C \in Nat, NEW G \in Nat, A = a, B = b, C = c, G = h
             PROVE n \in Nat /\ B + n <= C /\ (B + n) - A < QLen /\ n <= QLen
  BY DEF Apart3
<1>1. A <= B /\ B - A < QLen /\ B <= C /\ C - B < QLen
  BY DEF Apart3
<1>2. s.tail = C % QLen /\ s.qe_tail = B % QLen /\ d.head = A % QLen /\ d.qe_tail = B % QLen
      /\ d.tail = G % QLen
  BY DEF ReadAt
<1>5. qes_to_copy(s, QLen) = C - B
  <2>2. Occupancy(C % QLen, B % QLen, QLen) = C - B
    BY <1>0, <1>1, OccIs
  <2>3. qes_to_copy(s, QLen) = Occupancy(s.tail, s.qe_tail, QLen)
    BY DEF qes_to_copy, Occupancy
  <2> QED BY <2>2, <2>3, <1>2
<1>6. qes_copy_space(d, QLen) = (QLen - 1) - (B - A)
  BY <1>0, <1>1, <1>2, CopySpaceIs
<1>7. want \in Nat /\ want <= C - B /\ want <= (QLen - 1) - (B - A)
  BY <1>0, <1>1, <1>5, <1>6 DEF Lesser, ToCopy
<1>8. n \in Nat /\ n <= want
  <2>1. CASE want > 0
    <3>1. n = gie_clip_batch(d, want)
      BY <2>1 DEF Clipped
    <3>3. gie_clip_batch(d, want) \in Nat /\ gie_clip_batch(d, want) <= want
      BY <1>2, <1>7, ClipIs
    <3> QED BY <3>1, <3>3
  <2>2. CASE ~(want > 0)
    BY <2>2, <1>7 DEF Clipped
  <2> QED BY <2>1, <2>2
<1> QED BY <1>0, <1>1, <1>7, <1>8

\* The same, for the positions of the pair.
LEMMA RemoteCount ==
  ASSUME NEW p, p = "egress", NEW s \in QIdx, NEW d \in QIdx, NEW ms, NEW md, NEW u0, NEW uM, NEW p0 \in Nat,
         NEW pM, NEW h \in Nat, p0 <= h, NEW x \in Spot, PairAt(p, s, d, ms, md, u0, uM, p0, pM, h, x),
         NEW want, want = ToCopy(s, d), NEW n, n = Clipped(d, want)
  PROVE  n \in Nat /\ x.qt + n <= x.tl /\ (x.qt + n) - x.sd < QLen /\ n <= QLen
<1>1. /\ x.rd \in Nat /\ x.sd \in Nat /\ x.qt \in Nat /\ x.tl \in Nat /\ x.sp \in Nat /\ QLen \in Nat \ {0}
  BY Params DEF Spot
<1>2. /\ x.sd <= x.rd /\ x.rd <= p0 /\ h <= x.qt /\ x.qt <= x.tl /\ x.tl <= x.sp
      /\ x.sp - p0 < QLen /\ x.qt - x.sd < QLen
  BY DEF PairAt
<1>3. Apart3(x.sd, x.qt, x.tl, h)
  BY <1>1, <1>2 DEF Apart3
<1>4. ReadAt(s, d, x.sd, x.qt, x.tl, h)
  BY DEF ReadAt, PairAt
<1> QED BY <1>3, <1>4, CountIs

\* Nothing and a sequence.
LEMMA EmptyCat == ASSUME NEW t, IsSeq(t) PROVE <<>> \o t = t
<1> DEFINE s == <<>>
<1>1. IsSeq(s) /\ Len(s) = 0
  BY EmptyIs
<1> HIDE DEF s
<1>2. /\ IsSeq(s \o t) /\ Len(s \o t) = Len(s) + Len(t)
      /\ \A i \in 1 .. Len(t) : (s \o t)[Len(s) + i] = t[i]
  BY <1>1, CatIs
<1>3. Len(t) \in Nat
  BY DEF IsSeq
<1>4. Len(s \o t) = Len(t) /\ \A i \in 1 .. Len(t) : (s \o t)[i] = t[i]
  <2> DEFINE m == Len(t)
  <2> DEFINE z == s \o t
  <2>1. m \in Nat /\ Len(s) = 0 /\ Len(z) = Len(s) + m /\ \A i \in 1 .. m : z[Len(s) + i] = t[i]
    BY <1>1, <1>2, <1>3
  <2> HIDE DEF m, z
  <2>2. \A i \in 1 .. m : Len(s) + i = i
    BY <2>1
  <2>3. Len(z) = m /\ \A i \in 1 .. m : z[i] = t[i]
    BY <2>1, <2>2
  <2> QED BY <2>3 DEF m, z
<1>5. s \o t = t
  BY <1>2, <1>4, SameSeq
<1> QED BY <1>5 DEF s

\* A sequence of two.
LEMMA TwoIs == ASSUME NEW e, NEW g PROVE IsSeq(<<e, g>>)
<1>1. <<e, g>> \in Seq({e, g})
  OBVIOUS
<1> QED BY <1>1, SeqIs

\* gie_copy_qes builds a sequence.
LEMMA CopySeq ==
  ASSUME NEW src, NEW dst, NEW n, NEW f, NEW flag, NEW hd, NEW tl, NEW t, t = gie_copy_qes(src, dst, n, f, flag, hd, tl)
  PROVE  IsSeq(t)
BY OneIs, TwoIs DEF gie_copy_qes

\* Only the indices of the ends of pair p change, to v and z.
EndsTo(p, v, z) ==
  /\ q' = [q EXCEPT ![Src[p]] = v, ![Dst[p]] = z]
  /\ v.qe_head = q[Src[p]].qe_head /\ z.qe_head = q[Dst[p]].qe_head

\* A handler that moves indices of one pair only, and what it submits, keep
\* the invariant.
LEMMA RemoteBuilt ==
  ASSUME NEW L, NEW E, NEW U, NEW P, NEW H, NEW X, NEW y, Whole(L, E, U, P, H, X, y), sub = <<>>,
         NEW p0 \in Pairs, UNCHANGED <<msg, ring, hw, jobs, left>>,
         NEW v \in QIdx, NEW z \in QIdx, EndsTo(p0, v, z),
         NEW n \in Nat, NEW x2 \in Spot, x2.sp = X[p0].sp,
         PairAt(p0, v, z, msg[Src[p0]], msg[Dst[p0]], U[Src[p0]][0], U[Src[p0]][Len(L)] + n,
                P[p0][0], P[p0][Len(L)], H[p0], x2),
         Grown(jobs, hw, L, E, U, P, H, sub', Plus(U, Len(L), Src[p0], n), Ends(P, Len(L)))
  PROVE  IInv'
<1> DEFINE M == Len(L)
<1> DEFINE u == Plus(U, M, Src[p0], n)
<1> DEFINE w == Ends(P, M)
<1> DEFINE X2 == Put(X, p0, x2)
<1>1. /\ IndexOk /\ Heads(U) /\ X \in [Pairs -> Spot] /\ y \in [sh: Nat, st: Nat]
      /\ (\A p \in Pairs : PairOk(p, U, P, H, M, X[p])) /\ ShadowOk(U, M, y)
      /\ RingOk /\ (\A p \in Pairs : Sent(p, P, H, X[p].sp)) /\ Arrived(E, U, H, M, hw.done)
  BY Parts
<1>2. left = 0 /\ WorkOf(jobs, 0, <<>>, hw, L, E, U, P, H)
  BY Idle
<1>3. /\ q' \in [Queues -> QIdx] /\ q'[Src[p0]] = v /\ q'[Dst[p0]] = z
      /\ (\A x \in Queues : x # Src[p0] /\ x # Dst[p0] => q'[x] = q[x])
      /\ \A x \in Queues : q'[x].qe_head = q[x].qe_head
  <2>1. q \in [Queues -> QIdx] /\ Src[p0] \in Queues /\ Dst[p0] \in Queues /\ Src[p0] # Dst[p0]
    BY <1>1, Names, Apart DEF IndexOk
  <2> QED BY <2>1, TwoQueues DEF EndsTo
<1>4. X2 \in [Pairs -> Spot] /\ X2[p0] = x2 /\ \A p \in Pairs : p # p0 => X2[p] = X[p]
  BY <1>1, PutIs
<1>u. /\ \A x \in Queues : u[x] = IF x = Src[p0] THEN U[x][M] + n ELSE U[x][M]
      /\ \A p \in Pairs : w[p] = P[p][M]
  BY DEF Plus, Ends
<1> HIDE DEF X2, u, w, M
<1>5. IndexOk' /\ RingOk'
  BY <1>1, <1>3 DEF IndexOk, RingOk
<1>6. ASSUME NEW p \in Pairs
      PROVE  PairAt(p, q'[Src[p]], q'[Dst[p]], msg'[Src[p]], msg'[Dst[p]],
                    U[Src[p]][0], u[Src[p]], P[p][0], w[p], H[p], X2[p])
  <2>1. Src[p] \in Queues /\ Dst[p] \in Queues
    BY Names
  <2>2. CASE p = p0
    <3>1. u[Src[p0]] = U[Src[p0]][M] + n /\ w[p0] = P[p0][M]
      BY <2>1, <2>2, <1>u
    <3>2. PairAt(p0, v, z, msg[Src[p0]], msg[Dst[p0]], U[Src[p0]][0], U[Src[p0]][M] + n,
                P[p0][0], P[p0][M], H[p0], x2)
      BY DEF M
    <3> QED BY <2>2, <3>1, <3>2, <1>3, <1>4
  <2>3. CASE p # p0
    <3>1. Src[p] # Src[p0] /\ Src[p] # Dst[p0] /\ Dst[p] # Src[p0] /\ Dst[p] # Dst[p0]
      BY <2>3, Apart
    <3>2. q'[Src[p]] = q[Src[p]] /\ q'[Dst[p]] = q[Dst[p]]
      BY <2>1, <3>1, <1>3
    <3>3. u[Src[p]] = U[Src[p]][M] /\ w[p] = P[p][M] /\ X2[p] = X[p]
      BY <2>1, <2>3, <3>1, <1>u, <1>4
    <3>4. PairOk(p, U, P, H, M, X[p])
      BY <1>1
    <3> QED BY <3>2, <3>3, <3>4 DEF PairOk
  <2> QED BY <2>2, <2>3
<1>7. ASSUME "ingress" \in CopyPayload
      PROVE ShadowAt(q'["host_bp"], q'["shadow"], U["host_bp"][0], u["host_bp"], y)
  <2>1. "host_bp" \in Queues /\ "shadow" \in Queues
    BY <1>7, Names, Params
  <2>2. Src[p0] # "host_bp" /\ Dst[p0] # "host_bp" /\ Src[p0] # "shadow" /\ Dst[p0] # "shadow"
    BY Names, PairIs
  <2>3. q'["host_bp"] = q["host_bp"] /\ q'["shadow"] = q["shadow"] /\ u["host_bp"] = U["host_bp"][M]
    BY <2>1, <2>2, <1>3, <1>u
  <2> QED BY <2>3, <1>1, <1>7 DEF ShadowOk, ShadowAt
<1>8. \A p \in Pairs : Sent(p, P, H, X2[p].sp)'
  <2>1. \A p \in Pairs : X2[p].sp = X[p].sp
    BY <1>4
  <2> QED BY <2>1, <1>1 DEF Sent
<1>9. Arrived(E, U, H, Len(L), hw.done)'
  BY <1>1 DEF Arrived, M
<1>10. Grown(jobs, hw, L, E, U, P, H, sub', u, w)
  BY DEF u, w, M
<1>11. \A x \in Queues : q'[x].qe_head = q[x].qe_head
  BY <1>3
<1> QED BY <1>1, <1>2, <1>4, <1>5, <1>6, <1>7, <1>8, <1>9, <1>10, <1>11, Built

\* gie_process_remote_q, phase one, moves tl, sd and qt.
LEMMA RemoteStep == ASSUME NEW p0 \in Pairs PROVE IInv /\ ProcessRemoteQ(p0) => IInv'
<1> SUFFICES ASSUME IInv, ProcessRemoteQ(p0) PROVE IInv'
  OBVIOUS
<1>1. PICK L, E, U, P, H, X, y : Whole(L, E, U, P, H, X, y)
  BY DEF IInv
<1>2. PICK src, dst, s, d : /\ src = Src[p0] /\ dst = Dst[p0]
                            /\ s = [q[src] EXCEPT !.tail = msg[src].prod]
                            /\ d = [q[dst] EXCEPT !.head = msg[dst].cons]
  OBVIOUS
<1>3. PICK n : n = Clipped(d, ToCopy(s, d))
  OBVIOUS
<1>4. /\ p0 = "egress" /\ sub = <<>>
      /\ UNCHANGED <<msg, ring, hw, jobs, left>>
      /\ \/ q' = [q EXCEPT ![src] = s, ![dst] = d] /\ UNCHANGED sub
         \/ /\ q' = [q EXCEPT ![src] = [s EXCEPT !.qe_tail = Ahead(@, n, src)],
                               ![dst] = [d EXCEPT !.qe_tail = Ahead(@, n, dst)]]
            /\ sub' = IF n > 0 THEN gie_copy_qes(src, dst, n, s.qe_tail, "update", 0, 0) ELSE <<>>
  BY <1>2, <1>3 DEF ProcessRemoteQ, Clipped, ToCopy
<1> DEFINE M == Len(L)
<1>5. left = 0 /\ WorkOf(jobs, 0, <<>>, hw, L, E, U, P, H)
  BY <1>1, <1>4, Idle
<1> DEFINE x1 == [rd |-> X[p0].rd, sd |-> X[p0].rd, qt |-> X[p0].qt, tl |-> X[p0].sp, sp |-> X[p0].sp]
<1>6. /\ PairAt(p0, q[src], q[dst], msg[src], msg[dst],
                U[src][0], U[src][M], P[p0][0], P[p0][M], H[p0], X[p0])
      /\ q[src] \in QIdx /\ q[dst] \in QIdx /\ X[p0] \in Spot
      /\ msg[src].prod \in Nat /\ msg[dst].cons \in Nat
      /\ U[src][0] \in Nat /\ U[src][M] \in Nat /\ P[p0][0] \in Nat /\ H[p0] \in Nat /\ P[p0][0] <= H[p0]
  BY <1>1, <1>2, PairData
<1>7. /\ PairAt(p0, s, d, msg[src], msg[dst], U[src][0], U[src][M], P[p0][0], P[p0][M], H[p0], x1)
      /\ s \in QIdx /\ d \in QIdx /\ x1 \in Spot
      /\ s.qe_head = q[src].qe_head /\ d.qe_head = q[dst].qe_head
  <2> DEFINE a == q[src]
  <2> DEFINE b == q[dst]
  <2> DEFINE ms == msg[src]
  <2> DEFINE md == msg[dst]
  <2> DEFINE u0 == U[src][0]
  <2> DEFINE uM == U[src][M]
  <2> DEFINE b0 == P[p0][0]
  <2> DEFINE bM == P[p0][M]
  <2> DEFINE h == H[p0]
  <2> DEFINE x == X[p0]
  <2>1. ReadWords(a, b, ms, md, x, s, d, x1)
    BY <1>2 DEF ReadWords
  <2>2. /\ a \in QIdx /\ b \in QIdx /\ b0 \in Nat /\ h \in Nat /\ b0 <= h /\ x \in Spot
        /\ PairAt(p0, a, b, ms, md, u0, uM, b0, bM, h, x) /\ ms.prod \in Nat /\ md.cons \in Nat
    BY <1>6
  <2> HIDE DEF x1, M, a, b, ms, md, u0, uM, b0, bM, h, x
  <2>3. /\ PairAt(p0, s, d, ms, md, u0, uM, b0, bM, h, x1)
        /\ s \in QIdx /\ d \in QIdx /\ x1 \in Spot /\ s.qe_head = a.qe_head /\ d.qe_head = b.qe_head
    BY <2>1, <2>2, Reread
  <2> QED BY <2>3 DEF a, b, ms, md, u0, uM, b0, bM, h, x
<1>x. x1.sp = X[p0].sp
  OBVIOUS
<1> HIDE DEF x1
<1>8. n \in Nat /\ x1.qt + n <= x1.tl /\ (x1.qt + n) - x1.sd < QLen /\ n <= QLen
  BY <1>3, <1>4, <1>6, <1>7, RemoteCount
<1>9. Src[p0] \in Queues /\ Dst[p0] \in Queues /\ Len_(Src[p0]) = QLen /\ Len_(Dst[p0]) = QLen
  BY Names
<1>10. CASE q' = [q EXCEPT ![src] = s, ![dst] = d] /\ UNCHANGED sub
  <2> DEFINE z == 0
  <2>1. Grown(jobs, hw, L, E, U, P, H, sub', Plus(U, M, src, z), Ends(P, M))
    <3>1. Grown(jobs, hw, L, E, U, P, H, <<>>, EndsU(U, M), Ends(P, M))
      BY <1>5, GrownSame
    <3>2. sub' = <<>>
      BY <1>4, <1>10
    <3>3. \A x \in Queues : Plus(U, M, src, 0)[x] = EndsU(U, M)[x]
      <4> SUFFICES ASSUME NEW x \in Queues PROVE Plus(U, M, src, 0)[x] = EndsU(U, M)[x]
        OBVIOUS
      <4>1. Plus(U, M, src, 0)[x] = IF x = src THEN U[x][M] + 0 ELSE U[x][M]
        BY DEF Plus
      <4>2. EndsU(U, M)[x] = U[x][M]
        BY DEF EndsU
      <4>3. U[src][M] + 0 = U[src][M]
        BY <1>6
      <4> QED BY <4>1, <4>2, <4>3
    <3>4. Grown(jobs, hw, L, E, U, P, H, <<>>, Plus(U, M, src, 0), Ends(P, M))
      BY <3>1, <3>3, Weaker
    <3> QED BY <3>2, <3>4
  <2>2. PairAt(p0, s, d, msg[src], msg[dst], U[src][0], U[src][M] + z, P[p0][0], P[p0][M], H[p0], x1)
    <3>1. U[src][M] + z = U[src][M]
      BY <1>6
    <3> QED BY <3>1, <1>7
  <2>3. z \in Nat
    OBVIOUS
  <2>4. EndsTo(p0, s, d)
    BY <1>2, <1>7, <1>10 DEF EndsTo
  <2>5. UNCHANGED <<msg, ring, hw, jobs, left>> /\ s \in QIdx /\ d \in QIdx /\ x1 \in Spot /\ p0 = "egress"
    BY <1>4, <1>7
  <2> HIDE DEF z
  <2> QED BY <2>4, <2>5, <2>1, <2>2, <2>3, <1>1, <1>2, <1>4, <1>x, RemoteBuilt DEF M
<1>11. CASE /\ q' = [q EXCEPT ![src] = [s EXCEPT !.qe_tail = Ahead(@, n, src)],
                               ![dst] = [d EXCEPT !.qe_tail = Ahead(@, n, dst)]]
            /\ sub' = IF n > 0 THEN gie_copy_qes(src, dst, n, s.qe_tail, "update", 0, 0) ELSE <<>>
  <2> DEFINE v == (x1.qt + n) % QLen
  <2> DEFINE s2 == [s EXCEPT !.qe_tail = v]
  <2> DEFINE d2 == [d EXCEPT !.qe_tail = v]
  <2> DEFINE x2 == [rd |-> x1.rd, sd |-> x1.sd, qt |-> x1.qt + n, tl |-> x1.tl, sp |-> x1.sp]
  <2>1. /\ s.qe_tail = x1.qt % QLen /\ d.qe_tail = x1.qt % QLen /\ U[src][M] = x1.qt
    BY <1>4, <1>7 DEF PairAt
  <2>2. x1.qt \in Nat
    BY <1>7 DEF Spot
  <2>3. Ahead(s.qe_tail, n, src) = v /\ Ahead(d.qe_tail, n, dst) = v
    <3> DEFINE a == x1.qt
    <3>1. a \in Nat /\ n \in Nat /\ QLen \in Nat \ {0}
      BY <2>2, <1>8, Params
    <3>2. s.qe_tail = a % QLen /\ d.qe_tail = a % QLen /\ v = (a + n) % QLen
      BY <2>1
    <3> HIDE DEF a, v
    <3>3. q_idx_add(a % QLen, n, QLen) = (a + n) % QLen
      BY <3>1, AddIs
    <3> QED BY <3>2, <3>3, <1>2, <1>9 DEF Ahead
  <2>4. q' = [q EXCEPT ![src] = s2, ![dst] = d2]
    <3> HIDE DEF v
    <3>1. [s EXCEPT !.qe_tail = Ahead(@, n, src)] = s2 /\ [d EXCEPT !.qe_tail = Ahead(@, n, dst)] = d2
      BY <2>3, <1>7 DEF QIdx
    <3> HIDE DEF s2, d2
    <3> QED BY <3>1, <1>11
  <2>5. /\ PairAt(p0, s2, d2, msg[src], msg[dst], U[src][0], U[src][M] + n, P[p0][0], P[p0][M], H[p0], x2)
        /\ s2 \in QIdx /\ d2 \in QIdx /\ x2 \in Spot
        /\ s2.qe_head = s.qe_head /\ d2.qe_head = d.qe_head
    <3>1. CopiedOn(s, d, x1, n, v, s2, d2, x2)
      BY DEF CopiedOn
    <3> DEFINE ms == msg[src]
    <3> DEFINE md == msg[dst]
    <3> DEFINE u0 == U[src][0]
    <3> DEFINE uM == U[src][M]
    <3> DEFINE uN == U[src][M] + n
    <3> DEFINE b0 == P[p0][0]
    <3> DEFINE bM == P[p0][M]
    <3> DEFINE h == H[p0]
    <3>2. /\ PairAt(p0, s, d, ms, md, u0, uM, b0, bM, h, x1) /\ p0 = "egress"
          /\ s \in QIdx /\ d \in QIdx /\ x1 \in Spot /\ h \in Nat /\ n \in Nat
          /\ RoomFor(x1, n) /\ uN = uM + n
      BY <1>4, <1>6, <1>7, <1>8 DEF RoomFor
    <3> HIDE DEF v, s2, d2, x2, M, ms, md, u0, uM, uN, b0, bM, h
    <3>3. /\ PairAt(p0, s2, d2, ms, md, u0, uN, b0, bM, h, x2)
          /\ s2 \in QIdx /\ d2 \in QIdx /\ x2 \in Spot
          /\ s2.qe_head = s.qe_head /\ d2.qe_head = d.qe_head
      BY <3>1, <3>2, CopyOn
    <3> QED BY <3>3 DEF ms, md, u0, uN, b0, bM, h
  <2>6. Grown(jobs, hw, L, E, U, P, H, sub', Plus(U, M, src, n), Ends(P, M))
    <3>1. CASE n > 0
      <4> DEFINE t == gie_copy_qes(src, dst, n, s.qe_tail, "update", 0, 0)
      <4> DEFINE f == s.qe_tail
      <4>0. t = gie_copy_qes(src, dst, n, f, "update", 0, 0) /\ sub' = t
        BY <3>1, <1>11
      <4>1. f = U[src][Len(L)] % Len_(src) /\ Updates(src, dst) /\ n <= Len_(src)
        BY <2>1, <1>2, <1>4, <1>8, <1>9 DEF Updates
      <4> HIDE DEF t, f
      <4>2. IsSeq(t)
        BY <4>0, CopySeq
      <4>3. Grown(jobs, hw, L, E, U, P, H, <<>> \o t, Plus(U, Len(L), src, n), Ends(P, Len(L)))
        BY <4>0, <4>1, <1>5, <1>8, CopyUpdate
      <4> QED BY <4>0, <4>2, <4>3, EmptyCat
    <3>2. CASE ~(n > 0)
      <4>1. n = 0 /\ sub' = <<>>
        BY <3>2, <1>8, <1>11
      <4>2. Grown(jobs, hw, L, E, U, P, H, <<>>, EndsU(U, M), Ends(P, M))
        BY <1>5, GrownSame
      <4>3. \A x \in Queues : Plus(U, M, src, n)[x] = EndsU(U, M)[x]
        <5> SUFFICES ASSUME NEW x \in Queues PROVE Plus(U, M, src, n)[x] = EndsU(U, M)[x]
          OBVIOUS
        <5>1. Plus(U, M, src, n)[x] = IF x = src THEN U[x][M] + n ELSE U[x][M]
          BY DEF Plus
        <5>2. EndsU(U, M)[x] = U[x][M]
          BY DEF EndsU
        <5>3. U[src][M] + n = U[src][M]
          BY <1>6, <4>1
        <5> QED BY <5>1, <5>2, <5>3
      <4>4. Grown(jobs, hw, L, E, U, P, H, <<>>, Plus(U, M, src, n), Ends(P, M))
        BY <4>2, <4>3, Weaker
      <4> QED BY <4>1, <4>4
    <3> QED BY <3>1, <3>2
  <2>7. x2.sp = X[p0].sp /\ s2.qe_head = q[src].qe_head /\ d2.qe_head = q[dst].qe_head
    BY <2>5, <1>7, <1>x
  <2>8. EndsTo(p0, s2, d2)
    BY <2>4, <2>7, <1>2 DEF EndsTo
  <2>9. UNCHANGED <<msg, ring, hw, jobs, left>> /\ p0 = "egress" /\ sub = <<>> /\ n \in Nat
    BY <1>4, <1>8
  <2> HIDE DEF v, s2, d2, x2
  <2> QED BY <2>5, <2>6, <2>7, <2>8, <2>9, <1>1, <1>2, RemoteBuilt DEF M
<1> QED BY <1>4, <1>10, <1>11

-----------------------------------------------------------------------------
(* gie_process_remote_q, phase two *)

\* A bounded set of numbers has a greatest.
LEMMA NatMax ==
  ASSUME NEW m \in Nat, NEW S \in SUBSET (0 .. m), S # {}
  PROVE  \E x \in S : \A y \in S : y <= x
<1> DEFINE T == {m - x : x \in S}
<1>1. T \in SUBSET Nat /\ T # {}
  <2>1. \A x \in S : x \in Int /\ m - x \in Nat
    OBVIOUS
  <2>2. T \subseteq Nat
    BY <2>1
  <2>3. PICK x : x \in S
    OBVIOUS
  <2>4. m - x \in T
    BY <2>3
  <2> QED BY <2>2, <2>4
<1>2. \E z \in T : \A w \in T : z <= w
  <2> HIDE DEF T
  <2> QED BY <1>1, NatMin
<1>3. PICK z \in T : \A w \in T : z <= w
  BY <1>2
<1>4. PICK x \in S : z = m - x
  OBVIOUS
<1>5. ASSUME NEW y \in S PROVE y <= x
  <2>1. m - y \in T
    OBVIOUS
  <2>2. m - x <= m - y
    BY <1>3, <1>4, <2>1
  <2>3. x \in Int /\ y \in Int
    OBVIOUS
  <2> QED BY <2>2, <2>3
<1> QED BY <1>5

\* How many elements get a buffer.
LEMMA AcceptedIs ==
  ASSUME NEW r, NEW head, NEW limit \in Nat, NEW avail \in Nat
  PROVE  Accepted(r, head, limit, avail) \in 0 .. limit
<1> DEFINE e(k) == r[q_idx_add(head, k, QLen)]
<1> DEFINE ok(k) == /\ avail - k >= 1
                    /\ (SgEn /\ e(k).sg > 1) =>
                         /\ e(k).sg - 1 <= limit - k - 1
                         /\ avail - k >= e(k).sg
<1> DEFINE good == {n \in 0 .. limit : \A k \in 0 .. n - 1 : ok(k)}
<1>1. Accepted(r, head, limit, avail) = CHOOSE n \in good : \A m \in good : m <= n
  BY DEF Accepted
<1> HIDE DEF ok
<1>2. good \in SUBSET (0 .. limit) /\ good # {}
  <2>1. 0 \in good
    OBVIOUS
  <2> QED BY <2>1
<1>3. \A n \in good : n \in 0 .. limit
  BY <1>2
<1> HIDE DEF good
<1>4. \E n \in good : \A m \in good : m <= n
  BY <1>2, NatMax
<1> QED BY <1>1, <1>3, <1>4

\* gie_copy_buffers_r2l and gie_produce_q: the GIE's index moves on to h2, the
\* words of the notification area to p2.
MovedOn(s, d, ms, md, h2, p2, s2, d2, ms2, md2) ==
  /\ s2.tail = s.tail /\ s2.head = h2 % QLen /\ s2.qe_tail = s.qe_tail
  /\ d2.tail = h2 % QLen /\ d2.head = d.head /\ d2.qe_tail = d.qe_tail
  /\ ms2.cons = p2 % QLen /\ ms2.prod = ms.prod /\ md2.prod = p2 % QLen /\ md2.cons = md.cons

\* The GIE's index moves on to h2, what is published to p2.
LEMMA BuffersOn ==
  ASSUME NEW p, p = "egress", NEW s, NEW d, NEW ms, NEW md, NEW u0 \in Nat, NEW uM \in Nat, u0 <= uM,
         NEW p0 \in Nat, NEW pM, NEW h \in Nat,
         NEW x \in Spot, PairAt(p, s, d, ms, md, u0, uM, p0, pM, h, x),
         NEW h2 \in Nat, h <= h2, h2 <= u0, NEW p2 \in Nat, p0 <= p2,
         NEW s2, NEW d2, NEW ms2, NEW md2, MovedOn(s, d, ms, md, h2, p2, s2, d2, ms2, md2)
  PROVE  PairAt(p, s2, d2, ms2, md2, u0, uM, p2, h2, h2, x)
<1>1. x.rd \in Nat /\ x.sd \in Nat /\ x.qt \in Nat /\ x.tl \in Nat /\ x.sp \in Nat /\ QLen \in Nat
  BY Params DEF Spot
<1>2. /\ md.cons = x.rd % QLen /\ d.head = x.sd % QLen
      /\ s.tail = x.tl % QLen /\ ms.prod = x.sp % QLen
      /\ s.qe_tail = x.qt % QLen /\ d.qe_tail = x.qt % QLen
  BY DEF PairAt
<1>3. /\ x.sd <= x.rd /\ x.rd <= p0 /\ x.qt <= x.tl /\ x.tl <= x.sp /\ uM = x.qt
      /\ x.sp - p0 < QLen /\ x.qt - x.sd < QLen
  BY DEF PairAt
<1>4. x.rd <= p2 /\ x.sp - p2 < QLen /\ h2 <= x.qt
  BY <1>1, <1>3
<1> QED BY <1>2, <1>3, <1>4 DEF PairAt, MovedOn

\* What lies behind the elements that get buffers.
LEMMA RebufferedIs ==
  ASSUME NEW r, NEW head, NEW n, NEW buf
  PROVE  /\ DOMAIN Rebuffered(r, head, n, buf) = DOMAIN r
         /\ \A i \in DOMAIN r : ~(Occupancy(i, head, QLen) < n) => Rebuffered(r, head, n, buf)[i] = r[i]
BY DEF Rebuffered

\* A pair that copies no payload has no job that publishes: its position is that
\* of the GIE.
NowAt(P, p, M, c) == [o \in Pairs |-> IF o = p THEN [i \in 0 .. M |-> c] ELSE P[o]]

\* Then the position may be moved all along the log.
LEMMA Republish ==
  ASSUME NEW js, NEW l, NEW s, NEW h, NEW L, NEW E, NEW U, NEW P, NEW H, WorkOf(js, l, s, h, L, E, U, P, H),
         "egress" \in Pairs, "egress" \notin CopyPayload, NEW c \in Nat, H["egress"] <= c,
         NEW G, G = [H EXCEPT !["egress"] = c], NEW P2, P2 = NowAt(P, "egress", Len(L), c)
  PROVE  WorkOf(js, l, s, h, L, E, U, P2, G)
<1>1. /\ Logs(js, l, s, L) /\ Typed(L, E, U, P) /\ H \in [Pairs -> Nat] /\ Steps(L, E, U, P)
      /\ Descs(js, l, h, L, E, U, P, H) /\ Subs(js, l, s, L, U, P, H)
  BY DEF WorkOf
<1>2. Len(L) \in Nat
  BY WorkIs
<1>3. G \in [Pairs -> Nat] /\ (\A o \in Pairs : o # "egress" => G[o] = H[o])
  BY <1>1
<1>4. /\ P2 \in [Pairs -> [0 .. Len(L) -> Nat]]
      /\ \A i \in 0 .. Len(L) : P2["egress"][i] = c
      /\ \A o \in Pairs : o # "egress" => P2[o] = P[o]
  <2>1. \A o \in Pairs : P[o] \in [0 .. Len(L) -> Nat]
    BY <1>1 DEF Typed
  <2> QED BY <2>1 DEF NowAt
<1>5. Typed(L, E, U, P2)
  BY <1>1, <1>4 DEF Typed
<1>6. ASSUME NEW i \in 1 .. Len(L)
      PROVE  ~Carries(L[i], "egress") /\ (L[i].src = Src["egress"] => L[i].flag = "update")
  <2>1. JobOk(L[i])
    BY <1>1 DEF Steps
  <2> DEFINE j == L[i]
  <2> HIDE DEF j
  <2>2. JobOk(j)
    BY <2>1 DEF j
  <2>3. ~Carries(j, "egress") /\ (j.src = Src["egress"] => j.flag = "update")
    BY <2>2, Names DEF JobOk, Carries, ForPair, ForShadow
  <2> QED BY <2>3 DEF j
<1>7. Steps(L, E, U, P2)
  <2> SUFFICES ASSUME NEW i \in 1 .. Len(L), NEW p \in Pairs
               PROVE  /\ P2[p][i - 1] <= P2[p][i]
                      /\ IF Carries(L[i], p)
                         THEN L[i].head = P2[p][i] % QLen /\ L[i].tail = P2[p][i] % QLen
                         ELSE P2[p][i] = P2[p][i - 1]
    BY <1>1 DEF Steps
  <2>1. CASE p = "egress"
    <3>1. i - 1 \in 0 .. Len(L) /\ i \in 0 .. Len(L)
      BY <1>2
    <3>2. P2[p][i - 1] = c /\ P2[p][i] = c
      BY <3>1, <2>1, <1>4
    <3>3. ~Carries(L[i], p)
      BY <2>1, <1>6
    <3> QED BY <3>2, <3>3
  <2>2. CASE p # "egress"
    <3>1. P2[p] = P[p]
      BY <2>2, <1>4
    <3>2. /\ P[p][i - 1] <= P[p][i]
          /\ IF Carries(L[i], p)
                         THEN L[i].head = P[p][i] % QLen /\ L[i].tail = P[p][i] % QLen
                         ELSE P[p][i] = P[p][i - 1]
      BY <1>1 DEF Steps
    <3> QED BY <3>1, <3>2
  <2> QED BY <2>1, <2>2
<1>8. ASSUME NEW i \in 1 .. Len(L), NEW d, Claim(L, U, P, H, i, d)
      PROVE  Claim(L, U, P2, G, i, d)
  <2> SUFFICES ASSUME L[i].flag # "update", NEW p \in Pairs, L[i].src = Src[p]
               PROVE CopyFrom(p, P2[p][i - 1], G[p], d)
    BY <1>8 DEF Claim
  <2>1. CopyFrom(p, P[p][i - 1], H[p], d)
    BY <1>8 DEF Claim
  <2>2. p # "egress"
    BY <1>6
  <2>3. P2[p] = P[p] /\ G[p] = H[p]
    BY <2>2, <1>3, <1>4
  <2> QED BY <2>1, <2>3
<1>9. Descs(js, l, h, L, E, U, P2, G)
  <2>1. Len(js) \in Nat /\ Len(js) <= Len(L)
    BY WorkIs
  <2>2. \A i \in 1 .. Len(js) : i \in 1 .. Len(L)
    BY <1>2, <2>1
  <2> QED BY <1>1, <1>8, <2>2 DEF Descs
<1>10. Subs(js, l, s, L, U, P2, G)
  <2>1. \A m \in 1 .. Len(s) : SubAt(js, l, m) \in 1 .. Len(L)
    <3>1. Len(js) \in Nat /\ Len(s) \in Nat /\ l \in Nat /\ Len(L) = SubAt(js, l, Len(s))
      BY WorkIs
    <3>2. l > 0 => Len(js) >= 1
      BY <1>1 DEF Descs
    <3> QED BY <3>1, <3>2 DEF SubAt
  <2> QED BY <1>1, <1>8, <2>1 DEF Subs
<1> QED BY <1>1, <1>3, <1>5, <1>7, <1>9, <1>10 DEF WorkOf

\* The other queues, and what they publish, are left alone.
OnlyPair(p) ==
  /\ \A o \in Pairs : o # p => /\ q'[Src[o]] = q[Src[o]] /\ q'[Dst[o]] = q[Dst[o]]
                               /\ msg'[Src[o]] = msg[Src[o]] /\ msg'[Dst[o]] = msg[Dst[o]]
  /\ "ingress" \in CopyPayload => q'["host_bp"] = q["host_bp"] /\ q'["shadow"] = q["shadow"]

\* Phase two keeps the invariant, given what it does to the pair and to the
\* log.
LEMMA BuffersBuilt ==
  ASSUME NEW L, NEW E, NEW U, NEW P, NEW H, NEW X, NEW y, Whole(L, E, U, P, H, X, y), sub = <<>>,
         NEW p0 \in Pairs, p0 = "egress", UNCHANGED <<hw, jobs, left>>, IndexOk', RingOk', OnlyPair(p0),
         \A x \in Queues : q'[x].qe_head = q[x].qe_head,
         NEW h2 \in Nat, H[p0] <= h2, h2 <= U[Src[p0]][0], NEW G, G = [H EXCEPT ![p0] = h2],
         NEW P2, \A o \in Pairs : o # p0 => P2[o] = P[o],
         P2[p0][0] \in Nat, P[p0][0] <= P2[p0][0],
         MovedOn(q[Src[p0]], q[Dst[p0]], msg[Src[p0]], msg[Dst[p0]], h2, P2[p0][0],
                 q'[Src[p0]], q'[Dst[p0]], msg'[Src[p0]], msg'[Dst[p0]]),
         WorkOf(jobs, 0, <<>>, hw, L, E, U, P2, G),
         Grown(jobs, hw, L, E, U, P2, G, sub', EndsU(U, Len(L)), To(P2, Len(L), p0, h2)),
         \A p \in Pairs : ring'[Src[p]] = ring[Src[p]],
         \A x \in h2 .. U["host_tx"][Len(L)] - 1 : ring'["lcl_rx"][x % QLen] = ring["lcl_rx"][x % QLen]
  PROVE  IInv'
<1> DEFINE M == Len(L)
<1> DEFINE u == EndsU(U, M)
<1> DEFINE w == To(P2, M, p0, h2)
<1>1. /\ IndexOk /\ Heads(U) /\ X \in [Pairs -> Spot] /\ y \in [sh: Nat, st: Nat]
      /\ (\A p \in Pairs : PairOk(p, U, P, H, M, X[p])) /\ ShadowOk(U, M, y)
      /\ RingOk /\ (\A p \in Pairs : Sent(p, P, H, X[p].sp)) /\ Arrived(E, U, H, M, hw.done)
      /\ H \in [Pairs -> Nat] /\ Typed(L, E, U, P) /\ Steps(L, E, U, P) /\ M \in Nat
      /\ 0 \in 0 .. M /\ M \in 0 .. M
  BY Parts
<1>2. left = 0
  BY Idle
<1>3. (\A p \in Pairs : G[p] = IF p = p0 THEN h2 ELSE H[p]) /\ \A p \in Pairs : H[p] <= G[p] /\ H[p] \in Nat /\ G[p] \in Nat
  BY <1>1
<1>u. /\ \A x \in Queues : u[x] = U[x][M]
      /\ \A p \in Pairs : w[p] = IF p = p0 THEN h2 ELSE P2[p][M]
  BY DEF EndsU, To
<1>c. \A i, j \in 0 .. M : i <= j => \A x \in Queues : U[x][i] <= U[x][j] /\ U[x][i] \in Nat
  BY <1>1, StepsAre
<1> HIDE DEF u, w, M
<1>5. \A x \in Queues : U[x][0] <= U[x][M] /\ U[x][0] \in Nat /\ U[x][M] \in Nat
  <2>1. 0 \in 0 .. M /\ M \in 0 .. M /\ 0 <= M /\ M <= M
    BY <1>1
  <2> QED BY <2>1, <1>c
<1>6. ASSUME NEW p \in Pairs
      PROVE  PairAt(p, q'[Src[p]], q'[Dst[p]], msg'[Src[p]], msg'[Dst[p]],
                    U[Src[p]][0], u[Src[p]], P2[p][0], w[p], G[p], X[p])
  <2>1. Src[p] \in Queues /\ Dst[p] \in Queues
    BY Names
  <2>2. PairOk(p, U, P, H, M, X[p])
    BY <1>1
  <2>3. CASE p = p0
    <3> DEFINE s == q[Src[p]]
    <3> DEFINE d == q[Dst[p]]
    <3> DEFINE ms == msg[Src[p]]
    <3> DEFINE md == msg[Dst[p]]
    <3> DEFINE s2 == q'[Src[p]]
    <3> DEFINE d2 == q'[Dst[p]]
    <3> DEFINE ms2 == msg'[Src[p]]
    <3> DEFINE md2 == msg'[Dst[p]]
    <3> DEFINE u0 == U[Src[p]][0]
    <3> DEFINE uM == U[Src[p]][M]
    <3> DEFINE b0 == P[p][0]
    <3> DEFINE bM == P[p][M]
    <3> DEFINE b2 == P2[p][0]
    <3> DEFINE h == H[p]
    <3> DEFINE x == X[p]
    <3>1. /\ PairAt(p, s, d, ms, md, u0, uM, b0, bM, h, x)
          /\ u0 \in Nat /\ uM \in Nat /\ u0 <= uM /\ h \in Nat /\ h <= h2 /\ h2 <= u0
          /\ b2 \in Nat /\ b0 <= b2 /\ p = "egress"
      BY <2>1, <2>2, <2>3, <1>5, <1>3 DEF PairOk
    <3>2. MovedOn(s, d, ms, md, h2, b2, s2, d2, ms2, md2)
      BY <2>3
    <3>3. x \in Spot
      BY <1>1
    <3>4. b0 \in Nat
      BY <1>1 DEF Typed
    <3>5. u[Src[p]] = uM /\ w[p] = h2 /\ G[p] = h2
      BY <2>1, <2>3, <1>u, <1>3
    <3> HIDE DEF s, d, ms, md, s2, d2, ms2, md2, u0, uM, b0, bM, b2, h, x
    <3>6. PairAt(p, s2, d2, ms2, md2, u0, uM, b2, h2, h2, x)
      BY <3>1, <3>2, <3>3, <3>4, BuffersOn
    <3> QED BY <3>5, <3>6 DEF s2, d2, ms2, md2, u0, b2, x
  <2>4. CASE p # p0
    <3>1. /\ q'[Src[p]] = q[Src[p]] /\ q'[Dst[p]] = q[Dst[p]]
          /\ msg'[Src[p]] = msg[Src[p]] /\ msg'[Dst[p]] = msg[Dst[p]]
      BY <2>4 DEF OnlyPair
    <3>2. u[Src[p]] = U[Src[p]][M] /\ w[p] = P[p][M] /\ G[p] = H[p] /\ P2[p][0] = P[p][0]
      BY <2>1, <2>4, <1>u, <1>3
    <3> QED BY <2>2, <3>1, <3>2 DEF PairOk
  <2> QED BY <2>3, <2>4
<1>7. ASSUME "ingress" \in CopyPayload
      PROVE ShadowAt(q'["host_bp"], q'["shadow"], U["host_bp"][0], u["host_bp"], y)
  <2>1. "host_bp" \in Queues
    BY <1>7, Names, Params
  <2>2. q'["host_bp"] = q["host_bp"] /\ q'["shadow"] = q["shadow"] /\ u["host_bp"] = U["host_bp"][M]
    BY <2>1, <1>7, <1>u DEF OnlyPair
  <2> QED BY <2>2, <1>1, <1>7 DEF ShadowOk, ShadowAt
<1>8. ASSUME NEW p \in Pairs PROVE Sent(p, P2, G, X[p].sp)'
  <2>1. Sent(p, P, H, X[p].sp)
    BY <1>1
  <2>2. CASE p = p0
    <3> DEFINE b0 == P[p][0]
    <3> DEFINE b2 == P2[p][0]
    <3>1. b0 \in Nat /\ b2 \in Nat /\ b0 <= b2 /\ p = "egress"
      BY <1>1, <2>2 DEF Typed
    <3>2. X[p].sp \in Nat
      BY <1>1 DEF Spot
    <3> HIDE DEF b0, b2
    <3>3. \A x \in b2 .. X[p].sp - 1 : x \in b0 .. X[p].sp - 1
      BY <3>1, <3>2
    <3> QED BY <2>1, <3>1, <3>3 DEF Sent, b0, b2
  <2>3. CASE p # p0
    <3>1. P2[p] = P[p] /\ G[p] = H[p]
      BY <2>3, <1>3
    <3> QED BY <2>1, <3>1 DEF Sent
  <2> QED BY <2>2, <2>3
<1>9. Arrived(E, U, G, Len(L), hw.done)'
  <2> SUFFICES ASSUME NEW i \in 0 .. M, E[i] <= hw.done, NEW x \in G["egress"] .. U["host_tx"][i] - 1
               PROVE  ring'["lcl_rx"][x % QLen].buf = <<"host_tx", x % QLen>>
    BY DEF Arrived, M
  <2>1. "host_tx" \in Queues /\ G["egress"] = h2 /\ H["egress"] <= h2 /\ H["egress"] \in Nat
    BY Names, <1>3
  <2>2. i <= M /\ M \in 0 .. M
    BY <1>1
  <2>3. U["host_tx"][i] <= U["host_tx"][M] /\ U["host_tx"][i] \in Nat /\ U["host_tx"][M] \in Nat
    BY <2>1, <2>2, <1>c, <1>5
  <2>4. x \in h2 .. U["host_tx"][M] - 1 /\ x \in H["egress"] .. U["host_tx"][i] - 1
    BY <2>1, <2>3
  <2>5. ring["lcl_rx"][x % QLen].buf = <<"host_tx", x % QLen>>
    BY <2>4, <1>1 DEF Arrived
  <2>6. ring'["lcl_rx"][x % QLen] = ring["lcl_rx"][x % QLen]
    BY <2>4 DEF M
  <2> QED BY <2>5, <2>6
<1>10. Grown(jobs, hw, L, E, U, P2, G, sub', u, w)
  BY DEF u, w, M
<1> QED BY <1>1, <1>2, <1>6, <1>7, <1>8, <1>9, <1>10, Built

\* Nothing is submitted for the pair.
LEMMA GrownZero ==
  ASSUME NEW js, NEW h, NEW L, NEW E, NEW U, NEW P, NEW H, WorkOf(js, 0, <<>>, h, L, E, U, P, H),
         NEW p, NEW c, P[p][Len(L)] = c
  PROVE  Grown(js, h, L, E, U, P, H, <<>>, EndsU(U, Len(L)), To(P, Len(L), p, c))
<1>1. Grown(js, h, L, E, U, P, H, <<>>, EndsU(U, Len(L)), Ends(P, Len(L)))
  BY GrownSame
<1>2. \A o \in Pairs : To(P, Len(L), p, c)[o] = Ends(P, Len(L))[o]
  BY DEF To, Ends
<1> QED BY <1>1, <1>2, Weaker

\* One entry is submitted for the pair.
LEMMA GrownOne ==
  ASSUME NEW js, NEW h, NEW L, NEW E, NEW U, NEW P, NEW H, WorkOf(js, 0, <<>>, h, L, E, U, P, H),
         NEW p \in Pairs, NEW e, NEW c, Copies(e, p, P, H, Len(L), c)
  PROVE  Grown(js, h, L, E, U, P, H, <<e>>, EndsU(U, Len(L)), To(P, Len(L), p, c))
<1> DEFINE s == <<>>
<1>1. Append(s, e) = <<e>>
  OBVIOUS
<1>2. WorkOf(js, 0, s, h, L, E, U, P, H)
  OBVIOUS
<1> HIDE DEF s
<1>3. Grown(js, h, L, E, U, P, H, Append(s, e), EndsU(U, Len(L)), To(P, Len(L), p, c))
  BY <1>2, AddCopy
<1> QED BY <1>1, <1>3

\* gie_copy_buffers_r2l of n elements.
EgressSub(p, n, hd, from, to, s) ==
  s = IF n = 0 THEN <<>> ELSE << BufCopy("buffer", Src[p], Dst[p], hd, hd, from, to, n) >>

\* The buffers of n elements from position a on are those of their source
\* slots.
FromSource(p, a, n, from) == \A k \in 0 .. n - 1 : from[k] = <<Src[p], (a + k) % QLen>>

\* The GIE's index moves on by n, and the buffers of n elements are submitted.
LEMMA EgressJob ==
  ASSUME NEW js, NEW h, NEW L, NEW E, NEW U, NEW P, NEW H, WorkOf(js, 0, <<>>, h, L, E, U, P, H),
         NEW p \in Pairs, p = "egress", p \in CopyPayload, P[p][Len(L)] = H[p], H[p] \in Nat,
         NEW n \in Nat, NEW c, c = H[p] + n, NEW G, G = [H EXCEPT ![p] = c],
         NEW from, FromSource(p, H[p], n, from),
         NEW to, NEW hd, hd = c % QLen, NEW s, EgressSub(p, n, hd, from, to, s)
  PROVE  /\ WorkOf(js, 0, <<>>, h, L, E, U, P, G)
         /\ Grown(js, h, L, E, U, P, G, s, EndsU(U, Len(L)), To(P, Len(L), p, c))
<1>0. H \in [Pairs -> Nat]
  BY DEF WorkOf
<1>1. G \in [Pairs -> Nat] /\ G[p] = c /\ \A o \in Pairs : H[o] <= G[o]
  BY <1>0
<1>2. WorkOf(js, 0, <<>>, h, L, E, U, P, G)
  <2> DEFINE z == 0
  <2> DEFINE b == <<>>
  <2>1. WorkOf(js, z, b, h, L, E, U, P, H)
    OBVIOUS
  <2> HIDE DEF z, b
  <2>2. WorkOf(js, z, b, h, L, E, U, P, G)
    BY <1>1, <2>1, Wider
  <2> QED BY <2>2 DEF z, b
<1>3. CASE n = 0
  <2>1. P[p][Len(L)] = c /\ s = <<>>
    BY <1>3 DEF EgressSub
  <2> QED BY <2>1, <1>2, GrownZero
<1>4. CASE n # 0
  <2> DEFINE M == Len(L)
  <2> DEFINE flag == "buffer"
  <2> DEFINE e == BufCopy(flag, Src[p], Dst[p], hd, hd, from, to, n)
  <2>1. s = <<e>> /\ e = BufCopy(flag, Src[p], Dst[p], hd, hd, from, to, n) /\ flag = "buffer"
    BY <1>4 DEF EgressSub
  <2> HIDE DEF e, flag
  <2>2. P[p][M] \in Nat /\ G[p] \in Nat /\ n \in Nat \ {0} /\ P[p][M] + n <= G[p] /\ c = P[p][M] + n
    BY <1>1, <1>4
  <2>3. \A k \in 0 .. n - 1 : from[k] = <<Src[p], (P[p][M] + k) % QLen>>
    BY DEF FromSource
  <2>4. \/ p = "egress" /\ "egress" \in CopyPayload /\ flag = "buffer" /\ c = P[p][M] + n
           /\ hd = c % QLen /\ hd = c % QLen
        \/ p = "ingress" /\ flag = "none" /\ c = P[p][M] /\ hd = 0 /\ hd = 0
    BY <2>1, <2>2
  <2> HIDE DEF M
  <2>5. Copies(e, p, P, G, M, c)
    BY <2>1, <2>2, <2>3, <2>4, BuffersCopy
  <2>6. Copies(e, p, P, G, Len(L), c)
    BY <2>5 DEF M
  <2> QED BY <2>1, <2>6, <1>2, GrownOne
<1> QED BY <1>2, <1>3, <1>4

\* The indices that change in phase two: one field of each of three queues.
LEMMA ThreeQueues ==
  ASSUME q \in [Queues -> QIdx], NEW a \in Queues, NEW b \in Queues, NEW c \in Queues, a # b, a # c, b # c,
         NEW v \in Nat, NEW w \in Nat, NEW z \in QIdx, z.qe_head = q[c].qe_head,
         q' = [q EXCEPT ![a].head = v, ![b].tail = w, ![c] = z]
  PROVE  /\ q' \in [Queues -> QIdx]
         /\ q'[a].tail = q[a].tail /\ q'[a].head = v /\ q'[a].qe_tail = q[a].qe_tail
         /\ q'[b].tail = w /\ q'[b].head = q[b].head /\ q'[b].qe_tail = q[b].qe_tail
         /\ (\A x \in Queues : x # a /\ x # b /\ x # c => q'[x] = q[x])
         /\ \A x \in Queues : q'[x].qe_head = q[x].qe_head
<1> DEFINE s == q[a]
<1> DEFINE d == q[b]
<1> DEFINE s2 == [s EXCEPT !.head = v]
<1> DEFINE d2 == [d EXCEPT !.tail = w]
<1>1. q' = [x \in Queues |-> IF x = c THEN z ELSE IF x = b THEN d2 ELSE IF x = a THEN s2 ELSE q[x]]
  OBVIOUS
<1>2. s \in QIdx /\ d \in QIdx
  OBVIOUS
<1>3. /\ s2 \in QIdx /\ s2.tail = s.tail /\ s2.head = v /\ s2.qe_tail = s.qe_tail /\ s2.qe_head = s.qe_head
      /\ d2 \in QIdx /\ d2.tail = w /\ d2.head = d.head /\ d2.qe_tail = d.qe_tail /\ d2.qe_head = d.qe_head
  <2> HIDE DEF s, d
  <2> QED BY <1>2 DEF QIdx
<1>d. s = q[a] /\ d = q[b]
  OBVIOUS
<1> HIDE DEF s2, d2, s, d
<1>4. q'[a] = s2 /\ q'[b] = d2 /\ q'[c] = z /\ \A x \in Queues : x # a /\ x # b /\ x # c => q'[x] = q[x]
  BY <1>1
<1>5. \A x \in Queues : q'[x] \in QIdx
  BY <1>1, <1>3
<1>6. \A x \in Queues : q'[x].qe_head = q[x].qe_head
  <2> SUFFICES ASSUME NEW x \in Queues PROVE q'[x].qe_head = q[x].qe_head
    OBVIOUS
  <2>1. CASE x = a
    BY <2>1, <1>3, <1>4, <1>d
  <2>2. CASE x = b
    BY <2>2, <1>3, <1>4, <1>d
  <2>3. CASE x = c
    BY <2>3, <1>4
  <2>4. CASE x # a /\ x # b /\ x # c
    BY <2>4, <1>4
  <2> QED BY <2>1, <2>2, <2>3, <2>4
<1>7. q' \in [Queues -> QIdx]
  <2>1. q' = [x \in Queues |-> q'[x]]
    BY <1>1
  <2> QED BY <2>1, <1>5
<1> QED BY <1>3, <1>4, <1>6, <1>7, <1>d

\* A remainder, for every integer.
LEMMA IntMod == ASSUME NEW l \in Nat \ {0}, NEW x \in Int PROVE x % l \in 0 .. l - 1
BY SMTT(30)

\* An occupancy is a number.
LEMMA OccNat == ASSUME NEW b \in QIdx, NEW l \in Nat \ {0} PROVE q_occupancy(b, l) \in Nat
<1> DEFINE x == b.tail - b.head + l
<1>1. x \in Int
  BY DEF QIdx
<1>2. q_occupancy(b, l) = x % l
  BY DEF q_occupancy, Occupancy
<1> HIDE DEF x
<1>3. x % l \in 0 .. l - 1
  BY <1>1, IntMod
<1> QED BY <1>2, <1>3

\* How far phase two may go.
ArrivedAt(s, d, a, h, u) ==
  /\ a \in Nat /\ h \in Nat /\ u \in Nat /\ h <= u /\ u - h < QLen
  /\ s.qe_head = u % QLen /\ s.head = h % QLen /\ d.tail = h % QLen /\ d.head = a % QLen

\* No further than what has arrived.
LEMMA LimitIs ==
  ASSUME NEW s, NEW d, NEW a, NEW h, NEW u, ArrivedAt(s, d, a, h, u),
         NEW limit, limit = gie_clip_batch(d, qes_copied(s, QLen))
  PROVE  limit \in Nat /\ \A n \in 0 .. limit : h + n <= u
<1>0. QLen \in Nat \ {0}
  BY Params
<1> SUFFICES ASSUME NEW A \in Nat, NEW G \in Nat, NEW B \in Nat, A = a, G = h, B = u
             PROVE limit \in Nat /\ \A n \in 0 .. limit : G + n <= B
  BY DEF ArrivedAt
<1>1. /\ G <= B /\ B - G < QLen
      /\ s.qe_head = B % QLen /\ s.head = G % QLen /\ d.tail = G % QLen /\ d.head = A % QLen
  BY DEF ArrivedAt
<1>2. qes_copied(s, QLen) = B - G
  <2>1. Occupancy(B % QLen, G % QLen, QLen) = B - G
    BY <1>0, <1>1, OccIs
  <2>2. qes_copied(s, QLen) = Occupancy(s.qe_head, s.head, QLen)
    BY DEF qes_copied, Occupancy
  <2> QED BY <2>1, <2>2, <1>1
<1>3. limit \in Nat /\ limit <= B - G
  <2> DEFINE m == B - G
  <2>1. m \in Nat /\ limit = gie_clip_batch(d, m)
    BY <1>1, <1>2
  <2> HIDE DEF m
  <2>2. gie_clip_batch(d, m) \in Nat /\ gie_clip_batch(d, m) <= m
    BY <2>1, <1>1, ClipIs
  <2> QED BY <2>1, <2>2 DEF m
<1> QED BY <1>3

\* Moving an index on moves its position on.
LEMMA AheadPos ==
  ASSUME NEW x \in Queues, Len_(x) = QLen, NEW a \in Nat, NEW n \in Nat
  PROVE  Ahead(a % QLen, n, x) = (a + n) % QLen
<1>1. QLen \in Nat \ {0}
  BY Params
<1>2. q_idx_add(a % QLen, n, QLen) = (a + n) % QLen
  BY <1>1, AddIs
<1> QED BY <1>2 DEF Ahead

\* gie_process_remote_q, phase two, with its local variables.
Buffering(p, src, dst, pool, b, head, limit, n, from, to, hd, tl) ==
  /\ src = Src[p] /\ dst = Dst[p] /\ pool = Pool[p] /\ b = [q[pool] EXCEPT !.tail = msg[pool].prod]
  /\ head = q[src].head /\ limit = gie_clip_batch(q[dst], qes_copied(q[src], QLen))
  /\ n = IF p \in CopyPayload THEN Accepted(ring[dst], head, limit, q_occupancy(b, BpLen)) ELSE limit
  /\ from = [k \in 0 .. n - 1 |-> ring[dst][Ahead(head, k, dst)].buf]
  /\ to = [k \in 0 .. n - 1 |-> ring[pool][Ahead(b.head, k, pool)]]
  /\ hd = Ahead(head, n, src) /\ tl = Ahead(q[dst].tail, n, dst)
  /\ p = "egress" /\ sub = <<>> /\ UNCHANGED <<hw, jobs, left>>
  /\ q' = [q EXCEPT ![src].head = hd, ![dst].tail = tl,
                     ![pool] = IF p \in CopyPayload /\ limit > 0
                               THEN [b EXCEPT !.head = Ahead(@, n, pool)] ELSE @]
  /\ IF p \in CopyPayload
     THEN /\ msg' = [msg EXCEPT ![pool].cons = Ahead(b.head, n, pool)]
          /\ ring' = [ring EXCEPT ![dst] = Rebuffered(@, head, n, to)]
          /\ sub' = IF n = 0 THEN <<>> ELSE << BufCopy("buffer", src, dst, hd, tl, from, to, n) >>
     ELSE /\ msg' = [msg EXCEPT ![src].cons = hd, ![dst].prod = tl]
          /\ UNCHANGED <<ring, sub>>

\* The action says that, for some values of them.
LEMMA BuffersDo ==
  ASSUME NEW p, ProcessBuffers(p)
  PROVE  \E src, dst, pool, b, head, limit, n, from, to, hd, tl :
           Buffering(p, src, dst, pool, b, head, limit, n, from, to, hd, tl)
<1> DEFINE src == Src[p]
<1> DEFINE dst == Dst[p]
<1> DEFINE pool == Pool[p]
<1> DEFINE head == q[src].head
<1> DEFINE b == [q[pool] EXCEPT !.tail = msg[pool].prod]
<1> DEFINE arrived == qes_copied(q[src], QLen)
<1> DEFINE limit == gie_clip_batch(q[dst], arrived)
<1> DEFINE n == IF p \in CopyPayload
                THEN Accepted(ring[dst], head, limit, q_occupancy(b, BpLen)) ELSE limit
<1> DEFINE from == [k \in 0 .. n - 1 |-> ring[dst][Ahead(head, k, dst)].buf]
<1> DEFINE to == [k \in 0 .. n - 1 |-> ring[pool][Ahead(b.head, k, pool)]]
<1> DEFINE srcHead == Ahead(head, n, src)
<1> DEFINE dstTail == Ahead(q[dst].tail, n, dst)
<1>1. Buffering(p, src, dst, pool, b, head, limit, n, from, to, srcHead, dstTail)
  BY DEF ProcessBuffers, Buffering
<1> HIDE DEF src, dst, pool, b, head, limit, n, from, to, srcHead, dstTail
<1> QED BY <1>1

\* An EXCEPT that may leave a place alone.
LEMMA AtOr ==
  ASSUME NEW D, NEW f, f = [x \in D |-> f[x]], NEW a \in D, NEW b \in D, NEW c \in D, a # b, a # c, b # c,
         NEW v, NEW w, NEW k, NEW z, NEW g,
         g = [f EXCEPT ![a].head = v, ![b].tail = w, ![c] = IF k THEN z ELSE @]
  PROVE  g = [f EXCEPT ![a].head = v, ![b].tail = w, ![c] = IF k THEN z ELSE f[c]]
<1>1. CASE k
  BY <1>1
<1>2. CASE ~k
  <2>1. g = [f EXCEPT ![a].head = v, ![b].tail = w, ![c] = f[c]]
    BY <1>2
  <2> QED BY <1>2, <2>1
<1> QED BY <1>1, <1>2

\* The consumer's word of one queue and the producer's word of another change.
ConsProd(m, a, b, v, w, m2) == m2 = [m EXCEPT ![a].cons = v, ![b].prod = w]

\* The words after gie_produce_q.
LEMMA ConsProdIs ==
  ASSUME IndexOk, NEW a \in Queues, NEW b \in Queues, a # b, NEW v \in Nat, NEW w \in Nat,
         ConsProd(msg, a, b, v, w, msg')
  PROVE  /\ msg' \in [Queues -> Words] /\ \A z \in Queues : z # a /\ z # b => msg'[z] = msg[z]
         /\ msg'[a].prod = msg[a].prod /\ msg'[a].cons = v
         /\ msg'[b].cons = msg[b].cons /\ msg'[b].prod = w
<1> DEFINE s == msg[a]
<1> DEFINE d == msg[b]
<1> DEFINE s2 == [s EXCEPT !.cons = v]
<1> DEFINE d2 == [d EXCEPT !.prod = w]
<1>1. msg \in [Queues -> Words]
  BY DEF IndexOk
<1>2. msg' = [x \in Queues |-> IF x = b THEN d2 ELSE IF x = a THEN s2 ELSE msg[x]]
  BY <1>1 DEF ConsProd
<1>3. s \in Words /\ d \in Words /\ s = msg[a] /\ d = msg[b]
  BY <1>1
<1>4. /\ s2 \in Words /\ s2.prod = s.prod /\ s2.cons = v
      /\ d2 \in Words /\ d2.prod = w /\ d2.cons = d.cons
  <2> HIDE DEF s, d
  <2> QED BY <1>3 DEF Words
<1> HIDE DEF s2, d2, s, d
<1>5. msg'[a] = s2 /\ msg'[b] = d2 /\ \A x \in Queues : x # a /\ x # b => msg'[x] = msg[x]
  BY <1>2
<1>6. msg' \in [Queues -> Words]
  BY <1>1, <1>2, <1>4
<1> QED BY <1>3, <1>4, <1>5, <1>6

\* gie_process_remote_q, phase two, moves h: what it copies the buffers of was
\* copied before.
LEMMA BuffersStep == ASSUME NEW p0 \in Pairs PROVE IInv /\ ProcessBuffers(p0) => IInv'
<1> SUFFICES ASSUME IInv, ProcessBuffers(p0) PROVE IInv'
  OBVIOUS
<1>1. PICK L, E, U, P, H, X, y : Whole(L, E, U, P, H, X, y)
  BY DEF IInv
<1>2. PICK src, dst, pool, b, head, limit, n, from, to, hd, tl :
        Buffering(p0, src, dst, pool, b, head, limit, n, from, to, hd, tl)
  BY SMTT(30), BuffersDo
<1>3. /\ src = Src[p0] /\ dst = Dst[p0] /\ pool = Pool[p0] /\ b = [q[pool] EXCEPT !.tail = msg[pool].prod]
      /\ head = q[src].head /\ limit = gie_clip_batch(q[dst], qes_copied(q[src], QLen))
  BY ZenonT(30), <1>2 DEF Buffering
<1>4. n = IF p0 \in CopyPayload THEN Accepted(ring[dst], head, limit, q_occupancy(b, BpLen)) ELSE limit
  BY ZenonT(30), <1>2 DEF Buffering
<1>5. hd = Ahead(head, n, src) /\ tl = Ahead(q[dst].tail, n, dst)
  BY ZenonT(30), <1>2 DEF Buffering
<1>6. p0 = "egress" /\ sub = <<>> /\ UNCHANGED <<hw, jobs, left>>
  BY ZenonT(30), <1>2 DEF Buffering
<1>z. PICK z : z = IF p0 \in CopyPayload /\ limit > 0 THEN [b EXCEPT !.head = Ahead(@, n, pool)] ELSE q[pool]
  OBVIOUS
<1> DEFINE M == Len(L)
<1> DEFINE h == H[p0]
<1>7. left = 0 /\ WorkOf(jobs, 0, <<>>, hw, L, E, U, P, H)
  BY <1>1, <1>6, Idle
<1>8. /\ PairAt(p0, q[src], q[dst], msg[src], msg[dst],
                U[src][0], U[src][M], P[p0][0], P[p0][M], H[p0], X[p0])
      /\ q[src] \in QIdx /\ q[dst] \in QIdx /\ X[p0] \in Spot
      /\ U[src][0] \in Nat /\ U[src][M] \in Nat /\ P[p0][0] \in Nat /\ h \in Nat /\ P[p0][0] <= h /\ P[p0][M] = h
  BY <1>1, <1>3, PairData
<1>9. /\ src \in Queues /\ dst \in Queues /\ pool \in Queues /\ Len_(src) = QLen /\ Len_(dst) = QLen /\ Len_(pool) = BpLen
      /\ src = "host_tx" /\ dst = "lcl_rx" /\ pool = "lcl_bp" /\ QLen \in Nat \ {0} /\ BpLen \in Nat \ {0}
  BY <1>3, <1>6, Names, Params
<1>10. IndexOk /\ Heads(U) /\ RingOk /\ Typed(L, E, U, P) /\ Steps(L, E, U, P) /\ M \in Nat /\ 0 \in 0 .. M /\ M \in 0 .. M
       /\ Arrived(E, U, H, M, hw.done) /\ H \in [Pairs -> Nat]
  BY <1>1, Parts
<1>11. U[src][0] <= U[src][M]
  <2>1. \A i, j \in 0 .. M : i <= j => \A x \in Queues : U[x][i] <= U[x][j]
    BY <1>10, StepsAre
  <2> HIDE DEF M
  <2>2. 0 \in 0 .. M /\ M \in 0 .. M /\ 0 <= M
    BY <1>10
  <2> QED BY <2>1, <2>2, <1>9
<1>12. PICK u0, uM : u0 = U[src][0] /\ uM = U[src][M]
  OBVIOUS
<1>13. /\ head = h % QLen /\ q[dst].tail = h % QLen /\ q[dst].head = X[p0].sd % QLen /\ h <= u0 /\ uM = X[p0].qt
       /\ X[p0].qt <= X[p0].tl /\ X[p0].tl <= X[p0].sp /\ X[p0].sp - P[p0][0] < QLen
  BY <1>3, <1>6, <1>8, <1>12 DEF PairAt
<1>14. u0 \in Nat /\ uM \in Nat /\ u0 <= uM /\ uM - h < QLen /\ u0 - h < QLen
  <2>1. X[p0].qt \in Nat /\ X[p0].tl \in Nat /\ X[p0].sp \in Nat
    BY <1>8 DEF Spot
  <2>2. u0 \in Nat /\ uM \in Nat /\ u0 <= uM
    BY <1>8, <1>11, <1>12
  <2> DEFINE b0 == P[p0][0]
  <2> DEFINE x == X[p0]
  <2>3. b0 \in Nat /\ h \in Nat /\ b0 <= h /\ uM = x.qt /\ x.qt <= x.tl /\ x.tl <= x.sp /\ x.sp - b0 < QLen
        /\ x.qt \in Nat /\ x.tl \in Nat /\ x.sp \in Nat
    BY <1>8, <1>13, <2>1
  <2> HIDE DEF b0, x, h
  <2> QED BY <2>2, <2>3, <1>9
<1>15. n \in Nat /\ h + n <= u0
  <2>1. ArrivedAt(q[src], q[dst], X[p0].sd, h, u0)
    <3>1. X[p0].sd \in Nat
      BY <1>8 DEF Spot
    <3>2. q[src].qe_head = u0 % QLen
      BY <1>9, <1>10, <1>12 DEF Heads
    <3> HIDE DEF h
    <3> QED BY <3>1, <3>2, <1>3, <1>8, <1>13, <1>14 DEF ArrivedAt
  <2>2. limit \in Nat /\ \A k \in 0 .. limit : h + k <= u0
    <3> HIDE DEF h
    <3> QED BY <2>1, <1>3, LimitIs
  <2>3. n \in 0 .. limit
    <3>1. CASE p0 \in CopyPayload
      <4> DEFINE r == ring[dst]
      <4> DEFINE avail == q_occupancy(b, BpLen)
      <4>1. b \in QIdx
        <5> DEFINE g == q[pool]
        <5> DEFINE t == msg[pool].prod
        <5>1. g \in QIdx /\ t \in Nat /\ b = [g EXCEPT !.tail = t]
          BY <1>3, <1>9, <1>10 DEF IndexOk, Words
        <5> HIDE DEF g, t
        <5> QED BY <5>1 DEF QIdx
      <4>2. avail \in Nat
        BY <4>1, <1>9, OccNat
      <4>3. n = Accepted(r, head, limit, avail)
        BY <3>1, <1>4
      <4> HIDE DEF r, avail
      <4> QED BY <4>2, <4>3, <2>2, AcceptedIs
    <3>2. CASE p0 \notin CopyPayload
      BY <3>2, <2>2, <1>4
    <3> QED BY <3>1, <3>2
  <2>4. n \in Nat
    BY <2>2, <2>3
  <2> QED BY <2>2, <2>3, <2>4
<1>h. PICK h2 : h2 = h + n
  OBVIOUS
<1>16. h2 \in Nat /\ h <= h2 /\ h2 <= u0
  <2> HIDE DEF h
  <2> QED BY <1>h, <1>8, <1>14, <1>15
<1>17. hd = h2 % QLen /\ tl = h2 % QLen /\ hd \in Nat
  <2> HIDE DEF h
  <2>1. Ahead(h % QLen, n, src) = (h + n) % QLen /\ Ahead(h % QLen, n, dst) = (h + n) % QLen
    BY ZenonT(30), <1>8, <1>9, <1>15, AheadPos
  <2>2. h2 % QLen \in Nat
    BY <1>9, <1>16, ModNat
  <2> QED BY <2>1, <2>2, <1>h, <1>5, <1>13
<1>18. z \in QIdx /\ z.qe_head = q[pool].qe_head
  <2> DEFINE g == q[pool]
  <2> DEFINE t == msg[pool].prod
  <2>1. g \in QIdx /\ t \in Nat /\ b = [g EXCEPT !.tail = t]
    BY <1>3, <1>9, <1>10 DEF IndexOk, Words
  <2> HIDE DEF g, t
  <2>2. b \in QIdx /\ b.qe_head = g.qe_head /\ b.head \in Nat
    BY <2>1 DEF QIdx
  <2> DEFINE v == Ahead(b.head, n, pool)
  <2>3. v \in Nat
    BY <2>2, <1>9, <1>15, AheadIn
  <2>4. z = IF p0 \in CopyPayload /\ limit > 0 THEN [b EXCEPT !.head = v] ELSE g
    BY <1>z DEF g
  <2> HIDE DEF v
  <2>5. z \in QIdx /\ z.qe_head = g.qe_head
    BY <2>1, <2>2, <2>3, <2>4 DEF QIdx
  <2> QED BY <2>5 DEF g
<1>19. /\ q' \in [Queues -> QIdx]
       /\ q'[src].tail = q[src].tail /\ q'[src].head = hd /\ q'[src].qe_tail = q[src].qe_tail
       /\ q'[dst].tail = tl /\ q'[dst].head = q[dst].head /\ q'[dst].qe_tail = q[dst].qe_tail
       /\ (\A x \in Queues : x # src /\ x # dst /\ x # pool => q'[x] = q[x])
       /\ \A x \in Queues : q'[x].qe_head = q[x].qe_head
  <2>1. q \in [Queues -> QIdx] /\ src # dst /\ src # pool /\ dst # pool /\ hd \in Nat /\ tl \in Nat
    BY <1>9, <1>10, <1>17 DEF IndexOk
  <2>2. q' = [q EXCEPT ![src].head = hd, ![dst].tail = tl, ![pool] = z]
    <3> DEFINE c == p0 \in CopyPayload /\ limit > 0
    <3> DEFINE v == [b EXCEPT !.head = Ahead(@, n, pool)]
    <3>1. q' = [q EXCEPT ![src].head = hd, ![dst].tail = tl, ![pool] = IF c THEN v ELSE @]
      BY ZenonT(30), <1>2 DEF Buffering
    <3>2. z = IF c THEN v ELSE q[pool]
      BY <1>z
    <3> HIDE DEF c, v
    <3>3. q = [x \in Queues |-> q[x]] /\ src \in Queues /\ dst \in Queues /\ pool \in Queues
      BY <2>1, <1>9
    <3> QED BY <3>1, <3>2, <3>3, <2>1, AtOr
  <2> DEFINE g == q'
  <2>3. z \in QIdx /\ z.qe_head = q[pool].qe_head
    BY <1>18
  <2>4. src \in Queues /\ dst \in Queues /\ pool \in Queues
    BY <1>9
  <2> QED BY <2>1, <2>2, <2>3, <2>4, ThreeQueues
<1>20. \A o \in Pairs : o # p0 =>
         /\ Src[o] \in Queues /\ Dst[o] \in Queues /\ Src[o] \notin {src, dst, pool} /\ Dst[o] \notin {src, dst, pool}
  BY <1>3, Apart, Names
<1>21. \A o \in Pairs : o # p0 => q'[Src[o]] = q[Src[o]] /\ q'[Dst[o]] = q[Dst[o]]
  BY <1>19, <1>20
<1>22. "ingress" \in CopyPayload => q'["host_bp"] = q["host_bp"] /\ q'["shadow"] = q["shadow"]
  <2>1. "ingress" \in CopyPayload => "host_bp" \in Queues /\ "shadow" \in Queues
    BY Names, Params
  <2> QED BY <2>1, <1>9, <1>19
<1>e. PICK b0 : b0 = P[p0][0]
  OBVIOUS
<1>25. b0 \in Nat /\ b0 <= h2 /\ msg[src].cons = b0 % QLen /\ msg[dst].prod = b0 % QLen
  <2>1. b0 \in Nat /\ b0 <= h /\ msg[src].cons = b0 % QLen /\ msg[dst].prod = b0 % QLen
    BY <1>8, <1>e DEF PairAt
  <2> HIDE DEF h
  <2> QED BY <2>1, <1>8, <1>16
<1> DEFINE G == [H EXCEPT ![p0] = h2]
<1>26. UNCHANGED <<hw, jobs, left>> /\ sub = <<>> /\ p0 = "egress"
  BY <1>6
<1>27. h2 <= U[Src[p0]][0] /\ H[p0] <= h2
  BY <1>3, <1>12, <1>16
<1>23. CASE p0 \in CopyPayload
  <2>1. /\ msg' = [msg EXCEPT ![pool].cons = Ahead(b.head, n, pool)]
        /\ ring' = [ring EXCEPT ![dst] = Rebuffered(@, head, n, to)]
        /\ sub' = IF n = 0 THEN <<>> ELSE << BufCopy("buffer", src, dst, hd, tl, from, to, n) >>
        /\ from = [k \in 0 .. n - 1 |-> ring[dst][Ahead(head, k, dst)].buf]
    BY ZenonT(30), <1>2, <1>23 DEF Buffering
  <2>2. /\ msg' \in [Queues -> Words] /\ \A x \in Queues : x # pool => msg'[x] = msg[x]
    <3> DEFINE v == Ahead(b.head, n, pool)
    <3>1. b.head \in Nat
      <4> DEFINE g == q[pool]
      <4> DEFINE t == msg[pool].prod
      <4>1. g \in QIdx /\ t \in Nat /\ b = [g EXCEPT !.tail = t]
        BY <1>3, <1>9, <1>10 DEF IndexOk, Words
      <4> HIDE DEF g, t
      <4> QED BY <4>1 DEF QIdx
    <3>2. v \in Nat
      BY <3>1, <1>9, <1>15, AheadIn
    <3>3. msg' = [msg EXCEPT ![pool].cons = v]
      BY <2>1
    <3>4. IndexOk /\ pool \in Queues
      BY <1>9, <1>10
    <3> HIDE DEF v
    <3> QED BY <3>2, <3>3, <3>4, ConsIs
  <2>3. MovedOn(q[Src[p0]], q[Dst[p0]], msg[Src[p0]], msg[Dst[p0]], h2, P[p0][0],
                q'[Src[p0]], q'[Dst[p0]], msg'[Src[p0]], msg'[Dst[p0]])
    <3>1. msg'[src] = msg[src] /\ msg'[dst] = msg[dst]
      BY <2>2, <1>9
    <3> QED BY <3>1, <1>3, <1>17, <1>19, <1>25, <1>e DEF MovedOn
  <2>4. OnlyPair(p0)
    <3>1. \A o \in Pairs : o # p0 => msg'[Src[o]] = msg[Src[o]] /\ msg'[Dst[o]] = msg[Dst[o]]
      BY <1>20, <2>2, Names
    <3> QED BY <3>1, <1>21, <1>22 DEF OnlyPair
  <2>5. IndexOk'
    BY <1>19, <2>2 DEF IndexOk
  <2> DEFINE r == ring[dst]
  <2> DEFINE r2 == Rebuffered(r, head, n, to)
  <2>r. /\ DOMAIN r2 = DOMAIN r
        /\ \A i \in DOMAIN r : ~(Occupancy(i, head, QLen) < n) => r2[i] = r[i]
    <3> HIDE DEF r
    <3> QED BY RebufferedIs
  <2>s. ring' = [ring EXCEPT ![dst] = r2]
    BY <2>1
  <2>t. DOMAIN ring = Queues /\ \A x \in Queues : DOMAIN ring[x] = 0 .. Len_(x) - 1
    BY <1>10 DEF RingOk
  <2>u. DOMAIN r = 0 .. QLen - 1
    BY <2>t, <1>9
  <2>v. /\ DOMAIN ring' = Queues /\ ring'[dst] = r2 /\ \A x \in Queues : x # dst => ring'[x] = ring[x]
    <3> HIDE DEF r2, r
    <3> QED BY <2>s, <2>t, <1>9
  <2>6. /\ RingOk' /\ \A p \in Pairs : ring'[Src[p]] = ring[Src[p]]
        /\ \A x \in h2 .. U["host_tx"][Len(L)] - 1 : ring'["lcl_rx"][x % QLen] = ring["lcl_rx"][x % QLen]
    <3>1. RingOk'
      <4> HIDE DEF r2
      <4> QED BY <2>r, <2>t, <2>v DEF RingOk
    <3>2. \A p \in Pairs : Src[p] \in Queues /\ Src[p] # dst
      BY <1>3, Names, Apart
    <3>3. \A p \in Pairs : ring'[Src[p]] = ring[Src[p]]
      BY <3>2, <2>v
    <3>4. ASSUME NEW x \in h2 .. uM - 1 PROVE ring'["lcl_rx"][x % QLen] = ring["lcl_rx"][x % QLen]
      <4>1. x \in Nat /\ h <= x /\ x - h < QLen /\ ~(x - h < n) /\ h \in Nat
        <5>1. h \in Nat /\ n \in Nat /\ h2 = h + n /\ uM \in Nat /\ uM - h < QLen /\ QLen \in Nat
          BY <1>8, <1>9, <1>14, <1>15, <1>h
        <5> HIDE DEF h
        <5> QED BY <5>1
      <4>2. Occupancy(x % QLen, h % QLen, QLen) = x - h
        <5> HIDE DEF h
        <5> QED BY <4>1, <1>9, OccIs
      <4>3. x % QLen \in 0 .. QLen - 1
        BY <4>1, <1>9, ModRange
      <4> DEFINE i == x % QLen
      <4>4. i \in DOMAIN r /\ ~(Occupancy(i, head, QLen) < n)
        BY <4>1, <4>2, <4>3, <2>u, <1>13
      <4> HIDE DEF i, r, r2
      <4>5. r2[i] = r[i]
        BY <4>4, <2>r
      <4>6. ring'["lcl_rx"] = r2 /\ ring["lcl_rx"] = r
        BY <2>v, <1>9 DEF r
      <4> QED BY <4>5, <4>6 DEF i
    <3>5. U["host_tx"][Len(L)] = uM
      BY <1>9, <1>12 DEF M
    <3> QED BY <3>1, <3>3, <3>4, <3>5
  <2> HIDE DEF r, r2
  <2>7. /\ WorkOf(jobs, 0, <<>>, hw, L, E, U, P, G)
        /\ Grown(jobs, hw, L, E, U, P, G, sub', EndsU(U, Len(L)), To(P, Len(L), p0, h2))
    <3>1. FromSource(p0, H[p0], n, from)
      <4> SUFFICES ASSUME NEW k \in 0 .. n - 1 PROVE from[k] = <<Src[p0], (H[p0] + k) % QLen>>
        BY DEF FromSource
      <4>1. from[k] = ring[dst][Ahead(head, k, dst)].buf
        BY <2>1
      <4>2. k \in Nat /\ h + k \in h .. u0 - 1 /\ h \in Nat
        <5> HIDE DEF h
        <5> QED BY <1>8, <1>14, <1>15
      <4>3. Ahead(h % QLen, k, dst) = (h + k) % QLen
        <5> HIDE DEF h
        <5> QED BY <4>2, <1>9, AheadPos
      <4>4. \A x \in H["egress"] .. U["host_tx"][0] - 1 : ring["lcl_rx"][x % QLen].buf = <<"host_tx", x % QLen>>
        <5>1. "egress" \in Pairs
          BY <1>6
        <5>2. \A i \in 0 .. M : E[i] <= hw.done =>
                \A x \in H["egress"] .. U["host_tx"][i] - 1 :
                  ring["lcl_rx"][x % QLen].buf = <<"host_tx", x % QLen>>
          BY <5>1, <1>10 DEF Arrived
        <5>3. 0 \in 0 .. M /\ E[0] = 0
          BY <1>10 DEF Steps
        <5>4. hw.done \in Nat
          <6>1. hw.done \in 0 .. Len(hw.descs) /\ Len(hw.descs) \in Nat
            BY <1>1, WorkIs, Parts
          <6> QED BY <6>1
        <5>5. E[0] <= hw.done
          BY <5>3, <5>4
        <5> QED BY <5>2, <5>3, <5>5
      <4>5. h = H["egress"] /\ u0 = U["host_tx"][0] /\ Src[p0] = "host_tx" /\ dst = "lcl_rx"
        BY <1>3, <1>6, <1>9, <1>12
      <4> DEFINE w == h + k
      <4>6. w \in H["egress"] .. U["host_tx"][0] - 1
        BY <4>2, <4>5
      <4>7. ring["lcl_rx"][w % QLen].buf = <<"host_tx", w % QLen>>
        <5> HIDE DEF w
        <5> QED BY <4>4, <4>6
      <4> QED BY <4>1, <4>3, <4>5, <4>7, <1>13
    <3> DEFINE zero == 0
    <3> DEFINE e == <<>>
    <3>2. /\ WorkOf(jobs, zero, e, hw, L, E, U, P, H) /\ p0 = "egress" /\ p0 \in CopyPayload
          /\ P[p0][Len(L)] = H[p0] /\ H[p0] \in Nat /\ n \in Nat /\ h2 = H[p0] + n
          /\ G = [H EXCEPT ![p0] = h2] /\ hd = h2 % QLen
      BY <1>6, <1>7, <1>8, <1>15, <1>17, <1>23, <1>h
    <3> DEFINE g == sub'
    <3>3. EgressSub(p0, n, hd, from, to, g)
      BY <2>1, <1>3, <1>17 DEF EgressSub
    <3> HIDE DEF zero, e, h, M, g
    <3>4. /\ WorkOf(jobs, 0, <<>>, hw, L, E, U, P, G)
          /\ Grown(jobs, hw, L, E, U, P, G, sub', EndsU(U, Len(L)), To(P, Len(L), p0, h2))
      BY <3>1, <3>2, <3>3, EgressJob DEF zero, e, g
    <3> QED BY <3>4
  <2>8. \A o \in Pairs : o # p0 => P[o] = P[o]
    OBVIOUS
  <2>9. P[p0][0] \in Nat /\ P[p0][0] <= P[p0][0]
    BY <1>8
  <2> QED BY SMTT(30), <1>1, <1>16, <1>19, <1>26, <1>27, <2>3, <2>4, <2>5, <2>6, <2>7, <2>8, <2>9, BuffersBuilt
<1>24. CASE p0 \notin CopyPayload
  <2> DEFINE P2 == NowAt(P, "egress", Len(L), h2)
  <2>1. /\ msg' = [msg EXCEPT ![src].cons = hd, ![dst].prod = tl] /\ UNCHANGED <<ring, sub>>
    BY <1>2, <1>24 DEF Buffering
  <2>2. /\ msg' \in [Queues -> Words] /\ \A x \in Queues : x # src /\ x # dst => msg'[x] = msg[x]
        /\ msg'[src].prod = msg[src].prod /\ msg'[src].cons = hd
        /\ msg'[dst].cons = msg[dst].cons /\ msg'[dst].prod = tl
    <3>1. src \in Queues /\ dst \in Queues /\ src # dst /\ hd \in Nat /\ tl \in Nat
      BY <1>9, <1>17
    <3>2. IndexOk
      BY <1>10
    <3>3. ConsProd(msg, src, dst, hd, tl, msg')
      BY <2>1 DEF ConsProd
    <3> QED BY <3>1, <3>2, <3>3, ConsProdIs
  <2>p. P2[p0][0] = h2 /\ P2[p0][Len(L)] = h2 /\ \A o \in Pairs : o # p0 => P2[o] = P[o]
    BY <1>6, <1>10 DEF NowAt
  <2>q. P2 = NowAt(P, "egress", Len(L), h2)
    OBVIOUS
  <2> HIDE DEF P2
  <2>3. MovedOn(q[Src[p0]], q[Dst[p0]], msg[Src[p0]], msg[Dst[p0]], h2, P2[p0][0],
                q'[Src[p0]], q'[Dst[p0]], msg'[Src[p0]], msg'[Dst[p0]])
    BY <2>p, <2>2, <1>3, <1>17, <1>19 DEF MovedOn
  <2>4. OnlyPair(p0)
    <3>1. \A o \in Pairs : o # p0 => msg'[Src[o]] = msg[Src[o]] /\ msg'[Dst[o]] = msg[Dst[o]]
      BY <1>20, <2>2
    <3> QED BY <3>1, <1>21, <1>22 DEF OnlyPair
  <2>5. IndexOk'
    BY <1>19, <2>2 DEF IndexOk
  <2>6. /\ RingOk' /\ \A p \in Pairs : ring'[Src[p]] = ring[Src[p]]
        /\ \A x \in h2 .. U["host_tx"][Len(L)] - 1 : ring'["lcl_rx"][x % QLen] = ring["lcl_rx"][x % QLen]
    BY <2>1, <1>10 DEF RingOk
  <2>7. WorkOf(jobs, 0, <<>>, hw, L, E, U, P2, G)
    <3> DEFINE zero == 0
    <3> DEFINE e == <<>>
    <3>1. WorkOf(jobs, zero, e, hw, L, E, U, P, H) /\ "egress" \in Pairs /\ "egress" \notin CopyPayload
          /\ H["egress"] <= h2 /\ h2 \in Nat /\ G = [H EXCEPT !["egress"] = h2]
      BY <1>6, <1>7, <1>16, <1>24, <1>27
    <3> HIDE DEF zero, e, G
    <3>2. WorkOf(jobs, zero, e, hw, L, E, U, P2, G)
      BY <3>1, <2>q, Republish
    <3> QED BY <3>2 DEF zero, e
  <2>8. Grown(jobs, hw, L, E, U, P2, G, sub', EndsU(U, Len(L)), To(P2, Len(L), p0, h2))
    <3>1. sub' = <<>>
      BY <2>1, <1>6
    <3> HIDE DEF G
    <3>2. Grown(jobs, hw, L, E, U, P2, G, <<>>, EndsU(U, Len(L)), To(P2, Len(L), p0, h2))
      BY <2>7, <2>p, GrownZero
    <3> QED BY <3>1, <3>2
  <2>9. P2[p0][0] \in Nat /\ P[p0][0] <= P2[p0][0]
    BY <2>p, <1>16, <1>25, <1>e
  <2>10. G = [H EXCEPT ![p0] = h2]
    OBVIOUS
  <2> HIDE DEF h, M
  <2>11. \A x \in Queues : q'[x].qe_head = q[x].qe_head
    BY <1>19
  <2>12. \A o \in Pairs : o # p0 => P2[o] = P[o]
    BY <2>p
  <2>13. h2 \in Nat
    BY <1>16
  <2> QED BY <1>1, <1>26, <1>27, <2>11, <2>12, <2>13, <2>3, <2>4, <2>5, <2>6, <2>7, <2>8, <2>9, <2>10, BuffersBuilt
<1> QED BY <1>23, <1>24

-----------------------------------------------------------------------------
(* gie_process_local_q *)

\* The rings of gie_process_local_q after it has read the words.
LocalAt(s, d, h, rd, sp) ==
  /\ h \in Nat /\ rd \in Nat /\ sp \in Nat /\ rd <= h /\ h <= sp /\ sp - h < QLen /\ h - rd < QLen
  /\ s.tail = sp % QLen /\ s.head = h % QLen /\ d.tail = h % QLen /\ d.head = rd % QLen

\* It takes no more than there are, than the destination has room for, and
\* than a batch.
LEMMA LocalCount ==
  ASSUME NEW s, NEW d, NEW h, NEW rd, NEW sp, LocalAt(s, d, h, rd, sp),
         NEW qes, qes = gie_clip_batch(d, q_occupancy(s, QLen))
  PROVE  qes \in Nat /\ qes <= Batch /\ qes < QLen /\ h + qes <= sp /\ (h + qes) - rd < QLen
<1>0. QLen \in Nat \ {0} /\ Batch \in Nat
  BY Params
<1> SUFFICES ASSUME NEW A \in Nat, NEW R \in Nat, NEW B \in Nat, A = h, R = rd, B = sp
             PROVE qes \in Nat /\ qes <= Batch /\ qes < QLen /\ A + qes <= B /\ (A + qes) - R < QLen
  BY DEF LocalAt
<1>1. /\ R <= A /\ A <= B /\ B - A < QLen /\ A - R < QLen
      /\ s.tail = B % QLen /\ s.head = A % QLen /\ d.tail = A % QLen /\ d.head = R % QLen
  BY DEF LocalAt
<1>2. q_occupancy(s, QLen) = B - A
  <2>1. Occupancy(B % QLen, A % QLen, QLen) = B - A
    BY <1>0, <1>1, OccIs
  <2>2. q_occupancy(s, QLen) = Occupancy(s.tail, s.head, QLen)
    BY DEF q_occupancy, Occupancy
  <2> QED BY <2>1, <2>2, <1>1
<1>3. Occupancy(A % QLen, R % QLen, QLen) = A - R
  BY <1>0, <1>1, OccIs
<1> DEFINE m == B - A
<1>4. m \in Nat /\ qes = gie_clip_batch(d, m)
  BY <1>1, <1>2
<1> HIDE DEF m
<1>5. qes \in Nat /\ qes <= m /\ qes <= Batch /\ qes < QLen
      /\ qes <= (QLen - 1) - Occupancy(A % QLen, R % QLen, QLen)
  BY <1>1, <1>4, ClipIs
<1>6. qes \in Nat /\ qes <= B - A /\ qes <= (QLen - 1) - (A - R)
  BY <1>3, <1>5 DEF m
<1> QED BY <1>0, <1>1, <1>5, <1>6

\* What an element that gets no buffer is like afterwards.
BeyondSame(r, r2, a, b) == \A x \in a .. b - 1 : r2[x % QLen] = r[x % QLen]

\* Rebuffering n elements leaves those behind them alone.
LEMMA Beyond ==
  ASSUME NEW h \in Nat, NEW n \in Nat, NEW uM \in Nat, uM - h < QLen, NEW c, c = h + n,
         NEW r, DOMAIN r = 0 .. QLen - 1, NEW head, head = h % QLen, NEW to,
         NEW r2, r2 = Rebuffered(r, head, n, to)
  PROVE  DOMAIN r2 = DOMAIN r /\ BeyondSame(r, r2, c, uM)
<1>0. QLen \in Nat \ {0}
  BY Params
<1>1. /\ DOMAIN r2 = DOMAIN r
      /\ \A i \in DOMAIN r : ~(Occupancy(i, head, QLen) < n) => r2[i] = r[i]
  <2>1. /\ DOMAIN Rebuffered(r, head, n, to) = DOMAIN r
        /\ \A i \in DOMAIN r : ~(Occupancy(i, head, QLen) < n) => Rebuffered(r, head, n, to)[i] = r[i]
    BY DEF Rebuffered
  <2> QED BY <2>1
<1>2. ASSUME NEW x \in c .. uM - 1 PROVE r2[x % QLen] = r[x % QLen]
  <2>1. x \in Nat /\ h <= x /\ x - h < QLen /\ ~(x - h < n)
    BY <1>0
  <2>2. Occupancy(x % QLen, h % QLen, QLen) = x - h
    BY <2>1, <1>0, OccIs
  <2>3. x % QLen \in 0 .. QLen - 1
    BY <2>1, <1>0, ModRange
  <2> DEFINE i == x % QLen
  <2>4. i \in DOMAIN r /\ ~(Occupancy(i, head, QLen) < n)
    BY <2>1, <2>2, <2>3
  <2> HIDE DEF i
  <2>5. r2[i] = r[i]
    BY <2>4, <1>1
  <2> QED BY <2>5 DEF i
<1> QED BY <1>1, <1>2 DEF BeyondSame

\* The buffers of the elements from position h on.
LEMMA FromSent ==
  ASSUME NEW p \in Pairs, NEW P, NEW H, p = "ingress", NEW sp, Sent(p, P, H, sp),
         NEW h \in Nat, h = H[p], NEW n \in Nat, NEW spn \in Nat, spn = sp, h + n <= spn, NEW head, head = h % QLen, NEW src, src = Src[p],
         NEW from, from = [k \in 0 .. n - 1 |-> ring[src][Ahead(head, k, src)].buf]
  PROVE  FromSource(p, h, n, from)
<1> SUFFICES ASSUME NEW k \in 0 .. n - 1 PROVE from[k] = <<Src[p], (h + k) % QLen>>
  BY DEF FromSource
<1>1. from[k] = ring[src][Ahead(head, k, src)].buf
  OBVIOUS
<1>2. src \in Queues /\ Len_(src) = QLen /\ k \in Nat
  BY Names
<1>3. Ahead(head, k, src) = (h + k) % QLen
  BY <1>2, AheadPos
<1>4. \A x \in h .. spn - 1 : ring[src][x % QLen].buf = <<src, x % QLen>>
  BY DEF Sent
<1> DEFINE w == h + k
<1>5. w \in h .. spn - 1
  OBVIOUS
<1>6. Ahead(head, k, src) = w % QLen
  BY <1>3
<1> HIDE DEF w
<1>7. ring[src][w % QLen].buf = <<src, w % QLen>>
  BY <1>4, <1>5
<1> QED BY <1>1, <1>6, <1>7 DEF w

-----------------------------------------------------------------------------
(* gie_bpool_fill_shadow *)

\* An occupancy of a queue is less than a round.
LEMMA OccBelow ==
  ASSUME NEW b \in QIdx, NEW l \in Nat \ {0} PROVE q_occupancy(b, l) \in 0 .. l - 1
<1> DEFINE x == b.tail - b.head + l
<1>1. x \in Int
  BY DEF QIdx
<1>2. q_occupancy(b, l) = x % l
  BY DEF q_occupancy, Occupancy
<1> HIDE DEF x
<1> QED BY <1>1, <1>2, IntMod

\* The positions of the shadow.
Lasts == [sh: Nat, st: Nat]

\* What gie_bpool_fill_shadow leaves: nu entries more are being copied.
FillDone(b, sh, f, u0, uM, nu, uN, y, y2) ==
  /\ f.b \in QIdx /\ f.sh \in QIdx /\ f.cons \in Nat
  /\ f.b.qe_head = b.qe_head /\ f.sh.qe_head = sh.qe_head /\ f.sh.head = sh.head
  /\ ShadowAt(f.b, f.sh, u0, uN, y2) /\ y2 \in Lasts /\ y2.sh = y.sh /\ y.st <= y2.st
  /\ nu \in Nat /\ nu <= BpLen /\ uN = uM + nu
  /\ f.sub = IF nu = 0 THEN <<>> ELSE gie_copy_qes("host_bp", "shadow", nu, b.qe_tail, "update", 0, 0)

\* The pool and the shadow when it is called.
FillAt(b, sh, u0, uM, y) ==
  /\ b \in QIdx /\ sh \in QIdx /\ y \in Lasts /\ u0 \in Nat /\ uM \in Nat /\ u0 <= uM
  /\ ShadowAt(b, sh, u0, uM, y) /\ b.qe_head = u0 % BpLen

\* Nothing is done.
LEMMA FillWaits ==
  ASSUME NEW b, NEW sh, NEW u0, NEW uM, NEW y, FillAt(b, sh, u0, uM, y), NEW c \in Nat,
         NEW f, f = [b |-> b, sh |-> sh, cons |-> c, sub |-> <<>>]
  PROVE  \E nu, uN, y2 : FillDone(b, sh, f, u0, uM, nu, uN, y, y2)
<1>1. uM + 0 = uM /\ 0 <= BpLen
  BY Params DEF FillAt
<1>2. y.st <= y.st
  BY DEF FillAt, Lasts
<1>3. FillDone(b, sh, f, u0, uM, 0, uM, y, y)
  BY <1>1, <1>2 DEF FillDone, FillAt
<1> QED BY <1>3

\* A finished copy is taken into account.
LEMMA FillTaken ==
  ASSUME NEW b, NEW sh, NEW u0, NEW uM, NEW y, FillAt(b, sh, u0, uM, y), "host_bp" \in Queues, Len_("host_bp") = BpLen,
         NEW copied, copied = qes_copied(b, BpLen), NEW v, v = Ahead(b.head, copied, "host_bp"),
         NEW w, w = Ahead(sh.tail, copied, "shadow"),
         NEW f, f = [b |-> [b EXCEPT !.head = v], sh |-> [sh EXCEPT !.tail = w], cons |-> v, sub |-> <<>>],
         "ingress" \in CopyPayload
  PROVE  \E nu, uN, y2 : FillDone(b, sh, f, u0, uM, nu, uN, y, y2)
<1>0. BpLen \in Nat \ {0} /\ Len_("shadow") = BpLen
  BY Params, Names
<1>1. /\ b \in QIdx /\ sh \in QIdx /\ u0 \in Nat /\ uM \in Nat /\ u0 <= uM
      /\ sh.head = y.sh % BpLen /\ sh.tail = y.st % BpLen /\ b.head = y.st % BpLen /\ b.qe_tail = uM % BpLen
      /\ y.st <= u0 /\ uM - y.st < BpLen /\ b.qe_head = u0 % BpLen
      /\ (FillFits => y.sh <= y.st /\ uM - y.sh < BpLen)
      /\ y.sh \in Nat /\ y.st \in Nat
  BY DEF FillAt, ShadowAt, Lasts
<1>2. PICK st : st = y.st
  OBVIOUS
<1>3. st \in Nat /\ st <= u0 /\ u0 - st < BpLen
  BY <1>0, <1>1, <1>2
<1>4. copied = u0 - st
  <2>1. Occupancy(u0 % BpLen, st % BpLen, BpLen) = u0 - st
    BY <1>0, <1>1, <1>3, OccIs
  <2>2. qes_copied(b, BpLen) = Occupancy(b.qe_head, b.head, BpLen)
    BY DEF qes_copied, Occupancy
  <2> QED BY <2>1, <2>2, <1>1, <1>2
<1>5. copied \in Nat /\ st + copied = u0
  BY <1>1, <1>3, <1>4
<1>6. v = u0 % BpLen /\ w = u0 % BpLen
  <2>1. q_idx_add(st % BpLen, copied, BpLen) = (st + copied) % BpLen
    BY <1>0, <1>3, <1>5, AddIs
  <2> QED BY <2>1, <1>0, <1>1, <1>2, <1>5 DEF Ahead
<1>7. v \in Nat /\ w \in Nat
  BY <1>0, <1>1, <1>6, ModNat
<1> DEFINE b2 == [b EXCEPT !.head = v]
<1> DEFINE s2 == [sh EXCEPT !.tail = w]
<1> DEFINE y2 == [sh |-> y.sh, st |-> u0]
<1>8. /\ f.b = b2 /\ f.sh = s2 /\ f.cons = v /\ f.sub = <<>>
      /\ b2 \in QIdx /\ s2 \in QIdx /\ b2.qe_head = b.qe_head /\ s2.qe_head = sh.qe_head
      /\ b2.head = u0 % BpLen /\ b2.qe_tail = b.qe_tail /\ s2.tail = u0 % BpLen /\ s2.head = sh.head
  BY <1>1, <1>6, <1>7 DEF QIdx
<1>9. y2 \in Lasts /\ y2.sh = y.sh /\ y2.st = u0 /\ y.st <= y2.st
  BY <1>1 DEF Lasts
<1> HIDE DEF b2, s2, y2
<1>10. ShadowAt(b2, s2, u0, uM, y2)
  <2>1. uM - u0 < BpLen /\ (FillFits => y.sh <= u0 /\ uM - y.sh < BpLen) /\ u0 <= u0
    BY <1>0, <1>1, <1>2, <1>3
  <2> QED BY <2>1, <1>1, <1>8, <1>9 DEF ShadowAt
<1>11. uM + 0 = uM /\ 0 <= BpLen
  BY <1>0, <1>1
<1>12. FillDone(b, sh, f, u0, uM, 0, uM, y, y2)
  BY <1>7, <1>8, <1>9, <1>10, <1>11 DEF FillDone
<1> QED BY <1>12

\* A new copy is submitted.
LEMMA FillStarts ==
  ASSUME NEW b, NEW sh, NEW u0, NEW uM, NEW y, FillAt(b, sh, u0, uM, y), "host_bp" \in Queues, Len_("host_bp") = BpLen,
         ~(qes_copied(b, BpLen) > 0), ~(qes_in_copy(b, BpLen) > 0),
         "ingress" \in CopyPayload, FillFits => q_occupancy(sh, BpLen) < FillThresh,
         NEW pr \in Nat, NEW fresh, fresh = [b EXCEPT !.tail = pr],
         NEW fill, fill = Lesser(FillSize, q_occupancy(fresh, BpLen)),
         NEW v, v = Ahead(b.qe_tail, fill, "host_bp"), NEW c \in Nat,
         NEW t, t = IF fill = 0 THEN <<>> ELSE gie_copy_qes("host_bp", "shadow", fill, b.qe_tail, "update", 0, 0),
         NEW f, f = [b |-> [fresh EXCEPT !.qe_tail = v], sh |-> sh, cons |-> c, sub |-> t]
  PROVE  \E nu, uN, y2 : FillDone(b, sh, f, u0, uM, nu, uN, y, y2)
<1>0. BpLen \in Nat \ {0} /\ FillSize \in Nat /\ FillThresh \in Nat
  BY Params
<1>1. /\ b \in QIdx /\ sh \in QIdx /\ u0 \in Nat /\ uM \in Nat /\ u0 <= uM
      /\ sh.head = y.sh % BpLen /\ sh.tail = y.st % BpLen /\ b.head = y.st % BpLen /\ b.qe_tail = uM % BpLen
      /\ y.st <= u0 /\ uM - y.st < BpLen /\ b.qe_head = u0 % BpLen
      /\ (FillFits => y.sh <= y.st /\ uM - y.sh < BpLen)
      /\ y.sh \in Nat /\ y.st \in Nat /\ y \in Lasts
  BY DEF FillAt, ShadowAt, Lasts
<1>2. PICK st, hd : st = y.st /\ hd = y.sh
  OBVIOUS
<1>3. st \in Nat /\ hd \in Nat /\ st <= u0 /\ u0 - st < BpLen /\ uM - u0 < BpLen /\ uM - st < BpLen
  BY <1>0, <1>1, <1>2
<1>4. u0 = st /\ uM = u0
  <2>1. Occupancy(u0 % BpLen, st % BpLen, BpLen) = u0 - st /\ Occupancy(uM % BpLen, u0 % BpLen, BpLen) = uM - u0
    BY <1>0, <1>1, <1>3, OccIs
  <2>2. qes_copied(b, BpLen) = Occupancy(b.qe_head, b.head, BpLen)
        /\ qes_in_copy(b, BpLen) = Occupancy(b.qe_tail, b.qe_head, BpLen)
    BY DEF qes_copied, qes_in_copy, Occupancy
  <2>3. ~(u0 - st > 0) /\ ~(uM - u0 > 0)
    BY <2>1, <2>2, <1>1, <1>2
  <2> QED BY <2>3, <1>1, <1>3
<1>5. fresh \in QIdx /\ fresh.qe_head = b.qe_head /\ fresh.head = b.head /\ fresh.qe_tail = b.qe_tail
  BY <1>1 DEF QIdx
<1>6. fill \in Nat /\ fill <= FillSize /\ fill < BpLen
  <2> DEFINE o == q_occupancy(fresh, BpLen)
  <2>1. o \in 0 .. BpLen - 1
    BY <1>0, <1>5, OccBelow
  <2> HIDE DEF o
  <2>2. fill = Lesser(FillSize, o)
    BY DEF o
  <2> QED BY <2>1, <2>2, <1>0 DEF Lesser
<1>7. PICK uN : uN = uM + fill
  OBVIOUS
<1>8. uN \in Nat /\ uN - st < BpLen /\ (FillFits => hd <= st /\ uN - hd < BpLen)
  <2>1. uN \in Nat /\ uN - st < BpLen
    BY <1>0, <1>1, <1>3, <1>4, <1>6, <1>7
  <2>2. ASSUME FillFits PROVE hd <= st /\ uN - hd < BpLen
    <3>1. hd <= st /\ st - hd < BpLen
      BY <2>2, <1>0, <1>1, <1>2, <1>3, <1>4
    <3>2. Occupancy(st % BpLen, hd % BpLen, BpLen) = st - hd
      BY <3>1, <1>0, <1>3, OccIs
    <3>3. q_occupancy(sh, BpLen) = Occupancy(sh.tail, sh.head, BpLen)
      BY DEF q_occupancy, Occupancy
    <3>4. st - hd < FillThresh /\ FillThresh + FillSize <= BpLen
      BY <2>2, <3>2, <3>3, <1>1, <1>2 DEF FillFits
    <3> QED BY <3>1, <3>4, <1>0, <1>3, <1>4, <1>6, <1>7
  <2> QED BY <2>1, <2>2
<1>9. v = uN % BpLen /\ v \in Nat
  <2>1. q_idx_add(uM % BpLen, fill, BpLen) = (uM + fill) % BpLen
    BY <1>0, <1>1, <1>6, AddIs
  <2>2. uN % BpLen \in Nat
    BY <1>0, <1>8, ModNat
  <2> QED BY <2>1, <2>2, <1>1, <1>7 DEF Ahead
<1> DEFINE b2 == [fresh EXCEPT !.qe_tail = v]
<1>10. /\ f.b = b2 /\ f.sh = sh /\ f.cons = c /\ f.sub = t
       /\ b2 \in QIdx /\ b2.qe_head = b.qe_head /\ b2.head = b.head /\ b2.qe_tail = v
  BY <1>5, <1>9 DEF QIdx
<1> HIDE DEF b2
<1>11. ShadowAt(b2, sh, u0, uN, y)
  BY <1>1, <1>2, <1>8, <1>9, <1>10 DEF ShadowAt
<1>12. y.st <= y.st /\ fill <= BpLen
  BY <1>0, <1>1, <1>6
<1>13. FillDone(b, sh, f, u0, uM, fill, uN, y, y)
  BY <1>1, <1>6, <1>7, <1>10, <1>11, <1>12 DEF FillDone
<1> QED BY <1>13

\* gie_bpool_fill_shadow does one of the three.
LEMMA FillAll ==
  ASSUME IndexOk, NEW b, NEW sh, NEW u0, NEW uM, NEW y, FillAt(b, sh, u0, uM, y),
         "host_bp" \in Queues, Len_("host_bp") = BpLen, "ingress" \in CopyPayload,
         FillFits => q_occupancy(sh, BpLen) < FillThresh,
         NEW f, f = gie_bpool_fill_shadow("host_bp", b, sh)
  PROVE  \E nu, uN, y2 : FillDone(b, sh, f, u0, uM, nu, uN, y, y2)
<1>1. msg["host_bp"].prod \in Nat /\ msg["host_bp"].cons \in Nat
  BY DEF IndexOk, Words
<1> DEFINE c == msg["host_bp"].cons
<1> DEFINE pr == msg["host_bp"].prod
<1> DEFINE copied == qes_copied(b, BpLen)
<1> DEFINE fresh == [b EXCEPT !.tail = pr]
<1> DEFINE fill == Lesser(FillSize, q_occupancy(fresh, BpLen))
<1> DEFINE t == IF fill = 0 THEN <<>> ELSE gie_copy_qes("host_bp", "shadow", fill, b.qe_tail, "update", 0, 0)
<1> DEFINE v == Ahead(b.head, copied, "host_bp")
<1> DEFINE w == Ahead(sh.tail, copied, "shadow")
<1> DEFINE x == Ahead(b.qe_tail, fill, "host_bp")
<1> DEFINE busy == qes_in_copy(b, BpLen)
<1>2. busy \in Nat
  <2>1. b \in QIdx
    BY DEF FillAt
  <2> DEFINE z == b.qe_tail - b.qe_head + BpLen
  <2>2. z \in Int /\ BpLen \in Nat \ {0} /\ busy = z % BpLen
    BY <2>1, Params DEF QIdx, qes_in_copy
  <2> HIDE DEF z, busy
  <2>3. z % BpLen \in 0 .. BpLen - 1
    BY <2>2, IntMod
  <2> QED BY <2>2, <2>3
<1>f. [fresh EXCEPT !.qe_tail = Ahead(@, fill, "host_bp")] = [fresh EXCEPT !.qe_tail = x]
  <2>1. fresh.qe_tail = b.qe_tail /\ fresh \in QIdx
    BY <1>1 DEF FillAt, QIdx
  <2> HIDE DEF fresh, fill
  <2> QED BY <2>1 DEF QIdx
<1>3. CASE busy > 0
  <2>1. f = [b |-> b, sh |-> sh, cons |-> c, sub |-> <<>>]
    BY <1>3 DEF gie_bpool_fill_shadow
  <2> HIDE DEF c, pr, copied, fresh, fill, t, v, w, x, busy
  <2> QED BY <2>1, <1>1, FillWaits DEF c
<1>4. CASE ~(busy > 0) /\ copied > 0
  <2>1. f = [b |-> [b EXCEPT !.head = Ahead(@, copied, "host_bp")],
             sh |-> [sh EXCEPT !.tail = Ahead(@, copied, "shadow")], cons |-> v, sub |-> <<>>]
    <3>1. busy = 0
      <4> HIDE DEF busy
      <4> QED BY <1>2, <1>4
    <3> QED BY <3>1, <1>4 DEF gie_bpool_fill_shadow
  <2>2. b \in QIdx /\ sh \in QIdx
    BY DEF FillAt
  <2>3. f = [b |-> [b EXCEPT !.head = v], sh |-> [sh EXCEPT !.tail = w], cons |-> v, sub |-> <<>>]
    <3> HIDE DEF copied
    <3> QED BY <2>1, <2>2 DEF QIdx
  <2>4. copied = qes_copied(b, BpLen) /\ v = Ahead(b.head, copied, "host_bp") /\ w = Ahead(sh.tail, copied, "shadow")
    OBVIOUS
  <2> HIDE DEF c, pr, copied, fresh, fill, t, v, w, x, busy
  <2> QED BY <2>3, <2>4, FillTaken
<1>5. CASE ~(busy > 0) /\ ~(copied > 0)
  <2>1. f = [b |-> [fresh EXCEPT !.qe_tail = x], sh |-> sh, cons |-> c, sub |-> t]
    <3>1. f = [b |-> [fresh EXCEPT !.qe_tail = Ahead(@, fill, "host_bp")], sh |-> sh, cons |-> c, sub |-> t]
      <4>1. ~(qes_in_copy(b, BpLen) > 0) /\ ~(qes_in_copy(b, BpLen) = 0 /\ qes_copied(b, BpLen) > 0)
        BY <1>5
      <4> QED BY <4>1 DEF gie_bpool_fill_shadow
    <3> QED BY <3>1, <1>f
  <2>2. fresh = [b EXCEPT !.tail = pr] /\ fill = Lesser(FillSize, q_occupancy(fresh, BpLen))
        /\ x = Ahead(b.qe_tail, fill, "host_bp") /\ pr \in Nat /\ c \in Nat
        /\ ~(qes_copied(b, BpLen) > 0) /\ ~(qes_in_copy(b, BpLen) > 0)
    BY <1>1, <1>5
  <2>3. t = IF fill = 0 THEN <<>> ELSE gie_copy_qes("host_bp", "shadow", fill, b.qe_tail, "update", 0, 0)
    OBVIOUS
  <2> HIDE DEF c, pr, copied, fresh, fill, t, v, w, x, busy
  <2> QED BY ZenonT(30), <2>1, <2>2, <2>3, FillStarts
<1> QED BY <1>3, <1>4, <1>5

\* What it submits is one copy that updates, or nothing.
LEMMA FillGrown ==
  ASSUME NEW js, NEW h, NEW L, NEW E, NEW U, NEW P, NEW H, WorkOf(js, 0, <<>>, h, L, E, U, P, H),
         NEW b, NEW sh, NEW f, NEW u0, NEW uM, NEW nu, NEW uN, NEW y, NEW y2,
         FillDone(b, sh, f, u0, uM, nu, uN, y, y2),
         "ingress" \in CopyPayload, "host_bp" \in Queues, Len_("host_bp") = BpLen,
         uM = U["host_bp"][Len(L)], uM \in Nat, b.qe_tail = uM % BpLen
  PROVE  /\ IsSeq(f.sub)
         /\ Grown(js, h, L, E, U, P, H, f.sub, Plus(U, Len(L), "host_bp", nu), Ends(P, Len(L)))
<1> DEFINE src == "host_bp"
<1> DEFINE dst == "shadow"
<1> DEFINE t == f.sub
<1> DEFINE fst == b.qe_tail
<1> DEFINE M == Len(L)
<1>1. nu \in Nat /\ nu <= BpLen /\ (t = IF nu = 0 THEN <<>> ELSE gie_copy_qes(src, dst, nu, fst, "update", 0, 0))
  BY DEF FillDone
<1>2. Updates(src, dst) /\ Len_(src) = BpLen /\ src \in Queues /\ fst = U[src][Len(L)] % Len_(src) /\ U[src][M] \in Nat
  BY DEF Updates
<1> HIDE DEF src, dst, t, fst
<1>3. IsSeq(t) /\ Grown(js, h, L, E, U, P, H, t, Plus(U, M, src, nu), Ends(P, M))
  <2>1. CASE nu # 0
    <3>1. t = gie_copy_qes(src, dst, nu, fst, "update", 0, 0)
      BY <2>1, <1>1
    <3>2. IsSeq(t)
      BY <3>1, CopySeq
    <3> DEFINE e == <<>>
    <3> DEFINE z == 0
    <3>3. WorkOf(js, z, e, h, L, E, U, P, H) /\ nu <= Len_(src)
      BY <1>1, <1>2
    <3>4. Grown(js, h, L, E, U, P, H, <<>> \o t, Plus(U, Len(L), src, nu), Ends(P, Len(L)))
      BY <3>1, <3>3, <1>1, <1>2, CopyUpdate
    <3> QED BY <3>2, <3>4, EmptyCat
  <2>2. CASE nu = 0
    <3>1. Grown(js, h, L, E, U, P, H, <<>>, EndsU(U, M), Ends(P, M))
      BY GrownSame
    <3>2. \A x \in Queues : Plus(U, M, src, nu)[x] = EndsU(U, M)[x]
      <4> SUFFICES ASSUME NEW x \in Queues PROVE Plus(U, M, src, nu)[x] = EndsU(U, M)[x]
        OBVIOUS
      <4>1. Plus(U, M, src, nu)[x] = IF x = src THEN U[x][M] + nu ELSE U[x][M]
        BY DEF Plus
      <4>2. EndsU(U, M)[x] = U[x][M]
        BY DEF EndsU
      <4>3. U[src][M] + nu = U[src][M]
        <5> HIDE DEF M
        <5> QED BY <1>2, <2>2
      <4> QED BY <4>1, <4>2, <4>3
    <3>3. Grown(js, h, L, E, U, P, H, <<>>, Plus(U, M, src, nu), Ends(P, M))
      BY <3>1, <3>2, Weaker
    <3> QED BY <3>3, <1>1, <2>2, EmptyIs
  <2> QED BY <2>1, <2>2
<1> QED BY <1>3 DEF src, t

\* Putting three sequences together.
LEMMA CatAssoc ==
  ASSUME NEW a, NEW b, NEW c, IsSeq(a), IsSeq(b), IsSeq(c)
  PROVE  a \o (b \o c) = (a \o b) \o c
<1>1. PICK S : a \in Seq(S) /\ b \in Seq(S)
  BY InUnion
<1>2. PICK T : c \in Seq(T)
  BY InRange
<1>3. a \in Seq(S \cup T) /\ b \in Seq(S \cup T) /\ c \in Seq(S \cup T)
  BY <1>1, <1>2
<1> QED BY <1>3

-----------------------------------------------------------------------------
(* What gie_process_local_q submits *)

\* What gie_process_local_q submits for n elements: the buffers, then the QEs.
LocalSub(p, n, f, hd, from, to, t) ==
  t = IF n = 0 THEN <<>>
      ELSE (IF p \in CopyPayload THEN << BufCopy("none", Src[p], Dst[p], 0, 0, from, to, n) >> ELSE <<>>)
           \o gie_copy_qes(Src[p], Dst[p], n, f, "produce", hd, hd)

\* The buffers, if the pair copies them, and the QEs behind them.
LEMMA LocalGrown ==
  ASSUME NEW js, NEW s, NEW h, NEW L, NEW E, NEW U, NEW P, NEW H, WorkOf(js, 0, s, h, L, E, U, P, H),
         NEW p \in Pairs, p = "ingress", NEW n \in Nat \ {0}, n <= QLen,
         NEW a \in Nat, a = P[p][Len(L)], NEW c, c = a + n, c = H[p],
         NEW from, FromSource(p, a, n, from), NEW to,
         NEW f, f = a % QLen, NEW hd, hd = c % QLen, NEW t, LocalSub(p, n, f, hd, from, to, t)
  PROVE  Grown(js, h, L, E, U, P, H, s \o t, EndsU(U, Len(L)), To(P, Len(L), p, c))
<1> DEFINE g == gie_copy_qes(Src[p], Dst[p], n, f, "produce", hd, hd)
<1> DEFINE M == Len(L)
<1>1. IsSeq(g) /\ g = gie_copy_qes(Src[p], Dst[p], n, f, "produce", hd, hd)
  BY CopySeq
<1>2. IsSeq(s) /\ M \in Nat /\ Typed(L, E, U, P)
  BY WorkIs DEF WorkOf
<1>3. CASE p \in CopyPayload
  <2> DEFINE z == 0
  <2> DEFINE flag == "none"
  <2> DEFINE e == BufCopy(flag, Src[p], Dst[p], z, z, from, to, n)
  <2>1. t = <<e>> \o g
    BY <1>3 DEF LocalSub
  <2>2. e = BufCopy(flag, Src[p], Dst[p], z, z, from, to, n) /\ flag = "none" /\ z = 0
    OBVIOUS
  <2> HIDE DEF e, g, z, flag
  <2>3. \A k \in 0 .. n - 1 : from[k] = <<Src[p], (P[p][M] + k) % QLen>>
    BY DEF FromSource
  <2>4. P[p][M] \in Nat /\ H[p] \in Nat /\ P[p][M] + n <= H[p]
    OBVIOUS
  <2>5. \/ p = "egress" /\ "egress" \in CopyPayload /\ flag = "buffer" /\ a = P[p][M] + n
           /\ z = a % QLen /\ z = a % QLen
        \/ p = "ingress" /\ flag = "none" /\ a = P[p][M] /\ z = 0 /\ z = 0
    BY <2>2
  <2> HIDE DEF M
  <2>6. Copies(e, p, P, H, M, a)
    BY <2>2, <2>3, <2>4, <2>5, BuffersCopy
  <2> DEFINE s1 == Append(s, e)
  <2>7. Copies(e, p, P, H, Len(L), a)
    BY <2>6 DEF M
  <2>8. Grown(js, h, L, E, U, P, H, s1, EndsU(U, Len(L)), To(P, Len(L), p, a))
    BY <2>7, AddCopy
  <2>9. s \o <<e>> = s1 /\ IsSeq(s \o <<e>>)
    BY <1>2, AppendCat
  <2>10. s \o t = s1 \o g
    <3>1. IsSeq(<<e>>)
      BY OneIs
    <3>2. s \o (<<e>> \o g) = (s \o <<e>>) \o g
      BY SMTT(30), <1>1, <1>2, <3>1, CatAssoc
    <3> QED BY <2>1, <2>9, <3>2
  <2> HIDE DEF s1
  <2>11. PICK L2, E2, U2, P2 :
           /\ WorkOf(js, 0, s1, h, L2, E2, U2, P2, H)
           /\ Ext(L, E, U, P, L2, E2, U2, P2)
           /\ \A y \in Queues : U2[y][Len(L2)] = EndsU(U, Len(L))[y]
           /\ \A o \in Pairs : P2[o][Len(L2)] = To(P, Len(L), p, a)[o]
    BY <2>8 DEF Grown
  <2>12. \A o \in Pairs : P2[o][Len(L2)] = P[o][Len(L)]
    BY <2>11 DEF To
  <2>13. \A y \in Queues : U2[y][Len(L2)] = U[y][Len(L)]
    BY <2>11 DEF EndsU
  <2>14. Grown(js, h, L2, E2, U2, P2, H, s1 \o g, EndsU(U2, Len(L2)), To(P2, Len(L2), p, c))
    <3>1. WorkOf(js, 0, s1, h, L2, E2, U2, P2, H)
      BY <2>11
    <3>2. P2[p][Len(L2)] = a
      BY <2>12
    <3>3. c = P2[p][Len(L2)] + n /\ c <= H[p] /\ f = P2[p][Len(L2)] % QLen
      BY <3>2
    <3> QED BY <3>1, <3>3, <1>1, CopyProduce
  <2>15. Grown(js, h, L, E, U, P, H, s1 \o g, EndsU(U2, Len(L2)), To(P2, Len(L2), p, c))
    <3>1. Typed(L2, E2, U2, P2)
      BY <2>11 DEF WorkOf
    <3> QED BY <3>1, <2>11, <2>14, GrownTrans
  <2>16. \A y \in Queues : EndsU(U, Len(L))[y] = EndsU(U2, Len(L2))[y]
    BY <2>13 DEF EndsU
  <2>17. \A o \in Pairs : To(P, Len(L), p, c)[o] = To(P2, Len(L2), p, c)[o]
    BY <2>12 DEF To
  <2>18. Grown(js, h, L, E, U, P, H, s1 \o g, EndsU(U, Len(L)), To(P, Len(L), p, c))
    BY <2>15, <2>16, <2>17, Weaker
  <2> QED BY <2>10, <2>18
<1>4. CASE p \notin CopyPayload
  <2>1. t = <<>> \o g
    BY <1>4 DEF LocalSub
  <2> HIDE DEF g
  <2>2. t = g
    BY <2>1, <1>1, EmptyCat
  <2>3. c = P[p][Len(L)] + n /\ c <= H[p] /\ f = P[p][Len(L)] % QLen
    OBVIOUS
  <2>4. Grown(js, h, L, E, U, P, H, s \o g, EndsU(U, Len(L)), To(P, Len(L), p, c))
    BY <2>3, <1>1, CopyProduce
  <2> QED BY <2>2, <2>4
<1> QED BY <1>3, <1>4

\* With what the prefetch submits before it.
LEMMA LocalSubs ==
  ASSUME NEW js, NEW h, NEW L, NEW E, NEW U, NEW P, NEW H, WorkOf(js, 0, <<>>, h, L, E, U, P, H),
         NEW s, NEW u, Grown(js, h, L, E, U, P, H, s, u, Ends(P, Len(L))), IsSeq(s),
         NEW p \in Pairs, p = "ingress", NEW n \in Nat, n <= QLen,
         NEW a \in Nat, a = H[p], a = P[p][Len(L)], NEW c, c = a + n, NEW G, G = [H EXCEPT ![p] = c],
         NEW from, FromSource(p, a, n, from), NEW to,
         NEW f, f = a % QLen, NEW hd, hd = c % QLen, NEW t, LocalSub(p, n, f, hd, from, to, t)
  PROVE  /\ WorkOf(js, 0, <<>>, h, L, E, U, P, G)
         /\ Grown(js, h, L, E, U, P, G, s \o t, u, To(P, Len(L), p, c))
<1>0. H \in [Pairs -> Nat]
  BY DEF WorkOf
<1>1. G \in [Pairs -> Nat] /\ G[p] = c /\ \A o \in Pairs : H[o] <= G[o]
  <2>1. c \in Nat /\ H[p] <= c
    OBVIOUS
  <2>2. G \in [Pairs -> Nat] /\ G[p] = c /\ \A o \in Pairs : o # p => G[o] = H[o]
    BY <2>1, <1>0
  <2>3. \A o \in Pairs : H[o] <= H[o]
    BY <1>0
  <2> QED BY <2>1, <2>2, <2>3
<1>2. WorkOf(js, 0, <<>>, h, L, E, U, P, G)
  <2> DEFINE z == 0
  <2> DEFINE b == <<>>
  <2>1. WorkOf(js, z, b, h, L, E, U, P, H)
    OBVIOUS
  <2> HIDE DEF z, b
  <2>2. WorkOf(js, z, b, h, L, E, U, P, G)
    BY <1>1, <2>1, Wider
  <2> QED BY <2>2 DEF z, b
<1>3. PICK L2, E2, U2, P2 :
        /\ WorkOf(js, 0, s, h, L2, E2, U2, P2, H)
        /\ Ext(L, E, U, P, L2, E2, U2, P2)
        /\ \A y \in Queues : U2[y][Len(L2)] = u[y]
        /\ \A o \in Pairs : P2[o][Len(L2)] = Ends(P, Len(L))[o]
  BY DEF Grown
<1>4. WorkOf(js, 0, s, h, L2, E2, U2, P2, G)
  <2> DEFINE z == 0
  <2>1. WorkOf(js, z, s, h, L2, E2, U2, P2, H)
    BY <1>3
  <2> HIDE DEF z
  <2>2. WorkOf(js, z, s, h, L2, E2, U2, P2, G)
    BY <1>1, <2>1, Wider
  <2> QED BY <2>2 DEF z
<1>5. \A o \in Pairs : P2[o][Len(L2)] = P[o][Len(L)]
  BY <1>3 DEF Ends
<1>6. CASE n = 0
  <2>1. t = <<>> /\ c = a
    BY <1>6 DEF LocalSub
  <2>2. s \o t = s
    <3>1. PICK S : s \in Seq(S)
      BY InRange
    <3> QED BY <2>1, <3>1
  <2>3. \A o \in Pairs : P2[o][Len(L2)] = To(P, Len(L), p, c)[o]
    BY <1>5, <2>1 DEF To
  <2>4. Grown(js, h, L, E, U, P, G, s, u, To(P, Len(L), p, c))
    BY <1>3, <1>4, <2>3 DEF Grown
  <2> QED BY <1>2, <2>2, <2>4
<1>7. CASE n # 0
  <2>1. a = P2[p][Len(L2)] /\ n \in Nat \ {0} /\ c = G[p]
    BY <1>1, <1>5, <1>7
  <2>2. Grown(js, h, L2, E2, U2, P2, G, s \o t, EndsU(U2, Len(L2)), To(P2, Len(L2), p, c))
    <3> HIDE DEF FromSource, LocalSub
    <3> QED BY <1>4, <2>1, LocalGrown
  <2>3. Grown(js, h, L, E, U, P, G, s \o t, EndsU(U2, Len(L2)), To(P2, Len(L2), p, c))
    <3>1. Typed(L2, E2, U2, P2)
      BY <1>3 DEF WorkOf
    <3> QED BY <3>1, <1>3, <2>2, GrownTrans
  <2>4. \A y \in Queues : u[y] = EndsU(U2, Len(L2))[y]
    BY <1>3 DEF EndsU
  <2>5. \A o \in Pairs : To(P, Len(L), p, c)[o] = To(P2, Len(L2), p, c)[o]
    BY <1>5 DEF To
  <2>6. Grown(js, h, L, E, U, P, G, s \o t, u, To(P, Len(L), p, c))
    BY <2>3, <2>4, <2>5, Weaker
  <2> QED BY <1>2, <2>6
<1> QED BY <1>6, <1>7

\* The ends of the other pairs, and what all pairs publish, are left alone.
OthersSame(p) ==
  /\ \A o \in Pairs : o # p => q'[Src[o]] = q[Src[o]] /\ q'[Dst[o]] = q[Dst[o]]
  /\ \A o \in Pairs : msg'[Src[o]] = msg[Src[o]] /\ msg'[Dst[o]] = msg[Dst[o]]

RingsSame(p, c, sp) ==
  /\ \A o \in Pairs : o # p => ring'[Src[o]] = ring[Src[o]]
  /\ "egress" \in Pairs => ring'["lcl_rx"] = ring["lcl_rx"]
  /\ BeyondSame(ring[Src[p]], ring'[Src[p]], c, sp)

\* gie_process_local_q keeps the invariant, given what it does to the pair,
\* the shadow and the log.
LEMMA LocalBuilt ==
  ASSUME NEW L, NEW E, NEW U, NEW P, NEW H, NEW X, NEW y, Whole(L, E, U, P, H, X, y), sub = <<>>,
         NEW p0 \in Pairs, p0 = "ingress", UNCHANGED <<hw, jobs, left>>, IndexOk', RingOk',
         \A x \in Queues : q'[x].qe_head = q[x].qe_head,
         NEW c \in Nat, H[p0] <= c, NEW G, G = [H EXCEPT ![p0] = c],
         NEW u, \A o \in Pairs : u[Src[o]] = U[Src[o]][Len(L)],
         WorkOf(jobs, 0, <<>>, hw, L, E, U, P, G),
         Grown(jobs, hw, L, E, U, P, G, sub', u, To(P, Len(L), p0, c)),
         NEW x2 \in Spot, x2.sp = X[p0].sp,
         PairAt(p0, q'[Src[p0]], q'[Dst[p0]], msg[Src[p0]], msg[Dst[p0]],
                U[Src[p0]][0], U[Src[p0]][Len(L)], P[p0][0], c, c, x2),
         NEW y2 \in Lasts,
         "ingress" \in CopyPayload =>
            ShadowAt(q'["host_bp"], q'["shadow"], U["host_bp"][0], u["host_bp"], y2),
         OthersSame(p0), RingsSame(p0, c, X[p0].sp)
  PROVE  IInv'
<1> DEFINE M == Len(L)
<1> DEFINE w == To(P, M, p0, c)
<1> DEFINE X2 == Put(X, p0, x2)
<1>1. /\ IndexOk /\ Heads(U) /\ X \in [Pairs -> Spot]
      /\ (\A p \in Pairs : PairOk(p, U, P, H, M, X[p]))
      /\ RingOk /\ (\A p \in Pairs : Sent(p, P, H, X[p].sp)) /\ Arrived(E, U, H, M, hw.done)
      /\ H \in [Pairs -> Nat]
  BY Parts
<1>2. left = 0
  BY Idle
<1>3. \A p \in Pairs : G[p] = IF p = p0 THEN c ELSE H[p]
  BY <1>1
<1>4. X2 \in [Pairs -> Spot] /\ X2[p0] = x2 /\ \A p \in Pairs : p # p0 => X2[p] = X[p]
  BY <1>1, PutIs
<1>w. \A p \in Pairs : w[p] = IF p = p0 THEN c ELSE P[p][M]
  BY DEF To
<1> HIDE DEF X2, w, M
<1>6. ASSUME NEW p \in Pairs
      PROVE  PairAt(p, q'[Src[p]], q'[Dst[p]], msg'[Src[p]], msg'[Dst[p]],
                    U[Src[p]][0], u[Src[p]], P[p][0], w[p], G[p], X2[p])
  <2>1. msg'[Src[p]] = msg[Src[p]] /\ msg'[Dst[p]] = msg[Dst[p]]
    BY DEF OthersSame
  <2>2. u[Src[p]] = U[Src[p]][M]
    BY DEF M
  <2>3. CASE p = p0
    <3>1. PairAt(p0, q'[Src[p0]], q'[Dst[p0]], msg[Src[p0]], msg[Dst[p0]],
                U[Src[p0]][0], U[Src[p0]][M], P[p0][0], c, c, x2)
      BY DEF M
    <3> QED BY <2>1, <2>2, <2>3, <3>1, <1>3, <1>4, <1>w
  <2>4. CASE p # p0
    <3>1. q'[Src[p]] = q[Src[p]] /\ q'[Dst[p]] = q[Dst[p]]
      BY <2>4 DEF OthersSame
    <3>2. PairOk(p, U, P, H, M, X[p])
      BY <1>1
    <3>3. w[p] = P[p][M] /\ X2[p] = X[p] /\ G[p] = H[p]
      BY <2>4, <1>3, <1>4, <1>w
    <3> QED BY <2>1, <2>2, <3>1, <3>2, <3>3 DEF PairOk
  <2> QED BY <2>3, <2>4
<1>8. ASSUME NEW p \in Pairs PROVE Sent(p, P, G, X2[p].sp)'
  <2>1. Sent(p, P, H, X[p].sp)
    BY <1>1
  <2>2. X2[p].sp = X[p].sp
    BY <1>4
  <2>3. CASE p = p0
    <3> DEFINE sp == X[p].sp
    <3> DEFINE h == H[p]
    <3>1. h \in Nat /\ sp \in Nat /\ h <= c /\ G[p] = c /\ X2[p].sp = sp /\ p = "ingress"
      BY <1>1, <1>3, <2>2, <2>3 DEF Spot
    <3>2. BeyondSame(ring[Src[p]], ring'[Src[p]], c, sp)
      BY <2>3 DEF RingsSame
    <3>3. \A x \in h .. sp - 1 : ring[Src[p]][x % QLen].buf = <<Src[p], x % QLen>>
      BY <2>1, <3>1 DEF Sent
    <3> HIDE DEF sp, h
    <3>4. \A x \in c .. sp - 1 : x \in h .. sp - 1
      BY <3>1
    <3>5. \A x \in c .. sp - 1 : ring'[Src[p]][x % QLen].buf = <<Src[p], x % QLen>>
      BY <3>2, <3>3, <3>4 DEF BeyondSame
    <3> QED BY <3>1, <3>5 DEF Sent
  <2>4. CASE p # p0
    <3>1. ring'[Src[p]] = ring[Src[p]]
      BY <2>4 DEF RingsSame
    <3>2. G[p] = H[p]
      BY <2>4, <1>3
    <3> QED BY <2>1, <2>2, <3>1, <3>2 DEF Sent
  <2> QED BY <2>3, <2>4
<1>9. Arrived(E, U, G, Len(L), hw.done)'
  <2>1. "egress" \in Pairs => G["egress"] = H["egress"] /\ ring'["lcl_rx"] = ring["lcl_rx"]
    BY <1>3 DEF RingsSame
  <2> QED BY <2>1, <1>1 DEF Arrived, M
<1>10. Grown(jobs, hw, L, E, U, P, G, sub', u, w)
  BY DEF w, M
<1>11. y2 \in [sh: Nat, st: Nat]
  BY DEF Lasts
<1> QED BY <1>1, <1>2, <1>4, <1>6, <1>8, <1>9, <1>10, <1>11, Built

\* The positions after the words are read.
LEMMA IngressIs ==
  ASSUME NEW p, p = "ingress", NEW s, NEW d, NEW ms, NEW md, NEW u0, NEW uM, NEW p0 \in Nat, NEW pM,
         NEW h \in Nat, p0 <= h, NEW x \in Spot, PairAt(p, s, d, ms, md, u0, uM, p0, pM, h, x),
         x.sd = x.rd, x.tl = x.sp, NEW rd, rd = x.rd, NEW sp, sp = x.sp
  PROVE  LocalAt(s, d, h, rd, sp)
<1>0. QLen \in Nat
  BY Params
<1>1. /\ s.head = h % QLen /\ d.tail = h % QLen /\ s.tail = x.tl % QLen /\ d.head = x.sd % QLen
      /\ x.rd <= p0 /\ h <= x.qt /\ x.qt <= x.tl /\ x.sp - p0 < QLen /\ x.qt - x.sd < QLen /\ x.qt = h
  BY DEF PairAt
<1>2. rd \in Nat /\ sp \in Nat
  BY DEF Spot
<1>3. s.head = h % QLen /\ d.tail = h % QLen /\ s.tail = sp % QLen /\ d.head = rd % QLen
      /\ rd <= p0 /\ h <= sp /\ sp - p0 < QLen /\ h - rd < QLen
  BY <1>1
<1>4. rd <= h /\ sp - h < QLen
  BY <1>0, <1>2, <1>3
<1> QED BY <1>2, <1>3, <1>4 DEF LocalAt

\* gie_copy_qes and gie_produce of gie_process_local_q: the GIE's index moves to c.
LocalOn(s, d, x, c, s2, d2, x2) ==
  /\ s2 = [s EXCEPT !.head = c % QLen] /\ d2 = [d EXCEPT !.tail = c % QLen]
  /\ x2 = [rd |-> x.rd, sd |-> x.sd, qt |-> c, tl |-> x.tl, sp |-> x.sp]

\* The GIE's index moves on to c.
LEMMA ProducedOn ==
  ASSUME NEW p, p = "ingress", NEW s \in QIdx, NEW d \in QIdx, NEW ms, NEW md, NEW u0, NEW uM, NEW p0,
         NEW pM, NEW h \in Nat, NEW x \in Spot, PairAt(p, s, d, ms, md, u0, uM, p0, pM, h, x),
         NEW c \in Nat, h <= c, c <= x.tl, NEW b, b = c - x.sd, b < QLen,
         NEW s2, NEW d2, NEW x2, LocalOn(s, d, x, c, s2, d2, x2)
  PROVE  /\ PairAt(p, s2, d2, ms, md, u0, uM, p0, c, c, x2)
         /\ s2 \in QIdx /\ d2 \in QIdx /\ x2 \in Spot /\ x2.sp = x.sp
         /\ s2.qe_head = s.qe_head /\ d2.qe_head = d.qe_head
<1>0. QLen \in Nat \ {0}
  BY Params
<1> DEFINE v == c % QLen
<1>1. v \in Nat
  BY <1>0, ModNat
<1>2. s2 = [s EXCEPT !.head = v] /\ d2 = [d EXCEPT !.tail = v]
      /\ x2 = [rd |-> x.rd, sd |-> x.sd, qt |-> c, tl |-> x.tl, sp |-> x.sp]
  BY DEF LocalOn
<1>v. v = c % QLen
  OBVIOUS
<1> HIDE DEF v
<1>3. /\ s2 \in QIdx /\ d2 \in QIdx /\ s2.head = v /\ s2.tail = s.tail /\ s2.qe_tail = s.qe_tail /\ s2.qe_head = s.qe_head
      /\ d2.tail = v /\ d2.head = d.head /\ d2.qe_tail = d.qe_tail /\ d2.qe_head = d.qe_head
  BY <1>1, <1>2 DEF QIdx
<1>4. x2 \in Spot /\ x2.rd = x.rd /\ x2.sd = x.sd /\ x2.qt = c /\ x2.tl = x.tl /\ x2.sp = x.sp
  BY <1>2 DEF Spot
<1>5. c <= c
  OBVIOUS
<1>6. PairAt(p, s2, d2, ms, md, u0, uM, p0, c, c, x2)
  BY <1>v, <1>3, <1>4, <1>5 DEF PairAt
<1> QED BY <1>3, <1>4, <1>6

\* Four queues change.
Four(a, b, c, e, v, w, z, g, q2) == q2 = [q EXCEPT ![a] = v, ![b] = w, ![c] = z, ![e] = g]

\* The queues after that.
LEMMA FourQueues ==
  ASSUME q \in [Queues -> QIdx], NEW a \in Queues, NEW b \in Queues, NEW c \in Queues, NEW e \in Queues,
         a # b, a # c, a # e, b # c, b # e, c # e,
         NEW v \in QIdx, NEW w \in QIdx, NEW z \in QIdx, NEW g \in QIdx, Four(a, b, c, e, v, w, z, g, q'),
         v.qe_head = q[a].qe_head, w.qe_head = q[b].qe_head, z.qe_head = q[c].qe_head, g.qe_head = q[e].qe_head
  PROVE  /\ q' \in [Queues -> QIdx] /\ q'[a] = v /\ q'[b] = w /\ q'[c] = z /\ q'[e] = g
         /\ (\A x \in Queues : x # a /\ x # b /\ x # c /\ x # e => q'[x] = q[x])
         /\ \A x \in Queues : q'[x].qe_head = q[x].qe_head
<1>1. q' = [x \in Queues |-> IF x = e THEN g ELSE IF x = c THEN z ELSE IF x = b THEN w ELSE IF x = a THEN v ELSE q[x]]
  BY DEF Four
<1>2. q'[a] = v /\ q'[b] = w /\ q'[c] = z /\ q'[e] = g
      /\ \A x \in Queues : x # a /\ x # b /\ x # c /\ x # e => q'[x] = q[x]
  BY <1>1
<1>3. q' \in [Queues -> QIdx]
  BY <1>1
<1>4. \A x \in Queues : q'[x].qe_head = q[x].qe_head
  BY <1>2
<1> QED BY <1>2, <1>3, <1>4

\* gie_process_local_q, with its local variables.
Local1(p, src, dst, pool, s, d, qes, avail, f, n, from, to, hd, tl) ==
  /\ src = Src[p] /\ dst = Dst[p] /\ pool = Pool[p]
  /\ s = [q[src] EXCEPT !.tail = msg[src].prod] /\ d = [q[dst] EXCEPT !.head = msg[dst].cons]
  /\ qes = gie_clip_batch(d, q_occupancy(s, QLen)) /\ avail = q_occupancy(q["shadow"], BpLen)
  /\ f = IF p \in CopyPayload /\ (avail < FillThresh \/ avail < qes)
         THEN gie_bpool_fill_shadow(pool, q[pool], q["shadow"])
         ELSE [b |-> q[pool], sh |-> q["shadow"], cons |-> msg[pool].cons, sub |-> <<>>]
  /\ n = IF p \in CopyPayload
         THEN Accepted(ring[src], s.head, Lesser(qes, avail), q_occupancy(f.sh, BpLen)) ELSE qes
  /\ from = [k \in 0 .. n - 1 |-> ring[src][Ahead(s.head, k, src)].buf]
  /\ to = [k \in 0 .. n - 1 |-> ring["shadow"][Ahead(f.sh.head, k, "shadow")]]
  /\ hd = Ahead(s.head, n, src) /\ tl = Ahead(d.tail, n, dst)

\* What it does when it gets past its early return.
Local2(p, src, dst, pool, s, d, f, n, from, to, hd, tl) ==
  /\ q' = [q EXCEPT ![src] = [s EXCEPT !.head = hd], ![dst] = [d EXCEPT !.tail = tl], ![pool] = f.b,
                    !["shadow"] = [f.sh EXCEPT !.head =
                                     IF p \in CopyPayload THEN Ahead(@, n, "shadow") ELSE @]]
  /\ msg' = [msg EXCEPT ![pool].cons = f.cons]
  /\ ring' = IF p \in CopyPayload THEN [ring EXCEPT ![src] = Rebuffered(@, s.head, n, to)] ELSE ring
  /\ sub' = f.sub \o
       IF n = 0 THEN <<>>
       ELSE (IF p \in CopyPayload THEN << BufCopy("none", src, dst, 0, 0, from, to, n) >> ELSE <<>>)
            \o gie_copy_qes(src, dst, n, s.head, "produce", hd, tl)

\* The action says that, for some values of them.
LEMMA LocalDo ==
  ASSUME NEW p, ProcessLocalQ(p)
  PROVE  /\ p = "ingress" /\ sub = <<>> /\ UNCHANGED <<hw, jobs, left>>
         /\ \E src, dst, pool, s, d, qes, avail, f, n, from, to, hd, tl :
              /\ Local1(p, src, dst, pool, s, d, qes, avail, f, n, from, to, hd, tl)
              /\ \/ q' = [q EXCEPT ![src] = s, ![dst] = d] /\ UNCHANGED <<msg, ring, sub>>
                 \/ Local2(p, src, dst, pool, s, d, f, n, from, to, hd, tl)
<1> DEFINE src == Src[p]
<1> DEFINE dst == Dst[p]
<1> DEFINE pool == Pool[p]
<1> DEFINE s == [q[src] EXCEPT !.tail = msg[src].prod]
<1> DEFINE d == [q[dst] EXCEPT !.head = msg[dst].cons]
<1> DEFINE qes == gie_clip_batch(d, q_occupancy(s, QLen))
<1> DEFINE avail == q_occupancy(q["shadow"], BpLen)
<1> DEFINE f == IF p \in CopyPayload /\ (avail < FillThresh \/ avail < qes)
                THEN gie_bpool_fill_shadow(pool, q[pool], q["shadow"])
                ELSE [b |-> q[pool], sh |-> q["shadow"], cons |-> msg[pool].cons, sub |-> <<>>]
<1> DEFINE n == IF p \in CopyPayload
                THEN Accepted(ring[src], s.head, Lesser(qes, avail), q_occupancy(f.sh, BpLen)) ELSE qes
<1> DEFINE from == [k \in 0 .. n - 1 |-> ring[src][Ahead(s.head, k, src)].buf]
<1> DEFINE to == [k \in 0 .. n - 1 |-> ring["shadow"][Ahead(f.sh.head, k, "shadow")]]
<1> DEFINE srcHead == Ahead(s.head, n, src)
<1> DEFINE dstTail == Ahead(d.tail, n, dst)
<1>1. Local1(p, src, dst, pool, s, d, qes, avail, f, n, from, to, srcHead, dstTail)
  BY SMTT(30) DEF Local1
<1>2. \/ q' = [q EXCEPT ![src] = s, ![dst] = d] /\ UNCHANGED <<msg, ring, sub>>
      \/ Local2(p, src, dst, pool, s, d, f, n, from, to, srcHead, dstTail)
  BY ZenonT(30) DEF ProcessLocalQ, Local2
<1>3. p = "ingress" /\ sub = <<>> /\ UNCHANGED <<hw, jobs, left>>
  BY ZenonT(30) DEF ProcessLocalQ
<1> HIDE DEF src, dst, pool, s, d, qes, avail, f, n, from, to, srcHead, dstTail
<1> QED BY <1>1, <1>2, <1>3

\* What gie_process_local_q has done about its buffers before it takes any.
FillOk(f, avail, L, E, U, P, H, u, y2) ==
  /\ f.b \in QIdx /\ f.sh \in QIdx /\ f.cons \in Nat
  /\ f.b.qe_head = q["host_bp"].qe_head /\ f.sh.qe_head = q["shadow"].qe_head
  /\ (\A o \in Pairs : u[Src[o]] = U[Src[o]][Len(L)])
  /\ IsSeq(f.sub) /\ Grown(jobs, hw, L, E, U, P, H, f.sub, u, Ends(P, Len(L)))
  /\ y2 \in Lasts
  /\ "ingress" \in CopyPayload =>
       /\ ShadowAt(f.b, f.sh, U["host_bp"][0], u["host_bp"], y2)
       /\ FillFits => y2.sh + avail <= y2.st

\* It prefetches when the shadow is low.
Choice(f, avail, qes) ==
  f = IF "ingress" \in CopyPayload /\ (avail < FillThresh \/ avail < qes)
      THEN gie_bpool_fill_shadow("host_bp", q["host_bp"], q["shadow"])
      ELSE [b |-> q["host_bp"], sh |-> q["shadow"], cons |-> msg["host_bp"].cons, sub |-> <<>>]

\* Whether it prefetches or not.
LEMMA LocalFill ==
  ASSUME NEW L, NEW E, NEW U, NEW P, NEW H, NEW X, NEW y, Whole(L, E, U, P, H, X, y), sub = <<>>,
         "ingress" \in Pairs, NEW avail, avail = q_occupancy(q["shadow"], BpLen), NEW qes \in Nat, qes <= Batch,
         NEW f, Choice(f, avail, qes)
  PROVE  \E u, y2 : FillOk(f, avail, L, E, U, P, H, u, y2)
<1> DEFINE M == Len(L)
<1> DEFINE b == q["host_bp"]
<1> DEFINE sh == q["shadow"]
<1>0. IndexOk /\ Heads(U) /\ y \in Lasts /\ Typed(L, E, U, P) /\ Steps(L, E, U, P)
      /\ 0 \in 0 .. M /\ M \in 0 .. M /\ ShadowOk(U, M, y)
  BY Parts DEF Lasts
<1>1. /\ "host_bp" \in Queues /\ Len_("host_bp") = BpLen /\ "shadow" \in Queues /\ BpLen \in Nat \ {0}
      /\ Batch \in Nat /\ FillThresh \in Nat
  BY Names, Params
<1>2. b \in QIdx /\ sh \in QIdx /\ msg["host_bp"].cons \in Nat
  BY <1>0, <1>1 DEF IndexOk, Words
<1>3. left = 0 /\ WorkOf(jobs, 0, <<>>, hw, L, E, U, P, H)
  BY Idle
<1>4. CASE "ingress" \notin CopyPayload
  <2>1. f = [b |-> b, sh |-> sh, cons |-> msg["host_bp"].cons, sub |-> <<>>]
    BY <1>4 DEF Choice
  <2>2. Grown(jobs, hw, L, E, U, P, H, <<>>, EndsU(U, M), Ends(P, M))
    BY <1>3, GrownSame
  <2>3. \A o \in Pairs : EndsU(U, M)[Src[o]] = U[Src[o]][M]
    BY Names DEF EndsU
  <2>4. FillOk(f, avail, L, E, U, P, H, EndsU(U, M), y)
    BY <1>0, <1>2, <1>4, <2>1, <2>2, <2>3, EmptyIs DEF FillOk
  <2> QED BY <2>4
<1>5. CASE "ingress" \in CopyPayload
  <2> DEFINE u0 == U["host_bp"][0]
  <2> DEFINE uM == U["host_bp"][M]
  <2>1. u0 \in Nat /\ uM \in Nat /\ u0 <= uM
    <3>1. \A i, j \in 0 .. M : i <= j => \A x \in Queues : U[x][i] <= U[x][j] /\ U[x][i] \in Nat
      BY <1>0, StepsAre
    <3> HIDE DEF M
    <3>2. 0 \in 0 .. M /\ M \in 0 .. M /\ 0 <= M /\ M <= M
      BY <1>0
    <3> QED BY <3>1, <3>2, <1>1
  <2>2. ShadowAt(b, sh, u0, uM, y)
    BY <1>0, <1>5 DEF ShadowOk, ShadowAt
  <2>3. b.qe_head = u0 % BpLen
    BY <1>0, <1>1 DEF Heads
  <2>4. FillAt(b, sh, u0, uM, y)
    BY <1>0, <1>2, <2>1, <2>2, <2>3 DEF FillAt
  <2>5. FillFits => y.sh <= y.st /\ avail = y.st - y.sh
    <3> SUFFICES ASSUME FillFits PROVE y.sh <= y.st /\ avail = y.st - y.sh
      OBVIOUS
    <3> DEFINE a == y.sh
    <3> DEFINE e == y.st
    <3>1. a \in Nat /\ e \in Nat /\ sh.head = a % BpLen /\ sh.tail = e % BpLen /\ a <= e /\ uM - a < BpLen /\ e <= u0
      BY <1>0, <2>2 DEF ShadowAt, Lasts
    <3> HIDE DEF a, e, u0, uM
    <3>2. e - a < BpLen
      BY <1>1, <2>1, <3>1
    <3>3. Occupancy(e % BpLen, a % BpLen, BpLen) = e - a
      BY <3>1, <3>2, <1>1, OccIs
    <3>4. avail = Occupancy(sh.tail, sh.head, BpLen)
      BY DEF q_occupancy, Occupancy
    <3> QED BY <3>1, <3>3, <3>4 DEF a, e
  <2>6. \E nu, uN, y2 : FillDone(b, sh, f, u0, uM, nu, uN, y, y2)
    <3>1. CASE avail < FillThresh \/ avail < qes
      <4>1. f = gie_bpool_fill_shadow("host_bp", b, sh)
        BY <1>5, <3>1 DEF Choice
      <4>2. FillFits => q_occupancy(sh, BpLen) < FillThresh
        <5>1. avail \in Nat
          BY <1>1, <1>2, OccNat
        <5>2. FillFits => avail < FillThresh
          <6> HIDE DEF sh
          <6> QED BY <3>1, <5>1, <1>1 DEF FillFits
        <5> QED BY <5>2
      <4> HIDE DEF b, sh, u0, uM
      <4> QED BY <1>0, <1>1, <1>5, <2>4, <4>1, <4>2, FillAll
    <3>2. CASE ~(avail < FillThresh \/ avail < qes)
      <4> DEFINE c == msg["host_bp"].cons
      <4>1. f = [b |-> b, sh |-> sh, cons |-> c, sub |-> <<>>] /\ c \in Nat
        BY <1>2, <3>2 DEF Choice
      <4> HIDE DEF b, sh, u0, uM, c
      <4> QED BY <2>4, <4>1, FillWaits
    <3> QED BY <3>1, <3>2
  <2>7. PICK nu, uN, y2 : FillDone(b, sh, f, u0, uM, nu, uN, y, y2)
    BY <2>6
  <2>8. IsSeq(f.sub) /\ Grown(jobs, hw, L, E, U, P, H, f.sub, Plus(U, M, "host_bp", nu), Ends(P, M))
    <3>1. b.qe_tail = uM % BpLen
      BY <2>2 DEF ShadowAt
    <3>2. uM = U["host_bp"][Len(L)]
      OBVIOUS
    <3> HIDE DEF b, sh, u0, uM
    <3>3. IsSeq(f.sub) /\ Grown(jobs, hw, L, E, U, P, H, f.sub, Plus(U, Len(L), "host_bp", nu), Ends(P, Len(L)))
      BY <1>1, <1>3, <1>5, <2>1, <2>7, <3>1, <3>2, FillGrown
    <3> QED BY <3>3
  <2> DEFINE u == Plus(U, M, "host_bp", nu)
  <2>9. u["host_bp"] = uN /\ \A o \in Pairs : u[Src[o]] = U[Src[o]][M]
    <3>1. \A x \in Queues : u[x] = IF x = "host_bp" THEN U[x][M] + nu ELSE U[x][M]
      BY DEF Plus
    <3>2. uN = U["host_bp"][M] + nu
      BY <2>7 DEF FillDone
    <3>3. \A o \in Pairs : Src[o] \in Queues /\ Src[o] # "host_bp"
      BY Names, PairIs
    <3> HIDE DEF u
    <3> QED BY <3>1, <3>2, <3>3, <1>1
  <2>10. FillFits => y2.sh + avail <= y2.st
    <3> SUFFICES ASSUME FillFits PROVE y2.sh + avail <= y2.st
      OBVIOUS
    <3>1. y2.sh = y.sh /\ y.st <= y2.st /\ y2 \in Lasts
      BY <2>7 DEF FillDone
    <3> QED BY <3>1, <2>5, <1>0 DEF Lasts
  <2>11. FillOk(f, avail, L, E, U, P, H, u, y2)
    <3> HIDE DEF u
    <3>1. /\ f.b \in QIdx /\ f.sh \in QIdx /\ f.cons \in Nat /\ f.b.qe_head = b.qe_head /\ f.sh.qe_head = sh.qe_head
          /\ ShadowAt(f.b, f.sh, u0, uN, y2) /\ y2 \in Lasts
      BY <2>7 DEF FillDone
    <3>2. Grown(jobs, hw, L, E, U, P, H, f.sub, u, Ends(P, M)) /\ IsSeq(f.sub)
      BY <2>8 DEF u
    <3> QED BY <3>1, <3>2, <2>9, <2>10 DEF FillOk
  <2> QED BY <2>11
<1> QED BY <1>4, <1>5

\* No more than it had buffers before it prefetched.
LEMMA LocalTakes ==
  ASSUME NEW p, NEW r, NEW head, NEW qes \in Nat, NEW avail \in Nat, NEW o \in Nat,
         NEW n, n = IF p \in CopyPayload THEN Accepted(r, head, Lesser(qes, avail), o) ELSE qes
  PROVE  n \in Nat /\ n <= qes /\ (p \in CopyPayload => n <= avail)
<1> DEFINE m == Lesser(qes, avail)
<1>1. m \in Nat /\ m <= qes /\ m <= avail
  BY DEF Lesser
<1> HIDE DEF m
<1>2. CASE p \in CopyPayload
  <2>1. n = Accepted(r, head, m, o)
    BY <1>2 DEF m
  <2>2. Accepted(r, head, m, o) \in 0 .. m
    BY <1>1, AcceptedIs
  <2> QED BY <2>1, <2>2, <1>1
<1>3. CASE p \notin CopyPayload
  BY <1>3
<1> QED BY <1>2, <1>3

\* n entries of the shadow are taken.
LEMMA ShadowTaken ==
  ASSUME NEW b, NEW s \in QIdx, NEW u0, NEW uM \in Nat, NEW y \in Lasts, ShadowAt(b, s, u0, uM, y),
         NEW n \in Nat, NEW a, a = y.sh + n, FillFits => a <= y.st,
         NEW s2, s2 = [s EXCEPT !.head = Ahead(s.head, n, "shadow")], NEW y2, y2 = [sh |-> a, st |-> y.st]
  PROVE  ShadowAt(b, s2, u0, uM, y2) /\ s2 \in QIdx /\ s2.qe_head = s.qe_head /\ y2 \in Lasts
<1>0. BpLen \in Nat \ {0} /\ Len_("shadow") = BpLen
  BY Params, Names
<1> DEFINE k == y.sh
<1>1. k \in Nat /\ y.st \in Nat /\ a = k + n
  BY DEF Lasts
<1>2. s.head = k % BpLen /\ s.tail = y.st % BpLen /\ (FillFits => uM - k < BpLen)
  BY DEF ShadowAt
<1>k. k = y.sh
  OBVIOUS
<1> HIDE DEF k
<1>3. a \in Nat /\ (FillFits => uM - a < BpLen)
  BY <1>0, <1>1, <1>2
<1> DEFINE v == Ahead(s.head, n, "shadow")
<1>4. v = a % BpLen /\ v \in Nat
  <2>1. q_idx_add(k % BpLen, n, BpLen) = (k + n) % BpLen
    BY <1>0, <1>1, AddIs
  <2>2. a % BpLen \in Nat
    BY <1>0, <1>3, ModNat
  <2> QED BY <2>1, <2>2, <1>0, <1>1, <1>2 DEF Ahead
<1>5. s2 \in QIdx /\ s2.head = v /\ s2.tail = s.tail /\ s2.qe_head = s.qe_head
  <2> HIDE DEF v
  <2> QED BY <1>4 DEF QIdx, v
<1>6. y2 \in Lasts /\ y2.sh = a /\ y2.st = y.st
  BY <1>1, <1>3 DEF Lasts
<1> HIDE DEF v
<1>7. ShadowAt(b, s2, u0, uM, y2)
  BY <1>3, <1>4, <1>5, <1>6 DEF ShadowAt
<1> QED BY <1>5, <1>6, <1>7

\* gie_process_local_q moves h, and the shadow's sh by as many buffers: the
\* elements keep theirs until they are copied, and the entries were copied
\* before.
LEMMA LocalStep == ASSUME NEW p0 \in Pairs PROVE IInv /\ ProcessLocalQ(p0) => IInv'
<1> SUFFICES ASSUME IInv, ProcessLocalQ(p0) PROVE IInv'
  OBVIOUS
<1>1. PICK L, E, U, P, H, X, y : Whole(L, E, U, P, H, X, y)
  BY DEF IInv
<1>2. /\ p0 = "ingress" /\ sub = <<>> /\ UNCHANGED <<hw, jobs, left>>
      /\ \E src, dst, pool, s, d, qes, avail, f, n, from, to, hd, tl :
           /\ Local1(p0, src, dst, pool, s, d, qes, avail, f, n, from, to, hd, tl)
           /\ \/ q' = [q EXCEPT ![src] = s, ![dst] = d] /\ UNCHANGED <<msg, ring, sub>>
              \/ Local2(p0, src, dst, pool, s, d, f, n, from, to, hd, tl)
  BY LocalDo
<1>3. PICK src, dst, pool, s, d, qes, avail, f, n, from, to, hd, tl :
           /\ Local1(p0, src, dst, pool, s, d, qes, avail, f, n, from, to, hd, tl)
           /\ \/ q' = [q EXCEPT ![src] = s, ![dst] = d] /\ UNCHANGED <<msg, ring, sub>>
              \/ Local2(p0, src, dst, pool, s, d, f, n, from, to, hd, tl)
  BY SMTT(30), <1>2
<1>4. /\ src = Src[p0] /\ dst = Dst[p0] /\ pool = Pool[p0]
      /\ s = [q[src] EXCEPT !.tail = msg[src].prod] /\ d = [q[dst] EXCEPT !.head = msg[dst].cons]
      /\ qes = gie_clip_batch(d, q_occupancy(s, QLen)) /\ avail = q_occupancy(q["shadow"], BpLen)
      /\ hd = Ahead(s.head, n, src) /\ tl = Ahead(d.tail, n, dst)
  BY ZenonT(30), <1>3 DEF Local1
<1>5. /\ src = "lcl_tx" /\ dst = "host_rx" /\ pool = "host_bp" /\ src \in Queues /\ dst \in Queues /\ pool \in Queues
      /\ "shadow" \in Queues /\ Len_(src) = QLen /\ Len_(dst) = QLen /\ Len_(pool) = BpLen
      /\ QLen \in Nat \ {0} /\ BpLen \in Nat \ {0}
  BY <1>2, <1>4, Names, Params
<1> DEFINE M == Len(L)
<1> DEFINE h == H[p0]
<1>6. left = 0 /\ WorkOf(jobs, 0, <<>>, hw, L, E, U, P, H)
  BY <1>1, <1>2, Idle
<1> DEFINE x1 == [rd |-> X[p0].rd, sd |-> X[p0].rd, qt |-> X[p0].qt, tl |-> X[p0].sp, sp |-> X[p0].sp]
<1>7. /\ PairAt(p0, q[src], q[dst], msg[src], msg[dst],
                U[src][0], U[src][M], P[p0][0], P[p0][M], h, X[p0])
      /\ q[src] \in QIdx /\ q[dst] \in QIdx /\ X[p0] \in Spot
      /\ msg[src].prod \in Nat /\ msg[dst].cons \in Nat
      /\ P[p0][0] \in Nat /\ h \in Nat /\ P[p0][0] <= h /\ P[p0][M] = h
  BY <1>1, <1>4, PairData
<1>8. /\ PairAt(p0, s, d, msg[src], msg[dst], U[src][0], U[src][M], P[p0][0], P[p0][M], h, x1)
      /\ s \in QIdx /\ d \in QIdx /\ x1 \in Spot
      /\ s.qe_head = q[src].qe_head /\ d.qe_head = q[dst].qe_head
  <2> DEFINE a == q[src]
  <2> DEFINE b == q[dst]
  <2> DEFINE ms == msg[src]
  <2> DEFINE md == msg[dst]
  <2> DEFINE u0 == U[src][0]
  <2> DEFINE uM == U[src][M]
  <2> DEFINE b0 == P[p0][0]
  <2> DEFINE bM == P[p0][M]
  <2> DEFINE x == X[p0]
  <2>1. ReadWords(a, b, ms, md, x, s, d, x1)
    BY <1>4 DEF ReadWords
  <2>2. /\ a \in QIdx /\ b \in QIdx /\ b0 \in Nat /\ h \in Nat /\ b0 <= h /\ x \in Spot
        /\ PairAt(p0, a, b, ms, md, u0, uM, b0, bM, h, x) /\ ms.prod \in Nat /\ md.cons \in Nat
    BY <1>7
  <2> HIDE DEF x1, M, a, b, ms, md, u0, uM, b0, bM, h, x
  <2>3. /\ PairAt(p0, s, d, ms, md, u0, uM, b0, bM, h, x1)
        /\ s \in QIdx /\ d \in QIdx /\ x1 \in Spot /\ s.qe_head = a.qe_head /\ d.qe_head = b.qe_head
    BY <2>1, <2>2, Reread
  <2> QED BY <2>3 DEF a, b, ms, md, u0, uM, b0, bM, x
<1>x. x1.sp = X[p0].sp /\ x1.tl = X[p0].sp /\ x1.rd = X[p0].rd /\ x1.sd = X[p0].rd
  OBVIOUS
<1> HIDE DEF x1
<1>n. PICK rd, sp : rd = X[p0].rd /\ sp = X[p0].sp
  OBVIOUS
<1>9. LocalAt(s, d, h, rd, sp)
  <2> DEFINE ms == msg[src]
  <2> DEFINE md == msg[dst]
  <2> DEFINE u0 == U[src][0]
  <2> DEFINE uM == U[src][M]
  <2> DEFINE b0 == P[p0][0]
  <2> DEFINE bM == P[p0][M]
  <2>1. /\ b0 \in Nat /\ h \in Nat /\ b0 <= h /\ x1 \in Spot /\ p0 = "ingress"
        /\ PairAt(p0, s, d, ms, md, u0, uM, b0, bM, h, x1)
        /\ x1.sd = x1.rd /\ x1.tl = x1.sp /\ rd = x1.rd /\ sp = x1.sp
    BY <1>2, <1>7, <1>8, <1>x, <1>n
  <2> HIDE DEF M, ms, md, u0, uM, b0, bM, h
  <2> QED BY <2>1, IngressIs
<1>10. qes \in Nat /\ qes <= Batch /\ qes < QLen /\ h + qes <= sp /\ (h + qes) - rd < QLen
  <2> HIDE DEF h
  <2> QED BY <1>4, <1>9, LocalCount
<1>11. avail \in Nat
  <2>1. q["shadow"] \in QIdx
    BY SMTT(30), <1>1, <1>5, Parts DEF IndexOk
  <2> QED BY <2>1, <1>4, <1>5, OccNat
<1>12. Choice(f, avail, qes)
  BY ZenonT(30), <1>2, <1>3, <1>5 DEF Local1, Choice
<1>13. PICK u, y2 : FillOk(f, avail, L, E, U, P, H, u, y2)
  BY <1>1, <1>2, <1>4, <1>10, <1>11, <1>12, LocalFill
<1>14. n \in Nat /\ n <= qes /\ (p0 \in CopyPayload => n <= avail)
  <2> DEFINE r == ring[src]
  <2> DEFINE head == s.head
  <2> DEFINE o == q_occupancy(f.sh, BpLen)
  <2>1. n = IF p0 \in CopyPayload THEN Accepted(r, head, Lesser(qes, avail), o) ELSE qes
    BY ZenonT(30), <1>3 DEF Local1
  <2>2. o \in Nat
    BY <1>5, <1>13, OccNat DEF FillOk
  <2> HIDE DEF r, head, o
  <2> QED BY SMTT(30), <2>1, <2>2, <1>10, <1>11, LocalTakes
<1>c. PICK c : c = h + n
  OBVIOUS
<1>15. c \in Nat /\ h <= c /\ c <= sp /\ c - rd < QLen /\ n <= QLen /\ rd \in Nat /\ sp \in Nat /\ h \in Nat
       /\ h <= sp /\ sp - h < QLen
  <2>1. rd \in Nat /\ sp \in Nat /\ h \in Nat /\ h <= sp /\ sp - h < QLen
    BY <1>9 DEF LocalAt
  <2> HIDE DEF h
  <2> QED BY <2>1, <1>c, <1>5, <1>10, <1>14
<1>16. hd = c % QLen /\ tl = c % QLen /\ s.head = h % QLen
  <2>1. s.head = h % QLen /\ d.tail = h % QLen
    BY <1>9 DEF LocalAt
  <2> HIDE DEF h
  <2>2. Ahead(h % QLen, n, src) = (h + n) % QLen /\ Ahead(h % QLen, n, dst) = (h + n) % QLen
    BY ZenonT(30), <1>5, <1>14, <1>15, AheadPos
  <2> QED BY <2>1, <2>2, <1>4, <1>c
<1>17. /\ IndexOk /\ RingOk /\ Heads(U) /\ Sent(p0, P, H, sp) /\ y \in Lasts
       /\ ShadowOk(U, M, y) /\ WorkOf(jobs, left, sub, hw, L, E, U, P, H)
  BY <1>1, <1>n, Parts DEF Lasts
<1>18. \A o \in Pairs : o # p0 =>
         /\ Src[o] \in Queues /\ Dst[o] \in Queues
         /\ Src[o] \notin {src, dst, pool, "shadow"} /\ Dst[o] \notin {src, dst, pool, "shadow"}
  BY <1>4, Apart, Names
<1>19. CASE q' = [q EXCEPT ![src] = s, ![dst] = d] /\ UNCHANGED <<msg, ring, sub>>
  <2> DEFINE z == 0
  <2>1. Grown(jobs, hw, L, E, U, P, H, sub', Plus(U, M, src, z), Ends(P, M))
    <3>1. Grown(jobs, hw, L, E, U, P, H, <<>>, EndsU(U, M), Ends(P, M))
      BY <1>6, GrownSame
    <3>2. sub' = <<>>
      BY <1>2, <1>19
    <3>u. U[src][M] \in Nat
      BY <1>1, <1>4, PairData
    <3>3. \A x \in Queues : Plus(U, M, src, 0)[x] = EndsU(U, M)[x]
      <4> SUFFICES ASSUME NEW x \in Queues PROVE Plus(U, M, src, 0)[x] = EndsU(U, M)[x]
        OBVIOUS
      <4>1. Plus(U, M, src, 0)[x] = IF x = src THEN U[x][M] + 0 ELSE U[x][M]
        BY DEF Plus
      <4>2. EndsU(U, M)[x] = U[x][M]
        BY DEF EndsU
      <4>3. U[src][M] + 0 = U[src][M]
        BY <3>u
      <4> QED BY <4>1, <4>2, <4>3
    <3>4. Grown(jobs, hw, L, E, U, P, H, <<>>, Plus(U, M, src, 0), Ends(P, M))
      BY <3>1, <3>3, Weaker
    <3> QED BY <3>2, <3>4
  <2>2. PairAt(p0, s, d, msg[src], msg[dst], U[src][0], U[src][M] + z, P[p0][0], P[p0][M], h, x1)
    <3>u. U[src][M] \in Nat
      BY <1>1, <1>4, PairData
    <3>1. U[src][M] + z = U[src][M]
      BY <3>u
    <3> QED BY <3>1, <1>8
  <2>3. z \in Nat
    OBVIOUS
  <2>4. EndsTo(p0, s, d)
    BY <1>4, <1>8, <1>19 DEF EndsTo
  <2>5. UNCHANGED <<msg, ring, hw, jobs, left>> /\ s \in QIdx /\ d \in QIdx /\ x1 \in Spot /\ x1.sp = X[p0].sp
    BY <1>2, <1>8, <1>19, <1>x
  <2> HIDE DEF z
  <2> QED BY <2>4, <2>5, <2>1, <2>2, <2>3, <1>1, <1>2, <1>4, RemoteBuilt DEF M, h
<1>20. CASE Local2(p0, src, dst, pool, s, d, f, n, from, to, hd, tl)
  <2>1. /\ msg' = [msg EXCEPT ![pool].cons = f.cons]
        /\ ring' = IF p0 \in CopyPayload THEN [ring EXCEPT ![src] = Rebuffered(@, s.head, n, to)] ELSE ring
        /\ from = [k \in 0 .. n - 1 |-> ring[src][Ahead(s.head, k, src)].buf]
    BY ZenonT(30), <1>3, <1>20 DEF Local1, Local2
  <2>f. /\ f.b \in QIdx /\ f.sh \in QIdx /\ f.cons \in Nat
        /\ f.b.qe_head = q["host_bp"].qe_head /\ f.sh.qe_head = q["shadow"].qe_head
        /\ (\A o \in Pairs : u[Src[o]] = U[Src[o]][Len(L)])
        /\ IsSeq(f.sub) /\ Grown(jobs, hw, L, E, U, P, H, f.sub, u, Ends(P, Len(L)))
        /\ y2 \in Lasts
    BY <1>13 DEF FillOk
  <2> DEFINE s2 == [s EXCEPT !.head = c % QLen]
  <2> DEFINE d2 == [d EXCEPT !.tail = c % QLen]
  <2> DEFINE x2 == [rd |-> x1.rd, sd |-> x1.sd, qt |-> c, tl |-> x1.tl, sp |-> x1.sp]
  <2>2. /\ PairAt(p0, s2, d2, msg[src], msg[dst], U[src][0], U[src][M], P[p0][0], c, c, x2)
        /\ s2 \in QIdx /\ d2 \in QIdx /\ x2 \in Spot /\ x2.sp = x1.sp
        /\ s2.qe_head = s.qe_head /\ d2.qe_head = d.qe_head
    <3> DEFINE ms == msg[src]
    <3> DEFINE md == msg[dst]
    <3> DEFINE u0 == U[src][0]
    <3> DEFINE uM == U[src][M]
    <3> DEFINE b0 == P[p0][0]
    <3> DEFINE bM == P[p0][M]
    <3> DEFINE b == c - x1.sd
    <3>1. LocalOn(s, d, x1, c, s2, d2, x2)
      BY DEF LocalOn
    <3>2. /\ p0 = "ingress" /\ s \in QIdx /\ d \in QIdx /\ h \in Nat /\ x1 \in Spot
          /\ PairAt(p0, s, d, ms, md, u0, uM, b0, bM, h, x1)
          /\ c \in Nat /\ h <= c /\ c <= x1.tl /\ b = c - x1.sd /\ b < QLen
      BY <1>2, <1>8, <1>15, <1>n, <1>x
    <3> HIDE DEF M, h, ms, md, u0, uM, b0, bM, b, s2, d2, x2
    <3>3. /\ PairAt(p0, s2, d2, ms, md, u0, uM, b0, c, c, x2)
          /\ s2 \in QIdx /\ d2 \in QIdx /\ x2 \in Spot /\ x2.sp = x1.sp
          /\ s2.qe_head = s.qe_head /\ d2.qe_head = d.qe_head
      BY <3>1, <3>2, ProducedOn
    <3> QED BY <3>3 DEF ms, md, u0, uM, b0
  <2>t. s2 = [s EXCEPT !.head = hd] /\ d2 = [d EXCEPT !.tail = tl]
    BY <1>16
  <2> HIDE DEF s2, d2, x2
  <2> DEFINE sv == [f.sh EXCEPT !.head = IF p0 \in CopyPayload THEN Ahead(@, n, "shadow") ELSE @]
  <2>3. /\ sv = IF p0 \in CopyPayload THEN [f.sh EXCEPT !.head = Ahead(f.sh.head, n, "shadow")] ELSE f.sh
    BY <2>f DEF QIdx
  <2>4. Four(src, dst, pool, "shadow", s2, d2, f.b, sv, q')
    <3> HIDE DEF sv
    <3> QED BY <1>20, <2>t DEF Local2, Four, sv
  <2> HIDE DEF sv
  <2>5. PICK y3 : y3 \in Lasts /\ sv \in QIdx /\ sv.qe_head = f.sh.qe_head
                  /\ ("ingress" \in CopyPayload => ShadowAt(f.b, sv, U["host_bp"][0], u["host_bp"], y3))
    <3>1. CASE "ingress" \in CopyPayload
      <4> DEFINE b == f.b
      <4> DEFINE v == f.sh
      <4> DEFINE u0 == U["host_bp"][0]
      <4> DEFINE uM == u["host_bp"]
      <4> DEFINE a == y2.sh + n
      <4> DEFINE y4 == [sh |-> a, st |-> y2.st]
      <4>1. uM \in Nat
        <5>1. PICK L2, E2, U2, P2 : WorkOf(jobs, 0, f.sub, hw, L2, E2, U2, P2, H)
                                    /\ \A x \in Queues : U2[x][Len(L2)] = u[x]
          BY <2>f DEF Grown
        <5>2. Len(L2) \in Nat /\ U2 \in [Queues -> [0 .. Len(L2) -> Nat]]
          BY <5>1, WorkIs DEF WorkOf, Typed
        <5>3. U2["host_bp"][Len(L2)] \in Nat /\ U2["host_bp"][Len(L2)] = uM
          BY <1>5, <5>1, <5>2
        <5> QED BY <5>3
      <4>2. ShadowAt(b, v, u0, uM, y2) /\ (FillFits => y2.sh + avail <= y2.st)
        BY <1>13, <3>1 DEF FillOk
      <4>3. v \in QIdx /\ y2 \in Lasts /\ p0 \in CopyPayload
        BY <1>2, <2>f, <3>1
      <4>4. FillFits => a <= y2.st
        <5>1. y2.sh \in Nat /\ y2.st \in Nat /\ n \in Nat /\ avail \in Nat /\ n <= avail
          BY <1>11, <1>14, <4>3 DEF Lasts
        <5> QED BY <4>2, <5>1
      <4>5. sv = [v EXCEPT !.head = Ahead(v.head, n, "shadow")]
        BY <2>3, <4>3
      <4> HIDE DEF b, v, u0, uM, a, sv, y4
      <4>6. a = y2.sh + n /\ y4 = [sh |-> a, st |-> y2.st] /\ n \in Nat
        BY <1>14 DEF a, y4
      <4>7. ShadowAt(b, sv, u0, uM, y4) /\ sv \in QIdx /\ sv.qe_head = v.qe_head /\ y4 \in Lasts
        BY <4>1, <4>2, <4>3, <4>4, <4>5, <4>6, ShadowTaken
      <4> QED BY <4>7 DEF b, v, u0, uM
    <3>2. CASE "ingress" \notin CopyPayload
      BY <1>2, <2>3, <2>f, <3>2
    <3> QED BY <3>1, <3>2
  <2>6. /\ q' \in [Queues -> QIdx] /\ q'[src] = s2 /\ q'[dst] = d2 /\ q'[pool] = f.b /\ q'["shadow"] = sv
        /\ (\A x \in Queues : x # src /\ x # dst /\ x # pool /\ x # "shadow" => q'[x] = q[x])
        /\ \A x \in Queues : q'[x].qe_head = q[x].qe_head
    <3> DEFINE e == "shadow"
    <3> DEFINE fb == f.b
    <3>1. Four(src, dst, pool, e, s2, d2, fb, sv, q')
      BY <2>4
    <3>2. /\ q \in [Queues -> QIdx] /\ e \in Queues /\ src # dst /\ src # pool /\ src # e /\ dst # pool /\ dst # e /\ pool # e
          /\ s2 \in QIdx /\ d2 \in QIdx /\ fb \in QIdx /\ sv \in QIdx
          /\ src \in Queues /\ dst \in Queues /\ pool \in Queues
      BY <1>5, <1>17, <2>2, <2>f, <2>5 DEF IndexOk
    <3>3. s2.qe_head = q[src].qe_head /\ d2.qe_head = q[dst].qe_head /\ fb.qe_head = q[pool].qe_head /\ sv.qe_head = q[e].qe_head
      BY <1>5, <1>8, <2>2, <2>f, <2>5
    <3> HIDE DEF e, fb
    <3>4. /\ q' \in [Queues -> QIdx] /\ q'[src] = s2 /\ q'[dst] = d2 /\ q'[pool] = fb /\ q'[e] = sv
          /\ (\A x \in Queues : x # src /\ x # dst /\ x # pool /\ x # e => q'[x] = q[x])
          /\ \A x \in Queues : q'[x].qe_head = q[x].qe_head
      BY <3>1, <3>2, <3>3, FourQueues
    <3> QED BY <3>4 DEF e, fb
  <2>7. /\ msg' \in [Queues -> Words] /\ \A x \in Queues : x # pool => msg'[x] = msg[x]
    <3> DEFINE v == f.cons
    <3>1. IndexOk /\ pool \in Queues /\ v \in Nat /\ msg' = [msg EXCEPT ![pool].cons = v]
      BY <1>5, <1>17, <2>1, <2>f
    <3> HIDE DEF v
    <3> QED BY <3>1, ConsIs
  <2>8. IndexOk'
    BY <2>6, <2>7 DEF IndexOk
  <2>9. OthersSame(p0)
    <3>1. \A o \in Pairs : o # p0 => q'[Src[o]] = q[Src[o]] /\ q'[Dst[o]] = q[Dst[o]]
      BY <1>18, <2>6
    <3>2. \A o \in Pairs : Src[o] \in Queues /\ Dst[o] \in Queues /\ Src[o] # pool /\ Dst[o] # pool
      BY <1>4, Names, Apart
    <3>3. \A o \in Pairs : msg'[Src[o]] = msg[Src[o]] /\ msg'[Dst[o]] = msg[Dst[o]]
      BY <2>7, <3>2
    <3> QED BY <3>1, <3>3 DEF OthersSame
  <2>10. RingOk' /\ RingsSame(p0, c, sp)
    <3>1. \A o \in Pairs : o # p0 => ring'[Src[o]] = ring[Src[o]]
      BY <1>5, <1>18, <1>17, <2>1 DEF RingOk
    <3>2. "egress" \in Pairs => ring'["lcl_rx"] = ring["lcl_rx"]
      BY <1>5, <1>17, <2>1 DEF RingOk
    <3>3. RingOk' /\ BeyondSame(ring[src], ring'[src], c, sp)
      <4>1. CASE p0 \in CopyPayload
        <5> DEFINE r == ring[src]
        <5> DEFINE head == s.head
        <5> DEFINE r2 == Rebuffered(r, head, n, to)
        <5>1. DOMAIN r = 0 .. QLen - 1
          BY <1>5, <1>17 DEF RingOk
        <5>2. head = h % QLen /\ r2 = Rebuffered(r, head, n, to)
          BY <1>16
        <5>3. ring' = [ring EXCEPT ![src] = r2]
          BY <2>1, <4>1
        <5> HIDE DEF r, head, r2, h
        <5>4. DOMAIN r2 = DOMAIN r /\ BeyondSame(r, r2, c, sp)
          BY <1>15, <1>14, <1>c, <5>1, <5>2, Beyond
        <5>5. DOMAIN ring = Queues /\ \A x \in Queues : DOMAIN ring[x] = 0 .. Len_(x) - 1
          BY <1>17 DEF RingOk
        <5>6. ring'[src] = r2 /\ DOMAIN ring' = Queues /\ \A x \in Queues : x # src => ring'[x] = ring[x]
          BY <1>5, <5>3, <5>5
        <5>7. \A x \in Queues : DOMAIN ring'[x] = 0 .. Len_(x) - 1
          BY <5>1, <5>4, <5>5, <5>6, <1>5
        <5>8. RingOk'
          BY <5>6, <5>7 DEF RingOk
        <5> QED BY <5>4, <5>6, <5>8 DEF r
      <4>2. CASE p0 \notin CopyPayload
        <5>1. ring' = ring
          BY <2>1, <4>2
        <5> QED BY <5>1, <1>17 DEF RingOk, BeyondSame
      <4> QED BY <4>1, <4>2
    <3> QED BY <1>4, <3>1, <3>2, <3>3 DEF RingsSame
  <2> DEFINE G == [H EXCEPT ![p0] = c]
  <2>11. /\ WorkOf(jobs, 0, <<>>, hw, L, E, U, P, G)
         /\ Grown(jobs, hw, L, E, U, P, G, sub', u, To(P, Len(L), p0, c))
    <3> DEFINE t == IF n = 0 THEN <<>>
                    ELSE (IF p0 \in CopyPayload THEN << BufCopy("none", src, dst, 0, 0, from, to, n) >> ELSE <<>>)
                         \o gie_copy_qes(src, dst, n, s.head, "produce", hd, tl)
    <3> DEFINE v == f.sub
    <3> DEFINE e == s.head
    <3>1. sub' = v \o t
      BY <1>20 DEF Local2
    <3>2. LocalSub(p0, n, e, hd, from, to, t)
      BY <1>4, <1>16 DEF LocalSub
    <3>3. FromSource(p0, h, n, from)
      <4>1. Sent(p0, P, H, sp) /\ h \in Nat /\ h = H[p0] /\ n \in Nat /\ h + n <= sp /\ e = h % QLen /\ p0 = "ingress"
        BY <1>2, <1>c, <1>14, <1>15, <1>16, <1>17
      <4>2. from = [k \in 0 .. n - 1 |-> ring[src][Ahead(e, k, src)].buf]
        BY <2>1
      <4> DEFINE spn == sp
      <4>3. spn = sp /\ spn \in Nat /\ h + n <= spn
        BY <1>15, <4>1
      <4> HIDE DEF h, e, spn
      <4> QED BY <1>4, <4>1, <4>2, <4>3, FromSent
    <3>4. /\ WorkOf(jobs, 0, <<>>, hw, L, E, U, P, H)
          /\ Grown(jobs, hw, L, E, U, P, H, v, u, Ends(P, Len(L))) /\ IsSeq(v)
      BY <1>6, <2>f
    <3>5. p0 = "ingress" /\ n \in Nat /\ n <= QLen /\ h \in Nat /\ h = H[p0] /\ h = P[p0][Len(L)] /\ c = h + n
          /\ e = h % QLen /\ hd = c % QLen /\ G = [H EXCEPT ![p0] = c]
      BY <1>2, <1>7, <1>c, <1>14, <1>15, <1>16
    <3> HIDE DEF h, e, v, t, G, M
    <3>6. /\ WorkOf(jobs, 0, <<>>, hw, L, E, U, P, G)
          /\ Grown(jobs, hw, L, E, U, P, G, v \o t, u, To(P, Len(L), p0, c))
      BY <3>2, <3>3, <3>4, <3>5, LocalSubs
    <3> QED BY <3>1, <3>6
  <2>12. "ingress" \in CopyPayload => ShadowAt(q'["host_bp"], q'["shadow"], U["host_bp"][0], u["host_bp"], y3)
    BY <1>5, <2>5, <2>6
  <2>13. /\ PairAt(p0, q'[Src[p0]], q'[Dst[p0]], msg[Src[p0]], msg[Dst[p0]],
                U[Src[p0]][0], U[Src[p0]][Len(L)], P[p0][0], c, c, x2)
         /\ x2 \in Spot /\ x2.sp = X[p0].sp
    BY <1>4, <1>x, <2>2, <2>6 DEF M
  <2>14. RingsSame(p0, c, X[p0].sp)
    BY <2>10, <1>n
  <2>15. H[p0] <= c /\ c \in Nat /\ y3 \in Lasts /\ (\A x \in Queues : q'[x].qe_head = q[x].qe_head)
         /\ RingOk' /\ (\A o \in Pairs : u[Src[o]] = U[Src[o]][Len(L)])
    BY <1>15, <2>5, <2>6, <2>10, <2>f
  <2> HIDE DEF h, M
  <2> QED BY <1>1, <1>2, <2>8, <2>9, <2>11, <2>12, <2>13, <2>14, <2>15, LocalBuilt
<1> QED BY <1>3, <1>19, <1>20

-----------------------------------------------------------------------------
(* Every step *)

\* The empty log.
LEMMA EmptyLog == IsSeq(<<>>) /\ Len(<<>>) = 0 /\ <<>> \in Seq(Job)
BY EmptyIs

\* Nothing changes.
LEMMA StutterStep == IInv /\ UNCHANGED vars => IInv'
<1> SUFFICES ASSUME IInv, UNCHANGED vars PROVE IInv'
  OBVIOUS
<1>1. PICK L, E, U, P, H, X, y : Whole(L, E, U, P, H, X, y)
  BY DEF IInv
<1>2. UNCHANGED <<q, msg, ring, hw, jobs, sub, left>>
  BY DEF vars
<1>3. Whole(L, E, U, P, H, X, y)'
  BY <1>1, <1>2 DEF Whole, IndexOk, Heads, PairOk, ShadowOk, RingOk, Sent, Arrived
<1> QED BY <1>3 DEF IInv

\* Every step keeps the invariant.
LEMMA NextStep == IInv /\ [Next]_vars => IInv'
<1> SUFFICES ASSUME IInv, [Next]_vars PROVE IInv'
  OBVIOUS
<1>1. CASE UNCHANGED vars
  BY <1>1, StutterStep
<1>2. ASSUME NEW p \in Pairs,
             \/ \E n \in Packets : Send(p, n)
             \/ Recv(p) \/ PutBuff(p) \/ ProcessRemoteQ(p) \/ ProcessBuffers(p) \/ ProcessLocalQ(p)
      PROVE IInv'
  <2>1. \A n \in Packets : n \in Nat
    BY DEF Packets
  <2> QED BY <1>2, <2>1, SendStep, RecvStep, PutBuffStep, RemoteStep, BuffersStep, LocalStep
<1>3. CASE Dma \/ Clean \/ Enqueue \/ Retry \/ GiveUp
  BY <1>3, DmaStep, CleanAct, EnqueueStep, RetryStep, GiveUpStep
<1> QED BY <1>1, <1>2, <1>3 DEF Next

\* At first there are no jobs, and every position is 0.
LEMMA InitInv == Init => IInv
<1> SUFFICES ASSUME Init PROVE IInv
  OBVIOUS
<1> DEFINE L == <<>>
<1> DEFINE E == [i \in 0 .. 0 |-> 0]
<1> DEFINE U == [x \in Queues |-> [i \in 0 .. 0 |-> 0]]
<1> DEFINE P == [p \in Pairs |-> [i \in 0 .. 0 |-> 0]]
<1> DEFINE H == [p \in Pairs |-> 0]
<1> DEFINE X == [p \in Pairs |-> [rd |-> 0, sd |-> 0, qt |-> 0, tl |-> 0, sp |-> 0]]
<1> DEFINE y == [sh |-> 0, st |-> 0]
<1>0. \A l \in Nat \ {0} : 0 % l = 0
  OBVIOUS
<1>1. Len(L) = 0 /\ IsSeq(L) /\ L \in Seq(Job)
  BY EmptyLog
<1>2. jobs = L /\ sub = <<>> /\ left = 0 /\ hw = [descs |-> <<>>, done |-> 0]
  BY DEF Init
<1>3. WorkOf(jobs, left, sub, hw, L, E, U, P, H)
  <2>1. Logs(jobs, left, sub, L)
    BY <1>1, <1>2 DEF Logs, SubAt
  <2>2. Typed(L, E, U, P) /\ H \in [Pairs -> Nat]
    BY <1>1 DEF Typed
  <2>3. Steps(L, E, U, P)
    BY <1>1 DEF Steps
  <2>4. Descs(jobs, left, hw, L, E, U, P, H)
    BY <1>1, <1>2, EmptyLog DEF Descs
  <2>5. Subs(jobs, left, sub, L, U, P, H)
    BY <1>1, <1>2, EmptyLog DEF Subs
  <2> HIDE DEF L, E, U, P, H
  <2> QED BY <2>1, <2>2, <2>3, <2>4, <2>5 DEF WorkOf
<1>4. /\ \A x \in Queues : q[x] = ResetQueue
      /\ \A x \in Queues : msg[x].cons = 0
      /\ \A x \in DataQs : msg[x].prod = 0
  <2>1. \A x \in DataQs : x \notin PoolQs
    BY Names, PairIs DEF DataQs, PoolQs
  <2>2. DataQs \subseteq Queues
    BY DEF Queues
  <2> QED BY <2>1, <2>2 DEF Init
<1>5. IndexOk
  <2>1. PoolFill \in Nat
    BY GieAssumption DEF PoolFill, Lesser
  <2> QED BY <2>1 DEF IndexOk, Init, QIdx, Words, ResetQueue
<1>6. Heads(U)
  BY <1>0, <1>4, Names DEF Heads, ResetQueue
<1>7. X \in [Pairs -> [rd: Nat, sd: Nat, qt: Nat, tl: Nat, sp: Nat]] /\ y \in [sh: Nat, st: Nat]
  OBVIOUS
<1>8. \A p \in Pairs : PairOk(p, U, P, H, Len(L), X[p])
  <2> SUFFICES ASSUME NEW p \in Pairs PROVE PairOk(p, U, P, H, Len(L), X[p])
    OBVIOUS
  <2>1. /\ Src[p] \in DataQs /\ Dst[p] \in DataQs /\ Src[p] \in Queues /\ Dst[p] \in Queues
        /\ QLen \in Nat \ {0} /\ 0 % QLen = 0
    BY <1>0, Names, Params
  <2>2. q[Src[p]] = ResetQueue /\ q[Dst[p]] = ResetQueue /\ msg[Src[p]].cons = 0 /\ msg[Src[p]].prod = 0
        /\ msg[Dst[p]].cons = 0 /\ msg[Dst[p]].prod = 0
    BY <1>4, <2>1
  <2>3. U[Src[p]][0] = 0 /\ P[p][0] = 0 /\ H[p] = 0 /\ X[p] = [rd |-> 0, sd |-> 0, qt |-> 0, tl |-> 0, sp |-> 0]
    BY <2>1
  <2>4. U[Src[p]][Len(L)] = 0 /\ P[p][Len(L)] = 0
    BY <1>1, <2>1
  <2> HIDE DEF U, P, H, X, L
  <2> QED BY <2>1, <2>2, <2>3, <2>4 DEF PairOk, PairAt, ResetQueue
<1>9. ShadowOk(U, Len(L), y)
  <2>1. "ingress" \in CopyPayload => "host_bp" \in Queues
    BY Names, Params
  <2>2. BpLen \in Nat \ {0} /\ 0 % BpLen = 0 /\ "shadow" \in Queues
    BY <1>0, Names, Params
  <2>3. "host_bp" \in Queues => U["host_bp"][0] = 0 /\ U["host_bp"][Len(L)] = 0
    BY <1>1
  <2>4. y.sh = 0 /\ y.st = 0
    OBVIOUS
  <2> HIDE DEF U, L, y
  <2> QED BY <1>4, <2>1, <2>2, <2>3, <2>4 DEF ShadowOk, ResetQueue
<1>10. RingOk
  BY DEF RingOk, Init
<1>11. \A p \in Pairs : Sent(p, P, H, X[p].sp)
  <2> SUFFICES ASSUME NEW p \in Pairs PROVE Sent(p, P, H, X[p].sp)
    OBVIOUS
  <2>1. P[p][0] = 0 /\ H[p] = 0 /\ X[p].sp = 0
    OBVIOUS
  <2> HIDE DEF P, H, X
  <2> QED BY <2>1 DEF Sent
<1>12. Arrived(E, U, H, Len(L), hw.done)
  <2> SUFFICES ASSUME "egress" \in Pairs, NEW i \in 0 .. Len(L), NEW x \in H["egress"] .. U["host_tx"][i] - 1
               PROVE FALSE
    BY DEF Arrived
  <2>1. i = 0 /\ H["egress"] = 0
    BY <1>1
  <2>2. U["host_tx"][i] = 0
    BY <2>1, Names
  <2> HIDE DEF H, U
  <2> QED BY <2>1, <2>2
<1>13. Whole(L, E, U, P, H, X, y)
  <2> HIDE DEF L, E, U, P, H, X, y
  <2> QED BY <1>3, <1>5, <1>6, <1>7, <1>8, <1>9, <1>10, <1>11, <1>12 DEF Whole
<1> HIDE DEF L, E, U, P, H, X, y
<1> QED BY <1>13 DEF IInv

-----------------------------------------------------------------------------
(* dma_jobs and the engine's queue *)

\* The sum that DescsOf takes is E, by induction over the jobs: E[Len(jobs)]
\* counts what is in the engine's queue and what is left.
LEMMA DescsAgree == IInv => JobsMatchDescs
<1> SUFFICES ASSUME IInv PROVE JobsMatchDescs
  OBVIOUS
<1>1. PICK L, E, U, P, H, X, y : Whole(L, E, U, P, H, X, y)
  BY DEF IInv
<1>2. WorkOf(jobs, left, sub, hw, L, E, U, P, H)
  BY <1>1, Parts
<1> DEFINE N == Len(jobs)
<1>3. /\ N \in Nat /\ Len(L) \in Nat /\ N <= Len(L) /\ \A i \in 1 .. N : L[i] = jobs[i]
  BY <1>2, WorkIs DEF WorkOf, Logs
<1>4. E \in [0 .. Len(L) -> Nat] /\ E[0] = 0 /\ \A i \in 1 .. Len(L) : E[i] = E[i - 1] + L[i].descs
  BY <1>2 DEF WorkOf, Typed, Steps
<1>5. E[N] = Len(hw.descs) + left
  BY <1>2 DEF WorkOf, Descs
<1>6. \A i \in 1 .. N : E[i] = E[i - 1] + jobs[i].descs
  <2> HIDE DEF N
  <2> QED BY <1>3, <1>4
<1> HIDE DEF N
<1>7. ASSUME NEW d, d = [i \in 0 .. N |-> IF i = 0 THEN 0 ELSE d[i - 1] + jobs[i].descs]
      PROVE d[N] = E[N]
  <2> DEFINE S == {i \in Nat : i <= N => d[i] = E[i]}
  <2>1. 0 \in S
    <3>1. d[0] = 0
      BY <1>3, <1>7
    <3> QED BY <3>1, <1>4
  <2>2. ASSUME NEW i \in S PROVE i + 1 \in S
    <3>1. i \in Nat /\ i + 1 \in Nat /\ (i + 1) - 1 = i
      OBVIOUS
    <3>2. CASE i + 1 <= N
      <4> DEFINE k == i + 1
      <4>1. k \in 1 .. N /\ k \in 0 .. N /\ k # 0 /\ k - 1 = i
        BY <1>3, <3>1, <3>2
      <4>2. d[i] = E[i]
        BY <1>3, <3>1, <3>2
      <4> HIDE DEF k
      <4>3. d[k] = d[k - 1] + jobs[k].descs
        BY <1>7, <4>1
      <4>4. E[k] = E[k - 1] + jobs[k].descs
        BY <1>6, <4>1
      <4> QED BY <3>1, <4>1, <4>2, <4>3, <4>4 DEF k
    <3>3. CASE ~(i + 1 <= N)
      BY <3>1, <3>3
    <3> QED BY <3>2, <3>3
  <2>3. S = Nat
    <3>1. S \in SUBSET Nat
      OBVIOUS
    <3> HIDE DEF S
    <3> QED BY <2>1, <2>2, <3>1, NatInduct
  <2> QED BY <1>3, <2>3
<1>8. \E d : d = [i \in 0 .. N |-> IF i = 0 THEN 0 ELSE d[i - 1] + jobs[i].descs]
  <2> DEFINE d == [i \in 0 .. N |-> E[i]]
  <2>1. \A i \in 0 .. N : d[i] = IF i = 0 THEN 0 ELSE d[i - 1] + jobs[i].descs
    <3> SUFFICES ASSUME NEW i \in 0 .. N PROVE d[i] = IF i = 0 THEN 0 ELSE d[i - 1] + jobs[i].descs
      OBVIOUS
    <3>1. CASE i = 0
      BY <1>4, <3>1
    <3>2. CASE i # 0
      <4>1. i \in 1 .. N /\ i - 1 \in 0 .. N
        BY <1>3, <3>2
      <4> QED BY <1>6, <3>2, <4>1
    <3> QED BY <3>1, <3>2
  <2>2. d = [i \in 0 .. N |-> d[i]]
    OBVIOUS
  <2> HIDE DEF d
  <2>3. d = [i \in 0 .. N |-> IF i = 0 THEN 0 ELSE d[i - 1] + jobs[i].descs]
    BY <2>1, <2>2
  <2> QED BY <2>3
<1>9. DescsOf(jobs) = E[N]
  <2> DEFINE d == CHOOSE d : d = [i \in 0 .. N |-> IF i = 0 THEN 0 ELSE d[i - 1] + jobs[i].descs]
  <2>1. DescsOf(jobs) = d[N]
    BY DEF DescsOf, N
  <2>2. d = [i \in 0 .. N |-> IF i = 0 THEN 0 ELSE d[i - 1] + jobs[i].descs]
    BY <1>8
  <2> HIDE DEF d
  <2> QED BY <2>1, <2>2, <1>7
<1> QED BY <1>5, <1>9 DEF JobsMatchDescs, N

-----------------------------------------------------------------------------
(* What is in flight *)

\* A descriptor that copies n elements from position x on.
QeRun(d, src, dst, l, x, n) ==
  /\ x \in Nat /\ n \in Nat /\ (x % l) + n <= l
  /\ d = [op |-> "qe", src |-> src, dst |-> dst, first |-> x % l, cnt |-> n]

\* What is in flight: elements of a pair, or buffers, between what is published
\* to their consumer and what is being copied, or entries of the host's pool.
InPair(d, p, lo, hi) ==
  \/ \E x, n \in Nat : QeRun(d, Src[p], Dst[p], QLen, x, n) /\ lo <= x /\ x + n <= hi
  \/ \E x \in Nat : \E b : d = [op |-> "buf", src |-> <<Src[p], x % QLen>>, dst |-> b] /\ lo <= x /\ x < hi

InPool(d, lo, hi) ==
  \E x, n \in Nat : QeRun(d, "host_bp", "shadow", BpLen, x, n) /\ lo <= x /\ x + n <= hi

Flying(d, U, P, X, M) ==
  \/ \E p \in Pairs : InPair(d, p, P[p][0], X[p].qt)
  \/ "ingress" \in CopyPayload /\ InPool(d, U["host_bp"][0], U["host_bp"][M])

\* What a job may copy lies between what is published and what is copied
\* ahead.
LEMMA CopyIn ==
  ASSUME NEW p \in Pairs, NEW lo \in Nat, NEW hi \in Nat, NEW d, CopyFrom(p, lo, hi, d),
         NEW a \in Nat, a <= lo, NEW b \in Nat, hi <= b
  PROVE  InPair(d, p, a, b)
<1>1. CASE \E x \in lo .. hi - 1 : \E z : d = [op |-> "buf", src |-> <<Src[p], x % QLen>>, dst |-> z]
  <2>1. PICK x \in lo .. hi - 1 : \E z : d = [op |-> "buf", src |-> <<Src[p], x % QLen>>, dst |-> z]
    BY <1>1
  <2>2. x \in Nat /\ a <= x /\ x < b
    OBVIOUS
  <2> QED BY <2>1, <2>2 DEF InPair
<1>2. CASE \E x \in lo .. hi - 1, n \in Nat :
             /\ x + n <= hi /\ (x % QLen) + n <= QLen
             /\ d = [op |-> "qe", src |-> Src[p], dst |-> Dst[p], first |-> x % QLen, cnt |-> n]
  <2>1. PICK x \in lo .. hi - 1, n \in Nat :
             /\ x + n <= hi /\ (x % QLen) + n <= QLen
             /\ d = [op |-> "qe", src |-> Src[p], dst |-> Dst[p], first |-> x % QLen, cnt |-> n]
    BY <1>2
  <2>2. x \in Nat /\ a <= x /\ x + n <= b
    BY <2>1
  <2>3. QeRun(d, Src[p], Dst[p], QLen, x, n)
    BY <2>1, <2>2 DEF QeRun
  <2> QED BY <2>2, <2>3 DEF InPair
<1> QED BY <1>1, <1>2 DEF CopyFrom

\* A descriptor that is not completed belongs to a job of the log.
LEMMA FlyingIs ==
  ASSUME NEW L, NEW E, NEW U, NEW P, NEW H, NEW X, NEW y, Whole(L, E, U, P, H, X, y), NEW d \in PendingDescs
  PROVE  Flying(d, U, P, X, Len(L))
<1> DEFINE M == Len(L)
<1>1. WorkOf(jobs, left, sub, hw, L, E, U, P, H) /\ Typed(L, E, U, P) /\ Steps(L, E, U, P) /\ M \in Nat
  BY Parts
<1>2. PICK k \in hw.done + 1 .. Len(hw.descs) : d = hw.descs[k]
  BY DEF PendingDescs
<1>3. PICK i \in 1 .. Len(L) : E[i - 1] < k /\ k <= E[i] /\ JobOk(L[i]) /\ Claim(L, U, P, H, i, hw.descs[k])
  BY <1>1, JobOf
<1> DEFINE j == L[i]
<1>4. JobOk(j) /\ Claim(L, U, P, H, i, d) /\ j = L[i]
  BY <1>2, <1>3
<1>5. 0 \in 0 .. M /\ M \in 0 .. M /\ i \in 0 .. M /\ i - 1 \in 0 .. M /\ 0 <= i - 1 /\ i <= M
  BY <1>1
<1>6. /\ \A a \in 0 .. M : (\A p \in Pairs : P[p][a] \in Nat) /\ (\A x \in Queues : U[x][a] \in Nat)
      /\ \A a, b \in 0 .. M : a <= b => (\A p \in Pairs : P[p][a] <= P[p][b]) /\ (\A x \in Queues : U[x][a] <= U[x][b])
  BY <1>1, StepsAre
<1>7. j \in Job
  BY <1>4 DEF JobOk
<1>8. j.epd \in Nat /\ j.src \in Queues
  <2> HIDE DEF j
  <2> QED BY <1>7 DEF Job
<1>9. ASSUME NEW x \in Queues, x = j.src, j.flag = "update"
      PROVE /\ QeRun(d, j.src, j.dst, Len_(x), U[x][i - 1], j.epd)
            /\ U[x][i - 1] + j.epd = U[x][i] /\ U[x][0] <= U[x][i - 1] /\ U[x][i] <= U[x][M]
  <2> DEFINE a == U[x][i - 1]
  <2>1. d = [op |-> "qe", src |-> j.src, dst |-> j.dst, first |-> a % Len_(x), cnt |-> j.epd]
        /\ d.first + d.cnt <= Len_(x)
    BY <1>4, <1>9 DEF Claim
  <2>2. U[x][i] = a + Upd(L[i], x)
    BY <1>1 DEF Steps
  <2>3. Upd(L[i], x) = j.epd
    BY <1>9 DEF Upd
  <2>4. U[x][0] <= a /\ U[x][i] <= U[x][M] /\ a \in Nat
    BY <1>5, <1>6
  <2>5. d.first = a % Len_(x) /\ d.cnt = j.epd
    BY <2>1
  <2> HIDE DEF a, j
  <2>6. QeRun(d, j.src, j.dst, Len_(x), a, j.epd)
    BY <2>1, <2>4, <2>5, <1>8 DEF QeRun
  <2>7. a + j.epd = U[x][i] /\ U[x][0] <= a /\ U[x][i] <= U[x][M]
    BY <2>2, <2>3, <2>4
  <2> QED BY <2>6, <2>7 DEF a
<1>10. ASSUME NEW p \in Pairs, j.src = Src[p], j.flag # "update" PROVE InPair(d, p, P[p][0], X[p].qt)
  <2>1. CopyFrom(p, P[p][i - 1], H[p], d)
    BY <1>4, <1>10 DEF Claim
  <2>2. H[p] \in Nat /\ X[p].qt \in Nat /\ H[p] <= X[p].qt
    BY PairNum
  <2>3. P[p][0] \in Nat /\ P[p][i - 1] \in Nat /\ P[p][0] <= P[p][i - 1]
    BY <1>5, <1>6
  <2> DEFINE lo == P[p][i - 1]
  <2> DEFINE hi == H[p]
  <2> DEFINE a == P[p][0]
  <2> DEFINE b == X[p].qt
  <2>4. CopyFrom(p, lo, hi, d) /\ lo \in Nat /\ hi \in Nat /\ a \in Nat /\ b \in Nat /\ a <= lo /\ hi <= b
    BY <2>1, <2>2, <2>3
  <2> HIDE DEF lo, hi, a, b
  <2>5. InPair(d, p, a, b)
    BY <2>4, CopyIn
  <2> QED BY <2>5 DEF a, b
<1>11. CASE j.flag # "update"
  <2>1. \E p \in Pairs : j.src = Src[p]
    <3> HIDE DEF j
    <3> QED BY <1>4, <1>11, Params DEF JobOk, ForPair
  <2> HIDE DEF j
  <2> QED BY <1>10, <1>11, <2>1 DEF Flying
<1>12. CASE j.flag = "update" /\ ForPair(j, "egress")
  <2> DEFINE p == "egress"
  <2>1. p \in Pairs /\ j.src = Src[p] /\ j.dst = Dst[p] /\ Src[p] \in Queues /\ Len_(Src[p]) = QLen
    BY <1>12, Names DEF ForPair
  <2>2. /\ PairAt(p, q[Src[p]], q[Dst[p]], msg[Src[p]], msg[Dst[p]],
                  U[Src[p]][0], U[Src[p]][M], P[p][0], P[p][M], H[p], X[p])
        /\ U[Src[p]][0] \in Nat /\ P[p][0] \in Nat /\ P[p][0] <= H[p] /\ H[p] \in Nat
    BY <2>1, PairData
  <2>3. H[p] <= U[Src[p]][0] /\ U[Src[p]][M] = X[p].qt
    BY <2>2 DEF PairAt
  <2> DEFINE x == Src[p]
  <2>4. /\ QeRun(d, j.src, j.dst, Len_(x), U[x][i - 1], j.epd)
        /\ U[x][i - 1] + j.epd = U[x][i] /\ U[x][0] <= U[x][i - 1] /\ U[x][i] <= U[x][M]
    BY <1>9, <1>12, <2>1
  <2>5. U[x][i - 1] \in Nat /\ U[x][i] \in Nat /\ U[x][0] \in Nat /\ U[x][M] \in Nat
    BY <1>5, <1>6, <2>1
  <2> DEFINE a == U[x][i - 1]
  <2> DEFINE n == j.epd
  <2>6. QeRun(d, Src[p], Dst[p], QLen, a, n) /\ a \in Nat /\ n \in Nat /\ P[p][0] <= a /\ a + n <= X[p].qt
    <3>1. QeRun(d, Src[p], Dst[p], QLen, a, n)
      BY <2>1, <2>4
    <3>2. P[p][0] <= U[x][0] /\ P[p][0] \in Nat
      BY <2>2, <2>3
    <3>3. n \in Nat
      BY <1>8
    <3>4. U[x][M] = X[p].qt
      BY <2>3
    <3> DEFINE p0 == P[p][0]
               u0 == U[x][0]
               ui == U[x][i]
               um == U[x][M]
    <3>5. /\ p0 \in Nat /\ u0 \in Nat /\ ui \in Nat /\ um \in Nat /\ a \in Nat /\ n \in Nat
          /\ p0 <= u0 /\ u0 <= a /\ a + n = ui /\ ui <= um
      BY <2>4, <2>5, <3>2, <3>3
    <3> HIDE DEF a, n, p0, u0, ui, um
    <3>6. p0 <= a /\ a + n <= um
      BY <3>5
    <3> QED BY <3>1, <3>4, <3>5, <3>6 DEF p0, um
  <2> HIDE DEF a, n
  <2>7. InPair(d, p, P[p][0], X[p].qt)
    BY <2>6 DEF InPair
  <2> QED BY <2>1, <2>7 DEF Flying
<1>13. CASE j.flag = "update" /\ ForShadow(j)
  <2> DEFINE x == "host_bp"
  <2>1. "ingress" \in CopyPayload /\ j.src = x /\ j.dst = "shadow" /\ x \in Queues /\ Len_(x) = BpLen
    BY <1>13, Names, Params DEF ForShadow
  <2>2. /\ QeRun(d, j.src, j.dst, Len_(x), U[x][i - 1], j.epd)
        /\ U[x][i - 1] + j.epd = U[x][i] /\ U[x][0] <= U[x][i - 1] /\ U[x][i] <= U[x][M]
    BY <1>9, <1>13, <2>1
  <2>3. U[x][i - 1] \in Nat
    BY <1>5, <1>6, <2>1
  <2> DEFINE a == U[x][i - 1]
  <2> DEFINE n == j.epd
  <2>4. QeRun(d, "host_bp", "shadow", BpLen, a, n) /\ a \in Nat /\ n \in Nat /\ U[x][0] <= a /\ a + n <= U[x][M]
    BY <1>8, <2>1, <2>2, <2>3
  <2> HIDE DEF a, n
  <2> QED BY <2>1, <2>4 DEF Flying, InPool
<1>14. j.flag # "update" \/ ForPair(j, "egress") \/ ForShadow(j)
  <2> HIDE DEF j
  <2> QED BY <1>4 DEF JobOk
<1> HIDE DEF j
<1> QED BY <1>11, <1>12, <1>13, <1>14

\* The slots of a run are among those of a ring between two positions ...
LEMMA RunWithin ==
  ASSUME NEW l \in Nat \ {0}, NEW a \in Nat, NEW b \in Nat, b - a < l,
         NEW d, NEW src, NEW dst, NEW x, NEW n, QeRun(d, src, dst, l, x, n), a <= x, x + n <= b
  PROVE  Covered(d) \subseteq Slots(a % l, b % l, l)
<1>1. x \in Nat /\ n \in Nat /\ (x % l) + n <= l /\ d.first = x % l /\ d.cnt = n
  BY DEF QeRun
<1> SUFFICES ASSUME NEW i \in Covered(d) PROVE i \in Slots(a % l, b % l, l)
  OBVIOUS
<1>2. i \in (x % l) .. (x % l) + n - 1
  BY <1>1 DEF Covered
<1>3. PICK z \in Nat : x <= z /\ z < x + n /\ i = z % l
  BY <1>1, <1>2, RunOf
<1>4. a <= z /\ z < b
  BY <1>1, <1>3
<1> QED BY <1>3, <1>4, SlotIn

\* ... and not among those it meets earlier in the same round.
LEMMA RunBeyond ==
  ASSUME NEW l \in Nat \ {0}, NEW a \in Nat, NEW b \in Nat, a <= b, NEW hi \in Nat, hi - a < l, b - a < l,
         NEW d, NEW src, NEW dst, NEW x, NEW n, QeRun(d, src, dst, l, x, n), b <= x, x + n <= hi
  PROVE  Covered(d) \cap Slots(a % l, b % l, l) = {}
<1>1. x \in Nat /\ n \in Nat /\ (x % l) + n <= l /\ d.first = x % l /\ d.cnt = n
  BY DEF QeRun
<1> SUFFICES ASSUME NEW i, i \in Covered(d), i \in Slots(a % l, b % l, l) PROVE FALSE
  OBVIOUS
<1>2. i \in (x % l) .. (x % l) + n - 1
  BY <1>1 DEF Covered
<1>3. PICK z \in Nat : x <= z /\ z < x + n /\ i = z % l
  BY <1>1, <1>2, RunOf
<1>4. PICK w \in Nat : a <= w /\ w < b /\ i = w % l
  BY ZenonT(30), SlotOf
<1>5. w < z /\ z - w < l /\ w - z < l
  BY <1>1, <1>3, <1>4
<1>6. w = z
  BY <1>3, <1>4, <1>5, ModSame
<1> QED BY <1>5, <1>6

\* What is copied lies between what is published back to the producer and what
\* the producer has published.
LEMMA SourceIs == IInv => SourceStable
<1> SUFFICES ASSUME IInv, NEW d \in PendingDescs
             PROVE  /\ d.op = "qe" /\ d.src \in DataQs => Covered(d) \subseteq Posted(d.src)
                    /\ d.op = "buf" => d.src[2] \in Posted(d.src[1])
  BY DEF SourceStable
<1>1. PICK L, E, U, P, H, X, y : Whole(L, E, U, P, H, X, y)
  BY DEF IInv
<1>2. Flying(d, U, P, X, Len(L))
  BY <1>1, FlyingIs
<1>3. CASE \E p \in Pairs : InPair(d, p, P[p][0], X[p].qt)
  <2>1. PICK p \in Pairs : InPair(d, p, P[p][0], X[p].qt)
    BY <1>3
  <2> DEFINE a == P[p][0]
  <2> DEFINE b == X[p].sp
  <2> DEFINE t == X[p].qt
  <2>2. /\ PairAt(p, q[Src[p]], q[Dst[p]], msg[Src[p]], msg[Dst[p]],
                  U[Src[p]][0], U[Src[p]][Len(L)], P[p][0], P[p][Len(L)], H[p], X[p])
    BY <1>1, PairData
  <2>3. msg[Src[p]].cons = a % QLen /\ msg[Src[p]].prod = b % QLen
    BY <2>2 DEF PairAt
  <2>4. Len_(Src[p]) = QLen /\ QLen \in Nat \ {0}
    BY Names, Params
  <2>5. Posted(Src[p]) = Slots(a % QLen, b % QLen, QLen)
    BY <2>3, <2>4 DEF Posted
  <2>6. a \in Nat /\ b \in Nat /\ t \in Nat /\ t <= b /\ b - a < QLen
    <3>1. /\ X[p].qt \in Nat /\ X[p].tl \in Nat /\ X[p].sp \in Nat /\ P[p][0] \in Nat
          /\ X[p].qt <= X[p].tl /\ X[p].tl <= X[p].sp /\ X[p].sp - P[p][0] < QLen
      BY <1>1, PairNum
    <3> QED BY <3>1
  <2>7. InPair(d, p, a, t)
    BY <2>1
  <2> HIDE DEF a, b, t
  <2>8. CASE \E x, n \in Nat : QeRun(d, Src[p], Dst[p], QLen, x, n) /\ a <= x /\ x + n <= t
    <3>1. PICK x, n \in Nat : QeRun(d, Src[p], Dst[p], QLen, x, n) /\ a <= x /\ x + n <= t
      BY <2>8
    <3>2. d.op = "qe" /\ d.src = Src[p]
      BY <3>1 DEF QeRun
    <3>3. x + n <= b
      BY <2>6, <3>1
    <3>4. Covered(d) \subseteq Slots(a % QLen, b % QLen, QLen)
      BY <2>4, <2>6, <3>1, <3>3, RunWithin
    <3> QED BY <2>5, <3>2, <3>4
  <2>9. CASE \E x \in Nat : \E z : d = [op |-> "buf", src |-> <<Src[p], x % QLen>>, dst |-> z] /\ a <= x /\ x < t
    <3>0. PICK x \in Nat : \E z : d = [op |-> "buf", src |-> <<Src[p], x % QLen>>, dst |-> z] /\ a <= x /\ x < t
      BY <2>9
    <3>1. PICK z : d = [op |-> "buf", src |-> <<Src[p], x % QLen>>, dst |-> z] /\ a <= x /\ x < t
      BY <3>0
    <3>2. d.op = "buf" /\ d.src[1] = Src[p] /\ d.src[2] = x % QLen
      BY <3>1
    <3>3. x < b
      BY <2>6, <3>1
    <3>4. x % QLen \in Slots(a % QLen, b % QLen, QLen)
      BY <2>4, <2>6, <3>1, <3>3, SlotIn
    <3> QED BY <2>5, <3>2, <3>4
  <2> QED BY <2>7, <2>8, <2>9 DEF InPair
<1>4. CASE InPool(d, U["host_bp"][0], U["host_bp"][Len(L)])
  <2>1. d.op = "qe" /\ d.src = "host_bp"
    BY <1>4 DEF InPool, QeRun
  <2>2. "host_bp" \notin DataQs
    BY Names, PairIs
  <2> QED BY <2>1, <2>2
<1> QED BY <1>2, <1>3, <1>4 DEF Flying

\* What is written lies beyond what the consumer may read, by less than a
\* round.
LEMMA DestinationIs == IInv /\ FillFits => DestinationFree
<1> SUFFICES ASSUME IInv, FillFits, NEW d \in PendingDescs, d.op = "qe"
             PROVE  IF d.dst = "shadow"
                    THEN Covered(d) \cap Slots(q["shadow"].head, q["shadow"].tail, BpLen) = {}
                    ELSE Covered(d) \cap Posted(d.dst) = {}
  BY DEF DestinationFree
<1>1. PICK L, E, U, P, H, X, y : Whole(L, E, U, P, H, X, y)
  BY DEF IInv
<1>2. Flying(d, U, P, X, Len(L))
  BY <1>1, FlyingIs
<1>3. CASE \E p \in Pairs : InPair(d, p, P[p][0], X[p].qt)
  <2>1. PICK p \in Pairs : InPair(d, p, P[p][0], X[p].qt)
    BY <1>3
  <2> DEFINE a == X[p].rd
  <2> DEFINE b == P[p][0]
  <2> DEFINE t == X[p].qt
  <2>2. /\ PairAt(p, q[Src[p]], q[Dst[p]], msg[Src[p]], msg[Dst[p]],
                  U[Src[p]][0], U[Src[p]][Len(L)], P[p][0], P[p][Len(L)], H[p], X[p])
    BY <1>1, PairData
  <2>3. msg[Dst[p]].cons = a % QLen /\ msg[Dst[p]].prod = b % QLen
    BY <2>2 DEF PairAt
  <2>4. Len_(Dst[p]) = QLen /\ QLen \in Nat \ {0} /\ Dst[p] # "shadow"
    BY Names, Params, PairIs
  <2>5. Posted(Dst[p]) = Slots(a % QLen, b % QLen, QLen)
    BY <2>3, <2>4 DEF Posted
  <2>6. a \in Nat /\ b \in Nat /\ t \in Nat /\ a <= b /\ t - a < QLen /\ b <= t
    <3>1. /\ X[p].rd \in Nat /\ X[p].sd \in Nat /\ X[p].qt \in Nat
          /\ P[p][0] \in Nat /\ H[p] \in Nat
          /\ X[p].sd <= X[p].rd /\ X[p].rd <= P[p][0] /\ P[p][0] <= H[p]
          /\ H[p] <= X[p].qt /\ X[p].qt - X[p].sd < QLen /\ QLen \in Nat \ {0}
      BY <1>1, PairNum
    <3> QED BY <3>1
  <2>7. InPair(d, p, b, t)
    BY <2>1
  <2> HIDE DEF a, b, t
  <2>8. PICK x, n \in Nat : QeRun(d, Src[p], Dst[p], QLen, x, n) /\ b <= x /\ x + n <= t
    BY <2>7 DEF InPair
  <2>9. d.dst = Dst[p]
    BY <2>8 DEF QeRun
  <2>10. b - a < QLen
    BY <2>4, <2>6
  <2>11. Covered(d) \cap Slots(a % QLen, b % QLen, QLen) = {}
    BY <2>4, <2>6, <2>8, <2>10, RunBeyond
  <2> QED BY <2>4, <2>5, <2>9, <2>11
<1>4. CASE "ingress" \in CopyPayload /\ InPool(d, U["host_bp"][0], U["host_bp"][Len(L)])
  <2> DEFINE u0 == U["host_bp"][0]
  <2> DEFINE uM == U["host_bp"][Len(L)]
  <2> DEFINE a == y.sh
  <2> DEFINE b == y.st
  <2>1. q["shadow"].head = a % BpLen /\ q["shadow"].tail = b % BpLen /\ b <= u0 /\ a <= b /\ uM - a < BpLen
    <3>1. ShadowOk(U, Len(L), y)
      BY <1>1, Parts
    <3> QED BY <3>1, <1>4 DEF ShadowOk
  <2>2. a \in Nat /\ b \in Nat /\ u0 \in Nat /\ uM \in Nat /\ u0 <= uM /\ BpLen \in Nat \ {0}
    <3>1. y \in [sh: Nat, st: Nat]
      BY <1>1, Parts
    <3>2. Typed(L, E, U, P) /\ Steps(L, E, U, P) /\ 0 \in 0 .. Len(L) /\ Len(L) \in 0 .. Len(L) /\ Len(L) \in Nat
      BY <1>1, Parts
    <3>3. "host_bp" \in Queues
      BY <1>4, Names, Params
    <3>4. \A i, j \in 0 .. Len(L) : i <= j => \A x \in Queues : U[x][i] <= U[x][j]
      BY <3>2, StepsAre
    <3>5. u0 \in Nat /\ uM \in Nat
      BY <3>2, <3>3 DEF Typed
    <3> DEFINE M == Len(L)
    <3>6. 0 \in 0 .. M /\ M \in 0 .. M /\ 0 <= M
      BY <3>2
    <3>7. u0 <= uM
      BY <3>3, <3>4, <3>6
    <3> QED BY <3>1, <3>5, <3>7, Params
  <2>3. InPool(d, u0, uM)
    BY <1>4
  <2> HIDE DEF u0, uM, a, b
  <2>4. PICK x, n \in Nat : QeRun(d, "host_bp", "shadow", BpLen, x, n) /\ u0 <= x /\ x + n <= uM
    BY <2>3 DEF InPool
  <2>5. d.dst = "shadow"
    BY <2>4 DEF QeRun
  <2>6. b - a < BpLen /\ b <= x
    BY <2>1, <2>2, <2>4
  <2> DEFINE src == "host_bp"
  <2> DEFINE dst == "shadow"
  <2>7. QeRun(d, src, dst, BpLen, x, n)
    BY <2>4
  <2> HIDE DEF src, dst
  <2>8. Covered(d) \cap Slots(a % BpLen, b % BpLen, BpLen) = {}
    BY <2>1, <2>2, <2>4, <2>6, <2>7, RunBeyond
  <2> QED BY <2>1, <2>5, <2>8
<1> QED BY <1>2, <1>3, <1>4 DEF Flying

\* The invariant of the data path: jobs, descriptors, indices and words of the
\* notification area agree, whatever the lengths and however the four parties
\* interleave.
THEOREM DataPathInvariance == Spec => []IInv
<1> QED BY InitInv, NextStep, PTL DEF Spec

\* The consumer index of a source ring never passes an element, or the element
\* of a buffer, that the DMA engine has still to read (gie_clean_mem,
\* gie_produce_q).
THEOREM SourcesStable == Spec => []SourceStable
<1> QED BY DataPathInvariance, SourceIs, PTL

\* The DMA engine never writes an element its consumer has still to read, nor
\* a pool entry that waits in the shadow, if a batch does not exceed the fill
\* threshold and a pool holds a fill beyond it (GIE_MAX_QES_IN_BATCH,
\* GIE_SHADOW_FILL_THRESH, GIE_SHADOW_FILL_SIZE). Without that it may:
\* MCGieShadowShort shows so on GieShadow.
THEOREM DestinationsFree == ASSUME FillFits PROVE Spec => []DestinationFree
<1>1. IInv => DestinationFree
  BY DestinationIs
<1> QED BY DataPathInvariance, <1>1, PTL

\* dma_jobs and the engine's queue agree on how many descriptors are in
\* flight, also in the middle of a submission.
THEOREM JobsMatch == Spec => []JobsMatchDescs
<1> QED BY DataPathInvariance, DescsAgree, PTL

-----------------------------------------------------------------------------
(* The host's pool and its shadow: the prefetch of GieShadow *)

\* The pool, its shadow and the words of the pool are left alone.
PoolSame ==
  /\ q'["host_bp"] = q["host_bp"] /\ q'["shadow"] = q["shadow"]
  /\ msg'["host_bp"] = msg["host_bp"]

\* The pool and its shadow are among the queues.
LEMMA PoolIs ==
  ASSUME IInv, "ingress" \in CopyPayload
  PROVE  /\ "host_bp" \in Queues /\ "shadow" \in Queues /\ "ingress" \in Pairs /\ Pool["ingress"] = "host_bp"
         /\ Len_("host_bp") = BpLen /\ Len_("shadow") = BpLen /\ BpLen \in Nat \ {0}
         /\ IndexOk /\ q["host_bp"] \in QIdx /\ q["shadow"] \in QIdx /\ msg["host_bp"] \in Words
<1>1. "host_bp" \in Queues /\ "shadow" \in Queues /\ "ingress" \in Pairs /\ Pool["ingress"] = "host_bp"
      /\ Len_("host_bp") = BpLen /\ Len_("shadow") = BpLen /\ BpLen \in Nat \ {0}
  BY Names, Params
<1>2. PICK L, E, U, P, H, X, y : Whole(L, E, U, P, H, X, y)
  BY DEF IInv
<1>3. IndexOk
  BY <1>2, Parts
<1> QED BY <1>1, <1>3 DEF IndexOk

\* That is no step of the prefetch.
LEMMA PoolStutter ==
  ASSUME PoolSame PROVE UNCHANGED Shadow!vars
BY DEF PoolSame, Shadow!vars

\* The operators on indices are the same in both modules.
LEMMA SameOps ==
  /\ \A a, b, n : Shadow!Space(a, b, n) = Space(a, b, n) /\ Shadow!Occupancy(a, b, n) = Occupancy(a, b, n)
                 /\ Shadow!q_idx_add(a, b, n) = q_idx_add(a, b, n) /\ Shadow!Lesser(a, b) = Lesser(a, b)
  /\ \A x, n : Shadow!q_occupancy(x, n) = q_occupancy(x, n) /\ Shadow!qes_in_copy(x, n) = qes_in_copy(x, n)
              /\ Shadow!qes_copied(x, n) = qes_copied(x, n)
  /\ Shadow!ResetQueue = ResetQueue
BY DEF Space, Occupancy, q_idx_add, Lesser, q_occupancy, qes_in_copy, qes_copied, ResetQueue,
       Shadow!Space, Shadow!Occupancy, Shadow!q_idx_add, Shadow!Lesser, Shadow!q_occupancy,
       Shadow!qes_in_copy, Shadow!qes_copied, Shadow!ResetQueue

\* The users of the data rings.
LEMMA SendPool ==
  ASSUME IInv, "ingress" \in CopyPayload, NEW p \in Pairs, NEW n, Send(p, n)
  PROVE  PoolSame
<1>1. msg' = [msg EXCEPT ![Src[p]].prod = Ahead(msg[Src[p]].prod, n, Src[p])] /\ UNCHANGED q
  BY DEF Send, gie
<1>2. Src[p] # "host_bp" /\ Src[p] \in Queues
  BY Apart, PoolIs, Names
<1>3. msg'["host_bp"] = msg["host_bp"]
  BY <1>1, <1>2, PoolIs DEF IndexOk
<1> QED BY <1>1, <1>3 DEF PoolSame

\* So does the consumer's reading.
LEMMA RecvPool ==
  ASSUME IInv, "ingress" \in CopyPayload, NEW p \in Pairs, Recv(p)
  PROVE  PoolSame
<1>1. msg' = [msg EXCEPT ![Dst[p]].cons = Ahead(@, 1, Dst[p])] /\ UNCHANGED q
  BY DEF Recv, gie
<1>2. Dst[p] # "host_bp" /\ Dst[p] \in Queues
  BY Apart, PoolIs, Names
<1>3. msg'["host_bp"] = msg["host_bp"]
  BY <1>1, <1>2, PoolIs DEF IndexOk
<1> QED BY <1>1, <1>3 DEF PoolSame

\* The consumer that refills the pool is the host.
LEMMA PutPool ==
  ASSUME IInv, "ingress" \in CopyPayload, NEW p \in Pairs, PutBuff(p)
  PROVE  PoolSame \/ Shadow!HostPut
<1>1. /\ msg' = [msg EXCEPT ![Pool[p]].prod = Ahead(@, 1, Pool[p])] /\ UNCHANGED q
      /\ Space(msg[Pool[p]].prod, msg[Pool[p]].cons, BpLen) >= 1
  BY DEF PutBuff, gie
<1>2. CASE p = "ingress"
  <2>1. Pool[p] = "host_bp"
    BY <1>2, PoolIs
  <2>2. /\ msg'["host_bp"].prod = Ahead(msg["host_bp"].prod, 1, "host_bp")
        /\ msg'["host_bp"].cons = msg["host_bp"].cons
    BY <1>1, <2>1, PoolIs DEF IndexOk, Words
  <2>3. Ahead(msg["host_bp"].prod, 1, "host_bp") = q_idx_add(msg["host_bp"].prod, 1, BpLen)
    BY PoolIs DEF Ahead
  <2>4. Space(msg["host_bp"].prod, msg["host_bp"].cons, BpLen) >= 1 /\ UNCHANGED q
    BY <1>1, <2>1
  <2>5. Shadow!HostPut
    BY <2>2, <2>3, <2>4, SameOps DEF Shadow!HostPut
  <2> QED BY <2>5
<1>3. CASE p # "ingress"
  <2>1. Pool[p] # "host_bp" /\ Pool[p] \in Queues
    BY <1>3, Apart, PoolIs, Names
  <2>2. msg'["host_bp"] = msg["host_bp"]
    BY <1>1, <2>1, PoolIs DEF IndexOk
  <2> QED BY <1>1, <2>2 DEF PoolSame
<1> QED BY <1>2, <1>3

\* The DMA engine, and what the GIE thread submits.
LEMMA DmaPool ==
  ASSUME Dma \/ Enqueue \/ GiveUp \/ UNCHANGED vars
  PROVE  PoolSame
BY DEF Dma, Enqueue, GiveUp, vars, PoolSame

\* The other pair.
LEMMA RemotePool ==
  ASSUME IInv, "ingress" \in CopyPayload, NEW p \in Pairs, ProcessRemoteQ(p)
  PROVE  PoolSame
<1>1. UNCHANGED msg /\ \E v, w : q' = [q EXCEPT ![Src[p]] = v, ![Dst[p]] = w]
  BY ZenonT(30) DEF ProcessRemoteQ
<1>2. Src[p] # "host_bp" /\ Dst[p] # "host_bp" /\ Src[p] # "shadow" /\ Dst[p] # "shadow"
  BY Apart, PoolIs
<1>3. q'["host_bp"] = q["host_bp"] /\ q'["shadow"] = q["shadow"]
  BY <1>1, <1>2, PoolIs DEF IndexOk
<1> QED BY <1>1, <1>3 DEF PoolSame

\* The buffers of gie_process_remote_q come from the local pool.
LEMMA BuffersPool ==
  ASSUME IInv, "ingress" \in CopyPayload, NEW p \in Pairs, ProcessBuffers(p)
  PROVE  PoolSame
<1>0. p = "egress"
  BY DEF ProcessBuffers
<1>1. /\ \E u, v, w : q' = [q EXCEPT ![Src[p]].head = u, ![Dst[p]].tail = v, ![Pool[p]] = w]
      /\ \E c, d : \/ msg' = [msg EXCEPT ![Pool[p]].cons = c]
                   \/ msg' = [msg EXCEPT ![Src[p]].cons = c, ![Dst[p]].prod = d]
  <2>1. PICK src, dst, pool, b, head, limit, n, from, to, hd, tl :
           Buffering(p, src, dst, pool, b, head, limit, n, from, to, hd, tl)
    BY BuffersDo
  <2>2. src = Src[p] /\ dst = Dst[p] /\ pool = Pool[p]
    BY ZenonT(30), <2>1 DEF Buffering
  <2>3. \E w : q' = [q EXCEPT ![src].head = hd, ![dst].tail = tl, ![pool] = w]
    BY ZenonT(30), <2>1 DEF Buffering
  <2>4. \/ \E c : msg' = [msg EXCEPT ![pool].cons = c]
        \/ msg' = [msg EXCEPT ![src].cons = hd, ![dst].prod = tl]
    BY ZenonT(30), <2>1 DEF Buffering
  <2>5. \E u, v, w : q' = [q EXCEPT ![Src[p]].head = u, ![Dst[p]].tail = v, ![Pool[p]] = w]
    <3>1. PICK w : q' = [q EXCEPT ![src].head = hd, ![dst].tail = tl, ![pool] = w]
      BY <2>3
    <3>2. q' = [q EXCEPT ![Src[p]].head = hd, ![Dst[p]].tail = tl, ![Pool[p]] = w]
      BY <2>2, <3>1
    <3> QED BY <3>2
  <2>6. \E c, d : \/ msg' = [msg EXCEPT ![Pool[p]].cons = c]
                  \/ msg' = [msg EXCEPT ![Src[p]].cons = c, ![Dst[p]].prod = d]
    BY ZenonT(30), <2>2, <2>4
  <2> QED BY ZenonT(30), <2>5, <2>6
<1>2. /\ Src[p] # "host_bp" /\ Dst[p] # "host_bp" /\ Pool[p] # "host_bp"
      /\ Src[p] # "shadow" /\ Dst[p] # "shadow" /\ Pool[p] # "shadow"
  BY <1>0, Apart, PoolIs
<1>3. q'["host_bp"] = q["host_bp"] /\ q'["shadow"] = q["shadow"]
  BY <1>1, <1>2, PoolIs DEF IndexOk
<1>4. msg'["host_bp"] = msg["host_bp"]
  BY <1>1, <1>2, PoolIs DEF IndexOk
<1> QED BY <1>3, <1>4 DEF PoolSame

\* Where the copies of the pool's entries are: u0 have been accounted for by the
\* clean-up, uM submitted.
Copying(u0, uM) ==
  /\ u0 \in Nat /\ uM \in Nat /\ u0 <= uM /\ uM - u0 < BpLen
  /\ q["host_bp"].qe_head = u0 % BpLen /\ q["host_bp"].qe_tail = uM % BpLen

\* The clean-up brings them on.
LEMMA CopyDoneIs ==
  ASSUME IInv, "ingress" \in CopyPayload, NEW u0, NEW uM, Copying(u0, uM), NEW ur \in Nat, u0 <= ur, ur <= uM,
         q'["host_bp"] = [q["host_bp"] EXCEPT !.qe_head = ur % BpLen],
         q'["shadow"] = q["shadow"], msg'["host_bp"] = msg["host_bp"]
  PROVE  PoolSame \/ \E k \in 1 .. BpLen - 1 : Shadow!CopyDone(k)
<1> DEFINE b == q["host_bp"]
<1> DEFINE k == ur - u0
<1>1. u0 \in Nat /\ uM \in Nat /\ u0 <= uM /\ uM - u0 < BpLen /\ BpLen \in Nat \ {0}
      /\ b.qe_head = u0 % BpLen /\ b.qe_tail = uM % BpLen /\ b \in QIdx
  BY PoolIs DEF Copying
<1>2. k \in 0 .. BpLen - 1 /\ u0 + k = ur /\ k <= uM - u0
  BY <1>1
<1>3. qes_in_copy(b, BpLen) = uM - u0
  <2>1. Occupancy(uM % BpLen, u0 % BpLen, BpLen) = uM - u0
    BY <1>1, OccIs
  <2> QED BY <1>1, <2>1 DEF qes_in_copy, Occupancy
<1> HIDE DEF k
<1>4. q_idx_add(b.qe_head, k, BpLen) = ur % BpLen
  <2>1. q_idx_add(u0 % BpLen, k, BpLen) = (u0 + k) % BpLen
    BY <1>1, <1>2, AddIs
  <2> QED BY <1>1, <1>2, <2>1
<1>5. CASE k = 0
  <2>1. ur = u0
    BY <1>1, <1>2, <1>5
  <2>2. [b EXCEPT !.qe_head = b.qe_head] = b
    BY <1>1 DEF QIdx
  <2>3. q'["host_bp"] = b
    BY <1>1, <2>1, <2>2
  <2> QED BY <2>3 DEF PoolSame
<1>6. CASE k # 0
  <2>1. k \in 1 .. BpLen - 1
    BY <1>1, <1>2, <1>6
  <2>2. k <= Shadow!qes_in_copy(b, BpLen)
    BY <1>2, <1>3, SameOps
  <2>3. q'["host_bp"] = [b EXCEPT !.qe_head = Shadow!q_idx_add(b.qe_head, k, BpLen)]
    BY <1>4, SameOps
  <2>4. Shadow!CopyDone(k)
    BY <2>2, <2>3 DEF Shadow!CopyDone
  <2> QED BY <2>1, <2>4
<1> QED BY <1>5, <1>6

\* A function that never moves has its first value everywhere.
LEMMA Still ==
  ASSUME NEW M \in Nat, NEW f, \A i \in 1 .. M : f[i] = f[i - 1]
  PROVE  \A i \in 0 .. M : f[i] = f[0]
<1> DEFINE S == {n \in Nat : n <= M => f[n] = f[0]}
<1>1. 0 \in S
  OBVIOUS
<1>2. ASSUME NEW n \in S PROVE n + 1 \in S
  <2>1. n \in Nat /\ n + 1 \in Nat /\ (n + 1) - 1 = n
    OBVIOUS
  <2>2. n + 1 <= M => n + 1 \in 1 .. M /\ n <= M
    BY <2>1
  <2>3. n + 1 <= M => f[n + 1] = f[n]
    BY <2>1, <2>2
  <2> QED BY <2>1, <2>2, <2>3
<1>3. S = Nat
  <2>1. S \in SUBSET Nat
    OBVIOUS
  <2> HIDE DEF S
  <2> QED BY <1>1, <1>2, <2>1, NatInduct
<1> QED BY <1>3

\* Nothing is copied out of the shadow by elements.
LEMMA ShadowHead ==
  ASSUME NEW L, NEW E, NEW U, NEW P, Typed(L, E, U, P), Steps(L, E, U, P), NEW r \in 0 .. Len(L)
  PROVE  U["shadow"][r] = U["shadow"][0]
<1> DEFINE M == Len(L)
<1> DEFINE f == U["shadow"]
<1>1. M \in Nat /\ "shadow" \in Queues
  BY Names DEF Typed
<1>2. ASSUME NEW i \in 1 .. M PROVE f[i] = f[i - 1]
  <2>1. JobOk(L[i]) /\ f[i] = f[i - 1] + Upd(L[i], "shadow")
    BY <1>1 DEF Steps
  <2>2. Upd(L[i], "shadow") = 0
    <3>1. \A p \in Pairs : Src[p] # "shadow"
      BY Apart
    <3> QED BY <2>1, <3>1 DEF Upd, JobOk, ForPair, ForShadow
  <2>3. f[i - 1] \in Nat
    <3>1. i - 1 \in 0 .. M
      BY <1>1
    <3>2. \A j \in 0 .. Len(L) : \A x \in Queues : U[x][j] \in Nat
      BY StepsAre
    <3> QED BY <3>1, <3>2, <1>1
  <2> QED BY <2>1, <2>2, <2>3
<1> HIDE DEF M, f
<1>3. \A i \in 0 .. M : f[i] = f[0]
  BY <1>1, <1>2, Still
<1> QED BY <1>3 DEF M, f

\* The clean-up brings the copies of the pool's entries on, and nothing else of it.
LEMMA CleanPool ==
  ASSUME IInv, "ingress" \in CopyPayload, NEW js, NEW l, gie_clean_dma_jobs(js),
         NEW L, NEW E, NEW U, NEW P, NEW H, NEW X, NEW y, Whole(L, E, U, P, H, X, y),
         WorkOf(js, l, sub, hw, L, E, U, P, H)
  PROVE  PoolSame \/ \E k \in 1 .. BpLen - 1 : Shadow!CopyDone(k)
<1>n. PICK n : n = hw.done
  OBVIOUS
<1> DEFINE N == Len(js)
<1> DEFINE M == Len(L)
<1>1. /\ Typed(L, E, U, P) /\ Steps(L, E, U, P) /\ M \in Nat /\ IndexOk /\ Heads(U)
      /\ y \in [sh: Nat, st: Nat]
      /\ (\A p \in Pairs : PairOk(p, U, P, H, M, X[p])) /\ ShadowOk(U, M, y)
  BY Parts
<1>2. /\ js \in Seq(Job) /\ N \in Nat /\ l \in Nat /\ Len(hw.descs) \in Nat /\ n \in 0 .. Len(hw.descs)
      /\ N <= M /\ E[N] = Len(hw.descs) + l
  BY <1>n, WorkIs
<1>3. Prefix(js, L)
  BY <1>2 DEF Prefix, WorkOf, Logs
<1>4. Published(P)
  BY <1>1 DEF Published, PairOk, PairAt
<1>5. PICK r \in 0 .. N : Cleaned(js, n) = At(js, E, U, P, r, n)
  <2>1. n \in Nat /\ n <= E[Len(js)]
    BY <1>2
  <2>2. \E r \in 0 .. Len(js) : Over(E, Len(js), r, n) /\ Cleaned(js, n) = At(js, E, U, P, r, n)
    BY <2>1, <1>1, <1>3, <1>4, CleanedIs
  <2> QED BY <2>2
<1>6. q' = QAt(U, r) /\ msg' = MAt(P, r)
  BY <1>n, <1>5, AtFields DEF gie_clean_dma_jobs
<1>7. /\ q'["host_bp"] = [q["host_bp"] EXCEPT !.qe_head = U["host_bp"][r] % BpLen]
      /\ msg'["host_bp"] = msg["host_bp"]
  <2>1. q'["host_bp"] = [q["host_bp"] EXCEPT !.qe_head = U["host_bp"][r] % BpLen]
    BY <1>6, PoolIs DEF QAt
  <2>2. msg'["host_bp"] = [cons |-> msg["host_bp"].cons, prod |-> msg["host_bp"].prod]
    BY <1>6, PoolIs DEF MAt, ConsAt, ProdAt
  <2> QED BY <2>1, <2>2, PoolIs DEF Words
<1>8. q'["shadow"] = q["shadow"]
  <2>1. U["shadow"][r] = U["shadow"][0]
    <3>1. r \in 0 .. M
      BY <1>1, <1>2
    <3> QED BY <3>1, <1>1, ShadowHead
  <2>2. q'["shadow"] = [q["shadow"] EXCEPT !.qe_head = U["shadow"][r] % BpLen]
    BY <1>6, PoolIs DEF QAt
  <2>3. q["shadow"].qe_head = U["shadow"][0] % BpLen
    BY <1>1, PoolIs DEF Heads
  <2>4. [q["shadow"] EXCEPT !.qe_head = q["shadow"].qe_head] = q["shadow"]
    BY PoolIs DEF QIdx
  <2> QED BY <2>1, <2>2, <2>3, <2>4
<1> DEFINE u0 == U["host_bp"][0]
           ur == U["host_bp"][r]
           uM == U["host_bp"][M]
<1>9. u0 \in Nat /\ ur \in Nat /\ uM \in Nat /\ u0 <= ur /\ ur <= uM
  <2>1. /\ \A i \in 0 .. M : U["host_bp"][i] \in Nat
        /\ \A i, j \in 0 .. M : i <= j => U["host_bp"][i] <= U["host_bp"][j]
    BY <1>1, StepsAre, PoolIs
  <2>2. 0 \in 0 .. M /\ r \in 0 .. M /\ M \in 0 .. M /\ 0 <= r /\ r <= M
    BY <1>1, <1>2
  <2> HIDE DEF M
  <2> QED BY <2>1, <2>2
<1>10. Copying(u0, uM)
  <2>1. /\ q["host_bp"].qe_tail = uM % BpLen /\ y.st <= u0 /\ uM - y.st < BpLen /\ y.st \in Nat
    BY <1>1 DEF ShadowOk
  <2>2. q["host_bp"].qe_head = u0 % BpLen
    BY <1>1, PoolIs DEF Heads
  <2>3. uM - u0 < BpLen
    <3>1. BpLen \in Nat
      BY PoolIs
    <3> HIDE DEF u0, uM
    <3> QED BY <2>1, <1>9, <3>1
  <2>4. u0 <= uM
    <3> HIDE DEF u0, uM, ur
    <3> QED BY <1>9
  <2> QED BY <2>1, <2>2, <2>3, <2>4, <1>9 DEF Copying
<1>11. q'["host_bp"] = [q["host_bp"] EXCEPT !.qe_head = ur % BpLen]
  BY <1>7
<1> HIDE DEF u0, ur, uM, M, N
<1> QED BY <1>7, <1>8, <1>9, <1>10, <1>11, CopyDoneIs

\* gie_bpool_fill_shadow, case by case.
Waits(b, sh, f) ==
  /\ qes_in_copy(b, BpLen) > 0
  /\ f = [b |-> b, sh |-> sh, cons |-> msg["host_bp"].cons, sub |-> <<>>]
Accounts(b, sh, f) ==
  LET copied == qes_copied(b, BpLen)
      head == q_idx_add(b.head, copied, BpLen)
  IN /\ qes_in_copy(b, BpLen) = 0 /\ copied > 0
     /\ f.b = [b EXCEPT !.head = head] /\ f.cons = head
     /\ f.sh = [sh EXCEPT !.tail = q_idx_add(sh.tail, copied, BpLen)]
Submits(b, sh, f) ==
  LET fill == Lesser(FillSize, Occupancy(msg["host_bp"].prod, b.head, BpLen))
  IN /\ qes_in_copy(b, BpLen) = 0 /\ qes_copied(b, BpLen) = 0
     /\ f.b = [b EXCEPT !.tail = msg["host_bp"].prod, !.qe_tail = q_idx_add(b.qe_tail, fill, BpLen)]
     /\ f.sh = sh /\ f.cons = msg["host_bp"].cons

\* It does one of them.
LEMMA FillCases ==
  ASSUME NEW b \in QIdx, NEW sh \in QIdx, Len_("host_bp") = BpLen, Len_("shadow") = BpLen, BpLen \in Nat \ {0},
         NEW f, f = gie_bpool_fill_shadow("host_bp", b, sh)
  PROVE  Waits(b, sh, f) \/ Accounts(b, sh, f) \/ Submits(b, sh, f)
<1> DEFINE going == qes_in_copy(b, BpLen)
           copied == qes_copied(b, BpLen)
<1>1. going \in Nat /\ copied \in Nat
  <2>1. /\ b.qe_tail - b.qe_head + BpLen \in Int /\ b.qe_head - b.head + BpLen \in Int
    BY DEF QIdx
  <2>2. going \in 0 .. BpLen - 1 /\ copied \in 0 .. BpLen - 1
    BY <2>1, IntMod DEF qes_in_copy, qes_copied
  <2> HIDE DEF going, copied
  <2> QED BY <2>2
<1>2. CASE going > 0
  <2>1. f = [b |-> b, sh |-> sh, cons |-> msg["host_bp"].cons, sub |-> <<>>]
    BY <1>2 DEF gie_bpool_fill_shadow
  <2> QED BY <1>2, <2>1 DEF Waits
<1>3. CASE going = 0 /\ copied > 0
  <2> DEFINE v == Ahead(b.head, copied, "host_bp")
             w == Ahead(sh.tail, copied, "shadow")
  <2>1. f = [b |-> [b EXCEPT !.head = v], sh |-> [sh EXCEPT !.tail = w], cons |-> v, sub |-> <<>>]
    BY <1>3 DEF gie_bpool_fill_shadow
  <2>2. v = q_idx_add(b.head, copied, BpLen) /\ w = q_idx_add(sh.tail, copied, BpLen)
    BY DEF Ahead
  <2> HIDE DEF v, w
  <2>3. f.b = [b EXCEPT !.head = v] /\ f.sh = [sh EXCEPT !.tail = w] /\ f.cons = v
    BY <2>1
  <2> QED BY <1>3, <2>2, <2>3 DEF Accounts
<1>4. CASE going = 0 /\ copied = 0
  <2> DEFINE pr == msg["host_bp"].prod
             fresh == [b EXCEPT !.tail = pr]
             fill == Lesser(FillSize, q_occupancy(fresh, BpLen))
             v == Ahead(b.qe_tail, fill, "host_bp")
             t == IF fill = 0 THEN <<>> ELSE gie_copy_qes("host_bp", "shadow", fill, b.qe_tail, "update", 0, 0)
  <2>1. f = [b |-> [fresh EXCEPT !.qe_tail = Ahead(@, fill, "host_bp")], sh |-> sh,
             cons |-> msg["host_bp"].cons, sub |-> t]
    BY <1>4 DEF gie_bpool_fill_shadow
  <2>2. fresh.qe_tail = b.qe_tail /\ fresh.tail = pr /\ fresh.head = b.head
    BY DEF QIdx
  <2>3. fill = Lesser(FillSize, Occupancy(pr, b.head, BpLen))
    BY <2>2 DEF q_occupancy
  <2>4. v = q_idx_add(b.qe_tail, fill, BpLen)
    BY DEF Ahead
  <2>5. [fresh EXCEPT !.qe_tail = Ahead(@, fill, "host_bp")] = [fresh EXCEPT !.qe_tail = v]
    BY <2>2
  <2>6. [fresh EXCEPT !.qe_tail = v] = [b EXCEPT !.tail = pr, !.qe_tail = v]
    BY DEF QIdx
  <2> HIDE DEF fresh, fill, v, t
  <2>7. f.b = [b EXCEPT !.tail = pr, !.qe_tail = v] /\ f.sh = sh /\ f.cons = msg["host_bp"].cons
    BY <2>1, <2>5, <2>6
  <2> QED BY <1>4, <2>3, <2>4, <2>7 DEF Submits
<1> QED BY <1>1, <1>2, <1>3, <1>4

\* What a batch of gie_process_local_q does to the pool and its shadow.
Served(qes, n, f) ==
  /\ qes \in 0 .. Batch /\ n \in 0 .. Batch /\ n <= qes /\ n <= q_occupancy(q["shadow"], BpLen)
  /\ Choice(f, q_occupancy(q["shadow"], BpLen), qes)
  /\ q'["host_bp"] = f.b
  /\ q'["shadow"] = [f.sh EXCEPT !.head = q_idx_add(f.sh.head, n, BpLen)]
  /\ msg'["host_bp"].cons = f.cons /\ msg'["host_bp"].prod = msg["host_bp"].prod

\* That is a step of the prefetch.
LEMMA ServedIs ==
  ASSUME IInv, "ingress" \in CopyPayload, NEW qes, NEW n, NEW f, Served(qes, n, f)
  PROVE  Shadow!Process(qes, n)
<1> DEFINE b == q["host_bp"]
           sh == q["shadow"]
           hd == q_idx_add(sh.head, n, BpLen)
<1>1. b \in QIdx /\ sh \in QIdx /\ Len_("host_bp") = BpLen /\ Len_("shadow") = BpLen /\ BpLen \in Nat \ {0}
  BY PoolIs
<1>2. n <= qes /\ n <= Shadow!q_occupancy(sh, BpLen)
  BY SameOps DEF Served
<1>3. Shadow!Take(sh, n) = [sh EXCEPT !.head = hd]
  BY SameOps DEF Shadow!Take
<1>4. Shadow!Low(qes) <=> q_occupancy(sh, BpLen) < FillThresh \/ q_occupancy(sh, BpLen) < qes
  BY SameOps DEF Shadow!Low
<1>s. /\ q'["host_bp"] = f.b /\ q'["shadow"] = [f.sh EXCEPT !.head = q_idx_add(f.sh.head, n, BpLen)]
      /\ msg'["host_bp"].cons = f.cons /\ msg'["host_bp"].prod = msg["host_bp"].prod
      /\ Choice(f, q_occupancy(sh, BpLen), qes)
  BY DEF Served
<1>5. CASE ~ Shadow!Low(qes)
  <2>1. f = [b |-> b, sh |-> sh, cons |-> msg["host_bp"].cons, sub |-> <<>>]
    BY <1>s, <1>4, <1>5 DEF Choice
  <2>2. f.b = b /\ f.sh = sh /\ f.cons = msg["host_bp"].cons
    BY <2>1
  <2> QED BY <1>s, <1>2, <1>3, <1>5, <2>2 DEF Shadow!Process
<1>6. CASE Shadow!Low(qes)
  <2>1. f = gie_bpool_fill_shadow("host_bp", b, sh)
    BY <1>s, <1>4, <1>6 DEF Choice
  <2>2. Waits(b, sh, f) \/ Accounts(b, sh, f) \/ Submits(b, sh, f)
    BY <1>1, <2>1, FillCases
  <2>3. CASE Waits(b, sh, f)
    <3>1. f.b = b /\ f.sh = sh /\ f.cons = msg["host_bp"].cons /\ qes_in_copy(b, BpLen) > 0
      BY <2>3 DEF Waits
    <3>2. Shadow!Wait(n)
      BY <1>s, <1>3, <3>1, SameOps DEF Shadow!Wait
    <3> QED BY <1>2, <1>6, <3>2 DEF Shadow!Process
  <2>4. CASE Accounts(b, sh, f)
    <3> DEFINE copied == qes_copied(b, BpLen)
               head == q_idx_add(b.head, copied, BpLen)
               tl == q_idx_add(sh.tail, copied, BpLen)
    <3>1. /\ qes_in_copy(b, BpLen) = 0 /\ copied > 0 /\ f.b = [b EXCEPT !.head = head] /\ f.cons = head
          /\ f.sh = [sh EXCEPT !.tail = tl]
      BY <2>4 DEF Accounts
    <3>2. copied = Shadow!qes_copied(b, BpLen) /\ qes_in_copy(b, BpLen) = Shadow!qes_in_copy(b, BpLen)
          /\ head = Shadow!q_idx_add(b.head, copied, BpLen) /\ tl = Shadow!q_idx_add(sh.tail, copied, BpLen)
      BY SameOps
    <3>3. q'["shadow"] = [[sh EXCEPT !.head = hd] EXCEPT !.tail = tl]
      <4>1. f.sh.head = sh.head
        BY <1>1, <3>1 DEF QIdx
      <4>2. q'["shadow"] = [[sh EXCEPT !.tail = tl] EXCEPT !.head = hd]
        BY <1>s, <3>1, <4>1
      <4> HIDE DEF tl, hd
      <4>3. [[sh EXCEPT !.tail = tl] EXCEPT !.head = hd] = [[sh EXCEPT !.head = hd] EXCEPT !.tail = tl]
        BY <1>1 DEF QIdx
      <4> QED BY <4>2, <4>3
    <3>4. [sh EXCEPT !.head = hd].tail = sh.tail
      BY <1>1 DEF QIdx
    <3>5. q'["shadow"] = [Shadow!Take(sh, n) EXCEPT !.tail = Shadow!q_idx_add(@, copied, BpLen)]
      BY <1>3, <3>2, <3>3, <3>4
    <3> HIDE DEF copied, head, tl
    <3>6. Shadow!Account(n)
      BY <1>s, <3>1, <3>2, <3>5 DEF Shadow!Account
    <3> QED BY <1>2, <1>6, <3>6 DEF Shadow!Process
  <2>5. CASE Submits(b, sh, f)
    <3> DEFINE fill == Lesser(FillSize, Occupancy(msg["host_bp"].prod, b.head, BpLen))
               tl == q_idx_add(b.qe_tail, fill, BpLen)
    <3>1. /\ qes_in_copy(b, BpLen) = 0 /\ qes_copied(b, BpLen) = 0 /\ f.sh = sh /\ f.cons = msg["host_bp"].cons
          /\ f.b = [b EXCEPT !.tail = msg["host_bp"].prod, !.qe_tail = tl]
      BY <2>5 DEF Submits
    <3>2. fill = Shadow!Lesser(FillSize, Shadow!Occupancy(msg["host_bp"].prod, b.head, BpLen))
          /\ tl = Shadow!q_idx_add(b.qe_tail, fill, BpLen)
          /\ Shadow!qes_in_copy(b, BpLen) = 0 /\ Shadow!qes_copied(b, BpLen) = 0
      BY <3>1, SameOps
    <3>3. q'["shadow"] = Shadow!Take(sh, n)
      BY <1>s, <1>3, <3>1
    <3>4. [b EXCEPT !.tail = msg["host_bp"].prod].qe_tail = b.qe_tail
      BY <1>1 DEF QIdx
    <3> HIDE DEF fill, tl
    <3>5. q'["host_bp"] = [b EXCEPT !.tail = msg["host_bp"].prod, !.qe_tail = Shadow!q_idx_add(@, fill, BpLen)]
      BY <1>s, <3>1, <3>2, <3>4
    <3>6. Shadow!Submit(n)
      BY <1>s, <3>1, <3>2, <3>3, <3>5 DEF Shadow!Submit
    <3> QED BY <1>2, <1>6, <3>6 DEF Shadow!Process
  <2> QED BY <2>2, <2>3, <2>4, <2>5
<1> QED BY <1>5, <1>6

\* The clean-up of gie_schedule, and the one of a full queue.
LEMMA CleanActPool ==
  ASSUME IInv, "ingress" \in CopyPayload, Clean
  PROVE  PoolSame \/ \E k \in 1 .. BpLen - 1 : Shadow!CopyDone(k)
<1>1. PICK L, E, U, P, H, X, y : Whole(L, E, U, P, H, X, y)
  BY DEF IInv
<1>2. PICK js, l : js = jobs /\ l = left
  OBVIOUS
<1>3. WorkOf(js, l, sub, hw, L, E, U, P, H) /\ gie_clean_dma_jobs(js)
  BY <1>1, <1>2, Parts DEF Clean
<1> QED BY <1>1, <1>3, CleanPool

\* The same when the queue is full.
LEMMA RetryPool ==
  ASSUME IInv, "ingress" \in CopyPayload, Retry
  PROVE  PoolSame \/ \E k \in 1 .. BpLen - 1 : Shadow!CopyDone(k)
<1>1. PICK L, E, U, P, H, X, y : Whole(L, E, U, P, H, X, y)
  BY DEF IInv
<1>2. sub # <<>> /\ gie_clean_dma_jobs(Logged)
  BY DEF Retry
<1>3. PICK js, l : js = Logged /\ l = Wanted
  OBVIOUS
<1>4. WorkOf(js, l, sub, hw, L, E, U, P, H) /\ gie_clean_dma_jobs(js)
  BY <1>1, <1>2, <1>3, LoggedIs
<1> QED BY <1>1, <1>4, CleanPool

\* The shadow stays a queue of indices.
LEMMA ChoiceShadow ==
  ASSUME IInv, "ingress" \in CopyPayload, NEW f, NEW avail, NEW qes, Choice(f, avail, qes)
  PROVE  f.sh \in QIdx
<1> DEFINE b == q["host_bp"]
           sh == q["shadow"]
<1>1. b \in QIdx /\ sh \in QIdx /\ Len_("host_bp") = BpLen /\ Len_("shadow") = BpLen /\ BpLen \in Nat \ {0}
  BY PoolIs
<1>2. CASE avail < FillThresh \/ avail < qes
  <2>1. f = gie_bpool_fill_shadow("host_bp", b, sh)
    BY <1>2 DEF Choice
  <2>2. Waits(b, sh, f) \/ Accounts(b, sh, f) \/ Submits(b, sh, f)
    BY <1>1, <2>1, FillCases
  <2>3. CASE Accounts(b, sh, f)
    <3> DEFINE copied == qes_copied(b, BpLen)
               tl == q_idx_add(sh.tail, copied, BpLen)
    <3>1. f.sh = [sh EXCEPT !.tail = tl] /\ copied > 0
      BY <2>3 DEF Accounts
    <3>2. tl \in Nat
      <4> DEFINE x == b.qe_head - b.head + BpLen
      <4>1. x \in Int
        BY <1>1 DEF QIdx
      <4>2. copied = x % BpLen
        BY DEF qes_copied
      <4> HIDE DEF x, copied
      <4>3. copied \in Nat
        BY <4>1, <4>2, <1>1, IntMod
      <4> DEFINE z == sh.tail + copied
      <4>4. z \in Int
        BY <4>3, <1>1 DEF QIdx
      <4>5. tl = z % BpLen
        BY DEF q_idx_add
      <4> HIDE DEF z, tl
      <4> QED BY <4>4, <4>5, <1>1, IntMod
    <3> HIDE DEF tl
    <3> QED BY <3>1, <3>2, <1>1 DEF QIdx
  <2>4. CASE Waits(b, sh, f) \/ Submits(b, sh, f)
    <3>1. f.sh = sh
      BY <2>4 DEF Waits, Submits
    <3> QED BY <3>1, <1>1
  <2> QED BY <2>2, <2>3, <2>4
<1>3. CASE ~ (avail < FillThresh \/ avail < qes)
  <2>1. f = [b |-> b, sh |-> sh, cons |-> msg["host_bp"].cons, sub |-> <<>>]
    BY <1>3 DEF Choice
  <2>2. f.sh = sh
    BY <2>1
  <2> QED BY <2>2, <1>1
<1> QED BY <1>2, <1>3

\* What a batch changes of the pool.
Pooled(n, f) ==
  /\ q'["host_bp"] = f.b /\ q'["shadow"] = [f.sh EXCEPT !.head = q_idx_add(f.sh.head, n, BpLen)]
  /\ msg'["host_bp"].cons = f.cons /\ msg'["host_bp"].prod = msg["host_bp"].prod

\* The last two of the four queues it writes.
LEMMA PooledIs ==
  ASSUME IInv, "ingress" \in CopyPayload,
         NEW src, NEW dst, src = Src["ingress"], dst = Dst["ingress"], NEW v, NEW w, NEW f, NEW n,
         f.sh \in QIdx,
         q' = [q EXCEPT ![src] = v, ![dst] = w, !["host_bp"] = f.b,
                        !["shadow"] = [f.sh EXCEPT !.head = Ahead(@, n, "shadow")]],
         msg' = [msg EXCEPT !["host_bp"].cons = f.cons]
  PROVE  Pooled(n, f)
<1>1. src # "host_bp" /\ dst # "host_bp" /\ src # "shadow" /\ dst # "shadow"
  BY Apart, PoolIs
<1> DEFINE hd == Ahead(f.sh.head, n, "shadow")
           s2 == [f.sh EXCEPT !.head = Ahead(@, n, "shadow")]
<1>2. s2 = [f.sh EXCEPT !.head = hd]
  OBVIOUS
<1>3. hd = q_idx_add(f.sh.head, n, BpLen)
  BY PoolIs DEF Ahead
<1>4. q' = [q EXCEPT ![src] = v, ![dst] = w, !["host_bp"] = f.b, !["shadow"] = s2]
  OBVIOUS
<1>5. q'["host_bp"] = f.b /\ q'["shadow"] = s2
  <2> HIDE DEF s2, hd
  <2> QED BY <1>1, <1>4, PoolIs DEF IndexOk
<1>6. msg'["host_bp"].cons = f.cons /\ msg'["host_bp"].prod = msg["host_bp"].prod
  BY PoolIs DEF IndexOk, Words
<1> QED BY <1>2, <1>3, <1>5, <1>6 DEF Pooled

\* gie_process_local_q is the prefetch, with what it takes out of the shadow.
LEMMA LocalPool ==
  ASSUME IInv, "ingress" \in CopyPayload, NEW p \in Pairs, ProcessLocalQ(p)
  PROVE  PoolSame \/ \E qes, n \in 0 .. Batch : Shadow!Process(qes, n)
<1>0. p = "ingress"
  BY LocalDo
<1>1. PICK src, dst, pool, s, d, qes, avail, f, n, from, to, hd, tl :
           /\ Local1(p, src, dst, pool, s, d, qes, avail, f, n, from, to, hd, tl)
           /\ \/ q' = [q EXCEPT ![src] = s, ![dst] = d] /\ UNCHANGED <<msg, ring, sub>>
              \/ Local2(p, src, dst, pool, s, d, f, n, from, to, hd, tl)
  BY SMTT(30), LocalDo
<1>2. /\ src = Src[p] /\ dst = Dst[p] /\ pool = Pool[p]
      /\ s = [q[src] EXCEPT !.tail = msg[src].prod] /\ d = [q[dst] EXCEPT !.head = msg[dst].cons]
      /\ qes = gie_clip_batch(d, q_occupancy(s, QLen)) /\ avail = q_occupancy(q["shadow"], BpLen)
  BY ZenonT(30), <1>1 DEF Local1
<1>3. /\ pool = "host_bp" /\ src \in Queues /\ dst \in Queues
      /\ src # "host_bp" /\ dst # "host_bp" /\ src # "shadow" /\ dst # "shadow"
  BY <1>0, <1>2, Names, Apart, PoolIs
<1>4. CASE q' = [q EXCEPT ![src] = s, ![dst] = d] /\ UNCHANGED <<msg, ring, sub>>
  <2>1. q'["host_bp"] = q["host_bp"] /\ q'["shadow"] = q["shadow"]
    BY <1>3, <1>4, PoolIs DEF IndexOk
  <2> QED BY <1>4, <2>1 DEF PoolSame
<1>5. CASE Local2(p, src, dst, pool, s, d, f, n, from, to, hd, tl)
  <2>1. Choice(f, avail, qes)
    BY ZenonT(30), <1>0, <1>1, <1>3 DEF Local1, Choice
  <2>2. f.sh \in QIdx
    BY <2>1, ChoiceShadow
  <2>3. s \in QIdx /\ d \in QIdx /\ QLen \in Nat \ {0} /\ Batch \in Nat \ {0}
    <3>1. q[src] \in QIdx /\ q[dst] \in QIdx /\ msg[src].prod \in Nat /\ msg[dst].cons \in Nat
      BY <1>3, PoolIs DEF IndexOk, Words
    <3> QED BY <1>2, <3>1, Params DEF QIdx
  <2>4. qes \in 0 .. Batch
    <3> DEFINE m == q_occupancy(s, QLen)
               o == q_occupancy(d, QLen)
    <3>1. m \in Nat /\ o \in 0 .. QLen - 1
      BY <2>3, OccBelow, OccNat
    <3>2. qes = Lesser(Lesser(m, Batch), QLen - o - 1)
      BY <1>2 DEF gie_clip_batch, q_space
    <3> HIDE DEF m, o
    <3> QED BY <2>3, <3>1, <3>2 DEF Lesser
  <2>5. n \in Nat /\ n <= qes /\ n <= avail
    <3> DEFINE o == q_occupancy(f.sh, BpLen)
               r == ring[src]
               h == s.head
    <3>1. o \in Nat /\ avail \in Nat
      BY SMTT(30), <1>2, <2>2, OccNat, PoolIs
    <3>2. n = IF p \in CopyPayload THEN Accepted(r, h, Lesser(qes, avail), o) ELSE qes
      BY ZenonT(30), <1>1 DEF Local1
    <3>3. qes \in Nat /\ p \in CopyPayload
      BY <2>4, <1>0
    <3> HIDE DEF o, r, h
    <3> QED BY <3>1, <3>2, <3>3, LocalTakes
  <2>6. Pooled(n, f)
    <3> DEFINE v == [s EXCEPT !.head = hd]
               w == [d EXCEPT !.tail = tl]
    <3>1. /\ q' = [q EXCEPT ![src] = v, ![dst] = w, !["host_bp"] = f.b,
                           !["shadow"] = [f.sh EXCEPT !.head = Ahead(@, n, "shadow")]]
          /\ msg' = [msg EXCEPT !["host_bp"].cons = f.cons]
      BY <1>0, <1>3, <1>5 DEF Local2
    <3>2. src = Src["ingress"] /\ dst = Dst["ingress"]
      BY <1>0, <1>2
    <3> HIDE DEF v, w
    <3> QED BY <2>2, <3>1, <3>2, PooledIs
  <2>7. Served(qes, n, f)
    <3>1. n \in 0 .. Batch
      BY <2>3, <2>4, <2>5
    <3> QED BY <1>2, <2>1, <2>4, <2>5, <2>6, <3>1 DEF Served, Pooled
  <2>8. Shadow!Process(qes, n)
    BY <2>7, ServedIs
  <2> QED BY SMTT(30), <2>4, <2>7, <2>8 DEF Served
<1> QED BY <1>1, <1>4, <1>5

\* Every step is one of the prefetch, or leaves it alone.
LEMMA PoolStep ==
  ASSUME IInv, "ingress" \in CopyPayload, [Next]_vars
  PROVE  [Shadow!Next]_(Shadow!vars)
<1>1. CASE UNCHANGED vars
  BY <1>1, DmaPool, PoolStutter
<1>2. ASSUME NEW p \in Pairs, \E n \in Packets : Send(p, n) PROVE PoolSame
  BY <1>2, SendPool
<1>3. ASSUME NEW p \in Pairs, Recv(p) \/ ProcessRemoteQ(p) \/ ProcessBuffers(p) PROVE PoolSame
  BY <1>3, RecvPool, RemotePool, BuffersPool
<1>4. ASSUME NEW p \in Pairs, PutBuff(p) PROVE PoolSame \/ Shadow!Next
  BY <1>4, PutPool DEF Shadow!Next
<1>5. ASSUME NEW p \in Pairs, ProcessLocalQ(p) PROVE PoolSame \/ Shadow!Next
  BY <1>5, LocalPool DEF Shadow!Next
<1>6. CASE Clean \/ Retry
  <2>1. PoolSame \/ \E k \in 1 .. BpLen - 1 : Shadow!CopyDone(k)
    BY <1>6, CleanActPool, RetryPool
  <2> QED BY <2>1, PoolStutter DEF Shadow!Next
<1>7. CASE Dma \/ Enqueue \/ GiveUp
  BY <1>7, DmaPool, PoolStutter
<1> QED BY <1>1, <1>2, <1>3, <1>4, <1>5, <1>6, <1>7, PoolStutter DEF Next

\* At first the shadow is empty, and the pool what the host has posted.
LEMMA PoolInit ==
  ASSUME "ingress" \in CopyPayload, Init
  PROVE  Shadow!Init
<1>1. "host_bp" \in Queues /\ "shadow" \in Queues /\ "host_bp" \in PoolQs /\ BpLen \in Nat \ {0}
  BY Names, Params DEF PoolQs
<1>2. q["host_bp"] = ResetQueue /\ q["shadow"] = ResetQueue
  BY <1>1 DEF Init
<1>3. msg["host_bp"].cons = 0 /\ msg["host_bp"].prod = PoolFill
  BY <1>1 DEF Init
<1>4. PoolFill \in 0 .. BpLen - 1
  BY GieAssumption DEF PoolFill, Lesser
<1> QED BY <1>2, <1>3, <1>4, SameOps DEF Shadow!Init

\* The data path implements the prefetch of GieShadow: what gie_bpool_fill_shadow,
\* the clean-up, the host and gie_process_local_q do to the host's pool and to its
\* shadow are the steps of that module, and nothing else moves their indices.
THEOREM PrefetchImplemented == ASSUME "ingress" \in CopyPayload PROVE Spec => ShadowIsPrefetch
<1>1. Init => Shadow!Init
  BY PoolInit
<1>2. IInv /\ [Next]_vars => [Shadow!Next]_(Shadow!vars)
  BY PoolStep
<1> QED BY <1>1, <1>2, DataPathInvariance, PTL DEF Spec, ShadowIsPrefetch, Shadow!Spec
=============================================================================
