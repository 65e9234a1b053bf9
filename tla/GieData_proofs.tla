---------------------------- MODULE GieData_proofs --------------------------
(***************************************************************************)
(* What the data path (Gie) does to the data: an element that is published *)
(* is complete, a buffer of a pool is in one place at a time, a packet is  *)
(* published as a whole.                                                   *)
(*                                                                         *)
(* The invariant of Gie_proofs says where the indices and the descriptors  *)
(* are; here it is put in terms of slots, and what the slots and buffers   *)
(* hold is said next to it.  Nothing of it is true once dmax2_enq has      *)
(* taken a submission in part (NoSplit).                                   *)
(***************************************************************************)
EXTENDS Gie_proofs, FiniteSetTheorems, FunctionTheorems

\* No submission is accepted in part: what is still to be submitted of the
\* first one is all of it.  MCGiePartialEnqueue shows what happens otherwise.
NoSplit == left # 0 => left = Len(Head(sub).descs)

-----------------------------------------------------------------------------
(* Slots, as sets *)

\* Of pair p: the elements its consumer has not read, those that have a buffer
\* but are not published, both, those the producer has published, those whose
\* QEs are being copied or have been, and those of them a descriptor may name.
UnreadIn(p, mg) == Slots(mg[Dst[p]].cons, mg[Dst[p]].prod, QLen)
MovingIn(p, qq, mg) == Slots(mg[Src[p]].cons, qq[Src[p]].head, QLen)
TakenIn(p, qq, mg) == Slots(mg[Dst[p]].cons, qq[Src[p]].head, QLen)
SentIn(p, mg) == Slots(mg[Src[p]].cons, mg[Src[p]].prod, QLen)
CopiedIn(p, qq, mg) ==
  IF p = "egress" THEN Slots(qq[Src[p]].head, qq[Src[p]].qe_tail, QLen) ELSE MovingIn(p, qq, mg)
NamedIn(p, qq, mg) ==
  IF p = "egress" THEN Slots(qq[Src[p]].qe_head, qq[Src[p]].qe_tail, QLen) ELSE MovingIn(p, qq, mg)

\* Of its pool: the entries in the ring, those in the shadow, those that are
\* being copied to the shadow or have been, and those a descriptor may name.
FullIn(p, qq, mg) == Slots(qq[Pool[p]].head, mg[Pool[p]].prod, BpLen)
FetchedIn(p, qq) == IF p = "ingress" THEN Slots(qq["shadow"].head, qq["shadow"].tail, BpLen) ELSE {}
FillIn(qq) == Slots(qq["host_bp"].head, qq["host_bp"].qe_tail, BpLen)
FillLeft(qq) == Slots(qq["host_bp"].qe_head, qq["host_bp"].qe_tail, BpLen)

\* How far it is from one index to the next, all the way round less than once.
Around(p, qq, mg) ==
  LET s == qq[Src[p]]
      rd == mg[Dst[p]].cons
      a == mg[Src[p]].cons
      z == mg[Src[p]].prod
  IN /\ rd \in 0 .. QLen - 1 /\ a \in 0 .. QLen - 1 /\ z \in 0 .. QLen - 1 /\ s.head \in 0 .. QLen - 1
     /\ mg[Dst[p]].prod = a /\ qq[Dst[p]].tail = s.head
     /\ Occupancy(a, rd, QLen) + Occupancy(s.head, a, QLen) < QLen
     /\ Occupancy(s.head, a, QLen) <= Occupancy(z, a, QLen)
CopyAround(qq, mg) ==
  LET s == qq["host_tx"]
      rd == mg["lcl_rx"].cons
      a == mg["host_tx"].cons
      z == mg["host_tx"].prod
      o == Occupancy(s.head, a, QLen) + Occupancy(s.qe_head, s.head, QLen) + Occupancy(s.qe_tail, s.qe_head, QLen)
  IN /\ s.qe_head \in 0 .. QLen - 1 /\ s.qe_tail \in 0 .. QLen - 1
     /\ Occupancy(a, rd, QLen) + o < QLen /\ o <= Occupancy(z, a, QLen)
PoolAround(qq) ==
  LET b == qq["host_bp"]
      sh == qq["shadow"]
  IN /\ sh.head \in 0 .. BpLen - 1 /\ sh.tail \in 0 .. BpLen - 1 /\ sh.tail = b.head
     /\ b.qe_head \in 0 .. BpLen - 1 /\ b.qe_tail \in 0 .. BpLen - 1
     /\ Occupancy(b.qe_head, b.head, BpLen) + Occupancy(b.qe_tail, b.qe_head, BpLen) < BpLen
     /\ FillFits => Occupancy(sh.tail, sh.head, BpLen) + Occupancy(b.qe_head, b.head, BpLen)
                    + Occupancy(b.qe_tail, b.qe_head, BpLen) < BpLen
Regions(qq, mg) ==
  /\ \A p \in Pairs : Around(p, qq, mg)
  /\ "egress" \in Pairs => CopyAround(qq, mg)
  /\ "ingress" \in CopyPayload => PoolAround(qq)

-----------------------------------------------------------------------------
(* Descriptors and jobs, as sets *)

\* The descriptors that are not completed, and the jobs that are not over.
Coming == UNION {{sub[m].descs[k] : k \in 1 .. Len(sub[m].descs)} : m \in 1 .. Len(sub)}
Todo == PendingDescs \cup Coming
AllJobs == {jobs[i] : i \in 1 .. Len(jobs)} \cup {sub[m].job : m \in {o \in 1 .. Len(sub) : left = 0 \/ o > 1}}
Tails(p) == {j.tail : j \in {i \in AllJobs : Carries(i, p)}}

\* What a descriptor may be: of a buffer, of elements, of the pool's entries.
OfBuffer(d, p, qq, mg) ==
  \E i \in MovingIn(p, qq, mg) : \E b : d = [op |-> "buf", src |-> <<Src[p], i>>, dst |-> b]
OfElements(d, p, qq, mg) ==
  /\ \E f, c \in Nat : d = [op |-> "qe", src |-> Src[p], dst |-> Dst[p], first |-> f, cnt |-> c]
  /\ Covered(d) \subseteq NamedIn(p, qq, mg)
OfPool(d, qq) ==
  /\ "ingress" \in CopyPayload
  /\ \E f, c \in Nat : d = [op |-> "qe", src |-> "host_bp", dst |-> "shadow", first |-> f, cnt |-> c]
  /\ Covered(d) \subseteq FillLeft(qq)
Kind(d, qq, mg) ==
  (\E p \in Pairs : OfBuffer(d, p, qq, mg) \/ OfElements(d, p, qq, mg)) \/ OfPool(d, qq)
Kinds(w, qq, mg) == \A d \in w : Kind(d, qq, mg)

\* The slot before slot i.  A job publishes up to an element in the works.
Before(i) == (i - 1 + QLen) % QLen
TailsIn(p, tl, qq, mg) ==
  \A t \in tl : t \in 0 .. QLen - 1 /\ (t = mg[Dst[p]].prod \/ Before(t) \in MovingIn(p, qq, mg))

-----------------------------------------------------------------------------
(* The data of a pair that copies buffers *)

\* A descriptor of w is going to write buffer b, or slot i of queue x.
BufTo(w, b) == \E d \in w : d.op = "buf" /\ d.dst = b
CopyTo(w, x, i) == \E d \in w : d.op = "qe" /\ d.dst = x /\ i \in Covered(d)

\* The elements from the GIE's acceptance to the consumer, each in the ring that
\* has it, with its buffer.
ElemsOf(p, rg, un) ==
  [i \in 0 .. QLen - 1 |-> IF p = "ingress" /\ i \notin un THEN rg[Src[p]][i] ELSE rg[Dst[p]][i]]

\* What the producer wrote: s is its ring, m the buffers.
SourceOk(p, s, m, R) == \A i \in R : s[i].tag \in Tag /\ m[<<Src[p], i>>] = s[i].tag

\* Its packets are whole.
WholeOk(s, R) ==
  \A i \in R : s[i].sg # 1 => LET j == q_idx_add(i, 1, QLen) IN SgEn /\ s[i].sg = 2 /\ j \in R /\ s[j].sg = 1

\* An element's buffer holds its packet, or will; it is the source's element.
ElemOk(e, s, m, w, tk, mv) ==
  /\ \A i \in tk : e[i].tag \in Tag /\ (BufTo(w, e[i].buf) \/ m[e[i].buf] = e[i].tag)
  /\ \A i \in mv : e[i].tag = s[i].tag

\* A buffer is copied to the element that has it.
AimedOk(p, e, w) ==
  \A d \in w : d.op = "buf" /\ d.src[1] = Src[p] => d.dst = e[d.src[2]].buf

\* Entries of a are in b, or will be.
CopiedOk(x, a, b, w, R) == \A i \in R : CopyTo(w, x, i) \/ b[i] = a[i]

\* The last element that is published, or will be with a job, ends a packet.
CutOk(d, e, un, mv, pr, tl) ==
  /\ un # {} => d[Before(pr)].sg = 1
  /\ \A t \in tl : Before(t) \in mv => e[Before(t)].sg = 1

\* The words of the pool.
PoolOk(p, qq, mg) ==
  LET b == qq[Pool[p]]
      g == mg[Pool[p]]
  IN /\ g.cons = b.head /\ b.head \in 0 .. BpLen - 1 /\ g.prod \in 0 .. BpLen - 1
     /\ p = "ingress" => Occupancy(b.qe_tail, b.head, BpLen) <= Occupancy(g.prod, b.head, BpLen)

\* What is in slots R of r, and that nothing is there twice.
Held(r, R) == {r[i] : i \in R}
Distinct(r, R) == \A i, j \in R : r[i] = r[j] => i = j

\* Every buffer is in one place: an element, the pool's ring, the shadow or the
\* consumer's hands.
Bufs(e) == [i \in 0 .. QLen - 1 |-> e[i].buf]
Spread(all, e, tk, r, full, sh, got_, ow) ==
  /\ Distinct(e, tk) /\ Distinct(r, full) /\ Distinct(sh, got_)
  /\ Held(e, tk) \cap Held(r, full) = {} /\ Held(e, tk) \cap Held(sh, got_) = {} /\ Held(e, tk) \cap ow = {}
  /\ Held(r, full) \cap Held(sh, got_) = {} /\ Held(r, full) \cap ow = {} /\ Held(sh, got_) \cap ow = {}
  /\ Held(e, tk) \cup Held(r, full) \cup Held(sh, got_) \cup ow = all

\* All of it.
DataOf(p, rg, mm, qq, mg, w, tl, ow) ==
  LET s == rg[Src[p]]
      d == rg[Dst[p]]
      un == UnreadIn(p, mg)
      mv == MovingIn(p, qq, mg)
      tk == TakenIn(p, qq, mg)
      e == ElemsOf(p, rg, un)
  IN /\ s \in [0 .. QLen - 1 -> Elements] /\ d \in [0 .. QLen - 1 -> Elements]
     /\ SourceOk(p, s, mm, SentIn(p, mg)) /\ WholeOk(s, SentIn(p, mg))
     /\ ElemOk(e, s, mm, w, tk, mv) /\ AimedOk(p, e, w)
     /\ CopiedOk(Dst[p], s, d, w, CopiedIn(p, qq, mg))
     /\ CutOk(d, e, un, mv, mg[Dst[p]].prod, tl)
     /\ PoolOk(p, qq, mg)
     /\ p = "ingress" => CopiedOk("shadow", rg["host_bp"], rg["shadow"], w, FillIn(qq))
     /\ Spread(PoolBufs(p), Bufs(e), tk, rg[Pool[p]], FullIn(p, qq, mg), rg["shadow"], FetchedIn(p, qq), ow)

\* Only such a pair's buffers are copied.
OnlyCopied(w) == \A d \in w : d.op = "buf" => \E p \in CopyPayload : d.src[1] = Src[p]

Data ==
  /\ mem \in [SrcBufs \cup AllPoolBufs -> Tag \cup {NoData}] /\ nxt \in [Pairs -> Nat]
  /\ owned \in [Pairs -> SUBSET AllPoolBufs] /\ \A p \in Pairs : owned[p] \subseteq PoolBufs(p)
  /\ OnlyCopied(Todo)
  /\ \A p \in CopyPayload : DataOf(p, ring, mem, q, msg, Todo, Tails(p), owned[p])

-----------------------------------------------------------------------------
(* Slots *)

\* Which slots a stretch has: it may go round the end of the ring.
LEMMA SlotIs ==
  ASSUME NEW n \in Nat \ {0}, NEW a \in 0 .. n - 1, NEW b \in 0 .. n - 1, NEW i
  PROVE  i \in Slots(a, b, n) <=>
           i \in 0 .. n - 1 /\ IF a <= b THEN a <= i /\ i < b ELSE a <= i \/ i < b
<1>1. CASE i \in 0 .. n - 1
  <2>1. Occupancy(i, a, n) = IF i >= a THEN i - a ELSE i - a + n
    BY <1>1, OccupancyCases
  <2>2. Occupancy(b, a, n) = IF b >= a THEN b - a ELSE b - a + n
    BY OccupancyCases
  <2>3. i \in Slots(a, b, n) <=> Occupancy(i, a, n) < Occupancy(b, a, n)
    BY <1>1 DEF Slots, Occupancy
  <2> QED BY <1>1, <2>1, <2>2, <2>3
<1>2. CASE i \notin 0 .. n - 1
  BY <1>2 DEF Slots
<1> QED BY <1>1, <1>2

\* Two stretches that follow each other are one, when they leave a slot free.
LEMMA SlotsSplit ==
  ASSUME NEW n \in Nat \ {0}, NEW a \in 0 .. n - 1, NEW b \in 0 .. n - 1, NEW c \in 0 .. n - 1,
         Occupancy(b, a, n) + Occupancy(c, b, n) < n
  PROVE  /\ Slots(a, c, n) = Slots(a, b, n) \cup Slots(b, c, n)
         /\ Slots(a, b, n) \cap Slots(b, c, n) = {}
         /\ Occupancy(c, a, n) = Occupancy(b, a, n) + Occupancy(c, b, n)
<1>1. /\ Occupancy(b, a, n) = IF b >= a THEN b - a ELSE b - a + n
      /\ Occupancy(c, b, n) = IF c >= b THEN c - b ELSE c - b + n
      /\ Occupancy(c, a, n) = IF c >= a THEN c - a ELSE c - a + n
  BY OccupancyCases
<1>2. ASSUME NEW i
      PROVE  /\ i \in Slots(a, c, n) <=> i \in Slots(a, b, n) \/ i \in Slots(b, c, n)
             /\ ~(i \in Slots(a, b, n) /\ i \in Slots(b, c, n))
  <2>1. /\ i \in Slots(a, b, n) <=> i \in 0 .. n - 1 /\ IF a <= b THEN a <= i /\ i < b ELSE a <= i \/ i < b
        /\ i \in Slots(b, c, n) <=> i \in 0 .. n - 1 /\ IF b <= c THEN b <= i /\ i < c ELSE b <= i \/ i < c
        /\ i \in Slots(a, c, n) <=> i \in 0 .. n - 1 /\ IF a <= c THEN a <= i /\ i < c ELSE a <= i \/ i < c
    BY SlotIs
  <2>2. CASE i \in 0 .. n - 1
    BY <1>1, <2>1, <2>2
  <2>3. CASE i \notin 0 .. n - 1
    BY <2>1, <2>3
  <2> QED BY <2>2, <2>3
<1>3. Slots(a, c, n) = Slots(a, b, n) \cup Slots(b, c, n)
  BY <1>2
<1>4. Slots(a, b, n) \cap Slots(b, c, n) = {}
  BY <1>2
<1> QED BY <1>1, <1>3, <1>4

\* The first k slots from a on: the j-th of them is j further than a.
LEMMA FirstSlots ==
  ASSUME NEW n \in Nat \ {0}, NEW a \in 0 .. n - 1, NEW k \in 0 .. n - 1
  PROVE  /\ q_idx_add(a, k, n) \in 0 .. n - 1
         /\ Occupancy(q_idx_add(a, k, n), a, n) = k
         /\ \A i \in 0 .. n - 1 : i \in Slots(a, q_idx_add(a, k, n), n) <=> Occupancy(i, a, n) < k
<1> DEFINE c == q_idx_add(a, k, n)
<1>1. c \in 0 .. n - 1 /\ c = (IF a + k < n THEN a + k ELSE a + k - n)
  BY AddCases
<1> HIDE DEF c
<1>2. Occupancy(c, a, n) = IF c >= a THEN c - a ELSE c - a + n
  BY <1>1, OccupancyCases
<1>3. Occupancy(c, a, n) = k
  BY <1>1, <1>2
<1>4. \A i \in 0 .. n - 1 : i \in Slots(a, c, n) <=> Occupancy(i, a, n) < k
  BY <1>3 DEF Slots, Occupancy
<1> QED BY <1>1, <1>3, <1>4 DEF c

\* Where the j-th slot is, and which one a slot is.
LEMMA SlotAt ==
  ASSUME NEW n \in Nat \ {0}, NEW a \in 0 .. n - 1, NEW k \in 0 .. n - 1, NEW j \in 0 .. k - 1
  PROVE  /\ q_idx_add(a, j, n) \in Slots(a, q_idx_add(a, k, n), n)
         /\ q_idx_add(a, j, n) \in 0 .. n - 1 /\ Occupancy(q_idx_add(a, j, n), a, n) = j
<1>1. j \in 0 .. n - 1 /\ j < k
  OBVIOUS
<1>2. q_idx_add(a, j, n) \in 0 .. n - 1 /\ Occupancy(q_idx_add(a, j, n), a, n) = j
  BY <1>1, FirstSlots
<1> QED BY <1>1, <1>2, FirstSlots

\* Which of the first k slots from a on slot i is.
LEMMA SlotFrom ==
  ASSUME NEW n \in Nat \ {0}, NEW a \in 0 .. n - 1, NEW k \in 0 .. n - 1,
         NEW i \in Slots(a, q_idx_add(a, k, n), n)
  PROVE  /\ i \in 0 .. n - 1 /\ Occupancy(i, a, n) \in 0 .. k - 1
         /\ q_idx_add(a, Occupancy(i, a, n), n) = i
<1>1. i \in 0 .. n - 1
  BY DEF Slots
<1>2. Occupancy(i, a, n) < k
  BY <1>1, FirstSlots
<1>3. Occupancy(i, a, n) \in 0 .. n - 1
  BY <1>1, OccupancyCases
<1>4. q_idx_add(a, Occupancy(i, a, n), n) = i
  BY <1>1, AddOccupancy
<1> QED BY <1>1, <1>2, <1>3, <1>4

\* The slot before the end of a stretch is in it.
LEMMA BeforeIs ==
  ASSUME NEW b \in 0 .. QLen - 1
  PROVE  Before(b) = (IF b = 0 THEN QLen - 1 ELSE b - 1) /\ Before(b) \in 0 .. QLen - 1
<1> DEFINE x == b - 1 + QLen
<1>1. QLen \in Nat \ {0}
  BY Params
<1>2. x \in 0 .. 2 * QLen - 1
  BY <1>1
<1>3. x % QLen = IF x < QLen THEN x ELSE x - QLen
  <2> HIDE DEF x
  <2> QED BY <1>1, <1>2, ModWrap
<1> QED BY <1>1, <1>3 DEF Before

\* A stretch is empty when it ends where it begins; if not, its last slot is the
\* one before its end.
LEMMA BeforeIn ==
  ASSUME NEW a \in 0 .. QLen - 1, NEW b \in 0 .. QLen - 1
  PROVE  (Slots(a, b, QLen) # {} <=> a # b) /\ (a # b => Before(b) \in Slots(a, b, QLen))
<1>1. QLen \in Nat \ {0}
  BY Params
<1>2. Before(b) = (IF b = 0 THEN QLen - 1 ELSE b - 1) /\ Before(b) \in 0 .. QLen - 1
  BY BeforeIs
<1>3. a # b => Before(b) \in Slots(a, b, QLen)
  BY <1>1, <1>2, SlotIs
<1>4. a = b => Slots(a, b, QLen) = {}
  BY <1>1, SlotIs
<1> QED BY <1>3, <1>4

-----------------------------------------------------------------------------
(* The invariant of Gie_proofs in terms of slots *)

\* Where the indices of a pair are.
LEMMA AroundIs ==
  ASSUME NEW L, NEW E, NEW U, NEW P, NEW H, NEW X, NEW y, Whole(L, E, U, P, H, X, y), NEW p \in Pairs
  PROVE  Around(p, q, msg)
<1> DEFINE rd == X[p].rd
<1> DEFINE a == P[p][0]
<1> DEFINE h == H[p]
<1> DEFINE z == X[p].sp
<1>1. PairAt(p, q[Src[p]], q[Dst[p]], msg[Src[p]], msg[Dst[p]],
             U[Src[p]][0], U[Src[p]][Len(L)], P[p][0], P[p][Len(L)], H[p], X[p])
  BY PairData
<1>2. /\ msg[Dst[p]].cons = rd % QLen /\ msg[Src[p]].cons = a % QLen /\ msg[Dst[p]].prod = a % QLen
      /\ q[Src[p]].head = h % QLen /\ q[Dst[p]].tail = h % QLen /\ msg[Src[p]].prod = z % QLen
  BY <1>1 DEF PairAt
<1>3. /\ rd \in Nat /\ a \in Nat /\ h \in Nat /\ z \in Nat /\ QLen \in Nat \ {0}
      /\ rd <= a /\ a <= h /\ h <= z /\ z - a < QLen /\ h - rd < QLen
  <2>1. /\ X[p].rd \in Nat /\ X[p].sd \in Nat /\ X[p].qt \in Nat /\ X[p].tl \in Nat /\ X[p].sp \in Nat
        /\ P[p][0] \in Nat /\ H[p] \in Nat
        /\ X[p].sd <= X[p].rd /\ X[p].rd <= P[p][0] /\ P[p][0] <= H[p]
        /\ H[p] <= X[p].qt /\ X[p].qt <= X[p].tl /\ X[p].tl <= X[p].sp
        /\ X[p].sp - P[p][0] < QLen /\ X[p].qt - X[p].sd < QLen /\ QLen \in Nat \ {0}
    BY ZenonT(30), PairNum
  <2> QED BY <2>1
<1> HIDE DEF rd, a, h, z
<1>4. a - rd < QLen /\ h - a < QLen
  BY <1>3
<1>5. Occupancy(a % QLen, rd % QLen, QLen) = a - rd
  BY <1>3, <1>4, OccIs
<1>6. Occupancy(h % QLen, a % QLen, QLen) = h - a
  BY <1>3, <1>4, OccIs
<1>7. Occupancy(z % QLen, a % QLen, QLen) = z - a
  <2>1. a <= z
    BY <1>3
  <2> QED BY <1>3, <2>1, OccIs
<1>8. /\ rd % QLen \in 0 .. QLen - 1 /\ a % QLen \in 0 .. QLen - 1
      /\ h % QLen \in 0 .. QLen - 1 /\ z % QLen \in 0 .. QLen - 1
  BY <1>3, ModRange
<1>9. (a - rd) + (h - a) < QLen /\ h - a <= z - a
  BY <1>3
<1> QED BY <1>2, <1>5, <1>6, <1>7, <1>8, <1>9 DEF Around

\* Where the copies of egress QEs are.
LEMMA CopyAroundIs ==
  ASSUME NEW L, NEW E, NEW U, NEW P, NEW H, NEW X, NEW y, Whole(L, E, U, P, H, X, y), "egress" \in Pairs
  PROVE  CopyAround(q, msg)
<1> DEFINE p == "egress"
<1> DEFINE rd == X[p].rd
<1> DEFINE a == P[p][0]
<1> DEFINE h == H[p]
<1> DEFINE z == X[p].sp
<1> DEFINE u == U[Src[p]][0]
<1> DEFINE t == X[p].qt
<1>0. p \in Pairs /\ Src[p] = "host_tx" /\ Dst[p] = "lcl_rx" /\ "host_tx" \in Queues /\ Len_("host_tx") = QLen
  BY Names
<1>1. PairAt(p, q[Src[p]], q[Dst[p]], msg[Src[p]], msg[Dst[p]],
             U[Src[p]][0], U[Src[p]][Len(L)], P[p][0], P[p][Len(L)], H[p], X[p])
  BY <1>0, PairData
<1>2. /\ msg["lcl_rx"].cons = rd % QLen /\ msg["host_tx"].cons = a % QLen
      /\ q["host_tx"].head = h % QLen /\ msg["host_tx"].prod = z % QLen
      /\ q["host_tx"].qe_tail = t % QLen /\ h <= u /\ U[Src[p]][Len(L)] = t
  BY <1>0, <1>1 DEF PairAt
<1>3. q["host_tx"].qe_head = u % QLen
  <2>1. Heads(U)
    BY Parts
  <2> QED BY <2>1, <1>0 DEF Heads
<1>4. u \in Nat /\ u <= t
  <2>1. Typed(L, E, U, P) /\ Steps(L, E, U, P) /\ Len(L) \in Nat
    BY Parts
  <2> DEFINE M == Len(L)
  <2>2. M \in Nat /\ 0 \in 0 .. M /\ M \in 0 .. M /\ 0 <= M
    BY <2>1
  <2>3. \A i \in 0 .. M : \A x \in Queues : U[x][i] \in Nat
    BY <2>1, StepsAre
  <2>4. \A i, j \in 0 .. M : i <= j => \A x \in Queues : U[x][i] <= U[x][j]
    BY <2>1, StepsAre
  <2> QED BY <2>2, <2>3, <2>4, <1>0, <1>2
<1>5. /\ rd \in Nat /\ a \in Nat /\ h \in Nat /\ z \in Nat /\ t \in Nat /\ QLen \in Nat \ {0}
      /\ rd <= a /\ a <= h /\ h <= t /\ t <= z /\ z - a < QLen /\ t - rd < QLen
  <2>1. /\ X[p].rd \in Nat /\ X[p].sd \in Nat /\ X[p].qt \in Nat /\ X[p].tl \in Nat /\ X[p].sp \in Nat
        /\ P[p][0] \in Nat /\ H[p] \in Nat
        /\ X[p].sd <= X[p].rd /\ X[p].rd <= P[p][0] /\ P[p][0] <= H[p]
        /\ H[p] <= X[p].qt /\ X[p].qt <= X[p].tl /\ X[p].tl <= X[p].sp
        /\ X[p].sp - P[p][0] < QLen /\ X[p].qt - X[p].sd < QLen /\ QLen \in Nat \ {0}
    BY ZenonT(30), <1>0, PairNum
  <2> QED BY <2>1
<1> HIDE DEF p, rd, a, h, z, u, t
<1>6. a - rd < QLen /\ h - a < QLen /\ u - h < QLen /\ t - u < QLen /\ a <= z /\ h <= u
  BY <1>2, <1>4, <1>5
<1>7. Occupancy(a % QLen, rd % QLen, QLen) = a - rd /\ Occupancy(h % QLen, a % QLen, QLen) = h - a
  BY <1>5, <1>6, OccIs
<1>8. Occupancy(u % QLen, h % QLen, QLen) = u - h /\ Occupancy(t % QLen, u % QLen, QLen) = t - u
  BY <1>4, <1>5, <1>6, OccIs
<1>9. Occupancy(z % QLen, a % QLen, QLen) = z - a
  BY <1>5, <1>6, OccIs
<1>10. u % QLen \in 0 .. QLen - 1 /\ t % QLen \in 0 .. QLen - 1
  BY <1>4, <1>5, ModRange
<1>11. (a - rd) + ((h - a) + (u - h) + (t - u)) < QLen /\ (h - a) + (u - h) + (t - u) <= z - a
  BY <1>4, <1>5
<1> QED BY <1>2, <1>3, <1>7, <1>8, <1>9, <1>10, <1>11 DEF CopyAround

\* Where the copies of the host's pool are.
LEMMA PoolAroundIs ==
  ASSUME NEW L, NEW E, NEW U, NEW P, NEW H, NEW X, NEW y, Whole(L, E, U, P, H, X, y), "ingress" \in CopyPayload
  PROVE  PoolAround(q)
<1> DEFINE u == U["host_bp"][0]
<1> DEFINE t == U["host_bp"][Len(L)]
<1> DEFINE a == y.sh
<1> DEFINE b == y.st
<1>0. "host_bp" \in Queues /\ Len_("host_bp") = BpLen /\ BpLen \in Nat \ {0}
  BY Names, Params
<1>1. /\ q["shadow"].head = a % BpLen /\ q["shadow"].tail = b % BpLen /\ q["host_bp"].head = b % BpLen
      /\ q["host_bp"].qe_tail = t % BpLen /\ b <= u /\ t - b < BpLen
      /\ FillFits => a <= b /\ t - a < BpLen
  <2>1. ShadowOk(U, Len(L), y)
    BY Parts
  <2> QED BY <2>1 DEF ShadowOk
<1>2. q["host_bp"].qe_head = u % BpLen
  <2>1. Heads(U)
    BY Parts
  <2> QED BY <2>1, <1>0 DEF Heads
<1>3. u \in Nat /\ t \in Nat /\ u <= t
  <2>1. Typed(L, E, U, P) /\ Steps(L, E, U, P) /\ Len(L) \in Nat
    BY Parts
  <2> DEFINE M == Len(L)
  <2>2. M \in Nat /\ 0 \in 0 .. M /\ M \in 0 .. M /\ 0 <= M
    BY <2>1
  <2>3. \A i \in 0 .. M : \A x \in Queues : U[x][i] \in Nat
    BY <2>1, StepsAre
  <2>4. \A i, j \in 0 .. M : i <= j => \A x \in Queues : U[x][i] <= U[x][j]
    BY <2>1, StepsAre
  <2> QED BY <2>2, <2>3, <2>4, <1>0
<1>4. a \in Nat /\ b \in Nat
  <2>1. y \in [sh: Nat, st: Nat]
    BY Parts
  <2> QED BY <2>1
<1> HIDE DEF u, t, a, b
<1>5. u - b < BpLen /\ t - u < BpLen
  BY <1>0, <1>1, <1>3, <1>4
<1>6. Occupancy(u % BpLen, b % BpLen, BpLen) = u - b /\ Occupancy(t % BpLen, u % BpLen, BpLen) = t - u
  BY <1>0, <1>1, <1>3, <1>4, <1>5, OccIs
<1>7. FillFits => Occupancy(b % BpLen, a % BpLen, BpLen) = b - a
  <2>1. FillFits => a <= b /\ b - a < BpLen
    BY <1>0, <1>1, <1>3, <1>4
  <2> QED BY <1>0, <1>4, <2>1, OccIs
<1>8. /\ a % BpLen \in 0 .. BpLen - 1 /\ b % BpLen \in 0 .. BpLen - 1
      /\ u % BpLen \in 0 .. BpLen - 1 /\ t % BpLen \in 0 .. BpLen - 1
  BY <1>0, <1>3, <1>4, ModRange
<1>9. (u - b) + (t - u) < BpLen /\ (FillFits => (b - a) + (u - b) + (t - u) < BpLen)
  BY <1>0, <1>1, <1>3, <1>4
<1> QED BY <1>1, <1>2, <1>6, <1>7, <1>8, <1>9 DEF PoolAround

\* The invariant has all of it.
LEMMA RegionsIs == IInv => Regions(q, msg)
<1> SUFFICES ASSUME IInv PROVE Regions(q, msg)
  OBVIOUS
<1>1. PICK L, E, U, P, H, X, y : Whole(L, E, U, P, H, X, y)
  BY DEF IInv
<1> QED BY <1>1, AroundIs, CopyAroundIs, PoolAroundIs DEF Regions

\* The elements that have a buffer and are not published, by their positions.
LEMMA MovingIs ==
  ASSUME NEW L, NEW E, NEW U, NEW P, NEW H, NEW X, NEW y, Whole(L, E, U, P, H, X, y), NEW p \in Pairs
  PROVE  /\ P[p][0] \in Nat /\ H[p] \in Nat /\ P[p][0] <= H[p] /\ H[p] - P[p][0] < QLen
         /\ MovingIn(p, q, msg) = Slots(P[p][0] % QLen, H[p] % QLen, QLen)
         /\ msg[Dst[p]].prod = P[p][0] % QLen /\ P[p][Len(L)] = H[p]
<1>1. PairAt(p, q[Src[p]], q[Dst[p]], msg[Src[p]], msg[Dst[p]],
             U[Src[p]][0], U[Src[p]][Len(L)], P[p][0], P[p][Len(L)], H[p], X[p])
  BY PairData
<1>2. msg[Src[p]].cons = P[p][0] % QLen /\ q[Src[p]].head = H[p] % QLen /\ msg[Dst[p]].prod = P[p][0] % QLen
      /\ P[p][Len(L)] = H[p]
  BY <1>1 DEF PairAt
<1>3. /\ X[p].qt \in Nat /\ X[p].tl \in Nat /\ X[p].sp \in Nat /\ P[p][0] \in Nat /\ H[p] \in Nat
      /\ P[p][0] <= H[p] /\ H[p] <= X[p].qt /\ X[p].qt <= X[p].tl /\ X[p].tl <= X[p].sp
      /\ X[p].sp - P[p][0] < QLen /\ QLen \in Nat \ {0}
  BY PairNum
<1>4. H[p] - P[p][0] < QLen
  BY <1>3
<1> QED BY <1>2, <1>3, <1>4 DEF MovingIn

\* What a job that copies elements or buffers of a pair may have as a descriptor.
LEMMA CopyKind ==
  ASSUME NEW L, NEW E, NEW U, NEW P, NEW H, NEW X, NEW y, Whole(L, E, U, P, H, X, y), NEW p \in Pairs,
         NEW lo \in Nat, P[p][0] <= lo, NEW d, CopyFrom(p, lo, H[p], d)
  PROVE  Kind(d, q, msg)
<1> DEFINE a == P[p][0]
<1> DEFINE h == H[p]
<1>1. /\ a \in Nat /\ h \in Nat /\ a <= h /\ h - a < QLen /\ QLen \in Nat \ {0} /\ a <= lo
      /\ MovingIn(p, q, msg) = Slots(a % QLen, h % QLen, QLen) /\ CopyFrom(p, lo, h, d)
  BY MovingIs, Params
<1> HIDE DEF a, h
<1>2. CASE \E x \in lo .. h - 1 : \E b : d = [op |-> "buf", src |-> <<Src[p], x % QLen>>, dst |-> b]
  <2>1. PICK x \in lo .. h - 1 : \E b : d = [op |-> "buf", src |-> <<Src[p], x % QLen>>, dst |-> b]
    BY <1>2
  <2>2. x \in Nat /\ a <= x /\ x < h
    BY <1>1
  <2>3. x % QLen \in MovingIn(p, q, msg)
    BY ZenonT(30), <1>1, <2>2, SlotIn
  <2> QED BY <2>1, <2>3 DEF Kind, OfBuffer
<1>3. CASE \E x \in lo .. h - 1, n \in Nat :
             /\ p = "ingress" /\ x + n <= h /\ (x % QLen) + n <= QLen
             /\ d = [op |-> "qe", src |-> Src[p], dst |-> Dst[p], first |-> x % QLen, cnt |-> n]
  <2>1. PICK x \in lo .. h - 1, n \in Nat :
             /\ p = "ingress" /\ x + n <= h /\ (x % QLen) + n <= QLen
             /\ d = [op |-> "qe", src |-> Src[p], dst |-> Dst[p], first |-> x % QLen, cnt |-> n]
    BY <1>3
  <2>2. x \in Nat /\ a <= x /\ x + n <= h
    BY <1>1, <2>1
  <2>3. QeRun(d, Src[p], Dst[p], QLen, x, n)
    BY <2>1, <2>2 DEF QeRun
  <2>4. Covered(d) \subseteq Slots(a % QLen, h % QLen, QLen)
    BY <1>1, <2>2, <2>3, RunWithin
  <2>5. NamedIn(p, q, msg) = MovingIn(p, q, msg)
    BY <2>1 DEF NamedIn
  <2>6. x % QLen \in Nat
    <3>1. x % QLen \in 0 .. QLen - 1
      BY <1>1, <2>2, ModRange
    <3> QED BY <3>1
  <2> QED BY <1>1, <2>1, <2>4, <2>5, <2>6 DEF Kind, OfElements
<1> QED BY <1>1, <1>2, <1>3 DEF CopyFrom

\* A descriptor of a job, whether it is with the engine or still to be submitted.
LEMMA ClaimKind ==
  ASSUME NEW L, NEW E, NEW U, NEW P, NEW H, NEW X, NEW y, Whole(L, E, U, P, H, X, y),
         NEW i \in 1 .. Len(L), NEW d, Claim(L, U, P, H, i, d)
  PROVE  Kind(d, q, msg)
<1> DEFINE M == Len(L)
<1> DEFINE j == L[i]
<1>1. Typed(L, E, U, P) /\ Steps(L, E, U, P) /\ M \in Nat /\ Heads(U)
  BY Parts
<1>2. 0 \in 0 .. M /\ M \in 0 .. M /\ i \in 0 .. M /\ i - 1 \in 0 .. M /\ 0 <= i - 1 /\ i <= M /\ i - 1 <= i
  BY <1>1
<1>3. /\ \A a \in 0 .. M : (\A p \in Pairs : P[p][a] \in Nat) /\ (\A x \in Queues : U[x][a] \in Nat)
      /\ \A a, b \in 0 .. M : a <= b => (\A p \in Pairs : P[p][a] <= P[p][b]) /\ (\A x \in Queues : U[x][a] <= U[x][b])
  BY <1>1, StepsAre
<1>4. j \in Job /\ JobOk(j) /\ j.epd \in Nat
  BY <1>1, StepsAre
<1>5. CASE j.flag # "update"
  <2>1. PICK p \in Pairs : j.src = Src[p]
    <3> HIDE DEF j
    <3> QED BY <1>4, <1>5, Params DEF JobOk, ForPair
  <2>2. CopyFrom(p, P[p][i - 1], H[p], d)
    BY <1>5, <2>1 DEF Claim
  <2>3. P[p][i - 1] \in Nat /\ P[p][0] <= P[p][i - 1]
    BY <1>2, <1>3
  <2> QED BY <2>2, <2>3, CopyKind
<1>6. ASSUME j.flag = "update", NEW x \in Queues, x = j.src
      PROVE  /\ QeRun(d, x, j.dst, Len_(x), U[x][i - 1], j.epd)
             /\ U[x][i - 1] \in Nat /\ U[x][0] \in Nat /\ U[x][M] \in Nat
             /\ U[x][0] <= U[x][i - 1] /\ U[x][i - 1] + j.epd <= U[x][M]
  <2> DEFINE a == U[x][i - 1]
  <2>1. d = [op |-> "qe", src |-> j.src, dst |-> j.dst, first |-> a % Len_(x), cnt |-> j.epd]
        /\ d.first + d.cnt <= Len_(x)
    BY <1>6 DEF Claim
  <2>2. U[x][i] = a + Upd(L[i], x)
    BY <1>1 DEF Steps
  <2>3. Upd(L[i], x) = j.epd
    BY <1>6 DEF Upd
  <2>4. U[x][0] <= a /\ U[x][i] <= U[x][M] /\ a \in Nat /\ U[x][0] \in Nat /\ U[x][M] \in Nat
    BY <1>2, <1>3
  <2>5. d.first = a % Len_(x) /\ d.cnt = j.epd
    BY <2>1
  <2> HIDE DEF a, j
  <2>6. QeRun(d, x, j.dst, Len_(x), a, j.epd)
    BY <1>4, <1>6, <2>1, <2>4, <2>5 DEF QeRun
  <2>7. a + j.epd = U[x][i]
    BY <2>2, <2>3
  <2>8. a + j.epd <= U[x][M]
    BY <2>4, <2>7
  <2> QED BY <2>4, <2>6, <2>8 DEF a
<1>7. CASE j.flag = "update" /\ ForPair(j, "egress")
  <2> DEFINE p == "egress"
  <2> DEFINE x == "host_tx"
  <2>1. p \in Pairs /\ j.src = x /\ j.dst = "lcl_rx" /\ x \in Queues /\ Len_(x) = QLen /\ Src[p] = x /\ Dst[p] = "lcl_rx"
    BY <1>7, Names DEF ForPair
  <2>2. CopyAround(q, msg)
    BY <2>1, CopyAroundIs
  <2> DEFINE u == U[x][0]
  <2> DEFINE t == U[x][M]
  <2> DEFINE a == U[x][i - 1]
  <2> DEFINE n == j.epd
  <2>3. QeRun(d, x, "lcl_rx", QLen, a, n) /\ a \in Nat /\ u \in Nat /\ t \in Nat /\ u <= a /\ a + n <= t
    BY <1>6, <1>7, <2>1
  <2>4. q[x].qe_head = u % QLen
    BY <1>1, <2>1 DEF Heads
  <2>5. q[x].qe_tail = t % QLen /\ t - u < QLen
    <3>1. PairAt(p, q[Src[p]], q[Dst[p]], msg[Src[p]], msg[Dst[p]],
                 U[Src[p]][0], U[Src[p]][Len(L)], P[p][0], P[p][Len(L)], H[p], X[p])
      BY <2>1, PairData
    <3>2. H[p] <= u /\ t = X[p].qt /\ q[x].qe_tail = X[p].qt % QLen
      BY <2>1, <3>1 DEF PairAt
    <3>3. /\ X[p].rd \in Nat /\ X[p].sd \in Nat /\ X[p].qt \in Nat /\ P[p][0] \in Nat /\ H[p] \in Nat
          /\ X[p].sd <= X[p].rd /\ X[p].rd <= P[p][0] /\ P[p][0] <= H[p]
          /\ X[p].qt - X[p].sd < QLen /\ QLen \in Nat \ {0}
      BY ZenonT(30), <2>1, PairNum
    <3> DEFINE v == X[p]
    <3> DEFINE g == P[p][0]
    <3> DEFINE h == H[p]
    <3>4. /\ v.rd \in Nat /\ v.sd \in Nat /\ v.qt \in Nat /\ g \in Nat /\ h \in Nat
          /\ v.sd <= v.rd /\ v.rd <= g /\ g <= h /\ h <= u /\ t = v.qt /\ v.qt - v.sd < QLen /\ QLen \in Nat
      BY <3>2, <3>3
    <3> HIDE DEF u, t, v, g, h, a, n
    <3>5. t - u < QLen
      BY <2>3, <3>4
    <3> QED BY <2>1, <3>2, <3>5
  <2>6. NamedIn(p, q, msg) = Slots(u % QLen, t % QLen, QLen)
    BY <2>1, <2>4, <2>5 DEF NamedIn
  <2>7. QLen \in Nat \ {0} /\ n \in Nat
    BY <1>4, Params
  <2> HIDE DEF u, t, a, n
  <2>8. Covered(d) \subseteq Slots(u % QLen, t % QLen, QLen)
    BY <2>3, <2>5, <2>7, RunWithin
  <2>9. d = [op |-> "qe", src |-> x, dst |-> "lcl_rx", first |-> a % QLen, cnt |-> n] /\ a % QLen \in Nat
    BY <2>3, <2>7, ModRange DEF QeRun
  <2>10. OfElements(d, p, q, msg)
    BY <2>1, <2>6, <2>7, <2>8, <2>9 DEF OfElements
  <2> QED BY <2>1, <2>10 DEF Kind
<1>8. CASE j.flag = "update" /\ ForShadow(j)
  <2> DEFINE x == "host_bp"
  <2>1. "ingress" \in CopyPayload /\ j.src = x /\ j.dst = "shadow" /\ x \in Queues /\ Len_(x) = BpLen
    BY <1>8, Names, Params DEF ForShadow
  <2> DEFINE u == U[x][0]
  <2> DEFINE t == U[x][M]
  <2> DEFINE a == U[x][i - 1]
  <2> DEFINE n == j.epd
  <2>3. QeRun(d, x, "shadow", BpLen, a, n) /\ a \in Nat /\ u \in Nat /\ t \in Nat /\ u <= a /\ a + n <= t
    BY <1>6, <1>8, <2>1
  <2>4. q[x].qe_head = u % BpLen
    BY <1>1, <2>1 DEF Heads
  <2>5. q[x].qe_tail = t % BpLen /\ t - u < BpLen
    <3>1. ShadowOk(U, Len(L), y) /\ y \in [sh: Nat, st: Nat]
      BY Parts
    <3>2. q[x].qe_tail = t % BpLen /\ y.st <= u /\ t - y.st < BpLen
      BY <2>1, <3>1 DEF ShadowOk
    <3>3. y.st \in Nat /\ BpLen \in Nat
      BY <3>1, Params
    <3> HIDE DEF u, t
    <3> QED BY <2>3, <3>2, <3>3
  <2>6. FillLeft(q) = Slots(u % BpLen, t % BpLen, BpLen)
    BY <2>4, <2>5 DEF FillLeft
  <2>7. BpLen \in Nat \ {0} /\ n \in Nat
    BY <1>4, Params
  <2> HIDE DEF u, t, a, n
  <2>8. Covered(d) \subseteq Slots(u % BpLen, t % BpLen, BpLen)
    BY <2>3, <2>5, <2>7, RunWithin
  <2>9. d = [op |-> "qe", src |-> x, dst |-> "shadow", first |-> a % BpLen, cnt |-> n] /\ a % BpLen \in Nat
    BY <2>3, <2>7, ModRange DEF QeRun
  <2>10. OfPool(d, q)
    BY <2>1, <2>6, <2>7, <2>8, <2>9 DEF OfPool
  <2> QED BY <2>10 DEF Kind
<1>9. j.flag # "update" \/ ForPair(j, "egress") \/ ForShadow(j)
  <2> HIDE DEF j
  <2> QED BY <1>4 DEF JobOk
<1> HIDE DEF j
<1> QED BY <1>5, <1>7, <1>8, <1>9

\* Every descriptor that is not completed is of one of the kinds.
LEMMA KindsIs == IInv => Kinds(Todo, q, msg)
<1> SUFFICES ASSUME IInv, NEW d \in Todo PROVE Kind(d, q, msg)
  BY DEF Kinds
<1>1. PICK L, E, U, P, H, X, y : Whole(L, E, U, P, H, X, y)
  BY DEF IInv
<1>2. WorkOf(jobs, left, sub, hw, L, E, U, P, H)
  BY <1>1, Parts
<1>3. CASE d \in PendingDescs
  <2>1. PICK k \in hw.done + 1 .. Len(hw.descs) : d = hw.descs[k]
    BY <1>3 DEF PendingDescs
  <2>2. PICK i \in 1 .. Len(L) : Claim(L, U, P, H, i, hw.descs[k])
    BY <1>2, JobOf
  <2> QED BY <1>1, <2>1, <2>2, ClaimKind
<1>4. CASE d \in Coming
  <2>1. PICK m \in 1 .. Len(sub) : d \in {sub[m].descs[k] : k \in 1 .. Len(sub[m].descs)}
    BY <1>4 DEF Coming
  <2>2. PICK k \in 1 .. Len(sub[m].descs) : d = sub[m].descs[k]
    BY <2>1
  <2> DEFINE i == SubAt(jobs, left, m)
  <2>3. Claim(L, U, P, H, i, d)
    <3>1. Subs(jobs, left, sub, L, U, P, H)
      BY <1>2 DEF WorkOf
    <3> QED BY <2>2, <3>1 DEF Subs
  <2>4. i \in 1 .. Len(L)
    <3>1. /\ Len(jobs) \in Nat /\ Len(sub) \in Nat /\ left \in Nat
          /\ Len(L) \in Nat /\ Len(L) = SubAt(jobs, left, Len(sub)) /\ Len(jobs) <= Len(L)
      BY <1>2, WorkIs
    <3>2. left > 0 => Len(jobs) >= 1
      <4>1. Descs(jobs, left, hw, L, E, U, P, H)
        BY <1>2 DEF WorkOf
      <4> QED BY <4>1 DEF Descs
    <3> QED BY <3>1, <3>2 DEF SubAt
  <2> HIDE DEF i
  <2> QED BY <1>1, <2>3, <2>4, ClaimKind
<1> QED BY <1>3, <1>4 DEF Todo

\* The jobs that are not over publish up to an element in the works.
LEMMA TailsIs == IInv => \A p \in Pairs : TailsIn(p, Tails(p), q, msg)
<1> SUFFICES ASSUME IInv, NEW p \in Pairs, NEW t \in Tails(p)
             PROVE  t \in 0 .. QLen - 1 /\ (t = msg[Dst[p]].prod \/ Before(t) \in MovingIn(p, q, msg))
  BY DEF TailsIn
<1>1. PICK L, E, U, P, H, X, y : Whole(L, E, U, P, H, X, y)
  BY DEF IInv
<1>2. WorkOf(jobs, left, sub, hw, L, E, U, P, H) /\ Typed(L, E, U, P) /\ Steps(L, E, U, P) /\ Len(L) \in Nat
  BY <1>1, Parts
<1>3. PICK j \in AllJobs : Carries(j, p) /\ t = j.tail
  BY DEF Tails
<1>4. Logs(jobs, left, sub, L)
  BY <1>2 DEF WorkOf
<1>5. /\ Len(jobs) \in Nat /\ Len(sub) \in Nat /\ left \in Nat
      /\ Len(L) = SubAt(jobs, left, Len(sub)) /\ Len(jobs) <= Len(L)
  BY <1>2, WorkIs
<1>6. \E i \in 1 .. Len(L) : j = L[i]
  <2>1. CASE j \in {jobs[i] : i \in 1 .. Len(jobs)}
    <3>1. PICK i \in 1 .. Len(jobs) : j = jobs[i]
      BY <2>1
    <3>2. i \in 1 .. Len(L) /\ L[i] = jobs[i]
      BY <1>2, <1>4, <1>5 DEF Logs
    <3> QED BY <3>1, <3>2
  <2>2. CASE j \in {sub[m].job : m \in {o \in 1 .. Len(sub) : left = 0 \/ o > 1}}
    <3>1. PICK m \in 1 .. Len(sub) : (left = 0 \/ m > 1) /\ j = sub[m].job
      BY <2>2
    <3>2. L[SubAt(jobs, left, m)] = sub[m].job
      BY <1>4, <3>1 DEF Logs
    <3>3. SubAt(jobs, left, m) \in 1 .. Len(L)
      BY <1>2, <1>5, <3>1 DEF SubAt
    <3> QED BY <3>1, <3>2, <3>3
  <2> QED BY <2>1, <2>2 DEF AllJobs
<1>7. PICK i \in 1 .. Len(L) : j = L[i]
  BY <1>6
<1> DEFINE M == Len(L)
<1> DEFINE a == P[p][0]
<1> DEFINE c == P[p][i]
<1> DEFINE h == H[p]
<1>8. 0 \in 0 .. M /\ M \in 0 .. M /\ i \in 0 .. M /\ 0 <= i /\ i <= M
  BY <1>2
<1>9. t = c % QLen
  BY <1>2, <1>3, <1>7 DEF Steps
<1>10. a \in Nat /\ c \in Nat /\ a <= c /\ c <= P[p][M]
  <2>1. /\ \A k \in 0 .. M : \A o \in Pairs : P[o][k] \in Nat
        /\ \A k, l \in 0 .. M : k <= l => (\A o \in Pairs : P[o][k] <= P[o][l])
    BY <1>2, StepsAre
  <2> QED BY <1>8, <2>1
<1>11. P[p][M] = h
  <2>1. P[p][Len(L)] = H[p]
    BY <1>1, MovingIs
  <2> QED BY <2>1
<1>12. /\ h \in Nat /\ h - a < QLen /\ QLen \in Nat \ {0} /\ msg[Dst[p]].prod = a % QLen
       /\ MovingIn(p, q, msg) = Slots(a % QLen, h % QLen, QLen)
  BY <1>1, MovingIs, Params
<1> HIDE DEF a, c, h
<1>13. t \in 0 .. QLen - 1
  BY <1>9, <1>10, <1>12, ModRange
<1>14. CASE c = a
  BY <1>9, <1>12, <1>13, <1>14
<1>15. CASE c # a
  <2> DEFINE x == c - 1
  <2>1. x \in Nat /\ a <= x /\ x < h
    BY <1>10, <1>11, <1>12, <1>15
  <2>2. x % QLen \in MovingIn(p, q, msg)
    BY ZenonT(30), <1>10, <1>12, <2>1, SlotIn
  <2>3. x % QLen = Before(t)
    <3>1. x % QLen \in 0 .. QLen - 1
      BY <1>12, <2>1, ModRange
    <3>2. q_idx_add(x % QLen, 1, QLen) = (x + 1) % QLen
      BY <1>12, <2>1, AddIs
    <3>3. x + 1 = c
      BY <1>10
    <3>4. q_idx_add(x % QLen, 1, QLen) = t
      BY <1>9, <3>2, <3>3
    <3> DEFINE z == x % QLen
    <3>5. z \in 0 .. QLen - 1 /\ q_idx_add(z, 1, QLen) = t
      BY <3>1, <3>4
    <3> HIDE DEF z
    <3>6. CASE QLen = 1
      <4>1. z = 0 /\ t = 0
        BY <1>13, <3>5, <3>6
      <4>2. Before(t) = QLen - 1
        BY <1>13, <4>1, BeforeIs
      <4> QED BY <3>6, <4>1, <4>2 DEF z
    <3>7. CASE QLen # 1
      <4>1. 1 \in 0 .. QLen - 1
        BY <1>12, <3>7
      <4>2. t = IF z + 1 < QLen THEN z + 1 ELSE z + 1 - QLen
        BY <1>12, <3>5, <4>1, AddCases
      <4>3. Before(t) = IF t = 0 THEN QLen - 1 ELSE t - 1
        BY <1>13, BeforeIs
      <4>4. Before(t) = z
        BY <1>12, <3>5, <4>2, <4>3
      <4> QED BY <4>4 DEF z
    <3> QED BY <3>6, <3>7 DEF z
  <2> QED BY <1>13, <2>2, <2>3
<1> QED BY <1>14, <1>15

-----------------------------------------------------------------------------
(* How the sets lie *)

\* An element has a buffer until it is read: it is unread, or in the works.
LEMMA TakenIs ==
  ASSUME NEW p, NEW qq, NEW mg, Around(p, qq, mg)
  PROVE  /\ TakenIn(p, qq, mg) = UnreadIn(p, mg) \cup MovingIn(p, qq, mg)
         /\ UnreadIn(p, mg) \cap MovingIn(p, qq, mg) = {}
         /\ MovingIn(p, qq, mg) \subseteq SentIn(p, mg)
         /\ TakenIn(p, qq, mg) \subseteq 0 .. QLen - 1 /\ SentIn(p, mg) \subseteq 0 .. QLen - 1
<1> DEFINE rd == mg[Dst[p]].cons
<1> DEFINE a == mg[Src[p]].cons
<1> DEFINE z == mg[Src[p]].prod
<1> DEFINE h == qq[Src[p]].head
<1>1. /\ rd \in 0 .. QLen - 1 /\ a \in 0 .. QLen - 1 /\ z \in 0 .. QLen - 1 /\ h \in 0 .. QLen - 1
      /\ mg[Dst[p]].prod = a /\ QLen \in Nat \ {0}
      /\ Occupancy(a, rd, QLen) + Occupancy(h, a, QLen) < QLen
      /\ Occupancy(h, a, QLen) <= Occupancy(z, a, QLen)
  BY Params DEF Around
<1>2. /\ TakenIn(p, qq, mg) = Slots(rd, h, QLen) /\ UnreadIn(p, mg) = Slots(rd, a, QLen)
      /\ MovingIn(p, qq, mg) = Slots(a, h, QLen) /\ SentIn(p, mg) = Slots(a, z, QLen)
  BY <1>1 DEF TakenIn, UnreadIn, MovingIn, SentIn
<1> HIDE DEF rd, a, z, h
<1>3. /\ Slots(rd, h, QLen) = Slots(rd, a, QLen) \cup Slots(a, h, QLen)
      /\ Slots(rd, a, QLen) \cap Slots(a, h, QLen) = {}
  BY <1>1, SlotsSplit
<1>4. Slots(a, h, QLen) \subseteq Slots(a, z, QLen)
  BY <1>1, SlotsGrow
<1>5. \A b, c : Slots(b, c, QLen) \subseteq 0 .. QLen - 1
  BY DEF Slots
<1> QED BY <1>2, <1>3, <1>4, <1>5

\* The elements whose QEs have arrived.
ArrivedIn(qq) == Slots(qq["host_tx"].head, qq["host_tx"].qe_head, QLen)

\* They, and those a descriptor may name, come after those that have a buffer.
LEMMA CopiedAre ==
  ASSUME "egress" \in Pairs, NEW qq, NEW mg, Around("egress", qq, mg), CopyAround(qq, mg)
  PROVE  /\ CopiedIn("egress", qq, mg) = ArrivedIn(qq) \cup NamedIn("egress", qq, mg)
         /\ ArrivedIn(qq) \cap NamedIn("egress", qq, mg) = {}
         /\ CopiedIn("egress", qq, mg) \cap TakenIn("egress", qq, mg) = {}
         /\ CopiedIn("egress", qq, mg) \subseteq SentIn("egress", mg)
<1> DEFINE rd == mg["lcl_rx"].cons
<1> DEFINE a == mg["host_tx"].cons
<1> DEFINE z == mg["host_tx"].prod
<1> DEFINE h == qq["host_tx"].head
<1> DEFINE u == qq["host_tx"].qe_head
<1> DEFINE t == qq["host_tx"].qe_tail
<1>0. Src["egress"] = "host_tx" /\ Dst["egress"] = "lcl_rx" /\ QLen \in Nat \ {0}
  BY Names, Params
<1>1. /\ rd \in 0 .. QLen - 1 /\ a \in 0 .. QLen - 1 /\ z \in 0 .. QLen - 1 /\ h \in 0 .. QLen - 1
  BY <1>0 DEF Around
<1>2. /\ u \in 0 .. QLen - 1 /\ t \in 0 .. QLen - 1
      /\ Occupancy(a, rd, QLen) + (Occupancy(h, a, QLen) + Occupancy(u, h, QLen) + Occupancy(t, u, QLen)) < QLen
      /\ Occupancy(h, a, QLen) + Occupancy(u, h, QLen) + Occupancy(t, u, QLen) <= Occupancy(z, a, QLen)
  BY DEF CopyAround
<1>3. /\ TakenIn("egress", qq, mg) = Slots(rd, h, QLen) /\ SentIn("egress", mg) = Slots(a, z, QLen)
      /\ CopiedIn("egress", qq, mg) = Slots(h, t, QLen) /\ NamedIn("egress", qq, mg) = Slots(u, t, QLen)
      /\ ArrivedIn(qq) = Slots(h, u, QLen)
  BY <1>0 DEF TakenIn, SentIn, CopiedIn, NamedIn, ArrivedIn
<1> HIDE DEF rd, a, z, h, u, t
<1> DEFINE oa == Occupancy(a, rd, QLen)
<1> DEFINE oh == Occupancy(h, a, QLen)
<1> DEFINE ou == Occupancy(u, h, QLen)
<1> DEFINE ot == Occupancy(t, u, QLen)
<1>4. oa \in 0 .. QLen - 1 /\ oh \in 0 .. QLen - 1 /\ ou \in 0 .. QLen - 1 /\ ot \in 0 .. QLen - 1
  BY <1>0, <1>1, <1>2, OccupancyCases
<1>5. ou + ot < QLen /\ oa + oh < QLen /\ oa + oh + (ou + ot) < QLen /\ oh + (ou + ot) < QLen
      /\ oh + ou + ot <= Occupancy(z, a, QLen)
  <2>1. oa + (oh + ou + ot) < QLen /\ oh + ou + ot <= Occupancy(z, a, QLen)
    BY <1>2
  <2> HIDE DEF oa, oh, ou, ot
  <2> QED BY <1>0, <1>4, <2>1
<1>6. /\ Slots(h, t, QLen) = Slots(h, u, QLen) \cup Slots(u, t, QLen)
      /\ Slots(h, u, QLen) \cap Slots(u, t, QLen) = {}
      /\ Occupancy(t, h, QLen) = ou + ot
  BY <1>0, <1>1, <1>2, <1>5, SlotsSplit
<1>7. Occupancy(h, rd, QLen) = oa + oh
  BY <1>0, <1>1, <1>5, SlotsSplit
<1>8. Slots(rd, h, QLen) \cap Slots(h, t, QLen) = {}
  BY <1>0, <1>1, <1>2, <1>5, <1>6, <1>7, SlotsSplit
<1>9. Slots(h, t, QLen) \subseteq Slots(a, t, QLen) /\ Occupancy(t, a, QLen) = oh + (ou + ot)
  BY <1>0, <1>1, <1>2, <1>5, <1>6, SlotsSplit
<1>10. Slots(a, t, QLen) \subseteq Slots(a, z, QLen)
  <2>1. Occupancy(t, a, QLen) <= Occupancy(z, a, QLen)
    <3> HIDE DEF oa, oh, ou, ot
    <3> QED BY <1>4, <1>5, <1>9
  <2> QED BY <1>0, <1>1, <1>2, <2>1, SlotsGrow
<1> QED BY <1>3, <1>6, <1>8, <1>9, <1>10

\* The entries of the host's pool that have arrived.
FilledIn(qq) == Slots(qq["host_bp"].head, qq["host_bp"].qe_head, BpLen)

\* They, and those that may be written, come after those that are in the shadow.
LEMMA FillsAre ==
  ASSUME NEW qq, PoolAround(qq)
  PROVE  /\ FillIn(qq) = FilledIn(qq) \cup FillLeft(qq)
         /\ FilledIn(qq) \cap FillLeft(qq) = {}
         /\ FillFits => FetchedIn("ingress", qq) \cap FillIn(qq) = {}
<1> DEFINE a == qq["shadow"].head
<1> DEFINE h == qq["host_bp"].head
<1> DEFINE u == qq["host_bp"].qe_head
<1> DEFINE t == qq["host_bp"].qe_tail
<1>0. BpLen \in Nat \ {0}
  BY Params
<1>1. /\ a \in 0 .. BpLen - 1 /\ h \in 0 .. BpLen - 1 /\ u \in 0 .. BpLen - 1 /\ t \in 0 .. BpLen - 1
      /\ qq["shadow"].tail = h
      /\ Occupancy(u, h, BpLen) + Occupancy(t, u, BpLen) < BpLen
      /\ FillFits => Occupancy(h, a, BpLen) + Occupancy(u, h, BpLen) + Occupancy(t, u, BpLen) < BpLen
  BY DEF PoolAround
<1>2. /\ FillIn(qq) = Slots(h, t, BpLen) /\ FilledIn(qq) = Slots(h, u, BpLen) /\ FillLeft(qq) = Slots(u, t, BpLen)
      /\ FetchedIn("ingress", qq) = Slots(a, h, BpLen)
  BY <1>1 DEF FillIn, FilledIn, FillLeft, FetchedIn
<1> HIDE DEF a, h, u, t
<1>3. /\ Slots(h, t, BpLen) = Slots(h, u, BpLen) \cup Slots(u, t, BpLen)
      /\ Slots(h, u, BpLen) \cap Slots(u, t, BpLen) = {}
      /\ Occupancy(t, h, BpLen) = Occupancy(u, h, BpLen) + Occupancy(t, u, BpLen)
  BY <1>0, <1>1, SlotsSplit
<1>4. ASSUME FillFits PROVE Slots(a, h, BpLen) \cap Slots(h, t, BpLen) = {}
  <2> DEFINE oh == Occupancy(h, a, BpLen)
  <2> DEFINE ou == Occupancy(u, h, BpLen)
  <2> DEFINE ot == Occupancy(t, u, BpLen)
  <2>1. oh \in 0 .. BpLen - 1 /\ ou \in 0 .. BpLen - 1 /\ ot \in 0 .. BpLen - 1
    BY <1>0, <1>1, OccupancyCases
  <2>2. oh + ou + ot < BpLen /\ Occupancy(t, h, BpLen) = ou + ot
    BY <1>1, <1>3, <1>4
  <2>3. oh + Occupancy(t, h, BpLen) < BpLen
    <3> HIDE DEF oh, ou, ot
    <3> QED BY <1>0, <2>1, <2>2
  <2> QED BY <1>0, <1>1, <2>3, SlotsSplit
<1> QED BY <1>2, <1>3, <1>4

-----------------------------------------------------------------------------
(* A step of another pair *)

\* The indices and words of pair p and of its pool are the same.
SameIdx(p, qq, mg, q2, m2) ==
  /\ q2[Src[p]].head = qq[Src[p]].head /\ q2[Src[p]].qe_tail = qq[Src[p]].qe_tail
  /\ q2[Pool[p]].head = qq[Pool[p]].head /\ q2[Pool[p]].qe_tail = qq[Pool[p]].qe_tail
  /\ p = "ingress" => q2["shadow"].head = qq["shadow"].head /\ q2["shadow"].tail = qq["shadow"].tail
  /\ m2[Src[p]].cons = mg[Src[p]].cons /\ m2[Src[p]].prod = mg[Src[p]].prod
  /\ m2[Dst[p]].cons = mg[Dst[p]].cons /\ m2[Dst[p]].prod = mg[Dst[p]].prod
  /\ m2[Pool[p]].cons = mg[Pool[p]].cons /\ m2[Pool[p]].prod = mg[Pool[p]].prod

\* So are its rings ...
SameRings(p, rg, r2) ==
  /\ r2[Src[p]] = rg[Src[p]] /\ r2[Dst[p]] = rg[Dst[p]] /\ r2[Pool[p]] = rg[Pool[p]]
  /\ p = "ingress" => r2["shadow"] = rg["shadow"]

\* ... the buffers of its slots and of its pool ...
SameBufs(p, mm, mm2) ==
  /\ \A i \in 0 .. QLen - 1 : mm2[<<Src[p], i>>] = mm[<<Src[p], i>>]
  /\ \A b \in PoolBufs(p) : mm2[b] = mm[b]

\* ... and the descriptors that copy into or from them.
SameWork(p, w, w2) ==
  /\ \A b \in PoolBufs(p) : BufTo(w, b) => BufTo(w2, b)
  /\ \A i : CopyTo(w, Dst[p], i) => CopyTo(w2, Dst[p], i)
  /\ p = "ingress" => \A i : CopyTo(w, "shadow", i) => CopyTo(w2, "shadow", i)
  /\ \A d \in w2 : d.op = "buf" /\ d.src[1] = Src[p] => d \in w

\* With the same indices the sets of slots are the same.
LEMMA SameSets ==
  ASSUME NEW p \in Pairs, NEW qq, NEW mg, NEW q2, NEW m2, SameIdx(p, qq, mg, q2, m2)
  PROVE  /\ UnreadIn(p, m2) = UnreadIn(p, mg) /\ MovingIn(p, q2, m2) = MovingIn(p, qq, mg)
         /\ TakenIn(p, q2, m2) = TakenIn(p, qq, mg) /\ SentIn(p, m2) = SentIn(p, mg)
         /\ CopiedIn(p, q2, m2) = CopiedIn(p, qq, mg) /\ FullIn(p, q2, m2) = FullIn(p, qq, mg)
         /\ FetchedIn(p, q2) = FetchedIn(p, qq) /\ (p = "ingress" => FillIn(q2) = FillIn(qq))
         /\ (PoolOk(p, qq, mg) => PoolOk(p, q2, m2))
<1>1. UnreadIn(p, m2) = UnreadIn(p, mg) /\ SentIn(p, m2) = SentIn(p, mg)
  BY DEF SameIdx, UnreadIn, SentIn
<1>2. MovingIn(p, q2, m2) = MovingIn(p, qq, mg) /\ TakenIn(p, q2, m2) = TakenIn(p, qq, mg)
  BY DEF SameIdx, MovingIn, TakenIn
<1>3. CopiedIn(p, q2, m2) = CopiedIn(p, qq, mg)
  BY <1>2 DEF SameIdx, CopiedIn
<1>4. FullIn(p, q2, m2) = FullIn(p, qq, mg)
  BY DEF SameIdx, FullIn
<1>5. FetchedIn(p, q2) = FetchedIn(p, qq)
  BY DEF SameIdx, FetchedIn
<1>6. p = "ingress" => FillIn(q2) = FillIn(qq)
  BY Names DEF SameIdx, FillIn
<1>7. PoolOk(p, qq, mg) => PoolOk(p, q2, m2)
  BY DEF SameIdx, PoolOk
<1> QED BY <1>1, <1>2, <1>3, <1>4, <1>5, <1>6, <1>7

\* What the data says of pair p, one thing at a time.
LEMMA DataIs ==
  ASSUME NEW p, NEW rg, NEW mm, NEW qq, NEW mg, NEW w, NEW tl, NEW ow, DataOf(p, rg, mm, qq, mg, w, tl, ow)
  PROVE  /\ rg[Src[p]] \in [0 .. QLen - 1 -> Elements] /\ rg[Dst[p]] \in [0 .. QLen - 1 -> Elements]
         /\ SourceOk(p, rg[Src[p]], mm, SentIn(p, mg)) /\ WholeOk(rg[Src[p]], SentIn(p, mg))
         /\ ElemOk(ElemsOf(p, rg, UnreadIn(p, mg)), rg[Src[p]], mm, w, TakenIn(p, qq, mg), MovingIn(p, qq, mg))
         /\ AimedOk(p, ElemsOf(p, rg, UnreadIn(p, mg)), w)
         /\ CopiedOk(Dst[p], rg[Src[p]], rg[Dst[p]], w, CopiedIn(p, qq, mg))
         /\ CutOk(rg[Dst[p]], ElemsOf(p, rg, UnreadIn(p, mg)), UnreadIn(p, mg), MovingIn(p, qq, mg), mg[Dst[p]].prod, tl)
         /\ PoolOk(p, qq, mg)
         /\ (p = "ingress" => CopiedOk("shadow", rg["host_bp"], rg["shadow"], w, FillIn(qq)))
         /\ Spread(PoolBufs(p), Bufs(ElemsOf(p, rg, UnreadIn(p, mg))), TakenIn(p, qq, mg), rg[Pool[p]],
                   FullIn(p, qq, mg), rg["shadow"], FetchedIn(p, qq), ow)
BY DEF DataOf

\* All of it, from its parts.
LEMMA DataFrom ==
  ASSUME NEW p, NEW rg, NEW mm, NEW qq, NEW mg, NEW w, NEW tl, NEW ow,
         rg[Src[p]] \in [0 .. QLen - 1 -> Elements], rg[Dst[p]] \in [0 .. QLen - 1 -> Elements],
         NEW e, e = ElemsOf(p, rg, UnreadIn(p, mg)),
         SourceOk(p, rg[Src[p]], mm, SentIn(p, mg)), WholeOk(rg[Src[p]], SentIn(p, mg)),
         ElemOk(e, rg[Src[p]], mm, w, TakenIn(p, qq, mg), MovingIn(p, qq, mg)),
         AimedOk(p, e, w),
         CopiedOk(Dst[p], rg[Src[p]], rg[Dst[p]], w, CopiedIn(p, qq, mg)),
         CutOk(rg[Dst[p]], e, UnreadIn(p, mg), MovingIn(p, qq, mg), mg[Dst[p]].prod, tl),
         PoolOk(p, qq, mg),
         p = "ingress" => CopiedOk("shadow", rg["host_bp"], rg["shadow"], w, FillIn(qq)),
         Spread(PoolBufs(p), Bufs(e), TakenIn(p, qq, mg), rg[Pool[p]], FullIn(p, qq, mg),
                rg["shadow"], FetchedIn(p, qq), ow)
  PROVE  DataOf(p, rg, mm, qq, mg, w, tl, ow)
BY DEF DataOf

\* The buffers of the elements, the pool's ring and the shadow are the pool's.
LEMMA SpreadIn ==
  ASSUME NEW all, NEW e, NEW tk, NEW r, NEW full, NEW sh, NEW got_, NEW ow,
         Spread(all, e, tk, r, full, sh, got_, ow)
  PROVE  /\ \A i \in tk : e[i] \in all /\ e[i] \notin ow
         /\ \A i \in full : r[i] \in all
         /\ \A i \in got_ : sh[i] \in all
         /\ ow \subseteq all
         /\ \A i, j \in tk : e[i] = e[j] => i = j
<1>1. \A i \in tk : e[i] \in Held(e, tk)
  BY DEF Held
<1>2. \A i \in full : r[i] \in Held(r, full)
  BY DEF Held
<1>3. \A i \in got_ : sh[i] \in Held(sh, got_)
  BY DEF Held
<1>4. /\ Held(e, tk) \cap ow = {}
      /\ Held(e, tk) \cup Held(r, full) \cup Held(sh, got_) \cup ow = all
  BY DEF Spread
<1>5. \A i, j \in tk : e[i] = e[j] => i = j
  BY DEF Spread, Distinct
<1> QED BY <1>1, <1>2, <1>3, <1>4, <1>5

\* The buffer of an element, and where an element is.
LEMMA BufsAt ==
  ASSUME NEW e, NEW i \in 0 .. QLen - 1 PROVE Bufs(e)[i] = e[i].buf
BY DEF Bufs

\* In which ring an element is.
LEMMA ElemsAt ==
  ASSUME NEW p, NEW rg, NEW un, NEW i \in 0 .. QLen - 1
  PROVE  ElemsOf(p, rg, un)[i] = IF p = "ingress" /\ i \notin un THEN rg[Src[p]][i] ELSE rg[Dst[p]][i]
BY DEF ElemsOf

\* The buffer of an element that has one.
LEMMA ElemBuf ==
  ASSUME NEW p, NEW rg, NEW mm, NEW qq, NEW mg, NEW w, NEW tl, NEW ow, DataOf(p, rg, mm, qq, mg, w, tl, ow),
         TakenIn(p, qq, mg) \subseteq 0 .. QLen - 1,
         NEW e, e = ElemsOf(p, rg, UnreadIn(p, mg))
  PROVE  /\ \A i \in TakenIn(p, qq, mg) : e[i].buf \in PoolBufs(p) /\ e[i].buf \notin ow
         /\ \A i, j \in TakenIn(p, qq, mg) : e[i].buf = e[j].buf => i = j
<1> DEFINE tk == TakenIn(p, qq, mg)
<1> DEFINE b == Bufs(e)
<1> DEFINE r == rg[Pool[p]]
<1> DEFINE full == FullIn(p, qq, mg)
<1> DEFINE sh == rg["shadow"]
<1> DEFINE g == FetchedIn(p, qq)
<1> DEFINE all == PoolBufs(p)
<1>1. Spread(all, b, tk, r, full, sh, g, ow)
  BY DataIs
<1>2. \A i \in tk : b[i] = e[i].buf
  BY BufsAt
<1> HIDE DEF tk, b, r, full, sh, g, all
<1>3. /\ \A i \in tk : b[i] \in all /\ b[i] \notin ow
      /\ \A i, j \in tk : b[i] = b[j] => i = j
  BY <1>1, SpreadIn
<1>4. \A i \in tk : e[i].buf \in all /\ e[i].buf \notin ow
  BY <1>2, <1>3
<1>5. \A i, j \in tk : e[i].buf = e[j].buf => i = j
  BY <1>2, <1>3
<1> QED BY <1>4, <1>5 DEF tk, all

\* Nothing of pair p changes but what is still to be copied elsewhere.
LEMMA Frame ==
  ASSUME NEW p \in Pairs, NEW rg, NEW mm, NEW qq, NEW mg, NEW w, NEW tl, NEW ow,
         DataOf(p, rg, mm, qq, mg, w, tl, ow), Around(p, qq, mg),
         NEW r2, NEW mm2, NEW q2, NEW m2, NEW w2, NEW tl2,
         SameIdx(p, qq, mg, q2, m2), SameRings(p, rg, r2), SameBufs(p, mm, mm2), SameWork(p, w, w2),
         tl2 \subseteq tl
  PROVE  DataOf(p, r2, mm2, q2, m2, w2, tl2, ow)
<1> DEFINE s == rg[Src[p]]
<1> DEFINE d == rg[Dst[p]]
<1> DEFINE un == UnreadIn(p, mg)
<1> DEFINE mv == MovingIn(p, qq, mg)
<1> DEFINE tk == TakenIn(p, qq, mg)
<1> DEFINE sent == SentIn(p, mg)
<1> DEFINE cp == CopiedIn(p, qq, mg)
<1> DEFINE e == ElemsOf(p, rg, un)
<1> DEFINE full == FullIn(p, qq, mg)
<1> DEFINE g == FetchedIn(p, qq)
<1> DEFINE fi == FillIn(qq)
<1> DEFINE pr == mg[Dst[p]].prod
<1>1. /\ UnreadIn(p, m2) = un /\ MovingIn(p, q2, m2) = mv /\ TakenIn(p, q2, m2) = tk /\ SentIn(p, m2) = sent
      /\ CopiedIn(p, q2, m2) = cp /\ FullIn(p, q2, m2) = full
      /\ FetchedIn(p, q2) = g /\ (p = "ingress" => FillIn(q2) = fi)
      /\ (PoolOk(p, qq, mg) => PoolOk(p, q2, m2))
  BY SameSets
<1>2. /\ s \in [0 .. QLen - 1 -> Elements] /\ d \in [0 .. QLen - 1 -> Elements]
      /\ SourceOk(p, s, mm, sent) /\ WholeOk(s, sent) /\ ElemOk(e, s, mm, w, tk, mv) /\ AimedOk(p, e, w)
      /\ CopiedOk(Dst[p], s, d, w, cp) /\ CutOk(d, e, un, mv, pr, tl) /\ PoolOk(p, qq, mg)
      /\ (p = "ingress" => CopiedOk("shadow", rg["host_bp"], rg["shadow"], w, fi))
      /\ Spread(PoolBufs(p), Bufs(e), tk, rg[Pool[p]], full, rg["shadow"], g, ow)
  BY DataIs
<1>3. r2[Src[p]] = s /\ r2[Dst[p]] = d /\ r2[Pool[p]] = rg[Pool[p]] /\ m2[Dst[p]].prod = pr
      /\ (p = "ingress" => r2["shadow"] = rg["shadow"] /\ r2["host_bp"] = rg["host_bp"])
  BY Names DEF SameRings, SameIdx
<1>4. ElemsOf(p, r2, UnreadIn(p, m2)) = e
  BY <1>1, <1>3 DEF ElemsOf
<1>5. tk \subseteq 0 .. QLen - 1 /\ sent \subseteq 0 .. QLen - 1
  BY TakenIs
<1>6. \A i \in tk : e[i].buf \in PoolBufs(p)
  BY <1>5, ElemBuf
<1>7. (p = "egress" => g = {}) /\ (p # "ingress" => p = "egress")
  BY PairIs DEF FetchedIn
<1> HIDE DEF s, d, un, mv, tk, sent, cp, e, full, g, fi, pr
<1>8. SourceOk(p, s, mm2, sent)
  BY <1>2, <1>5 DEF SourceOk, SameBufs
<1>9. ElemOk(e, s, mm2, w2, tk, mv)
  <2>1. ASSUME NEW i \in tk PROVE e[i].tag \in Tag /\ (BufTo(w2, e[i].buf) \/ mm2[e[i].buf] = e[i].tag)
    <3> DEFINE b == e[i].buf
    <3>1. e[i].tag \in Tag /\ (BufTo(w, b) \/ mm[b] = e[i].tag)
      BY <1>2 DEF ElemOk
    <3>2. b \in PoolBufs(p)
      BY <1>6
    <3> HIDE DEF b
    <3>3. (BufTo(w, b) => BufTo(w2, b)) /\ mm2[b] = mm[b]
      BY <3>2 DEF SameWork, SameBufs
    <3> QED BY <3>1, <3>3 DEF b
  <2> QED BY <1>2, <2>1 DEF ElemOk
<1>10. AimedOk(p, e, w2)
  BY <1>2 DEF AimedOk, SameWork
<1>11. CopiedOk(Dst[p], s, d, w2, cp)
  BY <1>2 DEF CopiedOk, SameWork
<1>12. CutOk(d, e, un, mv, pr, tl2)
  BY <1>2 DEF CutOk
<1>13. p = "ingress" => CopiedOk("shadow", rg["host_bp"], rg["shadow"], w2, fi)
  BY <1>2 DEF CopiedOk, SameWork
<1>14. Spread(PoolBufs(p), Bufs(e), tk, rg[Pool[p]], full, r2["shadow"], g, ow)
  <2>1. CASE p = "ingress"
    BY <1>2, <1>3, <2>1
  <2>2. CASE p # "ingress"
    <3>1. g = {}
      BY <1>7, <2>2
    <3>2. \A sh : Held(sh, {}) = {} /\ Distinct(sh, {})
      BY DEF Held, Distinct
    <3> QED BY <1>2, <3>1, <3>2 DEF Spread
  <2> QED BY <2>1, <2>2
<1> DEFINE e2 == ElemsOf(p, r2, UnreadIn(p, m2))
<1>15. e2 = e
  BY <1>4
<1> HIDE DEF e2
<1> QED BY <1>1, <1>2, <1>3, <1>8, <1>9, <1>10, <1>11, <1>12, <1>13, <1>14, <1>15, DataFrom DEF e2

-----------------------------------------------------------------------------
(* The parties *)

\* The buffers there are.
AllBufs == SrcBufs \cup AllPoolBufs

\* The buffers of the slots and those of the pools are not the same.
LEMMA BufsAre ==
  ASSUME NEW p \in Pairs
  PROVE  /\ \A i \in 0 .. QLen - 1 : <<Src[p], i>> \in AllBufs /\ <<Src[p], i>> \in SrcBufs
         /\ PoolBufs(p) \subseteq AllBufs /\ PoolBufs(p) \subseteq AllPoolBufs
         /\ \A b \in PoolBufs(p) : b[1] = Pool[p] /\ b \notin SrcBufs
         /\ \A o \in Pairs : o # p => PoolBufs(p) \cap PoolBufs(o) = {}
<1>1. ASSUME NEW i \in 0 .. QLen - 1 PROVE <<Src[p], i>> \in SrcBufs
  BY DEF SrcBufs
<1>2. PoolBufs(p) \subseteq AllPoolBufs
  BY DEF AllPoolBufs
<1>3. ASSUME NEW b \in PoolBufs(p) PROVE b[1] = Pool[p]
  BY DEF PoolBufs
<1>4. ASSUME NEW b \in SrcBufs PROVE \E o \in Pairs : b[1] = Src[o]
  BY DEF SrcBufs
<1>5. ASSUME NEW b \in PoolBufs(p) PROVE b \notin SrcBufs
  BY <1>3, <1>4, Apart
<1>6. ASSUME NEW o \in Pairs, o # p, NEW b \in PoolBufs(p), b \in PoolBufs(o) PROVE FALSE
  <2>1. b[1] = Pool[p]
    BY <1>3
  <2>2. b[1] = Pool[o]
    BY <1>6 DEF PoolBufs
  <2> QED BY <1>6, <2>1, <2>2, Apart
<1>7. \A o \in Pairs : o # p => PoolBufs(p) \cap PoolBufs(o) = {}
  BY <1>6
<1> QED BY <1>1, <1>2, <1>3, <1>5, <1>7 DEF AllBufs

\* The indices and the rings are there.
LEMMA Basic == IInv => IndexOk /\ RingOk
<1> SUFFICES ASSUME IInv PROVE IndexOk /\ RingOk
  OBVIOUS
<1>1. PICK L, E, U, P, H, X, y : Whole(L, E, U, P, H, X, y)
  BY DEF IInv
<1> QED BY <1>1, Parts

\* What assigning one ring does.
LEMMA SetRing ==
  ASSUME RingOk, NEW x \in Queues, NEW v, ring' = [ring EXCEPT ![x] = v]
  PROVE  ring'[x] = v /\ \A z \in Queues : z # x => ring'[z] = ring[z]
BY DEF RingOk

\* What is to be done is the same when the GIE's thread and the engine rest.
LEMMA SameTodo ==
  ASSUME UNCHANGED <<hw, jobs, sub, left>>
  PROVE  Todo' = Todo /\ \A p : Tails(p)' = Tails(p)
<1>1. Todo' = Todo
  BY DEF Todo, PendingDescs, Coming
<1>2. \A p : Tails(p)' = Tails(p)
  BY DEF Tails, AllJobs
<1> QED BY <1>1, <1>2

\* More work to come is the same for a pair, if none of it copies its buffers.
LEMMA WorkSame ==
  ASSUME NEW p, NEW w, NEW w2, w \subseteq w2, \A d \in w2 : d.op = "buf" /\ d.src[1] = Src[p] => d \in w
  PROVE  SameWork(p, w, w2)
<1>1. \A b : BufTo(w, b) => BufTo(w2, b)
  BY DEF BufTo
<1>2. \A x, i : CopyTo(w, x, i) => CopyTo(w2, x, i)
  BY DEF CopyTo
<1> QED BY <1>1, <1>2 DEF SameWork

\* Pair p is left alone by what changes the rings and words of another.
LEMMA Others ==
  ASSUME NEW p \in Pairs, DataOf(p, ring, mem, q, msg, Todo, Tails(p), owned[p]), Regions(q, msg),
         SameIdx(p, q, msg, q', msg'), SameRings(p, ring, ring'), SameBufs(p, mem, mem'),
         SameWork(p, Todo, Todo'), Tails(p)' \subseteq Tails(p), owned'[p] = owned[p]
  PROVE  DataOf(p, ring', mem', q', msg', Todo', Tails(p)', owned'[p])
<1>1. Around(p, q, msg)
  BY DEF Regions
<1> DEFINE rg == ring
<1> DEFINE mm == mem
<1> DEFINE qq == q
<1> DEFINE mg == msg
<1> DEFINE w == Todo
<1> DEFINE tl == Tails(p)
<1> DEFINE ow == owned[p]
<1> DEFINE r2 == ring'
<1> DEFINE mm2 == mem'
<1> DEFINE q2 == q'
<1> DEFINE m2 == msg'
<1> DEFINE w2 == Todo'
<1> DEFINE tl2 == Tails(p)'
<1>2. /\ DataOf(p, rg, mm, qq, mg, w, tl, ow) /\ Around(p, qq, mg)
      /\ SameIdx(p, qq, mg, q2, m2) /\ SameRings(p, rg, r2) /\ SameBufs(p, mm, mm2) /\ SameWork(p, w, w2)
      /\ tl2 \subseteq tl /\ owned'[p] = ow
  BY <1>1
<1> HIDE DEF rg, mm, qq, mg, w, tl, ow, r2, mm2, q2, m2, w2, tl2
<1>3. DataOf(p, r2, mm2, q2, m2, w2, tl2, ow)
  BY <1>2, Frame
<1> QED BY <1>2, <1>3 DEF r2, mm2, q2, m2, w2, tl2

\* What Send does to the ring and to the buffers.
Sending(p, n, z, v, tg) ==
  /\ n \in {1, 2} /\ (n = 2 => SgEn) /\ Occupancy(z, msg[Src[p]].cons, QLen) + n < QLen
  /\ z = msg[Src[p]].prod /\ v = q_idx_add(z, n, QLen)
  /\ (\A i \in 0 .. QLen - 1 : tg[i] \in Tag)
  /\ ring'[Src[p]] = [i \in 0 .. QLen - 1 |->
       IF Occupancy(i, z, QLen) < n
       THEN [tag |-> tg[i], buf |-> <<Src[p], i>>, sg |-> IF Occupancy(i, z, QLen) = 0 THEN n ELSE 1]
       ELSE ring[Src[p]][i]]
  /\ (\A i \in 0 .. QLen - 1 : mem'[<<Src[p], i>>] = IF Occupancy(i, z, QLen) < n THEN tg[i] ELSE mem[<<Src[p], i>>])
  /\ (\A x \in Queues : x # Src[p] => ring'[x] = ring[x])
  /\ (\A b \in AllBufs : b[1] # Src[p] => mem'[b] = mem[b])
  /\ mem' \in [AllBufs -> Tag \cup {NoData}] /\ nxt' \in [Pairs -> Nat]
  /\ (\A x \in Queues : x # Src[p] => msg'[x] = msg[x])
  /\ msg'[Src[p]].cons = msg[Src[p]].cons /\ msg'[Src[p]].prod = v
  /\ UNCHANGED <<q, hw, jobs, sub, left, owned>>

\* Send does that.
LEMMA SendIs ==
  ASSUME IInv, NEW p \in Pairs, NEW n \in Packets, Send(p, n), Around(p, q, msg),
         mem \in [AllBufs -> Tag \cup {NoData}], nxt \in [Pairs -> Nat]
  PROVE  \E z, v, tg : Sending(p, n, z, v, tg)
<1> DEFINE src == Src[p]
<1> DEFINE z == msg[src].prod
<1> DEFINE tg == [i \in 0 .. QLen - 1 |-> (nxt[p] + Occupancy(i, z, QLen)) % Tags]
<1> DEFINE new == [i \in 0 .. QLen - 1 |->
       IF Occupancy(i, z, QLen) < n
       THEN [tag |-> tg[i], buf |-> <<src, i>>, sg |-> IF Occupancy(i, z, QLen) = 0 THEN n ELSE 1]
       ELSE ring[src][i]]
<1> DEFINE v == Ahead(z, n, src)
<1>1. src \in Queues /\ Len_(src) = QLen /\ QLen \in Nat \ {0} /\ Tags \in Nat \ {0}
  BY Names, Params, GieAssumption
<1>2. z \in 0 .. QLen - 1 /\ msg[src].cons \in 0 .. QLen - 1
  BY DEF Around
<1>3. n \in {1, 2} /\ (n = 2 => SgEn)
  BY DEF Packets
<1>4. Occupancy(z, msg[src].cons, QLen) + n < QLen
  <2>1. QLen - Occupancy(z, msg[src].cons, QLen) - 1 >= n
    BY DEF Send, Space
  <2> DEFINE c == msg[src].cons
  <2>2. Occupancy(z, c, QLen) \in 0 .. QLen - 1
    BY <1>1, <1>2, OccupancyCases
  <2> DEFINE o == Occupancy(z, c, QLen)
  <2>3. o \in 0 .. QLen - 1 /\ QLen - o - 1 >= n
    BY <2>1, <2>2
  <2> HIDE DEF o
  <2>4. o + n < QLen
    BY <1>1, <1>3, <2>3
  <2> QED BY <2>4 DEF o
<1>5. ASSUME NEW i \in 0 .. QLen - 1
      PROVE  tg[i] = (nxt[p] + Occupancy(i, z, QLen)) % Tags /\ tg[i] \in Tag
  <2>1. Occupancy(i, z, QLen) \in 0 .. QLen - 1
    BY <1>1, <1>2, OccupancyCases
  <2> DEFINE o == Occupancy(i, z, QLen)
  <2> DEFINE m == nxt[p] + o
  <2>2. m \in Nat
    BY <2>1
  <2> HIDE DEF m
  <2>3. m % Tags \in 0 .. Tags - 1
    BY <1>1, <2>2, ModRange
  <2> QED BY <2>3 DEF Tag, m
<1>6. ring' = [ring EXCEPT ![src] = new]
  <2>1. ring' = [ring EXCEPT ![src] = [i \in 0 .. QLen - 1 |->
                   IF Occupancy(i, z, QLen) < n
                   THEN [tag |-> (nxt[p] + Occupancy(i, z, QLen)) % Tags, buf |-> <<src, i>>,
                         sg |-> IF Occupancy(i, z, QLen) = 0 THEN n ELSE 1]
                   ELSE ring[src][i]]]
    BY DEF Send
  <2>2. new = [i \in 0 .. QLen - 1 |->
                   IF Occupancy(i, z, QLen) < n
                   THEN [tag |-> (nxt[p] + Occupancy(i, z, QLen)) % Tags, buf |-> <<src, i>>,
                         sg |-> IF Occupancy(i, z, QLen) = 0 THEN n ELSE 1]
                   ELSE ring[src][i]]
    OBVIOUS
  <2> QED BY <2>1, <2>2
<1>7. mem' = [b \in DOMAIN mem |-> IF b[1] = src /\ Occupancy(b[2], z, QLen) < n
                                    THEN (nxt[p] + Occupancy(b[2], z, QLen)) % Tags ELSE mem[b]]
  BY DEF Send
<1>8. ASSUME NEW i \in 0 .. QLen - 1
      PROVE  mem'[<<src, i>>] = IF Occupancy(i, z, QLen) < n THEN tg[i] ELSE mem[<<src, i>>]
  <2>1. <<src, i>> \in DOMAIN mem
    BY BufsAre
  <2> HIDE DEF tg, z, src
  <2> QED BY <1>5, <1>7, <2>1
<1>9. ASSUME NEW b \in AllBufs, b[1] # src PROVE mem'[b] = mem[b]
  BY <1>7, <1>9
<1>10. mem' \in [AllBufs -> Tag \cup {NoData}]
  <2>1. ASSUME NEW b \in AllBufs PROVE mem'[b] \in Tag \cup {NoData}
    <3>1. CASE b[1] # src
      BY <1>9, <3>1
    <3>2. CASE b[1] = src
      <4>1. b \in SrcBufs
        <5>1. ASSUME b \in AllPoolBufs PROVE FALSE
          <6>1. PICK o \in Pairs : b \in PoolBufs(o)
            BY <5>1 DEF AllPoolBufs
          <6>2. b[1] = Pool[o]
            BY <6>1, BufsAre
          <6> QED BY <3>2, <6>2, Apart
        <5> QED BY <5>1 DEF AllBufs
      <4>2. PICK i \in 0 .. QLen - 1 : b = <<src, i>>
        BY <3>2, <4>1 DEF SrcBufs
      <4>3. mem'[b] = IF Occupancy(i, z, QLen) < n THEN tg[i] ELSE mem[b]
        BY <1>8, <4>2
      <4> HIDE DEF tg
      <4> QED BY <1>5, <4>3
    <3> QED BY <3>1, <3>2
  <2>2. DOMAIN mem' = AllBufs /\ mem' = [b \in DOMAIN mem' |-> mem'[b]]
    BY <1>7
  <2> QED BY <2>1, <2>2
<1>11. nxt' \in [Pairs -> Nat]
  <2>1. nxt' = [nxt EXCEPT ![p] = (@ + n) % Tags]
    BY DEF Send
  <2>2. (nxt[p] + n) % Tags \in Nat
    <3>1. nxt[p] + n \in Nat
      BY <1>3
    <3> DEFINE m == nxt[p] + n
    <3> HIDE DEF m
    <3>2. m % Tags \in 0 .. Tags - 1
      BY <1>1, <3>1, ModRange DEF m
    <3> QED BY <3>2 DEF m
  <2> QED BY <2>1, <2>2
<1>12. msg' = [msg EXCEPT ![src].prod = v]
  BY DEF Send
<1>13. IndexOk /\ RingOk
  BY Basic
<1>14. /\ \A x \in Queues : x # src => msg'[x] = msg[x]
       /\ msg'[src].cons = msg[src].cons /\ msg'[src].prod = v
  <2> HIDE DEF src, v
  <2> QED BY <1>1, <1>12, <1>13, ProdIs
<1>15. ring'[src] = new /\ \A x \in Queues : x # src => ring'[x] = ring[x]
  <2> HIDE DEF new
  <2> QED BY <1>1, <1>6, <1>13, SetRing
<1>16. v = q_idx_add(z, n, QLen)
  BY <1>1 DEF Ahead
<1>17. UNCHANGED <<q, hw, jobs, sub, left, owned>>
  BY DEF Send, gie
<1>18. \A i \in 0 .. QLen - 1 : tg[i] \in Tag
  BY <1>5
<1>19. \A i \in 0 .. QLen - 1 : mem'[<<src, i>>] = IF Occupancy(i, z, QLen) < n THEN tg[i] ELSE mem[<<src, i>>]
  BY <1>8
<1> HIDE DEF tg, v
<1>20. Sending(p, n, z, v, tg)
  BY <1>3, <1>4, <1>9, <1>10, <1>11, <1>14, <1>15, <1>16, <1>17, <1>18, <1>19 DEF Sending
<1> QED BY <1>20

-----------------------------------------------------------------------------
(* Where the data is looked at *)

\* Elements that are copied were sent.
LEMMA CopiedSent ==
  ASSUME NEW p \in Pairs, NEW qq, NEW mg, Regions(qq, mg)
  PROVE  CopiedIn(p, qq, mg) \subseteq SentIn(p, mg)
<1>1. Around(p, qq, mg)
  BY DEF Regions
<1>2. CASE p = "egress"
  BY <1>1, <1>2, CopiedAre DEF Regions
<1>3. CASE p # "egress"
  <2>1. CopiedIn(p, qq, mg) = MovingIn(p, qq, mg)
    BY <1>3 DEF CopiedIn
  <2> QED BY <1>1, <2>1, TakenIs
<1> QED BY <1>2, <1>3

\* A buffer is in one place if it was and the elements, the pool's entries and
\* the shadow's are the same.
LEMMA SpreadSame ==
  ASSUME NEW all, NEW e, NEW tk, NEW r, NEW full, NEW sh, NEW g, NEW ow, Spread(all, e, tk, r, full, sh, g, ow),
         NEW e2, \A i \in tk : e2[i] = e[i], NEW r2, \A i \in full : r2[i] = r[i],
         NEW sh2, \A i \in g : sh2[i] = sh[i]
  PROVE  Spread(all, e2, tk, r2, full, sh2, g, ow)
<1>1. Held(e2, tk) = Held(e, tk) /\ Held(r2, full) = Held(r, full) /\ Held(sh2, g) = Held(sh, g)
  BY DEF Held
<1>2. Distinct(e2, tk) /\ Distinct(r2, full) /\ Distinct(sh2, g)
  BY DEF Distinct, Spread
<1> QED BY <1>1, <1>2 DEF Spread

\* The source of a buffer copy is an element in the works.
LEMMA AimedFrom ==
  ASSUME NEW p \in Pairs, NEW qq, NEW mg, NEW w, Kinds(w, qq, mg), NEW d \in w, d.op = "buf", d.src[1] = Src[p]
  PROVE  /\ d.src[2] \in MovingIn(p, qq, mg) /\ d.src = <<Src[p], d.src[2]>>
         /\ d = [op |-> "buf", src |-> <<Src[p], d.src[2]>>, dst |-> d.dst]
<1>1. Kind(d, qq, mg)
  BY DEF Kinds
<1>2. PICK o \in Pairs : OfBuffer(d, o, qq, mg)
  BY <1>1 DEF Kind, OfElements, OfPool
<1>3. PICK i \in MovingIn(o, qq, mg) : \E b : d = [op |-> "buf", src |-> <<Src[o], i>>, dst |-> b]
  BY <1>2 DEF OfBuffer
<1>4. PICK b : d = [op |-> "buf", src |-> <<Src[o], i>>, dst |-> b]
  BY <1>3
<1>5. d.src = <<Src[o], i>> /\ d.dst = b
  BY <1>4
<1>6. Src[o] = Src[p]
  BY <1>5
<1>7. o = p
  BY <1>6, Apart
<1> QED BY <1>4, <1>5, <1>7

\* Where the copies are aimed depends on the elements in the works only.
LEMMA AimedSame ==
  ASSUME NEW p \in Pairs, NEW qq, NEW mg, NEW w, Kinds(w, qq, mg), NEW e, AimedOk(p, e, w),
         NEW e2, \A i \in MovingIn(p, qq, mg) : e2[i] = e[i]
  PROVE  AimedOk(p, e2, w)
BY AimedFrom DEF AimedOk

-----------------------------------------------------------------------------
(* The producer *)

\* A packet is written beyond everything the GIE looks at.
LEMMA SendOne ==
  ASSUME NEW p \in Pairs, DataOf(p, ring, mem, q, msg, Todo, Tails(p), owned[p]), Regions(q, msg),
         Kinds(Todo, q, msg), NEW n, NEW z, NEW v, NEW tg, Sending(p, n, z, v, tg)
  PROVE  DataOf(p, ring', mem', q', msg', Todo', Tails(p)', owned'[p])
<1> DEFINE s == ring[Src[p]]
<1> DEFINE d == ring[Dst[p]]
<1> DEFINE un == UnreadIn(p, msg)
<1> DEFINE mv == MovingIn(p, q, msg)
<1> DEFINE tk == TakenIn(p, q, msg)
<1> DEFINE sent == SentIn(p, msg)
<1> DEFINE cp == CopiedIn(p, q, msg)
<1> DEFINE e == ElemsOf(p, ring, un)
<1> DEFINE full == FullIn(p, q, msg)
<1> DEFINE g == FetchedIn(p, q)
<1> DEFINE fi == FillIn(q)
<1> DEFINE pr == msg[Dst[p]].prod
<1> DEFINE s2 == ring'[Src[p]]
<1> DEFINE w == Todo
<1> DEFINE tl == Tails(p)
<1> DEFINE N == Slots(z, v, QLen)
<1> DEFINE c == msg[Src[p]].cons
<1>1. /\ s \in [0 .. QLen - 1 -> Elements] /\ d \in [0 .. QLen - 1 -> Elements]
      /\ SourceOk(p, s, mem, sent) /\ WholeOk(s, sent) /\ ElemOk(e, s, mem, w, tk, mv) /\ AimedOk(p, e, w)
      /\ CopiedOk(Dst[p], s, d, w, cp) /\ CutOk(d, e, un, mv, pr, tl) /\ PoolOk(p, q, msg)
      /\ (p = "ingress" => CopiedOk("shadow", ring["host_bp"], ring["shadow"], w, fi))
      /\ Spread(PoolBufs(p), Bufs(e), tk, ring[Pool[p]], full, ring["shadow"], g, owned[p])
  BY DataIs
<1>2. Todo' = w /\ Tails(p)' = tl
  BY SameTodo DEF Sending
<1>3. /\ q' = q /\ owned' = owned /\ msg'[Dst[p]] = msg[Dst[p]] /\ msg'[Pool[p]] = msg[Pool[p]]
      /\ ring'[Dst[p]] = d /\ ring'[Pool[p]] = ring[Pool[p]] /\ ring'["shadow"] = ring["shadow"]
      /\ (p = "ingress" => ring'["host_bp"] = ring["host_bp"])
  BY Names, Apart DEF Sending
<1>4. n \in {1, 2} /\ (n = 2 => SgEn) /\ Occupancy(z, c, QLen) + n < QLen /\ z = msg[Src[p]].prod
      /\ v = q_idx_add(z, n, QLen) /\ msg'[Src[p]].cons = c /\ msg'[Src[p]].prod = v
  BY DEF Sending
<1>5. Around(p, q, msg) /\ z \in 0 .. QLen - 1 /\ c \in 0 .. QLen - 1 /\ QLen \in Nat \ {0}
  BY <1>4, Params DEF Regions, Around
<1>6. /\ UnreadIn(p, msg') = un /\ MovingIn(p, q', msg') = mv /\ TakenIn(p, q', msg') = tk
      /\ CopiedIn(p, q', msg') = cp /\ FullIn(p, q', msg') = full /\ FetchedIn(p, q') = g /\ FillIn(q') = fi
      /\ PoolOk(p, q', msg') /\ msg'[Dst[p]].prod = pr
  <2>1. UnreadIn(p, msg') = un /\ FullIn(p, q', msg') = full /\ FetchedIn(p, q') = g /\ FillIn(q') = fi
    BY <1>3 DEF UnreadIn, FullIn, FetchedIn, FillIn
  <2>2. MovingIn(p, q', msg') = mv /\ TakenIn(p, q', msg') = tk
    BY <1>3, <1>4 DEF MovingIn, TakenIn
  <2>3. CopiedIn(p, q', msg') = cp
    BY <1>3, <2>2 DEF CopiedIn
  <2>4. PoolOk(p, q', msg')
    BY <1>1, <1>3 DEF PoolOk
  <2> QED BY <1>3, <2>1, <2>2, <2>3, <2>4
<1>7. SentIn(p, msg') = sent \cup N /\ sent \cap N = {}
  <2>1. n \in 0 .. QLen - 1
    <3>1. Occupancy(z, c, QLen) \in 0 .. QLen - 1
      BY <1>5, OccupancyCases
    <3> DEFINE o == Occupancy(z, c, QLen)
    <3>2. o \in 0 .. QLen - 1 /\ o + n < QLen
      BY <1>4, <3>1
    <3> HIDE DEF o
    <3> QED BY <1>4, <1>5, <3>2
  <2>2. v \in 0 .. QLen - 1 /\ Occupancy(v, z, QLen) = n
    BY <1>4, <1>5, <2>1, FirstSlots
  <2>3. SentIn(p, msg') = Slots(c, v, QLen) /\ sent = Slots(c, z, QLen)
    BY <1>4 DEF SentIn
  <2> HIDE DEF c
  <2> QED BY <1>4, <1>5, <2>2, <2>3, SlotsSplit
<1>8. \A i \in 0 .. QLen - 1 : i \in N <=> Occupancy(i, z, QLen) < n
  <2>1. n \in 0 .. QLen - 1
    <3>1. Occupancy(z, c, QLen) \in 0 .. QLen - 1
      BY <1>5, OccupancyCases
    <3> DEFINE o == Occupancy(z, c, QLen)
    <3>2. o \in 0 .. QLen - 1 /\ o + n < QLen
      BY <1>4, <3>1
    <3> HIDE DEF o
    <3> QED BY <1>4, <1>5, <3>2
  <2> QED BY <1>4, <1>5, <2>1, FirstSlots
<1>9. /\ s2 = [i \in 0 .. QLen - 1 |->
                IF Occupancy(i, z, QLen) < n
                THEN [tag |-> tg[i], buf |-> <<Src[p], i>>, sg |-> IF Occupancy(i, z, QLen) = 0 THEN n ELSE 1]
                ELSE s[i]]
      /\ \A i \in 0 .. QLen - 1 : tg[i] \in Tag
      /\ \A i \in 0 .. QLen - 1 : mem'[<<Src[p], i>>] = IF Occupancy(i, z, QLen) < n THEN tg[i] ELSE mem[<<Src[p], i>>]
  BY DEF Sending
<1>10. /\ \A i \in 0 .. QLen - 1 : i \notin N => s2[i] = s[i] /\ mem'[<<Src[p], i>>] = mem[<<Src[p], i>>]
       /\ \A i \in 0 .. QLen - 1 : i \in N =>
            /\ s2[i].tag = tg[i] /\ mem'[<<Src[p], i>>] = tg[i] /\ tg[i] \in Tag
            /\ s2[i].sg = IF Occupancy(i, z, QLen) = 0 THEN n ELSE 1
            /\ s2[i] \in Elements
  <2>1. ASSUME NEW i \in 0 .. QLen - 1, i \notin N
        PROVE  s2[i] = s[i] /\ mem'[<<Src[p], i>>] = mem[<<Src[p], i>>]
    BY <1>8, <1>9, <2>1
  <2>2. ASSUME NEW i \in 0 .. QLen - 1, i \in N
        PROVE  /\ s2[i].tag = tg[i] /\ mem'[<<Src[p], i>>] = tg[i] /\ tg[i] \in Tag
               /\ s2[i].sg = IF Occupancy(i, z, QLen) = 0 THEN n ELSE 1
               /\ s2[i] \in Elements
    <3>1. s2[i] = [tag |-> tg[i], buf |-> <<Src[p], i>>, sg |-> IF Occupancy(i, z, QLen) = 0 THEN n ELSE 1]
      BY <1>8, <1>9, <2>2
    <3>2. tg[i] \in Tag /\ mem'[<<Src[p], i>>] = tg[i]
      BY <1>8, <1>9, <2>2
    <3>3. (IF Occupancy(i, z, QLen) = 0 THEN n ELSE 1) \in {1, 2} /\ <<Src[p], i>> \in SrcBufs
      BY <1>4, BufsAre
    <3> QED BY <3>1, <3>2, <3>3 DEF Elements
  <2> QED BY <2>1, <2>2
<1>11. s2 \in [0 .. QLen - 1 -> Elements]
  <2>1. \A i \in 0 .. QLen - 1 : s2[i] \in Elements
    BY <1>1, <1>10
  <2>2. s2 = [i \in 0 .. QLen - 1 |-> s2[i]]
    BY <1>9
  <2> QED BY <2>1, <2>2
<1>12. /\ tk = un \cup mv /\ mv \subseteq sent /\ tk \subseteq 0 .. QLen - 1 /\ sent \subseteq 0 .. QLen - 1
       /\ un \cap mv = {} /\ cp \subseteq sent
  BY <1>5, TakenIs, CopiedSent
<1> DEFINE e2 == ElemsOf(p, ring', UnreadIn(p, msg'))
<1>13. \A i \in tk : e2[i] = e[i] /\ i \in 0 .. QLen - 1
  <2>1. ASSUME NEW i \in tk PROVE e2[i] = e[i] /\ i \in 0 .. QLen - 1
    <3>1. i \in 0 .. QLen - 1
      BY <1>12
    <3>2. e[i] = (IF p = "ingress" /\ i \notin un THEN s[i] ELSE d[i])
      BY <3>1, ElemsAt
    <3>3. e2[i] = (IF p = "ingress" /\ i \notin un THEN s2[i] ELSE d[i])
      BY <1>3, <1>6, <3>1, ElemsAt
    <3>4. i \notin un => s2[i] = s[i]
      BY <1>7, <1>10, <1>12, <3>1
    <3> QED BY <3>1, <3>2, <3>3, <3>4
  <2> QED BY <2>1
<1>14. \A i \in tk : e[i].buf \in PoolBufs(p)
  BY <1>12, ElemBuf
<1>15. \A b \in PoolBufs(p) : mem'[b] = mem[b]
  <2>1. \A b \in PoolBufs(p) : b \in AllBufs /\ b[1] # Src[p]
    BY BufsAre, Apart
  <2> QED BY <2>1 DEF Sending
<1>16. \A i \in sent : s2[i] = s[i] /\ mem'[<<Src[p], i>>] = mem[<<Src[p], i>>]
  BY <1>7, <1>10, <1>12
<1>17. N \subseteq 0 .. QLen - 1
  BY DEF Slots
<1>18. SourceOk(p, s2, mem', sent \cup N)
  <2> HIDE DEF N, sent, s, s2
  <2> QED BY <1>1, <1>10, <1>16, <1>17 DEF SourceOk
<1>19. WholeOk(s2, sent \cup N)
  <2>1. ASSUME NEW i \in sent, s2[i].sg # 1
        PROVE  SgEn /\ s2[i].sg = 2 /\ q_idx_add(i, 1, QLen) \in sent \cup N /\ s2[q_idx_add(i, 1, QLen)].sg = 1
    <3> HIDE DEF N, sent, s, s2
    <3>1. s2[i] = s[i]
      BY <1>16
    <3>2. SgEn /\ s[i].sg = 2 /\ q_idx_add(i, 1, QLen) \in sent /\ s[q_idx_add(i, 1, QLen)].sg = 1
      BY <1>1, <2>1, <3>1 DEF WholeOk
    <3> QED BY <1>16, <3>1, <3>2
  <2>2. ASSUME NEW i \in N, s2[i].sg # 1
        PROVE  SgEn /\ s2[i].sg = 2 /\ q_idx_add(i, 1, QLen) \in sent \cup N /\ s2[q_idx_add(i, 1, QLen)].sg = 1
    <3>1. i \in 0 .. QLen - 1
      BY <1>17
    <3>2. Occupancy(i, z, QLen) = 0 /\ n = 2 /\ s2[i].sg = 2
      BY <1>4, <1>10, <2>2, <3>1
    <3>3. n \in 0 .. QLen - 1 /\ 1 \in 0 .. n - 1 /\ 0 \in 0 .. n - 1
      <4>1. Occupancy(z, c, QLen) \in 0 .. QLen - 1
        BY <1>5, OccupancyCases
      <4> DEFINE o == Occupancy(z, c, QLen)
      <4>2. o \in 0 .. QLen - 1 /\ o + n < QLen
        BY <1>4, <4>1
      <4> HIDE DEF o
      <4> QED BY <1>5, <3>2, <4>2
    <3>4. q_idx_add(z, Occupancy(i, z, QLen), QLen) = i
      <4>1. i \in Slots(z, q_idx_add(z, n, QLen), QLen)
        BY <1>4
      <4> HIDE DEF N
      <4> QED BY <1>5, <3>3, <4>1, SlotFrom
    <3>5. q_idx_add(z, 0, QLen) = z
      BY <1>5, AddCases
    <3>6. i = z
      BY <3>2, <3>4, <3>5
    <3> DEFINE j == q_idx_add(z, 1, QLen)
    <3>7. j \in Slots(z, q_idx_add(z, n, QLen), QLen) /\ j \in 0 .. QLen - 1 /\ Occupancy(j, z, QLen) = 1
      BY <1>5, <3>3, SlotAt
    <3>8. j \in N
      BY <1>4, <3>7
    <3> HIDE DEF j, N, s2
    <3>9. s2[j].sg = 1
      <4>1. \A k \in 0 .. QLen - 1 : k \in N => s2[k].sg = IF Occupancy(k, z, QLen) = 0 THEN n ELSE 1
        BY <1>10
      <4>2. j \in 0 .. QLen - 1 /\ Occupancy(j, z, QLen) = 1
        BY <3>7 DEF j
      <4>3. s2[j].sg = IF Occupancy(j, z, QLen) = 0 THEN n ELSE 1
        BY <3>8, <4>1, <4>2
      <4> QED BY <4>2, <4>3
    <3> QED BY <1>4, <3>2, <3>6, <3>8, <3>9 DEF j
  <2> QED BY <2>1, <2>2 DEF WholeOk
<1> HIDE DEF s, d, un, mv, tk, sent, cp, e, full, g, fi, pr, s2, w, tl, N, e2
<1>20. ElemOk(e2, s2, mem', w, tk, mv)
  <2>1. \A i \in tk : e2[i].tag \in Tag /\ (BufTo(w, e2[i].buf) \/ mem'[e2[i].buf] = e2[i].tag)
    BY <1>1, <1>13, <1>14, <1>15 DEF ElemOk
  <2>2. \A i \in mv : e2[i].tag = s2[i].tag
    BY <1>1, <1>12, <1>13, <1>16 DEF ElemOk
  <2> QED BY <2>1, <2>2 DEF ElemOk
<1>21. AimedOk(p, e2, w)
  <2>1. \A i \in mv : e2[i] = e[i]
    BY <1>12, <1>13
  <2>2. Kinds(w, q, msg)
    BY DEF w
  <2> QED BY <1>1, <2>1, <2>2, AimedSame DEF mv
<1>22. CopiedOk(Dst[p], s2, d, w, cp)
  BY <1>1, <1>12, <1>16 DEF CopiedOk
<1>23. CutOk(d, e2, un, mv, pr, tl)
  BY <1>1, <1>12, <1>13 DEF CutOk
<1>24. Spread(PoolBufs(p), Bufs(e2), tk, ring[Pool[p]], full, ring["shadow"], g, owned[p])
  <2>1. \A i \in tk : Bufs(e2)[i] = Bufs(e)[i]
    BY <1>13, BufsAt
  <2> QED BY <1>1, <2>1, SpreadSame
<1> DEFINE r2 == ring'
<1> DEFINE mm2 == mem'
<1> DEFINE q2 == q'
<1> DEFINE m2 == msg'
<1> DEFINE ow2 == owned'[p]
<1>25. /\ r2[Src[p]] = s2 /\ r2[Dst[p]] = d /\ r2[Pool[p]] = ring[Pool[p]] /\ r2["shadow"] = ring["shadow"]
       /\ (p = "ingress" => r2["host_bp"] = ring["host_bp"])
       /\ ow2 = owned[p] /\ e2 = ElemsOf(p, r2, UnreadIn(p, m2))
       /\ SentIn(p, m2) = sent \cup N /\ UnreadIn(p, m2) = un /\ MovingIn(p, q2, m2) = mv /\ TakenIn(p, q2, m2) = tk
       /\ CopiedIn(p, q2, m2) = cp /\ FullIn(p, q2, m2) = full /\ FetchedIn(p, q2) = g /\ FillIn(q2) = fi
       /\ PoolOk(p, q2, m2) /\ m2[Dst[p]].prod = pr
       /\ SourceOk(p, s2, mm2, sent \cup N) /\ ElemOk(e2, s2, mm2, w, tk, mv)
  BY <1>3, <1>6, <1>7, <1>18, <1>20 DEF s2, e2, d
<1>26. d \in [0 .. QLen - 1 -> Elements] /\ s2 \in [0 .. QLen - 1 -> Elements]
       /\ (p = "ingress" => CopiedOk("shadow", ring["host_bp"], ring["shadow"], w, fi))
  BY <1>1, <1>11
<1> HIDE DEF r2, mm2, q2, m2, ow2
<1>27. DataOf(p, r2, mm2, q2, m2, w, tl, ow2)
  BY <1>19, <1>21, <1>22, <1>23, <1>24, <1>25, <1>26, DataFrom
<1> QED BY <1>2, <1>27 DEF r2, mm2, q2, m2, ow2

\* The queues that only the GIE, the producer and the consumer of a pair use.
Own(p) == {Src[p], Dst[p], Pool[p]} \cup (IF p = "ingress" THEN {"shadow"} ELSE {})

\* Another pair is left alone by what happens to the queues of a pair.
LEMMA OtherPair ==
  ASSUME NEW p \in Pairs, NEW p0 \in Pairs, p # p0, DataOf(p, ring, mem, q, msg, Todo, Tails(p), owned[p]),
         Regions(q, msg),
         \A x \in Queues : x \notin Own(p0) => msg'[x] = msg[x] /\ ring'[x] = ring[x] /\ q'[x] = q[x],
         \A b \in AllBufs : b[1] \notin Own(p0) => mem'[b] = mem[b],
         SameWork(p, Todo, Todo'), Tails(p)' \subseteq Tails(p), owned'[p] = owned[p]
  PROVE  DataOf(p, ring', mem', q', msg', Todo', Tails(p)', owned'[p])
<1>1. \A x \in Own(p) : x \notin Own(p0) /\ x \in Queues
  BY Apart, PairIs, Names DEF Own
<1>2. \A x \in {Src[p], Dst[p], Pool[p]} : x \in Own(p)
  BY DEF Own
<1>3. p = "ingress" => "shadow" \in Own(p)
  BY DEF Own
<1>4. \A x \in Own(p) : msg'[x] = msg[x] /\ ring'[x] = ring[x] /\ q'[x] = q[x]
  BY <1>1
<1>5. SameIdx(p, q, msg, q', msg')
  BY <1>2, <1>3, <1>4 DEF SameIdx
<1>6. SameRings(p, ring, ring')
  BY <1>2, <1>3, <1>4 DEF SameRings
<1>7. SameBufs(p, mem, mem')
  <2>1. ASSUME NEW i \in 0 .. QLen - 1 PROVE mem'[<<Src[p], i>>] = mem[<<Src[p], i>>]
    <3>1. <<Src[p], i>> \in AllBufs /\ <<Src[p], i>>[1] \notin Own(p0)
      BY <1>1, <1>2, BufsAre
    <3> QED BY <3>1
  <2>2. ASSUME NEW b \in PoolBufs(p) PROVE mem'[b] = mem[b]
    <3>1. b \in AllBufs /\ b[1] \notin Own(p0)
      BY <1>1, <1>2, BufsAre
    <3> QED BY <3>1
  <2> QED BY <2>1, <2>2 DEF SameBufs
<1> QED BY <1>5, <1>6, <1>7, Others

\* The step of a producer.
LEMMA SendData == ASSUME NEW p0 \in Pairs, NEW n \in Packets PROVE IInv /\ Data /\ Send(p0, n) => Data'
<1> SUFFICES ASSUME IInv, Data, Send(p0, n) PROVE Data'
  OBVIOUS
<1>1. Regions(q, msg) /\ Kinds(Todo, q, msg)
  BY RegionsIs, KindsIs
<1>2. /\ mem \in [AllBufs -> Tag \cup {NoData}] /\ nxt \in [Pairs -> Nat] /\ OnlyCopied(Todo)
      /\ owned \in [Pairs -> SUBSET AllPoolBufs] /\ (\A p \in Pairs : owned[p] \subseteq PoolBufs(p))
      /\ \A p \in CopyPayload : DataOf(p, ring, mem, q, msg, Todo, Tails(p), owned[p])
  BY DEF Data, AllBufs
<1>3. PICK z, v, tg : Sending(p0, n, z, v, tg)
  BY <1>1, <1>2, SendIs DEF Regions
<1>4. Todo' = Todo /\ \A p : Tails(p)' = Tails(p)
  BY <1>3, SameTodo DEF Sending
<1>5. mem' \in [AllBufs -> Tag \cup {NoData}] /\ nxt' \in [Pairs -> Nat] /\ owned' = owned /\ q' = q
  BY <1>3 DEF Sending
<1>6. ASSUME NEW p \in CopyPayload PROVE DataOf(p, ring', mem', q', msg', Todo', Tails(p)', owned'[p])
  <2>1. p \in Pairs /\ DataOf(p, ring, mem, q, msg, Todo, Tails(p), owned[p])
    BY <1>2, GieAssumption
  <2>2. CASE p = p0
    BY <1>1, <1>3, <2>1, <2>2, SendOne
  <2>3. CASE p # p0
    <3>1. Src[p0] \in Own(p0)
      BY DEF Own
    <3>2. \A x \in Queues : x \notin Own(p0) => msg'[x] = msg[x] /\ ring'[x] = ring[x] /\ q'[x] = q[x]
      BY <1>3, <1>5, <3>1 DEF Sending
    <3>3. \A b \in AllBufs : b[1] \notin Own(p0) => mem'[b] = mem[b]
      BY <1>3, <3>1 DEF Sending
    <3>4. SameWork(p, Todo, Todo')
      BY <1>4, WorkSame
    <3> QED BY <1>1, <1>4, <1>5, <2>1, <2>3, <3>2, <3>3, <3>4, OtherPair
  <2> QED BY <2>2, <2>3
<1>7. OnlyCopied(Todo')
  BY <1>2, <1>4
<1> QED BY <1>2, <1>5, <1>6, <1>7 DEF Data, AllBufs, OnlyCopied

-----------------------------------------------------------------------------
(* The consumer *)

\* The first slot of a stretch, and a stretch with one more slot.
LEMMA OneSlot ==
  ASSUME NEW n \in Nat \ {0}, NEW c \in 0 .. n - 1, 1 < n
  PROVE  /\ Slots(c, q_idx_add(c, 1, n), n) = {c} /\ q_idx_add(c, 1, n) \in 0 .. n - 1
         /\ Occupancy(q_idx_add(c, 1, n), c, n) = 1
<1>1. q_idx_add(c, 0, n) = c
  BY AddCases
<1>2. 1 \in 0 .. n - 1 /\ 0 \in 0 .. 1 - 1
  OBVIOUS
<1>3. c \in Slots(c, q_idx_add(c, 1, n), n)
  <2>1. q_idx_add(c, 0, n) \in Slots(c, q_idx_add(c, 1, n), n)
    BY <1>2, SlotAt
  <2> QED BY <1>1, <2>1
<1>4. ASSUME NEW i \in Slots(c, q_idx_add(c, 1, n), n) PROVE i = c
  <2>1. Occupancy(i, c, n) \in 0 .. 1 - 1 /\ q_idx_add(c, Occupancy(i, c, n), n) = i
    BY <1>2, SlotFrom
  <2>2. Occupancy(i, c, n) = 0
    BY <2>1
  <2> QED BY <1>1, <2>1, <2>2
<1> QED BY SMTT(30), <1>2, <1>3, <1>4, FirstSlots

\* A stretch without its first slot.
LEMMA FirstSlot ==
  ASSUME NEW n \in Nat \ {0}, NEW c \in 0 .. n - 1, NEW z \in 0 .. n - 1, c # z
  PROVE  /\ 1 < n /\ Slots(c, z, n) = {c} \cup Slots(q_idx_add(c, 1, n), z, n) /\ c \notin Slots(q_idx_add(c, 1, n), z, n)
         /\ Occupancy(z, c, n) = 1 + Occupancy(z, q_idx_add(c, 1, n), n)
<1>1. 1 < n
  OBVIOUS
<1> DEFINE v == q_idx_add(c, 1, n)
<1>2. Slots(c, v, n) = {c} /\ v \in 0 .. n - 1 /\ Occupancy(v, c, n) = 1
  BY <1>1, OneSlot
<1>3. v = IF c + 1 < n THEN c + 1 ELSE c + 1 - n
  BY <1>1, AddCases
<1> HIDE DEF v
<1>4. 1 + Occupancy(z, v, n) < n
  <2>1. Occupancy(z, v, n) = IF z >= v THEN z - v ELSE z - v + n
    BY <1>2, OccupancyCases
  <2>2. v \in 0 .. n - 1
    BY <1>2
  <2> QED BY <1>1, <1>3, <2>1, <2>2
<1> QED BY <1>1, <1>2, <1>4, SlotsSplit DEF v

\* A stretch with one more slot at its end.
LEMMA NextSlot ==
  ASSUME NEW n \in Nat \ {0}, NEW a \in 0 .. n - 1, NEW z \in 0 .. n - 1, Occupancy(z, a, n) + 1 < n
  PROVE  /\ Slots(a, q_idx_add(z, 1, n), n) = Slots(a, z, n) \cup {z} /\ z \notin Slots(a, z, n)
         /\ Occupancy(q_idx_add(z, 1, n), a, n) = Occupancy(z, a, n) + 1
<1>0. Occupancy(z, a, n) \in 0 .. n - 1
  BY OccupancyCases
<1>1. 1 < n
  BY <1>0
<1> DEFINE v == q_idx_add(z, 1, n)
<1>2. Slots(z, v, n) = {z} /\ v \in 0 .. n - 1 /\ Occupancy(v, z, n) = 1
  BY <1>1, OneSlot
<1> HIDE DEF v
<1> QED BY <1>2, SlotsSplit DEF v

\* An element's buffer is handed to the consumer, which posts it again.
LEMMA SpreadTake ==
  ASSUME NEW all, NEW e, NEW tk, NEW r, NEW full, NEW sh, NEW g, NEW ow, Spread(all, e, tk, r, full, sh, g, ow),
         NEW t2, NEW c, tk = t2 \cup {c}, c \notin t2, NEW e2, \A i \in t2 : e2[i] = e[i]
  PROVE  Spread(all, e2, t2, r, full, sh, g, ow \cup {e[c]})
<1>1. Held(e, tk) = Held(e2, t2) \cup {e[c]}
  BY DEF Held
<1>2. e[c] \notin Held(e2, t2)
  BY DEF Held, Spread, Distinct
<1>3. Distinct(e2, t2)
  BY DEF Spread, Distinct
<1> QED BY <1>1, <1>2, <1>3 DEF Spread

\* A buffer goes from the consumer to the ring of the pool.
LEMMA SpreadPut ==
  ASSUME NEW all, NEW e, NEW tk, NEW r, NEW full, NEW sh, NEW g, NEW ow, Spread(all, e, tk, r, full, sh, g, ow),
         NEW f2, NEW z, f2 = full \cup {z}, z \notin full, NEW r2, \A i \in full : r2[i] = r[i], r2[z] \in ow
  PROVE  Spread(all, e, tk, r2, f2, sh, g, ow \ {r2[z]})
<1>1. Held(r2, f2) = Held(r, full) \cup {r2[z]}
  BY DEF Held
<1>2. r2[z] \notin Held(r, full)
  BY DEF Held, Spread
<1>3. Distinct(r2, f2)
  BY DEF Spread, Distinct, Held
<1> QED BY <1>1, <1>2, <1>3 DEF Spread

\* What Recv does.
Receiving(p, c, v) ==
  /\ c = msg[Dst[p]].cons /\ v = q_idx_add(c, 1, QLen) /\ c # msg[Dst[p]].prod
  /\ owned' = IF p \in CopyPayload THEN [owned EXCEPT ![p] = @ \cup {ring[Dst[p]][c].buf}] ELSE owned
  /\ (\A x \in Queues : x # Dst[p] => msg'[x] = msg[x])
  /\ msg'[Dst[p]].prod = msg[Dst[p]].prod /\ msg'[Dst[p]].cons = v
  /\ UNCHANGED <<q, hw, jobs, sub, left, ring, mem, nxt>>

\* Recv does that.
LEMMA RecvIs ==
  ASSUME IInv, NEW p \in Pairs, Recv(p), Around(p, q, msg)
  PROVE  \E c, v : Receiving(p, c, v)
<1> DEFINE dst == Dst[p]
<1> DEFINE c == msg[dst].cons
<1> DEFINE v == Ahead(c, 1, dst)
<1>1. dst \in Queues /\ Len_(dst) = QLen
  BY Names
<1>2. c \in 0 .. QLen - 1 /\ msg[dst].prod \in 0 .. QLen - 1
  BY DEF Around
<1>3. c # msg[dst].prod
  <2>1. Slots(c, msg[dst].prod, QLen) # {}
    BY <1>1 DEF Recv, Posted
  <2> QED BY <1>2, <2>1, BeforeIn
<1>4. v = q_idx_add(c, 1, QLen)
  BY <1>1 DEF Ahead
<1>5. owned' = IF p \in CopyPayload THEN [owned EXCEPT ![p] = @ \cup {ring[Dst[p]][c].buf}] ELSE owned
  BY DEF Recv
<1>6. msg' = [msg EXCEPT ![dst].cons = v] /\ IndexOk
  BY Basic DEF Recv
<1>7. UNCHANGED <<q, hw, jobs, sub, left, ring, mem, nxt>>
  BY DEF Recv, gie
<1>8. /\ \A x \in Queues : x # dst => msg'[x] = msg[x]
      /\ msg'[dst].prod = msg[dst].prod /\ msg'[dst].cons = v
  <2> HIDE DEF dst, v
  <2> QED BY <1>1, <1>6, ConsIs
<1> HIDE DEF v
<1>9. Receiving(p, c, v)
  BY <1>3, <1>4, <1>5, <1>7, <1>8 DEF Receiving
<1> QED BY <1>9

\* The oldest unread element is read, and its buffer goes to the consumer.
LEMMA RecvOne ==
  ASSUME NEW p \in CopyPayload, DataOf(p, ring, mem, q, msg, Todo, Tails(p), owned[p]), Regions(q, msg),
         Kinds(Todo, q, msg), owned \in [Pairs -> SUBSET AllPoolBufs], NEW c, NEW v, Receiving(p, c, v)
  PROVE  DataOf(p, ring', mem', q', msg', Todo', Tails(p)', owned'[p])
<1> DEFINE s == ring[Src[p]]
<1> DEFINE d == ring[Dst[p]]
<1> DEFINE un == UnreadIn(p, msg)
<1> DEFINE un2 == UnreadIn(p, msg')
<1> DEFINE mv == MovingIn(p, q, msg)
<1> DEFINE tk == TakenIn(p, q, msg)
<1> DEFINE tk2 == TakenIn(p, q, msg')
<1> DEFINE sent == SentIn(p, msg)
<1> DEFINE cp == CopiedIn(p, q, msg)
<1> DEFINE e == ElemsOf(p, ring, un)
<1> DEFINE e2 == ElemsOf(p, ring, un2)
<1> DEFINE full == FullIn(p, q, msg)
<1> DEFINE g == FetchedIn(p, q)
<1> DEFINE fi == FillIn(q)
<1> DEFINE pr == msg[Dst[p]].prod
<1> DEFINE w == Todo
<1> DEFINE tl == Tails(p)
<1>0. p \in Pairs
  BY GieAssumption
<1>1. /\ s \in [0 .. QLen - 1 -> Elements] /\ d \in [0 .. QLen - 1 -> Elements]
      /\ SourceOk(p, s, mem, sent) /\ WholeOk(s, sent) /\ ElemOk(e, s, mem, w, tk, mv) /\ AimedOk(p, e, w)
      /\ CopiedOk(Dst[p], s, d, w, cp) /\ CutOk(d, e, un, mv, pr, tl) /\ PoolOk(p, q, msg)
      /\ (p = "ingress" => CopiedOk("shadow", ring["host_bp"], ring["shadow"], w, fi))
      /\ Spread(PoolBufs(p), Bufs(e), tk, ring[Pool[p]], full, ring["shadow"], g, owned[p])
  BY DataIs
<1>2. Todo' = w /\ Tails(p)' = tl
  BY SameTodo DEF Receiving
<1>3. /\ UNCHANGED <<q, ring, mem>> /\ msg'[Src[p]] = msg[Src[p]] /\ msg'[Pool[p]] = msg[Pool[p]]
      /\ msg'[Dst[p]].prod = pr /\ msg'[Dst[p]].cons = v
  BY <1>0, Names, Apart DEF Receiving
<1>4. c = msg[Dst[p]].cons /\ v = q_idx_add(c, 1, QLen) /\ c # pr
  BY DEF Receiving
<1>5. Around(p, q, msg) /\ QLen \in Nat \ {0}
  BY <1>0, Params DEF Regions
<1>6. /\ MovingIn(p, q', msg') = mv /\ SentIn(p, msg') = sent /\ CopiedIn(p, q', msg') = cp
      /\ FullIn(p, q', msg') = full /\ FetchedIn(p, q') = g /\ FillIn(q') = fi /\ PoolOk(p, q', msg')
  <2>1. MovingIn(p, q', msg') = mv /\ SentIn(p, msg') = sent
    BY <1>3 DEF MovingIn, SentIn
  <2>2. CopiedIn(p, q', msg') = cp
    BY <1>3, <2>1 DEF CopiedIn
  <2>3. FullIn(p, q', msg') = full /\ FetchedIn(p, q') = g /\ FillIn(q') = fi
    BY <1>3 DEF FullIn, FetchedIn, FillIn
  <2>4. PoolOk(p, q', msg')
    BY <1>1, <1>3 DEF PoolOk
  <2> QED BY <2>1, <2>2, <2>3, <2>4
<1>7. un = {c} \cup un2 /\ c \notin un2
  <2>1. c \in 0 .. QLen - 1 /\ pr \in 0 .. QLen - 1
    BY <1>4, <1>5 DEF Around
  <2>2. un = Slots(c, pr, QLen) /\ un2 = Slots(v, pr, QLen)
    BY <1>3, <1>4 DEF UnreadIn
  <2> HIDE DEF pr, un, un2
  <2> QED BY <1>4, <1>5, <2>1, <2>2, FirstSlot
<1>8. /\ tk = un \cup mv /\ un \cap mv = {} /\ tk \subseteq 0 .. QLen - 1
  BY <1>5, TakenIs
<1>9. tk = tk2 \cup {c} /\ c \notin tk2 /\ tk2 = un2 \cup mv
  <2> DEFINE h == q[Src[p]].head
  <2>1. /\ c \in 0 .. QLen - 1 /\ h \in 0 .. QLen - 1 /\ pr \in 0 .. QLen - 1 /\ pr = msg[Src[p]].cons
        /\ Occupancy(pr, c, QLen) + Occupancy(h, pr, QLen) < QLen
    BY <1>4, <1>5 DEF Around
  <2>2. tk = Slots(c, h, QLen) /\ tk2 = Slots(v, h, QLen)
    BY <1>3, <1>4 DEF TakenIn
  <2>3. c # h
    <3>1. c \in un
      BY <1>7
    <3>2. c \in tk
      BY <1>8, <3>1
    <3>3. Slots(h, h, QLen) = {}
      BY <2>1, BeforeIn
    <3> HIDE DEF h, tk
    <3> QED BY <2>2, <3>2, <3>3
  <2>4. tk = tk2 \cup {c} /\ c \notin tk2
    <3> HIDE DEF h, tk, tk2, pr
    <3> QED BY <1>4, <1>5, <2>1, <2>2, <2>3, FirstSlot
  <2> HIDE DEF tk, tk2, un, un2, mv
  <2> QED BY <1>7, <1>8, <2>4
<1>10. \A i \in tk2 : e2[i] = e[i]
  <2>1. ASSUME NEW i \in tk2 PROVE e2[i] = e[i]
    <3>1. i \in 0 .. QLen - 1 /\ (i \in un <=> i \in un2)
      BY <1>7, <1>8, <1>9
    <3>2. e[i] = (IF p = "ingress" /\ i \notin un THEN s[i] ELSE d[i])
      BY <3>1, ElemsAt
    <3>3. e2[i] = (IF p = "ingress" /\ i \notin un2 THEN s[i] ELSE d[i])
      BY <3>1, ElemsAt
    <3> QED BY <3>1, <3>2, <3>3
  <2> QED BY <2>1
<1>11. owned'[p] = owned[p] \cup {Bufs(e)[c]}
  <2>1. c \in 0 .. QLen - 1 /\ c \in un
    BY <1>7, <1>8
  <2>2. e[c] = d[c]
    BY <2>1, ElemsAt
  <2>3. Bufs(e)[c] = d[c].buf
    BY <2>1, <2>2, BufsAt
  <2>4. owned' = [owned EXCEPT ![p] = @ \cup {d[c].buf}]
    BY DEF Receiving
  <2> HIDE DEF d, e
  <2>5. owned'[p] = owned[p] \cup {d[c].buf}
    BY <1>0, <2>4
  <2> QED BY <2>3, <2>5
<1>12. \A i \in tk2 : i \in 0 .. QLen - 1
  BY <1>8, <1>9
<1> HIDE DEF s, d, un, un2, mv, tk, tk2, sent, cp, e, e2, full, g, fi, pr, w, tl
<1>13. ElemOk(e2, s, mem, w, tk2, mv)
  BY <1>1, <1>9, <1>10 DEF ElemOk
<1>14. AimedOk(p, e2, w)
  <2>1. \A i \in mv : e2[i] = e[i]
    BY <1>9, <1>10
  <2>2. Kinds(w, q, msg)
    BY DEF w
  <2> QED BY <1>0, <1>1, <2>1, <2>2, AimedSame DEF mv
<1>15. CutOk(d, e2, un2, mv, pr, tl)
  BY <1>1, <1>7, <1>9, <1>10 DEF CutOk
<1>16. Spread(PoolBufs(p), Bufs(e2), tk2, ring[Pool[p]], full, ring["shadow"], g, owned'[p])
  <2>1. \A i \in tk2 : Bufs(e2)[i] = Bufs(e)[i]
    BY <1>10, <1>12, BufsAt
  <2> QED BY <1>1, <1>9, <1>11, <2>1, SpreadTake
<1> DEFINE r2 == ring'
<1> DEFINE mm2 == mem'
<1> DEFINE q2 == q'
<1> DEFINE m2 == msg'
<1> DEFINE ow2 == owned'[p]
<1>17. /\ r2 = ring /\ mm2 = mem /\ e2 = ElemsOf(p, r2, UnreadIn(p, m2)) /\ r2[Src[p]] = s /\ r2[Dst[p]] = d
       /\ SentIn(p, m2) = sent /\ UnreadIn(p, m2) = un2 /\ MovingIn(p, q2, m2) = mv /\ TakenIn(p, q2, m2) = tk2
       /\ CopiedIn(p, q2, m2) = cp /\ FullIn(p, q2, m2) = full /\ FetchedIn(p, q2) = g /\ FillIn(q2) = fi
       /\ PoolOk(p, q2, m2) /\ m2[Dst[p]].prod = pr
       /\ Spread(PoolBufs(p), Bufs(e2), tk2, ring[Pool[p]], full, ring["shadow"], g, ow2)
  BY <1>3, <1>6, <1>16 DEF s, d, e2, un2, tk2
<1> HIDE DEF r2, mm2, q2, m2, ow2
<1>18. DataOf(p, r2, mm2, q2, m2, w, tl, ow2)
  BY <1>1, <1>13, <1>14, <1>15, <1>17, DataFrom
<1> QED BY <1>2, <1>18 DEF r2, mm2, q2, m2, ow2


\* The step of a consumer that reads.
LEMMA RecvData == ASSUME NEW p0 \in Pairs PROVE IInv /\ Data /\ Recv(p0) => Data'
<1> SUFFICES ASSUME IInv, Data, Recv(p0) PROVE Data'
  OBVIOUS
<1>1. Regions(q, msg) /\ Kinds(Todo, q, msg)
  BY RegionsIs, KindsIs
<1>2. /\ mem \in [AllBufs -> Tag \cup {NoData}] /\ nxt \in [Pairs -> Nat] /\ OnlyCopied(Todo)
      /\ owned \in [Pairs -> SUBSET AllPoolBufs] /\ (\A p \in Pairs : owned[p] \subseteq PoolBufs(p))
      /\ \A p \in CopyPayload : DataOf(p, ring, mem, q, msg, Todo, Tails(p), owned[p])
  BY DEF Data, AllBufs
<1>3. PICK c, v : Receiving(p0, c, v)
  BY <1>1, RecvIs DEF Regions
<1>4. Todo' = Todo /\ \A p : Tails(p)' = Tails(p)
  BY <1>3, SameTodo DEF Receiving
<1>5. mem' = mem /\ nxt' = nxt /\ q' = q /\ ring' = ring
  BY <1>3 DEF Receiving
<1>6. ASSUME NEW p \in CopyPayload PROVE DataOf(p, ring', mem', q', msg', Todo', Tails(p)', owned'[p])
  <2>1. p \in Pairs /\ DataOf(p, ring, mem, q, msg, Todo, Tails(p), owned[p])
    BY <1>2, GieAssumption
  <2>2. CASE p = p0
    BY <1>1, <1>2, <1>3, <2>1, <2>2, RecvOne
  <2>3. CASE p # p0
    <3>1. Dst[p0] \in Own(p0)
      BY DEF Own
    <3>2. \A x \in Queues : x \notin Own(p0) => msg'[x] = msg[x] /\ ring'[x] = ring[x] /\ q'[x] = q[x]
      BY <1>3, <1>5, <3>1 DEF Receiving
    <3>3. owned'[p] = owned[p]
      BY <1>2, <1>3, <2>1, <2>3 DEF Receiving
    <3>4. SameWork(p, Todo, Todo')
      BY <1>4, WorkSame
    <3> QED BY <1>1, <1>4, <1>5, <2>1, <2>3, <3>2, <3>3, <3>4, OtherPair
  <2> QED BY <2>2, <2>3
<1>7. owned' \in [Pairs -> SUBSET AllPoolBufs] /\ \A p \in Pairs : owned'[p] \subseteq PoolBufs(p)
  <2>1. CASE p0 \notin CopyPayload
    BY <1>2, <1>3, <2>1 DEF Receiving
  <2>2. CASE p0 \in CopyPayload
    <3>1. DataOf(p0, ring', mem', q', msg', Todo', Tails(p0)', owned'[p0])
      BY <1>6, <2>2
    <3> DEFINE ow == owned'[p0]
    <3> DEFINE b == ring[Dst[p0]][c].buf
    <3>2. owned' = [owned EXCEPT ![p0] = @ \cup {b}]
      BY <1>3, <2>2 DEF Receiving
    <3>3. ow \subseteq PoolBufs(p0)
      BY <3>1, DataIs, SpreadIn
    <3>4. owned' = [o \in Pairs |-> IF o = p0 THEN owned[p0] \cup {b} ELSE owned[o]]
      BY <1>2, <3>2
    <3> HIDE DEF b
    <3>5. ow = owned[p0] \cup {b} /\ PoolBufs(p0) \subseteq AllPoolBufs
      BY <3>4, BufsAre
    <3> HIDE DEF ow
    <3>6. owned[p0] \cup {b} \subseteq PoolBufs(p0)
      BY <3>3, <3>5
    <3> QED BY <1>2, <3>4, <3>5, <3>6
  <2> QED BY <2>1, <2>2
<1> QED BY <1>2, <1>4, <1>5, <1>6, <1>7 DEF Data, AllBufs, OnlyCopied


\* What PutBuff does.
Putting(p, z, v, b) ==
  /\ b \in owned[p] /\ z = msg[Pool[p]].prod /\ v = q_idx_add(z, 1, BpLen)
  /\ Space(z, msg[Pool[p]].cons, BpLen) >= 1
  /\ ring'[Pool[p]] = [ring[Pool[p]] EXCEPT ![z] = b]
  /\ (\A x \in Queues : x # Pool[p] => ring'[x] = ring[x] /\ msg'[x] = msg[x])
  /\ msg'[Pool[p]].cons = msg[Pool[p]].cons /\ msg'[Pool[p]].prod = v
  /\ mem' = [mem EXCEPT ![b] = NoData] /\ owned' = [owned EXCEPT ![p] = @ \ {b}]
  /\ UNCHANGED <<q, hw, jobs, sub, left, nxt>>

\* PutBuff does that.
LEMMA PutBuffIs ==
  ASSUME IInv, NEW p \in Pairs, PutBuff(p)
  PROVE  \E z, v, b : Putting(p, z, v, b)
<1> DEFINE pool == Pool[p]
<1> DEFINE z == msg[pool].prod
<1> DEFINE v == Ahead(z, 1, pool)
<1>1. pool \in Queues /\ Len_(pool) = BpLen
  BY Names
<1>2. v = q_idx_add(z, 1, BpLen)
  BY <1>1 DEF Ahead
<1>3. PICK b \in owned[p] :
        /\ Space(z, msg[pool].cons, BpLen) >= 1
        /\ ring' = [ring EXCEPT ![pool][z] = b]
        /\ msg' = [msg EXCEPT ![pool].prod = v]
        /\ mem' = [mem EXCEPT ![b] = NoData] /\ owned' = [owned EXCEPT ![p] = @ \ {b}]
        /\ UNCHANGED <<q, hw, jobs, sub, left, nxt>>
  BY DEF PutBuff, gie
<1>4. IndexOk /\ RingOk
  BY Basic
<1>5. /\ \A x \in Queues : x # pool => msg'[x] = msg[x]
      /\ msg'[pool].cons = msg[pool].cons /\ msg'[pool].prod = v
  <2> HIDE DEF pool, v
  <2> QED BY <1>1, <1>3, <1>4, ProdIs
<1>6. ring'[pool] = [ring[pool] EXCEPT ![z] = b] /\ \A x \in Queues : x # pool => ring'[x] = ring[x]
  <2> DEFINE r == [ring[pool] EXCEPT ![z] = b]
  <2>1. ring' = [ring EXCEPT ![pool] = r]
    BY <1>3
  <2> HIDE DEF r, pool
  <2>2. ring'[pool] = r /\ \A x \in Queues : x # pool => ring'[x] = ring[x]
    BY <1>1, <1>4, <2>1, SetRing
  <2> QED BY <2>2 DEF r
<1> HIDE DEF v
<1>7. Putting(p, z, v, b)
  BY <1>2, <1>3, <1>5, <1>6 DEF Putting
<1> QED BY <1>7

\* A buffer the consumer holds goes to the free slot of its pool: no element
\* points to it.
LEMMA PutOne ==
  ASSUME NEW p \in CopyPayload, DataOf(p, ring, mem, q, msg, Todo, Tails(p), owned[p]), Regions(q, msg), RingOk,
         owned \in [Pairs -> SUBSET AllPoolBufs], owned[p] \subseteq PoolBufs(p),
         mem \in [AllBufs -> Tag \cup {NoData}], NEW z, NEW v, NEW b, Putting(p, z, v, b)
  PROVE  DataOf(p, ring', mem', q', msg', Todo', Tails(p)', owned'[p])
<1> DEFINE s == ring[Src[p]]
<1> DEFINE d == ring[Dst[p]]
<1> DEFINE un == UnreadIn(p, msg)
<1> DEFINE mv == MovingIn(p, q, msg)
<1> DEFINE tk == TakenIn(p, q, msg)
<1> DEFINE sent == SentIn(p, msg)
<1> DEFINE cp == CopiedIn(p, q, msg)
<1> DEFINE e == ElemsOf(p, ring, un)
<1> DEFINE full == FullIn(p, q, msg)
<1> DEFINE full2 == FullIn(p, q, msg')
<1> DEFINE g == FetchedIn(p, q)
<1> DEFINE fi == FillIn(q)
<1> DEFINE pr == msg[Dst[p]].prod
<1> DEFINE w == Todo
<1> DEFINE tl == Tails(p)
<1> DEFINE rp == ring[Pool[p]]
<1> DEFINE rp2 == ring'[Pool[p]]
<1>0. p \in Pairs
  BY GieAssumption
<1>1. /\ s \in [0 .. QLen - 1 -> Elements] /\ d \in [0 .. QLen - 1 -> Elements]
      /\ SourceOk(p, s, mem, sent) /\ WholeOk(s, sent) /\ ElemOk(e, s, mem, w, tk, mv) /\ AimedOk(p, e, w)
      /\ CopiedOk(Dst[p], s, d, w, cp) /\ CutOk(d, e, un, mv, pr, tl) /\ PoolOk(p, q, msg)
      /\ (p = "ingress" => CopiedOk("shadow", ring["host_bp"], ring["shadow"], w, fi))
      /\ Spread(PoolBufs(p), Bufs(e), tk, rp, full, ring["shadow"], g, owned[p])
  BY DataIs
<1>2. Todo' = w /\ Tails(p)' = tl
  BY SameTodo DEF Putting
<1>3. /\ q' = q /\ msg'[Src[p]] = msg[Src[p]] /\ msg'[Dst[p]] = msg[Dst[p]]
      /\ ring'[Src[p]] = s /\ ring'[Dst[p]] = d /\ ring'["shadow"] = ring["shadow"]
      /\ msg'[Pool[p]].cons = msg[Pool[p]].cons /\ msg'[Pool[p]].prod = v
  BY <1>0, Names, Apart DEF Putting
<1>4. /\ b \in owned[p] /\ z = msg[Pool[p]].prod /\ v = q_idx_add(z, 1, BpLen)
      /\ Space(z, msg[Pool[p]].cons, BpLen) >= 1 /\ rp2 = [rp EXCEPT ![z] = b]
      /\ mem' = [mem EXCEPT ![b] = NoData]
  BY DEF Putting
<1>5. Around(p, q, msg) /\ BpLen \in Nat \ {0}
  BY <1>0, Params DEF Regions
<1>6. /\ UnreadIn(p, msg') = un /\ MovingIn(p, q', msg') = mv /\ SentIn(p, msg') = sent /\ TakenIn(p, q', msg') = tk
      /\ CopiedIn(p, q', msg') = cp /\ FetchedIn(p, q') = g /\ FillIn(q') = fi /\ msg'[Dst[p]].prod = pr
  <2>1. MovingIn(p, q', msg') = mv /\ SentIn(p, msg') = sent /\ UnreadIn(p, msg') = un
    BY <1>3 DEF MovingIn, SentIn, UnreadIn
  <2>2. CopiedIn(p, q', msg') = cp /\ TakenIn(p, q', msg') = tk
    BY <1>3, <2>1 DEF CopiedIn, TakenIn
  <2>3. FetchedIn(p, q') = g /\ FillIn(q') = fi
    BY <1>3 DEF FetchedIn, FillIn
  <2> QED BY <1>3, <2>1, <2>2, <2>3
<1> DEFINE h == q[Pool[p]].head
<1>7. /\ h \in 0 .. BpLen - 1 /\ z \in 0 .. BpLen - 1 /\ msg[Pool[p]].cons = h
      /\ p = "ingress" => Occupancy(q[Pool[p]].qe_tail, h, BpLen) <= Occupancy(z, h, BpLen)
  BY <1>1, <1>4 DEF PoolOk
<1>8. Occupancy(z, h, BpLen) \in 0 .. BpLen - 1 /\ Occupancy(z, h, BpLen) + 1 < BpLen
  <2>1. Occupancy(z, h, BpLen) \in 0 .. BpLen - 1
    BY <1>5, <1>7, OccupancyCases
  <2>2. BpLen - Occupancy(z, h, BpLen) - 1 >= 1
    BY <1>4, <1>7 DEF Space
  <2> DEFINE o == Occupancy(z, h, BpLen)
  <2>3. o \in 0 .. BpLen - 1 /\ BpLen - o - 1 >= 1
    BY <2>1, <2>2
  <2> HIDE DEF o
  <2>4. o + 1 < BpLen
    BY <1>5, <2>3
  <2> QED BY <2>1, <2>4 DEF o
<1>9. full2 = full \cup {z} /\ z \notin full /\ Occupancy(v, h, BpLen) = Occupancy(z, h, BpLen) + 1
      /\ v \in 0 .. BpLen - 1 /\ full \subseteq 0 .. BpLen - 1
  <2>1. full = Slots(h, z, BpLen) /\ full2 = Slots(h, v, BpLen)
    BY <1>3, <1>4 DEF FullIn
  <2>2. 1 < BpLen
    <3> DEFINE o == Occupancy(z, h, BpLen)
    <3>1. o \in 0 .. BpLen - 1 /\ o + 1 < BpLen
      BY <1>8
    <3> HIDE DEF o
    <3> QED BY <1>5, <3>1
  <2>3. full \subseteq 0 .. BpLen - 1
    BY <2>1 DEF Slots
  <2> HIDE DEF h, full, full2
  <2> QED BY ZenonT(30), <1>4, <1>5, <1>7, <1>8, <2>1, <2>2, <2>3, NextSlot, OneSlot
<1>10. PoolOk(p, q', msg')
  <2>1. p = "ingress" => Occupancy(q[Pool[p]].qe_tail, h, BpLen) <= Occupancy(v, h, BpLen)
    <3> SUFFICES ASSUME p = "ingress" PROVE Occupancy(q[Pool[p]].qe_tail, h, BpLen) <= Occupancy(v, h, BpLen)
      OBVIOUS
    <3>1. "ingress" \in CopyPayload /\ Pool[p] = "host_bp" /\ PoolAround(q)
      BY Names DEF Regions
    <3> DEFINE t == q[Pool[p]].qe_tail
    <3>2. t \in 0 .. BpLen - 1
      BY <3>1 DEF PoolAround
    <3>3. Occupancy(t, h, BpLen) \in 0 .. BpLen - 1
      BY <1>5, <1>7, <3>2, OccupancyCases
    <3>4. Occupancy(t, h, BpLen) <= Occupancy(z, h, BpLen)
      BY <1>7
    <3> DEFINE o == Occupancy(t, h, BpLen)
    <3> DEFINE o1 == Occupancy(z, h, BpLen)
    <3> DEFINE o2 == Occupancy(v, h, BpLen)
    <3>5. o \in 0 .. BpLen - 1 /\ o1 \in 0 .. BpLen - 1 /\ o <= o1 /\ o2 = o1 + 1
      BY <1>8, <1>9, <3>3, <3>4
    <3> HIDE DEF o, o1, o2
    <3>6. o <= o2
      BY <1>5, <3>5
    <3> QED BY <3>6 DEF o, o2
  <2> QED BY <1>3, <1>7, <1>9, <2>1 DEF PoolOk
<1>11. rp2[z] = b /\ \A i \in full : rp2[i] = rp[i]
  <2>1. DOMAIN rp = 0 .. BpLen - 1
    BY <1>0, Names DEF RingOk
  <2> HIDE DEF rp, rp2, full
  <2> QED BY <1>4, <1>7, <1>9, <2>1
<1>12. p = "ingress" => CopiedOk("shadow", ring'["host_bp"], ring["shadow"], w, fi)
  <2> SUFFICES ASSUME p = "ingress" PROVE CopiedOk("shadow", ring'["host_bp"], ring["shadow"], w, fi)
    OBVIOUS
  <2>1. Pool[p] = "host_bp" /\ PoolAround(q)
    BY Names DEF Regions
  <2> DEFINE t == q["host_bp"].qe_tail
  <2>2. t \in 0 .. BpLen - 1 /\ Occupancy(t, h, BpLen) <= Occupancy(z, h, BpLen)
    BY <1>7, <2>1 DEF PoolAround
  <2>3. fi = Slots(h, t, BpLen) /\ full = Slots(h, z, BpLen)
    BY <1>4, <2>1 DEF FillIn, FullIn
  <2>4. fi \subseteq full
    <3> HIDE DEF h, t, fi, full
    <3> QED BY <1>5, <1>7, <2>2, <2>3, SlotsGrow
  <2>5. CopiedOk("shadow", rp, ring["shadow"], w, fi)
    BY <1>1, <2>1
  <2>6. CopiedOk("shadow", rp2, ring["shadow"], w, fi)
    <3> HIDE DEF rp, rp2, fi, full, w
    <3> QED BY <1>11, <2>4, <2>5 DEF CopiedOk
  <2> QED BY <2>1, <2>6
<1>13. /\ mv \subseteq sent /\ tk \subseteq 0 .. QLen - 1 /\ sent \subseteq 0 .. QLen - 1
  BY <1>5, TakenIs
<1>14. \A i \in tk : e[i].buf \in PoolBufs(p) /\ e[i].buf # b
  <2>1. tk \subseteq 0 .. QLen - 1
    BY <1>13
  <2>2. \A i \in tk : e[i].buf \in PoolBufs(p) /\ e[i].buf \notin owned[p]
    BY <2>1, ElemBuf
  <2> QED BY <1>4, <2>2
<1>15. \A x \in AllBufs : x # b => mem'[x] = mem[x]
  BY <1>4
<1>16. owned'[p] = owned[p] \ {b}
  BY <1>0 DEF Putting
<1>17. b \in PoolBufs(p)
  BY <1>4
<1> HIDE DEF s, d, un, mv, tk, sent, cp, e, full, full2, g, fi, pr, w, tl, rp, rp2, h
<1>18. SourceOk(p, s, mem', sent)
  <2>1. ASSUME NEW i \in sent PROVE mem'[<<Src[p], i>>] = mem[<<Src[p], i>>]
    <3>1. <<Src[p], i>> \in AllBufs /\ <<Src[p], i>> \in SrcBufs /\ b \notin SrcBufs
      BY <1>0, <1>13, <1>17, BufsAre
    <3> QED BY <1>15, <3>1
  <2> QED BY <1>1, <2>1 DEF SourceOk
<1>19. ElemOk(e, s, mem', w, tk, mv)
  <2>1. \A i \in tk : mem'[e[i].buf] = mem[e[i].buf]
    BY <1>0, <1>14, <1>15, BufsAre
  <2> QED BY <1>1, <2>1 DEF ElemOk
<1>20. Spread(PoolBufs(p), Bufs(e), tk, rp2, full2, ring["shadow"], g, owned'[p])
  <2>1. owned'[p] = owned[p] \ {rp2[z]} /\ rp2[z] \in owned[p]
    BY <1>4, <1>11, <1>16
  <2> DEFINE all == PoolBufs(p)
  <2> DEFINE b1 == Bufs(e)
  <2> DEFINE sh == ring["shadow"]
  <2> DEFINE ow == owned[p]
  <2>2. Spread(all, b1, tk, rp, full, sh, g, ow)
    BY <1>1
  <2>3. rp2[z] \in ow /\ owned'[p] = ow \ {rp2[z]}
    BY <2>1
  <2>4. full2 = full \cup {z} /\ z \notin full /\ \A i \in full : rp2[i] = rp[i]
    BY <1>9, <1>11
  <2> HIDE DEF all, b1, sh, ow
  <2>5. Spread(all, b1, tk, rp2, full2, sh, g, ow \ {rp2[z]})
    BY <2>2, <2>3, <2>4, SpreadPut
  <2> QED BY <2>3, <2>5 DEF all, b1, sh, ow
<1> DEFINE r2 == ring'
<1> DEFINE mm2 == mem'
<1> DEFINE q2 == q'
<1> DEFINE m2 == msg'
<1> DEFINE ow2 == owned'[p]
<1>21. ElemsOf(p, r2, UnreadIn(p, m2)) = e
  BY <1>3, <1>6 DEF ElemsOf, e, s, d
<1>22. /\ r2[Src[p]] = s /\ r2[Dst[p]] = d /\ r2[Pool[p]] = rp2 /\ r2["shadow"] = ring["shadow"]
       /\ SentIn(p, m2) = sent /\ UnreadIn(p, m2) = un /\ MovingIn(p, q2, m2) = mv /\ TakenIn(p, q2, m2) = tk
       /\ CopiedIn(p, q2, m2) = cp /\ FullIn(p, q2, m2) = full2 /\ FetchedIn(p, q2) = g /\ FillIn(q2) = fi
       /\ PoolOk(p, q2, m2) /\ m2[Dst[p]].prod = pr /\ SourceOk(p, s, mm2, sent) /\ ElemOk(e, s, mm2, w, tk, mv)
       /\ Spread(PoolBufs(p), Bufs(e), tk, rp2, full2, ring["shadow"], g, ow2)
       /\ (p = "ingress" => CopiedOk("shadow", r2["host_bp"], ring["shadow"], w, fi))
  BY <1>3, <1>6, <1>10, <1>12, <1>18, <1>19, <1>20 DEF rp2, full2
<1> HIDE DEF r2, mm2, q2, m2, ow2
<1>23. DataOf(p, r2, mm2, q2, m2, w, tl, ow2)
  BY <1>1, <1>21, <1>22, DataFrom
<1> QED BY <1>2, <1>23 DEF r2, mm2, q2, m2, ow2

\* The step of a consumer that posts a buffer.
LEMMA PutData == ASSUME NEW p0 \in Pairs PROVE IInv /\ Data /\ PutBuff(p0) => Data'
<1> SUFFICES ASSUME IInv, Data, PutBuff(p0) PROVE Data'
  OBVIOUS
<1>1. Regions(q, msg) /\ RingOk
  BY RegionsIs, Basic
<1>2. /\ mem \in [AllBufs -> Tag \cup {NoData}] /\ nxt \in [Pairs -> Nat] /\ OnlyCopied(Todo)
      /\ owned \in [Pairs -> SUBSET AllPoolBufs] /\ (\A p \in Pairs : owned[p] \subseteq PoolBufs(p))
      /\ \A p \in CopyPayload : DataOf(p, ring, mem, q, msg, Todo, Tails(p), owned[p])
  BY DEF Data, AllBufs
<1>3. PICK z, v, b : Putting(p0, z, v, b)
  BY PutBuffIs
<1>4. Todo' = Todo /\ \A p : Tails(p)' = Tails(p)
  BY <1>3, SameTodo DEF Putting
<1>5. nxt' = nxt /\ q' = q /\ b \in owned[p0] /\ mem' = [mem EXCEPT ![b] = NoData]
      /\ owned' = [owned EXCEPT ![p0] = @ \ {b}]
  BY <1>3 DEF Putting
<1>6. b \in PoolBufs(p0) /\ b \in AllBufs /\ b[1] = Pool[p0]
  BY <1>2, <1>5, BufsAre
<1>7. ASSUME NEW p \in CopyPayload PROVE DataOf(p, ring', mem', q', msg', Todo', Tails(p)', owned'[p])
  <2>1. p \in Pairs /\ DataOf(p, ring, mem, q, msg, Todo, Tails(p), owned[p]) /\ owned[p] \subseteq PoolBufs(p)
    BY <1>2, GieAssumption
  <2>2. CASE p = p0
    BY <1>1, <1>2, <1>3, <2>1, <2>2, PutOne
  <2>3. CASE p # p0
    <3>1. Pool[p0] \in Own(p0)
      BY DEF Own
    <3>2. \A x \in Queues : x \notin Own(p0) => msg'[x] = msg[x] /\ ring'[x] = ring[x] /\ q'[x] = q[x]
      BY <1>3, <1>5, <3>1 DEF Putting
    <3>3. owned'[p] = owned[p]
      BY <1>2, <1>5, <2>1, <2>3
    <3>4. SameWork(p, Todo, Todo')
      BY <1>4, WorkSame
    <3>5. \A x \in AllBufs : x[1] \notin Own(p0) => mem'[x] = mem[x]
      BY <1>2, <1>5, <1>6, <3>1
    <3> QED BY <1>1, <1>4, <2>1, <2>3, <3>2, <3>3, <3>4, <3>5, OtherPair
  <2> QED BY <2>2, <2>3
<1>8. owned' \in [Pairs -> SUBSET AllPoolBufs] /\ \A p \in Pairs : owned'[p] \subseteq PoolBufs(p)
  BY <1>2, <1>5
<1>9. mem' \in [AllBufs -> Tag \cup {NoData}]
  BY <1>2, <1>5, <1>6
<1> QED BY <1>2, <1>4, <1>5, <1>7, <1>8, <1>9 DEF Data, AllBufs, OnlyCopied

-----------------------------------------------------------------------------
(* The DMA engine *)

\* A pair's data after a copy: nothing else but the copy is different.
LEMMA Refresh ==
  ASSUME NEW p \in Pairs, NEW rg, NEW mm, NEW qq, NEW mg, NEW w, NEW tl, NEW ow,
         DataOf(p, rg, mm, qq, mg, w, tl, ow), Around(p, qq, mg), Kinds(w, qq, mg),
         NEW e, e = ElemsOf(p, rg, UnreadIn(p, mg)),
         NEW r2, NEW mm2, NEW w2, \A d \in w2 : d.op = "buf" => d \in w,
         r2[Src[p]] = rg[Src[p]], r2[Dst[p]] \in [0 .. QLen - 1 -> Elements], r2[Pool[p]] = rg[Pool[p]],
         \A i \in UnreadIn(p, mg) : r2[Dst[p]][i] = rg[Dst[p]][i],
         p = "egress" => \A i \in TakenIn(p, qq, mg) : r2[Dst[p]][i] = rg[Dst[p]][i],
         \A i \in FetchedIn(p, qq) : r2["shadow"][i] = rg["shadow"][i],
         \A i \in SentIn(p, mg) : mm2[<<Src[p], i>>] = mm[<<Src[p], i>>],
         \A i \in TakenIn(p, qq, mg) : BufTo(w2, e[i].buf) \/ mm2[e[i].buf] = e[i].tag,
         CopiedOk(Dst[p], rg[Src[p]], r2[Dst[p]], w2, CopiedIn(p, qq, mg)),
         p = "ingress" => CopiedOk("shadow", rg["host_bp"], r2["shadow"], w2, FillIn(qq))
  PROVE  DataOf(p, r2, mm2, qq, mg, w2, tl, ow)
<1> DEFINE s == rg[Src[p]]
<1> DEFINE d == rg[Dst[p]]
<1> DEFINE d2 == r2[Dst[p]]
<1> DEFINE un == UnreadIn(p, mg)
<1> DEFINE mv == MovingIn(p, qq, mg)
<1> DEFINE tk == TakenIn(p, qq, mg)
<1> DEFINE sent == SentIn(p, mg)
<1> DEFINE e2 == ElemsOf(p, r2, un)
<1> DEFINE pr == mg[Dst[p]].prod
<1>1. /\ s \in [0 .. QLen - 1 -> Elements]
      /\ SourceOk(p, s, mm, sent) /\ WholeOk(s, sent) /\ ElemOk(e, s, mm, w, tk, mv) /\ AimedOk(p, e, w)
      /\ CutOk(d, e, un, mv, pr, tl) /\ PoolOk(p, qq, mg)
      /\ Spread(PoolBufs(p), Bufs(e), tk, rg[Pool[p]], FullIn(p, qq, mg), rg["shadow"], FetchedIn(p, qq), ow)
  BY DataIs
<1>2. tk = un \cup mv /\ tk \subseteq 0 .. QLen - 1
  BY TakenIs
<1>3. ASSUME NEW i \in tk PROVE e2[i] = e[i] /\ i \in 0 .. QLen - 1
  <2>1. i \in 0 .. QLen - 1
    BY <1>2
  <2>2. e[i] = (IF p = "ingress" /\ i \notin un THEN s[i] ELSE d[i])
    BY <2>1, ElemsAt
  <2>3. e2[i] = (IF p = "ingress" /\ i \notin un THEN s[i] ELSE d2[i])
    BY <2>1, ElemsAt
  <2>4. p = "egress" \/ p = "ingress"
    BY PairIs
  <2> QED BY <2>1, <2>2, <2>3, <2>4
<1>4. un # {} => Before(pr) \in un
  <2>1. mg[Dst[p]].cons \in 0 .. QLen - 1 /\ pr \in 0 .. QLen - 1
    BY DEF Around
  <2> QED BY <2>1, BeforeIn DEF UnreadIn
<1>5. r2[Src[p]] = s /\ d2 \in [0 .. QLen - 1 -> Elements] /\ \A i \in un : d2[i] = d[i]
  OBVIOUS
<1> HIDE DEF s, d, d2, un, mv, tk, sent, pr
<1>6. ElemOk(e2, s, mm2, w2, tk, mv)
  <2>1. \A i \in tk : e[i].tag \in Tag /\ (BufTo(w2, e[i].buf) \/ mm2[e[i].buf] = e[i].tag)
    BY <1>1 DEF ElemOk, tk
  <2>2. \A i \in tk : e2[i].tag \in Tag /\ (BufTo(w2, e2[i].buf) \/ mm2[e2[i].buf] = e2[i].tag)
    BY <1>3, <2>1
  <2>3. \A i \in mv : e2[i].tag = s[i].tag
    BY <1>1, <1>2, <1>3 DEF ElemOk
  <2> QED BY <2>2, <2>3 DEF ElemOk
<1>7. AimedOk(p, e2, w2)
  <2>1. AimedOk(p, e2, w)
    BY <1>1, <1>2, <1>3, AimedSame DEF mv
  <2> QED BY <2>1 DEF AimedOk
<1>8. SourceOk(p, s, mm2, sent)
  BY <1>1 DEF SourceOk, sent
<1>9. CutOk(d2, e2, un, mv, pr, tl)
  BY <1>1, <1>2, <1>3, <1>4, <1>5 DEF CutOk
<1>10. Spread(PoolBufs(p), Bufs(e2), tk, r2[Pool[p]], FullIn(p, qq, mg), r2["shadow"], FetchedIn(p, qq), ow)
  <2>1. \A i \in tk : Bufs(e2)[i] = Bufs(e)[i]
    BY <1>3, BufsAt
  <2>2. \A i \in FullIn(p, qq, mg) : r2[Pool[p]][i] = rg[Pool[p]][i]
    OBVIOUS
  <2>3. \A i \in FetchedIn(p, qq) : r2["shadow"][i] = rg["shadow"][i]
    OBVIOUS
  <2> QED BY <1>1, <2>1, <2>2, <2>3, SpreadSame
<1>11. p = "ingress" => CopiedOk("shadow", r2["host_bp"], r2["shadow"], w2, FillIn(qq))
  BY Names
<1>12. d2 = r2[Dst[p]]
  BY DEF d2
<1>13. CopiedOk(Dst[p], s, d2, w2, CopiedIn(p, qq, mg))
  BY DEF d2, s
<1>14. e2 = ElemsOf(p, r2, UnreadIn(p, mg))
  BY DEF un
<1> HIDE DEF e2
<1> QED BY <1>1, <1>5, <1>6, <1>7, <1>8, <1>9, <1>10, <1>11, <1>12, <1>13, <1>14, DataFrom DEF un, mv, tk, sent, pr

\* What Dma does.
Running(d) ==
  /\ d \in Todo /\ Todo' \subseteq Todo /\ Todo \subseteq Todo' \cup {d}
  /\ Execute(d) /\ (\A p : Tails(p)' = Tails(p)) /\ UNCHANGED <<q, msg, nxt, owned>>

\* What the engine has is a sequence, done up to some place.
LEMMA HwIs ==
  ASSUME IInv
  PROVE  /\ hw = [descs |-> hw.descs, done |-> hw.done] /\ IsSeq(hw.descs) /\ Len(hw.descs) \in Nat
         /\ hw.done \in 0 .. Len(hw.descs)
<1>1. PICK L, E, U, P, H, X, y : Whole(L, E, U, P, H, X, y)
  BY DEF IInv
<1>2. WorkOf(jobs, left, sub, hw, L, E, U, P, H)
  BY <1>1, Parts
<1> QED BY <1>2 DEF WorkOf, Descs, IsSeq

\* Dma executes one that was to be executed.
LEMMA DmaIs == ASSUME IInv, Dma PROVE \E d : Running(d)
<1> DEFINE k == hw.done + 1
<1> DEFINE D == hw.descs
<1> DEFINE d == D[k]
<1>1. /\ hw.done < Len(D) /\ hw' = [hw EXCEPT !.done = k] /\ Execute(d)
      /\ UNCHANGED <<q, msg, jobs, sub, left, nxt, owned>>
  BY DEF Dma, users
<1>2. hw = [descs |-> D, done |-> hw.done] /\ Len(D) \in Nat /\ hw.done \in 0 .. Len(D)
  BY HwIs
<1>3. hw'.descs = D /\ hw'.done = k
  BY <1>1, <1>2
<1>4. k \in hw.done + 1 .. Len(D) /\ k + 1 .. Len(D) \subseteq hw.done + 1 .. Len(D)
      /\ hw.done + 1 .. Len(D) \subseteq (k + 1 .. Len(D)) \cup {k}
  BY <1>1, <1>2
<1> HIDE DEF k, D
<1>5. PendingDescs = {D[i] : i \in hw.done + 1 .. Len(D)} /\ PendingDescs' = {D[i] : i \in k + 1 .. Len(D)}
  BY <1>3 DEF PendingDescs, D
<1>6. Coming' = Coming
  BY <1>1 DEF Coming
<1>7. d \in Todo /\ Todo' \subseteq Todo /\ Todo \subseteq Todo' \cup {d}
  BY <1>4, <1>5, <1>6 DEF Todo
<1>8. \A p : Tails(p)' = Tails(p)
  BY <1>1 DEF Tails, AllJobs
<1> HIDE DEF d
<1>9. Running(d)
  BY <1>1, <1>7, <1>8 DEF Running
<1> QED BY <1>9

\* What it does to the rings, when it copies elements or entries.
Transfers(x, y, C) ==
  /\ ring'[y] = [i \in DOMAIN ring[y] |-> IF i \in C THEN ring[x][i] ELSE ring[y][i]]
  /\ (\A z \in Queues : z # y => ring'[z] = ring[z]) /\ mem' = mem

\* A copy of elements does that.
LEMMA TransfersIs ==
  ASSUME RingOk, NEW d, Execute(d), NEW x \in Queues, NEW y \in Queues, NEW f, NEW c,
         d = [op |-> "qe", src |-> x, dst |-> y, first |-> f, cnt |-> c]
  PROVE  Transfers(x, y, Covered(d))
<1>1. d.op = "qe" /\ d.src = x /\ d.dst = y
  OBVIOUS
<1> DEFINE v == [i \in DOMAIN ring[y] |-> IF i \in Covered(d) THEN ring[x][i] ELSE ring[y][i]]
<1>2. ring' = [ring EXCEPT ![y] = v] /\ mem' = mem
  BY <1>1 DEF Execute, Covered
<1> HIDE DEF v
<1>3. ring'[y] = v /\ \A z \in Queues : z # y => ring'[z] = ring[z]
  BY <1>2, SetRing
<1> QED BY <1>2, <1>3 DEF Transfers, v

\* What is still to be done is done by other descriptors.
LEMMA StillTo ==
  ASSUME NEW d, Running(d)
  PROVE  /\ \A b : BufTo(Todo, b) /\ ~(d.op = "buf" /\ d.dst = b) => BufTo(Todo', b)
         /\ \A x, i : CopyTo(Todo, x, i) /\ ~(d.op = "qe" /\ d.dst = x /\ i \in Covered(d)) => CopyTo(Todo', x, i)
         /\ \A f \in Todo' : f \in Todo
BY DEF Running, BufTo, CopyTo

\* A buffer is copied to the element that has it, and to no other.
LEMMA DmaBuf ==
  ASSUME NEW p \in CopyPayload, DataOf(p, ring, mem, q, msg, Todo, Tails(p), owned[p]), Regions(q, msg),
         Kinds(Todo, q, msg), mem \in [AllBufs -> Tag \cup {NoData}],
         NEW d, Running(d), OfBuffer(d, p, q, msg)
  PROVE  /\ DataOf(p, ring', mem', q', msg', Todo', Tails(p)', owned'[p])
         /\ d.dst \in PoolBufs(p) /\ d.op = "buf" /\ ring' = ring
         /\ mem' = [mem EXCEPT ![d.dst] = mem[d.src]] /\ mem[d.src] \in Tag
<1> DEFINE s == ring[Src[p]]
<1> DEFINE un == UnreadIn(p, msg)
<1> DEFINE mv == MovingIn(p, q, msg)
<1> DEFINE tk == TakenIn(p, q, msg)
<1> DEFINE sent == SentIn(p, msg)
<1> DEFINE e == ElemsOf(p, ring, un)
<1> DEFINE w == Todo
<1> DEFINE w2 == Todo'
<1>0. p \in Pairs
  BY GieAssumption
<1>1. /\ s \in [0 .. QLen - 1 -> Elements] /\ ring[Dst[p]] \in [0 .. QLen - 1 -> Elements]
      /\ SourceOk(p, s, mem, sent) /\ ElemOk(e, s, mem, w, tk, mv) /\ AimedOk(p, e, w)
      /\ CopiedOk(Dst[p], s, ring[Dst[p]], w, CopiedIn(p, q, msg))
      /\ (p = "ingress" => CopiedOk("shadow", ring["host_bp"], ring["shadow"], w, FillIn(q)))
  BY DataIs
<1>2. Around(p, q, msg)
  BY <1>0 DEF Regions
<1>3. tk = un \cup mv /\ tk \subseteq 0 .. QLen - 1 /\ mv \subseteq sent /\ sent \subseteq 0 .. QLen - 1
  BY <1>2, TakenIs
<1>4. PICK i \in mv : \E b : d = [op |-> "buf", src |-> <<Src[p], i>>, dst |-> b]
  BY DEF OfBuffer
<1>5. PICK b : d = [op |-> "buf", src |-> <<Src[p], i>>, dst |-> b]
  BY <1>4
<1>6. d.op = "buf" /\ d.src = <<Src[p], i>> /\ d.src[1] = Src[p] /\ d.src[2] = i /\ d.dst = b /\ d \in w
  BY <1>5 DEF Running
<1>7. b = e[i].buf
  BY <1>1, <1>6 DEF AimedOk
<1>8. /\ \A k \in tk : e[k].buf \in PoolBufs(p)
      /\ \A k, l \in tk : e[k].buf = e[l].buf => k = l
  BY <1>3, ElemBuf
<1>9. mem' = [mem EXCEPT ![b] = mem[<<Src[p], i>>]] /\ ring' = ring
  BY <1>6 DEF Running, Execute
<1>10. s[i].tag \in Tag /\ mem[<<Src[p], i>>] = s[i].tag /\ e[i].tag = s[i].tag
  BY <1>1, <1>3 DEF SourceOk, ElemOk
<1>11. b \in PoolBufs(p) /\ b \in AllBufs /\ b \notin SrcBufs
  BY <1>0, <1>3, <1>7, <1>8, BufsAre
<1> HIDE DEF s, un, mv, tk, sent, e, w, w2
<1>12. mem'[b] = s[i].tag /\ \A c \in AllBufs : c # b => mem'[c] = mem[c]
  BY <1>9, <1>10, <1>11
<1>13. \A k \in tk : BufTo(w2, e[k].buf) \/ mem'[e[k].buf] = e[k].tag
  <2>1. ASSUME NEW k \in tk PROVE BufTo(w2, e[k].buf) \/ mem'[e[k].buf] = e[k].tag
    <3>1. CASE k = i
      BY <1>7, <1>10, <1>12, <3>1
    <3>2. CASE k # i
      <4>1. e[k].buf # b /\ e[k].buf \in PoolBufs(p)
        BY <1>3, <1>7, <1>8, <3>2
      <4>2. BufTo(w, e[k].buf) \/ mem[e[k].buf] = e[k].tag
        BY <1>1 DEF ElemOk
      <4>3. BufTo(w, e[k].buf) => BufTo(w2, e[k].buf)
        BY <1>6, <4>1, StillTo DEF w, w2
      <4>4. mem'[e[k].buf] = mem[e[k].buf]
        BY <1>0, <1>12, <4>1, BufsAre
      <4> QED BY <4>2, <4>3, <4>4
    <3> QED BY <3>1, <3>2
  <2> QED BY <2>1
<1>14. \A k \in sent : mem'[<<Src[p], k>>] = mem[<<Src[p], k>>]
  <2>1. ASSUME NEW k \in sent PROVE mem'[<<Src[p], k>>] = mem[<<Src[p], k>>]
    <3>1. <<Src[p], k>> \in SrcBufs /\ <<Src[p], k>> \in AllBufs
      BY <1>0, <1>3, BufsAre
    <3> QED BY <1>11, <1>12, <3>1
  <2> QED BY <2>1
<1>15. \A x, k : CopyTo(w, x, k) => CopyTo(w2, x, k)
  BY <1>6, StillTo DEF w, w2
<1>16. CopiedOk(Dst[p], s, ring[Dst[p]], w2, CopiedIn(p, q, msg))
  BY <1>1, <1>15 DEF CopiedOk
<1>17. p = "ingress" => CopiedOk("shadow", ring["host_bp"], ring["shadow"], w2, FillIn(q))
  BY <1>1, <1>15 DEF CopiedOk
<1>18. w2 \subseteq w /\ q' = q /\ msg' = msg /\ owned' = owned /\ Tails(p)' = Tails(p)
  BY DEF Running, w, w2
<1> DEFINE mm2 == mem'
<1> DEFINE tl == Tails(p)
<1>19. /\ DataOf(p, ring, mem, q, msg, w, tl, owned[p]) /\ Kinds(w, q, msg) /\ e = ElemsOf(p, ring, UnreadIn(p, msg))
       /\ (\A k \in SentIn(p, msg) : mm2[<<Src[p], k>>] = mem[<<Src[p], k>>])
       /\ (\A k \in TakenIn(p, q, msg) : BufTo(w2, e[k].buf) \/ mm2[e[k].buf] = e[k].tag)
       /\ CopiedOk(Dst[p], ring[Src[p]], ring[Dst[p]], w2, CopiedIn(p, q, msg))
       /\ (\A f \in w2 : f.op = "buf" => f \in w)
  BY <1>13, <1>14, <1>16, <1>18 DEF w, un, e, s, tk, sent
<1> HIDE DEF mm2, tl
<1>20. DataOf(p, ring, mm2, q, msg, w2, tl, owned[p])
  BY <1>0, <1>1, <1>2, <1>17, <1>19, Refresh
<1> QED BY <1>6, <1>9, <1>10, <1>11, <1>18, <1>20 DEF mm2, w2, tl


\* Elements are copied where nothing is looked at, and what is copied is what
\* the source has.
LEMMA DmaElements ==
  ASSUME NEW p \in CopyPayload, DataOf(p, ring, mem, q, msg, Todo, Tails(p), owned[p]), Regions(q, msg),
         Kinds(Todo, q, msg), RingOk, NEW d, Running(d), OfElements(d, p, q, msg)
  PROVE  DataOf(p, ring', mem', q', msg', Todo', Tails(p)', owned'[p])
<1> DEFINE s == ring[Src[p]]
<1> DEFINE t == ring[Dst[p]]
<1> DEFINE t2 == ring'[Dst[p]]
<1> DEFINE un == UnreadIn(p, msg)
<1> DEFINE mv == MovingIn(p, q, msg)
<1> DEFINE tk == TakenIn(p, q, msg)
<1> DEFINE cp == CopiedIn(p, q, msg)
<1> DEFINE nm == NamedIn(p, q, msg)
<1> DEFINE e == ElemsOf(p, ring, un)
<1> DEFINE w == Todo
<1> DEFINE w2 == Todo'
<1> DEFINE C == Covered(d)
<1>0. p \in Pairs /\ Around(p, q, msg)
  BY GieAssumption DEF Regions
<1>1. /\ s \in [0 .. QLen - 1 -> Elements] /\ t \in [0 .. QLen - 1 -> Elements]
      /\ ElemOk(e, s, mem, w, tk, mv) /\ CopiedOk(Dst[p], s, t, w, cp)
      /\ (p = "ingress" => CopiedOk("shadow", ring["host_bp"], ring["shadow"], w, FillIn(q)))
  BY DataIs
<1>2. tk = un \cup mv /\ un \cap mv = {} /\ tk \subseteq 0 .. QLen - 1
  BY <1>0, TakenIs
<1>3. nm \subseteq cp /\ nm \cap un = {} /\ (p = "egress" => nm \cap tk = {}) /\ cp \subseteq 0 .. QLen - 1
  <2>1. CASE p = "egress"
    <3>1. /\ cp = ArrivedIn(q) \cup nm /\ cp \cap tk = {} /\ cp \subseteq SentIn(p, msg)
      BY <1>0, <2>1, CopiedAre DEF Regions
    <3>2. SentIn(p, msg) \subseteq 0 .. QLen - 1
      BY <1>0, TakenIs
    <3> HIDE DEF cp, nm, un, tk, mv
    <3> QED BY <1>2, <3>1, <3>2
  <2>2. CASE p # "egress"
    <3>1. cp = mv /\ nm = mv
      BY <2>2 DEF CopiedIn, NamedIn
    <3> HIDE DEF cp, nm, un, tk, mv
    <3> QED BY <1>2, <2>2, <3>1
  <2> QED BY <2>1, <2>2
<1>4. PICK f, c \in Nat : d = [op |-> "qe", src |-> Src[p], dst |-> Dst[p], first |-> f, cnt |-> c]
  BY DEF OfElements
<1>5. d.op = "qe" /\ d.dst = Dst[p]
  BY <1>4
<1>6. C \subseteq nm
  BY DEF OfElements
<1>7. Execute(d) /\ w2 \subseteq w /\ q' = q /\ msg' = msg /\ owned' = owned /\ Tails(p)' = Tails(p)
  BY DEF Running
<1>8. Transfers(Src[p], Dst[p], C)
  BY <1>0, <1>4, <1>7, Names, TransfersIs
<1>9. /\ ring'[Src[p]] = s /\ ring'[Pool[p]] = ring[Pool[p]] /\ ring'["shadow"] = ring["shadow"] /\ mem' = mem
      /\ t2 = [i \in DOMAIN t |-> IF i \in C THEN s[i] ELSE t[i]]
  BY <1>0, <1>8, Names, Apart DEF Transfers
<1> HIDE DEF s, t, t2, un, mv, tk, cp, nm, e, w, w2, C
<1>10. /\ t2 \in [0 .. QLen - 1 -> Elements]
       /\ \A i \in 0 .. QLen - 1 : t2[i] = IF i \in C THEN s[i] ELSE t[i]
  BY <1>1, <1>9
<1>11. \A b : BufTo(w, b) => BufTo(w2, b)
  BY <1>5, StillTo DEF w, w2
<1>12. \A x, i : CopyTo(w, x, i) /\ ~(x = Dst[p] /\ i \in C) => CopyTo(w2, x, i)
  BY <1>5, StillTo DEF w, w2, C
<1>13. CopiedOk(Dst[p], s, t2, w2, cp)
  <2>1. ASSUME NEW i \in cp PROVE CopyTo(w2, Dst[p], i) \/ t2[i] = s[i]
    BY <1>1, <1>3, <1>10, <1>12 DEF CopiedOk
  <2> QED BY <2>1 DEF CopiedOk
<1>14. p = "ingress" => CopiedOk("shadow", ring["host_bp"], ring'["shadow"], w2, FillIn(q))
  <2>1. "shadow" # Dst[p]
    BY <1>0, Apart
  <2> QED BY <1>1, <1>9, <1>12, <2>1 DEF CopiedOk
<1>15. /\ \A i \in un : t2[i] = t[i]
       /\ (p = "egress" => \A i \in tk : t2[i] = t[i])
  BY <1>2, <1>3, <1>6, <1>10
<1>16. \A i \in tk : BufTo(w2, e[i].buf) \/ mem[e[i].buf] = e[i].tag
  BY <1>1, <1>11 DEF ElemOk
<1> DEFINE r2 == ring'
<1> DEFINE mm2 == mem'
<1> DEFINE tl == Tails(p)
<1>17. /\ DataOf(p, ring, mem, q, msg, w, tl, owned[p]) /\ Kinds(w, q, msg) /\ e = ElemsOf(p, ring, UnreadIn(p, msg))
       /\ (\A f2 \in w2 : f2.op = "buf" => f2 \in w)
       /\ r2[Src[p]] = ring[Src[p]] /\ r2[Dst[p]] \in [0 .. QLen - 1 -> Elements] /\ r2[Pool[p]] = ring[Pool[p]]
       /\ (\A i \in UnreadIn(p, msg) : r2[Dst[p]][i] = ring[Dst[p]][i])
       /\ (p = "egress" => \A i \in TakenIn(p, q, msg) : r2[Dst[p]][i] = ring[Dst[p]][i])
       /\ (\A i \in FetchedIn(p, q) : r2["shadow"][i] = ring["shadow"][i])
       /\ (\A i \in SentIn(p, msg) : mm2[<<Src[p], i>>] = mem[<<Src[p], i>>])
       /\ (\A i \in TakenIn(p, q, msg) : BufTo(w2, e[i].buf) \/ mm2[e[i].buf] = e[i].tag)
       /\ CopiedOk(Dst[p], ring[Src[p]], r2[Dst[p]], w2, CopiedIn(p, q, msg))
       /\ (p = "ingress" => CopiedOk("shadow", ring["host_bp"], r2["shadow"], w2, FillIn(q)))
  BY <1>7, <1>9, <1>10, <1>13, <1>14, <1>15, <1>16 DEF w, un, tk, e, s, t, t2, cp
<1> HIDE DEF r2, mm2, tl
<1>18. DataOf(p, r2, mm2, q, msg, w2, tl, owned[p])
  BY <1>0, <1>17, Refresh
<1> QED BY <1>7, <1>18 DEF r2, mm2, w2, tl

\* Entries of the host's pool are copied where the shadow has none yet.
LEMMA DmaEntries ==
  ASSUME NEW p \in CopyPayload, p = "ingress", DataOf(p, ring, mem, q, msg, Todo, Tails(p), owned[p]),
         Regions(q, msg), Kinds(Todo, q, msg), RingOk, FillFits, NEW d, Running(d), OfPool(d, q)
  PROVE  DataOf(p, ring', mem', q', msg', Todo', Tails(p)', owned'[p])
<1> DEFINE h == ring["host_bp"]
<1> DEFINE t == ring["shadow"]
<1> DEFINE t2 == ring'["shadow"]
<1> DEFINE un == UnreadIn(p, msg)
<1> DEFINE mv == MovingIn(p, q, msg)
<1> DEFINE tk == TakenIn(p, q, msg)
<1> DEFINE fi == FillIn(q)
<1> DEFINE e == ElemsOf(p, ring, un)
<1> DEFINE w == Todo
<1> DEFINE w2 == Todo'
<1> DEFINE C == Covered(d)
<1>0. p \in Pairs /\ Around(p, q, msg) /\ PoolAround(q) /\ Pool[p] = "host_bp" /\ Src[p] = "lcl_tx" /\ Dst[p] = "host_rx"
  BY GieAssumption, Names DEF Regions
<1>1. /\ ring[Dst[p]] \in [0 .. QLen - 1 -> Elements]
      /\ ElemOk(e, ring[Src[p]], mem, w, tk, mv)
      /\ CopiedOk(Dst[p], ring[Src[p]], ring[Dst[p]], w, CopiedIn(p, q, msg))
      /\ CopiedOk("shadow", h, t, w, fi)
  BY DataIs
<1>2. FillLeft(q) \subseteq fi /\ FetchedIn("ingress", q) \cap fi = {}
  BY <1>0, FillsAre
<1>4. PICK f, c \in Nat : d = [op |-> "qe", src |-> "host_bp", dst |-> "shadow", first |-> f, cnt |-> c]
  BY DEF OfPool
<1>5. d.op = "qe" /\ d.dst = "shadow"
  BY <1>4
<1>6. C \subseteq fi
  BY <1>2 DEF OfPool
<1>7. Execute(d) /\ w2 \subseteq w /\ q' = q /\ msg' = msg /\ owned' = owned /\ Tails(p)' = Tails(p)
  BY DEF Running
<1>8. Transfers("host_bp", "shadow", C)
  BY <1>0, <1>4, <1>7, Names, TransfersIs
<1>9. /\ ring'[Src[p]] = ring[Src[p]] /\ ring'[Dst[p]] = ring[Dst[p]] /\ ring'[Pool[p]] = h /\ mem' = mem
      /\ t2 = [i \in DOMAIN t |-> IF i \in C THEN h[i] ELSE t[i]]
  BY <1>0, <1>8, Names, Apart DEF Transfers
<1>10. DOMAIN t = 0 .. BpLen - 1 /\ fi \subseteq 0 .. BpLen - 1 /\ FetchedIn(p, q) \subseteq 0 .. BpLen - 1
  BY Names DEF RingOk, FillIn, FetchedIn, Slots
<1> HIDE DEF h, t, t2, un, mv, tk, fi, e, w, w2, C
<1>11. \A i \in 0 .. BpLen - 1 : t2[i] = IF i \in C THEN h[i] ELSE t[i]
  BY <1>9, <1>10
<1>12. \A b : BufTo(w, b) => BufTo(w2, b)
  BY <1>5, StillTo DEF w, w2
<1>13. \A x, i : CopyTo(w, x, i) /\ ~(x = "shadow" /\ i \in C) => CopyTo(w2, x, i)
  BY <1>5, StillTo DEF w, w2, C
<1>14. CopiedOk("shadow", h, t2, w2, fi)
  <2>1. ASSUME NEW i \in fi PROVE CopyTo(w2, "shadow", i) \/ t2[i] = h[i]
    BY <1>1, <1>10, <1>11, <1>13 DEF CopiedOk
  <2> QED BY <2>1 DEF CopiedOk
<1>15. CopiedOk(Dst[p], ring[Src[p]], ring[Dst[p]], w2, CopiedIn(p, q, msg))
  <2>1. "shadow" # Dst[p]
    BY <1>0, Apart
  <2> QED BY <1>1, <1>13, <2>1 DEF CopiedOk
<1>16. \A i \in FetchedIn(p, q) : t2[i] = t[i]
  BY <1>2, <1>6, <1>10, <1>11
<1>17. \A i \in tk : BufTo(w2, e[i].buf) \/ mem[e[i].buf] = e[i].tag
  BY <1>1, <1>12 DEF ElemOk
<1> DEFINE r2 == ring'
<1> DEFINE mm2 == mem'
<1> DEFINE tl == Tails(p)
<1>18. /\ DataOf(p, ring, mem, q, msg, w, tl, owned[p]) /\ Kinds(w, q, msg) /\ e = ElemsOf(p, ring, UnreadIn(p, msg))
       /\ (\A f2 \in w2 : f2.op = "buf" => f2 \in w)
       /\ r2[Src[p]] = ring[Src[p]] /\ r2[Dst[p]] = ring[Dst[p]] /\ r2[Pool[p]] = ring[Pool[p]]
       /\ (\A i \in FetchedIn(p, q) : r2["shadow"][i] = ring["shadow"][i])
       /\ (\A i \in SentIn(p, msg) : mm2[<<Src[p], i>>] = mem[<<Src[p], i>>])
       /\ (\A i \in TakenIn(p, q, msg) : BufTo(w2, e[i].buf) \/ mm2[e[i].buf] = e[i].tag)
       /\ CopiedOk(Dst[p], ring[Src[p]], r2[Dst[p]], w2, CopiedIn(p, q, msg))
       /\ CopiedOk("shadow", ring["host_bp"], r2["shadow"], w2, FillIn(q))
  BY <1>0, <1>7, <1>9, <1>14, <1>15, <1>16, <1>17 DEF w, un, tk, e, h, t, t2, fi
<1> HIDE DEF r2, mm2, tl
<1>19. DataOf(p, r2, mm2, q, msg, w2, tl, owned[p])
  BY <1>0, <1>1, <1>18, Refresh
<1> QED BY <1>7, <1>19 DEF r2, mm2, w2, tl

\* The work for another pair does not change when a descriptor of this one is
\* done.
LEMMA WorkLess ==
  ASSUME NEW p \in Pairs, NEW d, Running(d), d.op = "buf" => d.dst \notin PoolBufs(p),
         d.op = "qe" => d.dst # Dst[p] /\ (p = "ingress" => d.dst # "shadow")
  PROVE  SameWork(p, Todo, Todo')
<1>1. \A b \in PoolBufs(p) : BufTo(Todo, b) => BufTo(Todo', b)
  BY StillTo
<1>2. \A i : CopyTo(Todo, Dst[p], i) => CopyTo(Todo', Dst[p], i)
  BY StillTo
<1>3. p = "ingress" => \A i : CopyTo(Todo, "shadow", i) => CopyTo(Todo', "shadow", i)
  BY StillTo
<1>4. \A f \in Todo' : f \in Todo
  BY StillTo
<1> QED BY <1>1, <1>2, <1>3, <1>4 DEF SameWork

\* The step of the engine.
LEMMA DmaData == ASSUME FillFits PROVE IInv /\ Data /\ Dma => Data'
<1> SUFFICES ASSUME IInv, Data, Dma PROVE Data'
  OBVIOUS
<1>1. Regions(q, msg) /\ Kinds(Todo, q, msg) /\ RingOk
  BY RegionsIs, KindsIs, Basic
<1>2. /\ mem \in [AllBufs -> Tag \cup {NoData}] /\ nxt \in [Pairs -> Nat] /\ OnlyCopied(Todo)
      /\ owned \in [Pairs -> SUBSET AllPoolBufs] /\ (\A p \in Pairs : owned[p] \subseteq PoolBufs(p))
      /\ \A p \in CopyPayload : DataOf(p, ring, mem, q, msg, Todo, Tails(p), owned[p])
  BY DEF Data, AllBufs
<1>3. PICK d : Running(d)
  BY DmaIs
<1>4. /\ d \in Todo /\ Todo' \subseteq Todo /\ Execute(d) /\ q' = q /\ msg' = msg /\ nxt' = nxt /\ owned' = owned
      /\ \A p : Tails(p)' = Tails(p)
  BY <1>3 DEF Running
<1>5. Kind(d, q, msg)
  BY <1>1, <1>4 DEF Kinds
<1>6. CASE \E o \in Pairs : OfBuffer(d, o, q, msg)
  <2>1. PICK o \in Pairs : OfBuffer(d, o, q, msg)
    BY <1>6
  <2>2. d.op = "buf" /\ d.src[1] = Src[o]
    BY <2>1 DEF OfBuffer
  <2>3. o \in CopyPayload
    <3>1. PICK p \in CopyPayload : d.src[1] = Src[p]
      BY <1>2, <1>4, <2>2 DEF OnlyCopied
    <3>2. p \in Pairs
      BY GieAssumption
    <3> QED BY <2>2, <3>1, <3>2, Apart
  <2>4. /\ DataOf(o, ring', mem', q', msg', Todo', Tails(o)', owned'[o])
        /\ d.dst \in PoolBufs(o) /\ ring' = ring
        /\ mem' = [mem EXCEPT ![d.dst] = mem[d.src]] /\ mem[d.src] \in Tag
    BY <1>1, <1>2, <1>3, <2>1, <2>3, DmaBuf
  <2>5. d.dst[1] = Pool[o] /\ Pool[o] \in Own(o) /\ d.dst \in AllBufs
    BY <2>1, <2>4, BufsAre DEF Own
  <2>6. ASSUME NEW p \in CopyPayload PROVE DataOf(p, ring', mem', q', msg', Todo', Tails(p)', owned'[p])
    <3>1. CASE p = o
      BY <2>4, <3>1
    <3>2. CASE p # o
      <4>1. p \in Pairs /\ DataOf(p, ring, mem, q, msg, Todo, Tails(p), owned[p])
        BY <1>2, GieAssumption
      <4>2. d.dst \notin PoolBufs(p)
        BY <2>1, <2>4, <3>2, <4>1, BufsAre
      <4>3. SameWork(p, Todo, Todo')
        BY <1>3, <2>2, <4>1, <4>2, WorkLess
      <4>4. \A x \in AllBufs : x[1] \notin Own(o) => mem'[x] = mem[x]
        BY <1>2, <2>4, <2>5
      <4> QED BY <1>1, <1>4, <2>1, <2>4, <3>2, <4>1, <4>3, <4>4, OtherPair
    <3> QED BY <3>1, <3>2
  <2>7. mem' \in [AllBufs -> Tag \cup {NoData}]
    BY <1>2, <2>4, <2>5
  <2> QED BY <1>2, <1>4, <2>6, <2>7 DEF Data, AllBufs, OnlyCopied
<1>7. CASE \E o \in Pairs : OfElements(d, o, q, msg)
  <2>1. PICK o \in Pairs : OfElements(d, o, q, msg)
    BY <1>7
  <2>2. PICK f, c \in Nat : d = [op |-> "qe", src |-> Src[o], dst |-> Dst[o], first |-> f, cnt |-> c]
    BY <2>1 DEF OfElements
  <2>3. d.op = "qe" /\ d.dst = Dst[o] /\ Dst[o] \in Own(o)
    BY <2>2 DEF Own
  <2>4. Transfers(Src[o], Dst[o], Covered(d))
    BY <1>1, <1>4, <2>1, <2>2, Names, TransfersIs
  <2>5. mem' = mem /\ \A x \in Queues : x # Dst[o] => ring'[x] = ring[x]
    BY <2>4 DEF Transfers
  <2>6. ASSUME NEW p \in CopyPayload PROVE DataOf(p, ring', mem', q', msg', Todo', Tails(p)', owned'[p])
    <3>0. p \in Pairs /\ DataOf(p, ring, mem, q, msg, Todo, Tails(p), owned[p])
      BY <1>2, GieAssumption
    <3>1. CASE p = o
      BY <1>1, <1>3, <2>1, <3>0, <3>1, DmaElements
    <3>2. CASE p # o
      <4>1. d.dst # Dst[p] /\ d.dst # "shadow"
        BY <2>1, <2>3, <3>0, <3>2, Apart
      <4>2. SameWork(p, Todo, Todo')
        BY <1>3, <2>3, <3>0, <4>1, WorkLess
      <4> QED BY <1>1, <1>4, <2>1, <2>3, <2>5, <3>0, <3>2, <4>2, OtherPair
    <3> QED BY <3>1, <3>2
  <2> QED BY <1>2, <1>4, <2>5, <2>6 DEF Data, AllBufs, OnlyCopied
<1>8. CASE OfPool(d, q)
  <2>1. PICK f, c \in Nat : d = [op |-> "qe", src |-> "host_bp", dst |-> "shadow", first |-> f, cnt |-> c]
    BY <1>8 DEF OfPool
  <2> DEFINE o == "ingress"
  <2>2. d.op = "qe" /\ d.dst = "shadow" /\ o \in CopyPayload /\ o \in Pairs /\ Pool[o] = "host_bp" /\ "shadow" \in Own(o)
    BY <1>8, <2>1, Names, GieAssumption DEF OfPool, Own
  <2>3. Transfers("host_bp", "shadow", Covered(d))
    <3>1. "host_bp" \in Queues /\ "shadow" \in Queues
      BY <2>2, Names
    <3> QED BY <1>1, <1>4, <2>1, <3>1, TransfersIs
  <2>4. mem' = mem /\ \A x \in Queues : x # "shadow" => ring'[x] = ring[x]
    BY <2>3 DEF Transfers
  <2>5. ASSUME NEW p \in CopyPayload PROVE DataOf(p, ring', mem', q', msg', Todo', Tails(p)', owned'[p])
    <3>0. p \in Pairs /\ DataOf(p, ring, mem, q, msg, Todo, Tails(p), owned[p])
      BY <1>2, GieAssumption
    <3>1. CASE p = o
      BY <1>1, <1>3, <1>8, <3>0, <3>1, DmaEntries
    <3>2. CASE p # o
      <4>1. d.dst # Dst[p]
        BY <2>2, <3>0, Apart
      <4>2. SameWork(p, Todo, Todo')
        BY <1>3, <2>2, <3>0, <3>2, <4>1, WorkLess
      <4>3. \A x \in Queues : x \notin Own(o) => msg'[x] = msg[x] /\ ring'[x] = ring[x] /\ q'[x] = q[x]
        BY <1>4, <2>2, <2>4
      <4> QED BY <1>1, <1>4, <2>2, <2>4, <3>0, <3>2, <4>2, <4>3, OtherPair
    <3> QED BY <3>1, <3>2
  <2> QED BY <1>2, <1>4, <2>4, <2>5 DEF Data, AllBufs, OnlyCopied
<1> QED BY <1>5, <1>6, <1>7, <1>8 DEF Kind

-----------------------------------------------------------------------------
(* gie_clean_dma_jobs *)

\* Copies that are not completed are of these slots.
LEMMA CopyNamed ==
  ASSUME NEW p \in Pairs, NEW qq, NEW mg, NEW w, Kinds(w, qq, mg)
  PROVE  /\ \A i : CopyTo(w, Dst[p], i) => i \in NamedIn(p, qq, mg)
         /\ \A i : CopyTo(w, "shadow", i) => i \in FillLeft(qq)
<1>1. ASSUME NEW d \in w, d.op = "qe"
      PROVE  (\E o \in Pairs : d.dst = Dst[o] /\ Covered(d) \subseteq NamedIn(o, qq, mg))
             \/ (d.dst = "shadow" /\ Covered(d) \subseteq FillLeft(qq))
  <2>1. Kind(d, qq, mg)
    BY DEF Kinds
  <2>2. \A o \in Pairs : ~OfBuffer(d, o, qq, mg)
    BY <1>1 DEF OfBuffer
  <2>3. ASSUME NEW o \in Pairs, OfElements(d, o, qq, mg)
        PROVE  d.dst = Dst[o] /\ Covered(d) \subseteq NamedIn(o, qq, mg)
    BY <2>3 DEF OfElements
  <2>4. ASSUME OfPool(d, qq) PROVE d.dst = "shadow" /\ Covered(d) \subseteq FillLeft(qq)
    BY <2>4 DEF OfPool
  <2> QED BY <2>1, <2>2, <2>3, <2>4 DEF Kind
<1>2. \A o \in Pairs : Dst[o] # "shadow" /\ (Dst[o] = Dst[p] => o = p)
  BY Apart
<1> QED BY <1>1, <1>2 DEF CopyTo

\* The next of the last slots is one of them.
LEMMA NextIn ==
  ASSUME NEW n \in Nat \ {0}, NEW a \in 0 .. n - 1, NEW b \in 0 .. n - 1, NEW z \in 0 .. n - 1,
         NEW i \in Slots(b, z, n), NEW j, j = q_idx_add(i, 1, n), j \in Slots(a, z, n)
  PROVE  j \in Slots(b, z, n)
<1>1. i \in 0 .. n - 1 /\ IF b <= z THEN b <= i /\ i < z ELSE b <= i \/ i < z
  BY SlotIs
<1>2. j \in 0 .. n - 1 /\ IF a <= z THEN a <= j /\ j < z ELSE a <= j \/ j < z
  BY SlotIs
<1>3. 1 \in 0 .. n - 1
  BY <1>1
<1>4. j = IF i + 1 < n THEN i + 1 ELSE i + 1 - n
  BY <1>1, <1>3, AddCases
<1>5. IF b <= z THEN b <= j /\ j < z ELSE b <= j \/ j < z
  BY <1>1, <1>2, <1>4
<1> QED BY <1>2, <1>5, SlotIs

\* What is published after r jobs is what was, or as far as one of them gets.
LEMMA LastTail ==
  ASSUME NEW L, NEW E, NEW U, NEW P, Typed(L, E, U, P), Steps(L, E, U, P), NEW r \in 0 .. Len(L), NEW p \in Pairs
  PROVE  P[p][r] = P[p][0] \/ \E i \in 1 .. r : Carries(L[i], p) /\ L[i].tail = P[p][r] % QLen
<1> DEFINE S == {i \in 0 .. r : i = 0 \/ Carries(L[i], p)}
<1>1. Len(L) \in Nat /\ r \in Nat
  BY StepsAre
<1>2. S \in SUBSET (0 .. r) /\ 0 \in S
  BY <1>1
<1>3. PICK x \in S : \A y \in S : y <= x
  <2> HIDE DEF S
  <2>1. S # {}
    BY <1>2
  <2> QED BY <1>1, <1>2, <2>1, NatMax
<1>4. x \in 0 .. r /\ (x = 0 \/ Carries(L[x], p)) /\ r - x \in Nat /\ x + (r - x) = r /\ x + 0 = x
  BY <1>1, <1>3
<1> DEFINE f == [i \in 0 .. r - x |-> P[p][x + i]]
<1>5. ASSUME NEW i \in 1 .. r - x PROVE f[i] = f[i - 1]
  <2>1. x + i \in 1 .. Len(L) /\ x + i \in 0 .. r /\ (x + i) - 1 = x + (i - 1) /\ i \in 0 .. r - x /\ i - 1 \in 0 .. r - x
        /\ ~(x + i <= x)
    BY <1>1, <1>4
  <2>2. ~Carries(L[x + i], p)
    BY <1>3, <2>1
  <2>3. P[p][x + i] = P[p][(x + i) - 1]
    BY <2>1, <2>2 DEF Steps
  <2> QED BY <2>1, <2>3
<1>6. f[r - x] = f[0]
  <2>1. \A i \in 0 .. r - x : f[i] = f[0]
    <3> HIDE DEF f
    <3> QED BY <1>4, <1>5, Still
  <2> QED BY <1>4, <2>1
<1>7. P[p][r] = P[p][x]
  <2>1. f[r - x] = P[p][x + (r - x)] /\ f[0] = P[p][x + 0]
    BY <1>4
  <2> HIDE DEF f
  <2> QED BY <1>4, <1>6, <2>1
<1>8. CASE x = 0
  BY <1>7, <1>8
<1>9. CASE x # 0
  <2>1. x \in 1 .. r /\ x \in 1 .. Len(L) /\ Carries(L[x], p)
    BY <1>1, <1>4, <1>9
  <2>2. L[x].tail = P[p][x] % QLen
    BY <2>1 DEF Steps
  <2> QED BY <1>7, <2>1, <2>2
<1> QED BY <1>8, <1>9

\* The clean-up completes nothing.
LEMMA CleanTodo ==
  ASSUME NEW js, NEW l, NEW L, NEW E, NEW U, NEW P, NEW H, WorkOf(js, l, sub, hw, L, E, U, P, H),
         gie_clean_dma_jobs(js), UNCHANGED sub
  PROVE  Todo' = Todo
<1>n. PICK n : n = hw.done
  OBVIOUS
<1>2. /\ Len(hw.descs) \in Nat /\ n \in 0 .. Len(hw.descs) /\ IsSeq(hw.descs)
  BY <1>n, WorkIs
<1> DEFINE h2 == [descs |-> SubSeq(hw.descs, n + 1, Len(hw.descs)), done |-> 0]
<1>6. hw' = h2
  BY <1>n DEF gie_clean_dma_jobs
<1>3. Coming' = Coming
  BY DEF Coming
<1>4. PendingDescs' = PendingDescs
  <2> DEFINE D == hw.descs
  <2> DEFINE D2 == SubSeq(D, n + 1, Len(D))
  <2>1. Len(D2) = Len(D) - n /\ \A i \in 1 .. Len(D) - n : D2[i] = D[n + i]
    <3>1. n + 1 \in Nat /\ 1 <= n + 1 /\ n + 1 <= Len(D) + 1
      BY <1>2
    <3>2. Len(D2) = Len(D) - (n + 1) + 1 /\ \A i \in 1 .. Len(D) - (n + 1) + 1 : D2[i] = D[n + 1 + i - 1]
      BY <1>2, <3>1, SubIs
    <3>3. Len(D) \in Nat /\ n \in Nat
      BY <1>2
    <3> HIDE DEF D, D2
    <3>4. Len(D) - (n + 1) + 1 = Len(D) - n
      BY <3>3
    <3>5. ASSUME NEW i \in 1 .. Len(D) - n PROVE D2[i] = D[n + i]
      <4>1. n + 1 + i - 1 = n + i
        BY <3>3
      <4>2. D2[i] = D[n + 1 + i - 1]
        BY <3>2, <3>4
      <4> QED BY <4>1, <4>2
    <3> QED BY <3>2, <3>4, <3>5
  <2>2. PendingDescs = {D[i] : i \in n + 1 .. Len(D)}
    BY <1>n DEF PendingDescs
  <2>3. hw'.descs = D2 /\ hw'.done = 0
    BY <1>6
  <2> HIDE DEF D, D2
  <2>4. PendingDescs' = {D2[i] : i \in 1 .. Len(D) - n}
    BY <2>1, <2>3 DEF PendingDescs
  <2>5. Len(D) \in Nat /\ n \in 0 .. Len(D)
    BY <1>2 DEF D
  <2>6. ASSUME NEW i \in n + 1 .. Len(D) PROVE \E k \in 1 .. Len(D) - n : D[i] = D2[k]
    <3>1. i - n \in 1 .. Len(D) - n /\ n + (i - n) = i
      BY <2>5
    <3>2. D2[i - n] = D[n + (i - n)]
      BY <2>1, <3>1
    <3> QED BY <3>1, <3>2
  <2>7. ASSUME NEW k \in 1 .. Len(D) - n PROVE \E i \in n + 1 .. Len(D) : D[i] = D2[k]
    <3>1. n + k \in n + 1 .. Len(D) /\ D2[k] = D[n + k]
      BY <2>1, <2>5
    <3> QED BY <3>1
  <2>8. PendingDescs \subseteq PendingDescs'
    BY <2>2, <2>4, <2>6
  <2>9. PendingDescs' \subseteq PendingDescs
    BY <2>2, <2>4, <2>7
  <2> QED BY <2>8, <2>9
<1> QED BY <1>3, <1>4 DEF Todo

\* Of pair p, the index that is published goes from a to b, where it was to get
\* with a job.
Clearing(p, a, b) ==
  /\ a = msg[Src[p]].cons /\ b \in 0 .. QLen - 1 /\ (b = a \/ b \in Tails(p))
  /\ Occupancy(b, a, QLen) + Occupancy(q[Src[p]].head, b, QLen) = Occupancy(q[Src[p]].head, a, QLen)
  /\ q'[Src[p]].head = q[Src[p]].head /\ q'[Src[p]].qe_tail = q[Src[p]].qe_tail
  /\ q'[Pool[p]].head = q[Pool[p]].head /\ q'[Pool[p]].qe_tail = q[Pool[p]].qe_tail
  /\ q'["shadow"].head = q["shadow"].head /\ q'["shadow"].tail = q["shadow"].tail
  /\ msg'[Src[p]].cons = b /\ msg'[Src[p]].prod = msg[Src[p]].prod
  /\ msg'[Dst[p]].prod = b /\ msg'[Dst[p]].cons = msg[Dst[p]].cons
  /\ msg'[Pool[p]].prod = msg[Pool[p]].prod /\ msg'[Pool[p]].cons = msg[Pool[p]].cons
  /\ UNCHANGED <<ring, mem, owned>> /\ Todo' = Todo /\ Tails(p)' \subseteq Tails(p)

\* Cleaning up the jobs js does that.
LEMMA ClearIs ==
  ASSUME NEW L, NEW E, NEW U, NEW P, NEW H, NEW X, NEW y, Whole(L, E, U, P, H, X, y),
         NEW js, NEW l, WorkOf(js, l, sub, hw, L, E, U, P, H), gie_clean_dma_jobs(js),
         UNCHANGED <<ring, mem, sub, owned>>, \A i \in 1 .. Len(js) : js[i] \in AllJobs,
         \A j \in AllJobs' : j \in AllJobs \/ \E i \in 1 .. Len(jobs') : j = jobs'[i],
         NEW p \in Pairs
  PROVE  \E a, b : Clearing(p, a, b)
<1>n. PICK n : n = hw.done
  OBVIOUS
<1> DEFINE N == Len(js)
<1> DEFINE M == Len(L)
<1>1. /\ Typed(L, E, U, P) /\ Steps(L, E, U, P) /\ M \in Nat /\ IndexOk /\ Heads(U)
      /\ (\A o \in Pairs : PairOk(o, U, P, H, M, X[o]))
  BY Parts
<1>2. /\ js \in Seq(Job) /\ N \in Nat /\ l \in Nat /\ Len(hw.descs) \in Nat /\ n \in 0 .. Len(hw.descs)
      /\ N <= M /\ E[N] = Len(hw.descs) + l /\ IsSeq(hw.descs)
  BY <1>n, WorkIs
<1>3. Prefix(js, L)
  BY <1>2 DEF Prefix, WorkOf, Logs
<1>4. Published(P)
  BY <1>1 DEF Published, PairOk, PairAt
<1>5. PICK r \in 0 .. N : Over(E, N, r, n) /\ Cleaned(js, n) = At(js, E, U, P, r, n)
  <2>1. n \in Nat /\ n <= E[Len(js)]
    BY <1>2
  <2>2. \E r \in 0 .. Len(js) : Over(E, Len(js), r, n) /\ Cleaned(js, n) = At(js, E, U, P, r, n)
    BY <2>1, <1>1, <1>3, <1>4, CleanedIs
  <2> QED BY <2>2
<1> DEFINE h2 == [descs |-> SubSeq(hw.descs, n + 1, Len(hw.descs)), done |-> 0]
<1>6. jobs' = Remaining(js, E, r, n) /\ q' = QAt(U, r) /\ msg' = MAt(P, r) /\ hw' = h2
  BY <1>n, <1>5, AtFields DEF gie_clean_dma_jobs
<1>7. r \in 0 .. M /\ 0 \in 0 .. M /\ M \in 0 .. M /\ 0 <= r /\ r <= M
  BY <1>1, <1>2
<1>8. /\ \A i \in 0 .. M : (\A o \in Pairs : P[o][i] \in Nat) /\ (\A x \in Queues : U[x][i] \in Nat)
      /\ \A i, k \in 0 .. M : i <= k => \A o \in Pairs : P[o][i] <= P[o][k]
  BY <1>1, StepsAre
<1>9. /\ \A x \in Queues : /\ q'[x].tail = q[x].tail /\ q'[x].head = q[x].head
                           /\ q'[x].qe_tail = q[x].qe_tail
  <2>1. \A x \in Queues : U[x][r] \in Nat
    BY <1>7, <1>8
  <2> QED BY <1>1, <1>6, <2>1, QAtIs
<1>10. /\ msg'[Src[p]].cons = P[p][r] % QLen /\ msg'[Src[p]].prod = msg[Src[p]].prod
       /\ msg'[Dst[p]].prod = P[p][r] % QLen /\ msg'[Dst[p]].cons = msg[Dst[p]].cons
  <2>1. \A o \in Pairs : P[o][r] \in Nat
    BY <1>7, <1>8
  <2> QED BY <1>1, <1>6, <2>1, MAtIs
<1>11. msg'[Pool[p]].prod = msg[Pool[p]].prod /\ msg'[Pool[p]].cons = msg[Pool[p]].cons
  <2> DEFINE x == Pool[p]
  <2>1. x \in Queues /\ x \in {"lcl_bp", "host_bp"}
    BY Names, PairIs
  <2>2. msg'[x] = [cons |-> msg[x].cons, prod |-> msg[x].prod]
    BY <1>6, <2>1 DEF MAt, ConsAt, ProdAt
  <2> QED BY <2>2
<1> DEFINE a == P[p][0]
<1> DEFINE b == P[p][r]
<1> DEFINE h == H[p]
<1>12. a \in Nat /\ b \in Nat /\ a <= b /\ b <= P[p][M]
  BY <1>7, <1>8
<1>13. /\ h \in Nat /\ h - a < QLen /\ P[p][M] = h /\ QLen \in Nat \ {0}
  BY MovingIs, Params
<1>14. msg[Src[p]].cons = a % QLen /\ q[Src[p]].head = h % QLen
  BY <1>1 DEF PairOk, PairAt
<1>15. /\ b % QLen \in 0 .. QLen - 1
       /\ Occupancy(b % QLen, a % QLen, QLen) + Occupancy(h % QLen, b % QLen, QLen)
            = Occupancy(h % QLen, a % QLen, QLen)
  <2> HIDE DEF a, b, h, M
  <2>1. b <= h /\ a <= h /\ b - a < QLen /\ h - b < QLen
    BY <1>12, <1>13
  <2>2. /\ Occupancy(b % QLen, a % QLen, QLen) = b - a /\ Occupancy(h % QLen, b % QLen, QLen) = h - b
        /\ Occupancy(h % QLen, a % QLen, QLen) = h - a
    BY <1>12, <1>13, <2>1, OccIs
  <2>3. (b - a) + (h - b) = h - a
    BY <1>12, <1>13
  <2>4. b % QLen \in 0 .. QLen - 1
    BY <1>12, <1>13, ModRange
  <2> QED BY <2>2, <2>3, <2>4
<1>16. b % QLen = a % QLen \/ b % QLen \in Tails(p)
  <2>1. b = a \/ \E i \in 1 .. r : Carries(L[i], p) /\ L[i].tail = b % QLen
    BY <1>1, <1>7, LastTail
  <2>2. ASSUME NEW i \in 1 .. r, Carries(L[i], p), L[i].tail = b % QLen
        PROVE  b % QLen \in Tails(p)
    <3>1. i \in 1 .. Len(js) /\ L[i] = js[i]
      BY <1>2, <1>3 DEF Prefix
    <3>2. js[i] \in AllJobs
      BY <3>1
    <3> HIDE DEF b
    <3> QED BY <2>2, <3>1, <3>2 DEF Tails
  <2> QED BY <2>1, <2>2
<1>17. Todo' = Todo
  BY CleanTodo
<1>18. Tails(p)' \subseteq Tails(p)
  <2>1. Tails(p)' = {j.tail : j \in {i \in AllJobs' : Carries(i, p)}}
    BY DEF Tails
  <2>2. ASSUME NEW i \in 1 .. Len(jobs'), Carries(jobs'[i], p) PROVE jobs'[i].tail \in Tails(p)
    <3>1. PICK k : k = r + i
      OBVIOUS
    <3>2. jobs' = [x \in 1 .. N - r |-> IF x = 1 THEN [js[r + 1] EXCEPT !.descs = E[r + 1] - n] ELSE js[r + x]]
      BY <1>6 DEF Remaining
    <3>3. N - r \in Nat /\ Len(jobs') = N - r
      <4>1. N - r \in Nat
        BY <1>2
      <4> HIDE DEF N
      <4> QED BY <3>2, <4>1
    <3>4. i \in 1 .. N - r /\ k \in 1 .. N
      BY <1>2, <3>1, <3>3
    <3>5. js[k] \in Job /\ js[k] \in AllJobs
      BY <1>2, <3>4
    <3>6. jobs'[i] = IF i = 1 THEN [js[r + 1] EXCEPT !.descs = E[r + 1] - n] ELSE js[r + i]
      BY <3>2, <3>4
    <3>7. jobs'[i] = js[k] \/ \E v : jobs'[i] = [js[k] EXCEPT !.descs = v]
      BY <3>1, <3>6
    <3>8. jobs'[i].tail = js[k].tail /\ jobs'[i].flag = js[k].flag /\ jobs'[i].src = js[k].src
      BY <3>5, <3>7 DEF Job
    <3>9. Carries(js[k], p)
      BY <2>2, <3>8 DEF Carries
    <3> QED BY <3>5, <3>8, <3>9 DEF Tails
  <2>3. ASSUME NEW j \in AllJobs', Carries(j, p) PROVE j.tail \in Tails(p)
    <3>1. CASE j \in AllJobs
      BY <2>3, <3>1 DEF Tails
    <3>2. CASE \E i \in 1 .. Len(jobs') : j = jobs'[i]
      BY <2>2, <2>3, <3>2
    <3> QED BY <3>1, <3>2
  <2> QED BY <2>1, <2>3
<1> DEFINE a2 == a % QLen
<1> DEFINE b2 == b % QLen
<1>19. Src[p] \in Queues /\ Pool[p] \in Queues /\ "shadow" \in Queues
  BY Names
<1>20. /\ a2 = msg[Src[p]].cons /\ b2 \in 0 .. QLen - 1 /\ (b2 = a2 \/ b2 \in Tails(p))
       /\ Occupancy(b2, a2, QLen) + Occupancy(q[Src[p]].head, b2, QLen) = Occupancy(q[Src[p]].head, a2, QLen)
       /\ msg'[Src[p]].cons = b2 /\ msg'[Dst[p]].prod = b2
  BY <1>10, <1>14, <1>15, <1>16
<1> HIDE DEF a2, b2, a, b, h
<1>21. Clearing(p, a2, b2)
  BY <1>9, <1>10, <1>11, <1>17, <1>18, <1>19, <1>20 DEF Clearing
<1> QED BY <1>21

\* What is published is complete: the data of the pair stays right.
LEMMA ClearOne ==
  ASSUME NEW p \in CopyPayload, p \in Pairs, DataOf(p, ring, mem, q, msg, Todo, Tails(p), owned[p]),
         Regions(q, msg), Kinds(Todo, q, msg), Kinds(Todo, q', msg'), NEW a, NEW b, Clearing(p, a, b)
  PROVE  DataOf(p, ring', mem', q', msg', Todo', Tails(p)', owned'[p])
<1> DEFINE s == ring[Src[p]]
<1> DEFINE d == ring[Dst[p]]
<1> DEFINE un == UnreadIn(p, msg)
<1> DEFINE mv == MovingIn(p, q, msg)
<1> DEFINE tk == TakenIn(p, q, msg)
<1> DEFINE sent == SentIn(p, msg)
<1> DEFINE cp == CopiedIn(p, q, msg)
<1> DEFINE e == ElemsOf(p, ring, un)
<1> DEFINE full == FullIn(p, q, msg)
<1> DEFINE g == FetchedIn(p, q)
<1> DEFINE fi == FillIn(q)
<1> DEFINE w == Todo
<1> DEFINE tl == Tails(p)
<1> DEFINE K == Slots(a, b, QLen)
<1> DEFINE rd == msg[Dst[p]].cons
<1> DEFINE h == q[Src[p]].head
<1> DEFINE z == msg[Src[p]].prod
<1>1. /\ s \in [0 .. QLen - 1 -> Elements] /\ d \in [0 .. QLen - 1 -> Elements]
      /\ SourceOk(p, s, mem, sent) /\ WholeOk(s, sent) /\ ElemOk(e, s, mem, w, tk, mv) /\ AimedOk(p, e, w)
      /\ CopiedOk(Dst[p], s, d, w, cp) /\ CutOk(d, e, un, mv, msg[Dst[p]].prod, tl) /\ PoolOk(p, q, msg)
      /\ (p = "ingress" => CopiedOk("shadow", ring["host_bp"], ring["shadow"], w, fi))
      /\ Spread(PoolBufs(p), Bufs(e), tk, ring[Pool[p]], full, ring["shadow"], g, owned[p])
  BY DataIs
<1>2. /\ a = msg[Src[p]].cons /\ b \in 0 .. QLen - 1 /\ (b = a \/ b \in tl)
      /\ Occupancy(b, a, QLen) + Occupancy(h, b, QLen) = Occupancy(h, a, QLen)
      /\ q'[Src[p]].head = h /\ q'[Src[p]].qe_tail = q[Src[p]].qe_tail
      /\ msg'[Src[p]].cons = b /\ msg'[Src[p]].prod = z
      /\ msg'[Dst[p]].prod = b /\ msg'[Dst[p]].cons = rd
      /\ ring' = ring /\ mem' = mem /\ owned' = owned /\ Todo' = w /\ Tails(p)' \subseteq tl
  BY DEF Clearing
<1>3. Around(p, q, msg) /\ QLen \in Nat \ {0}
  BY Params DEF Regions
<1>4. /\ rd \in 0 .. QLen - 1 /\ a \in 0 .. QLen - 1 /\ z \in 0 .. QLen - 1 /\ h \in 0 .. QLen - 1
      /\ msg[Dst[p]].prod = a
      /\ Occupancy(a, rd, QLen) + Occupancy(h, a, QLen) < QLen
      /\ Occupancy(h, a, QLen) <= Occupancy(z, a, QLen)
  BY <1>2, <1>3 DEF Around
<1>5. /\ UnreadIn(p, msg') = Slots(rd, b, QLen) /\ MovingIn(p, q', msg') = Slots(b, h, QLen)
      /\ TakenIn(p, q', msg') = tk /\ SentIn(p, msg') = Slots(b, z, QLen)
      /\ un = Slots(rd, a, QLen) /\ mv = Slots(a, h, QLen) /\ sent = Slots(a, z, QLen)
  BY <1>2, <1>4 DEF UnreadIn, MovingIn, TakenIn, SentIn
<1>6. /\ FullIn(p, q', msg') = full /\ FetchedIn(p, q') = g /\ (p = "ingress" => FillIn(q') = fi)
      /\ PoolOk(p, q', msg')
  <2>1. /\ q'[Pool[p]].head = q[Pool[p]].head /\ q'[Pool[p]].qe_tail = q[Pool[p]].qe_tail
        /\ q'["shadow"].head = q["shadow"].head /\ q'["shadow"].tail = q["shadow"].tail
        /\ msg'[Pool[p]].prod = msg[Pool[p]].prod /\ msg'[Pool[p]].cons = msg[Pool[p]].cons
    BY DEF Clearing
  <2>2. PoolOk(p, q', msg')
    BY <1>1, <2>1 DEF PoolOk
  <2>3. FullIn(p, q', msg') = full /\ FetchedIn(p, q') = g
    BY <2>1 DEF FullIn, FetchedIn
  <2>4. p = "ingress" => FillIn(q') = fi
    BY <2>1, Names DEF FillIn
  <2> QED BY <2>2, <2>3, <2>4
<1> DEFINE un2 == Slots(rd, b, QLen)
<1> DEFINE mv2 == Slots(b, h, QLen)
<1> DEFINE sent2 == Slots(b, z, QLen)
<1> DEFINE e2 == ElemsOf(p, ring, un2)
<1> DEFINE oa == Occupancy(a, rd, QLen)
<1> DEFINE ob == Occupancy(b, a, QLen)
<1> DEFINE oh == Occupancy(h, b, QLen)
<1> DEFINE oz == Occupancy(z, a, QLen)
<1>7. /\ oa \in 0 .. QLen - 1 /\ ob \in 0 .. QLen - 1 /\ oh \in 0 .. QLen - 1 /\ oz \in 0 .. QLen - 1
  BY <1>2, <1>3, <1>4, OccupancyCases
<1>8. oa + ob < QLen /\ ob + oh < QLen /\ ob <= oz
  <2>1. oa + (ob + oh) < QLen /\ ob + oh <= oz
    BY <1>2, <1>4
  <2> HIDE DEF oa, ob, oh, oz
  <2> QED BY <1>3, <1>7, <2>1
<1>9. /\ un2 = un \cup K /\ un \cap K = {}
  BY <1>2, <1>3, <1>4, <1>5, <1>8, SlotsSplit
<1>10. mv = K \cup mv2 /\ K \cap mv2 = {}
  BY <1>2, <1>3, <1>4, <1>5, <1>8, SlotsSplit
<1>11. sent2 \subseteq sent
  <2>1. Occupancy(z, b, QLen) = oz - ob
    BY <1>2, <1>3, <1>4, <1>8, Between
  <2>2. ob + Occupancy(z, b, QLen) < QLen
    <3> HIDE DEF ob, oz
    <3> QED BY <1>3, <1>7, <2>1
  <2>3. Slots(a, z, QLen) = Slots(a, b, QLen) \cup Slots(b, z, QLen)
    BY <1>2, <1>3, <1>4, <2>2, SlotsSplit
  <2> QED BY <1>5, <2>3
<1>12. tk = un \cup mv /\ tk \subseteq 0 .. QLen - 1 /\ un \cap mv = {}
  BY <1>3, TakenIs
<1>13. ASSUME p = "ingress", NEW i \in K PROVE d[i] = s[i]
  <2>1. cp = mv /\ NamedIn(p, q', msg') = mv2
    BY <1>5, <1>13 DEF CopiedIn, NamedIn
  <2>2. CopyTo(w, Dst[p], i) => i \in mv2
    BY <2>1, CopyNamed
  <2>3. i \in cp /\ i \notin mv2
    BY <1>10, <1>13, <2>1
  <2> QED BY <1>1, <2>2, <2>3 DEF CopiedOk
<1>14. \A i \in tk : e2[i] = e[i]
  <2>1. ASSUME NEW i \in tk PROVE e2[i] = e[i]
    <3>1. i \in 0 .. QLen - 1
      BY <1>12
    <3>2. e[i] = (IF p = "ingress" /\ i \notin un THEN s[i] ELSE d[i])
      BY <3>1, ElemsAt
    <3>3. e2[i] = (IF p = "ingress" /\ i \notin un2 THEN s[i] ELSE d[i])
      BY <3>1, ElemsAt
    <3>4. p = "ingress" /\ i \notin un /\ i \in un2 => d[i] = s[i]
      BY <1>9, <1>13
    <3> QED BY <1>9, <3>2, <3>3, <3>4
  <2> QED BY <2>1
<1>15. WholeOk(s, sent2)
  <2>1. ASSUME NEW i \in sent2, s[i].sg # 1
        PROVE  SgEn /\ s[i].sg = 2 /\ q_idx_add(i, 1, QLen) \in sent2 /\ s[q_idx_add(i, 1, QLen)].sg = 1
    <3> DEFINE j == q_idx_add(i, 1, QLen)
    <3>1. SgEn /\ s[i].sg = 2 /\ j \in sent /\ s[j].sg = 1
      BY <1>1, <1>11, <2>1 DEF WholeOk
    <3>2. i \in Slots(b, z, QLen) /\ j = q_idx_add(i, 1, QLen) /\ j \in Slots(a, z, QLen)
      BY <1>5, <2>1, <3>1
    <3> HIDE DEF j
    <3>3. j \in Slots(b, z, QLen)
      BY <1>2, <1>3, <1>4, <3>2, NextIn
    <3> QED BY <3>1, <3>3 DEF j
  <2> QED BY <2>1 DEF WholeOk
<1>16. CutOk(d, e2, un2, mv2, b, Tails(p)')
  <2>1. d[Before(b)].sg = 1 \/ un2 = {}
    <3>1. CASE b = a
      BY <1>1, <1>4, <1>5, <3>1 DEF CutOk
    <3>2. CASE b # a
      <4>1. Before(b) \in K
        BY <1>2, <1>4, <3>2, BeforeIn
      <4>2. b \in tl /\ Before(b) \in mv /\ Before(b) \in tk /\ Before(b) \in un2 /\ Before(b) \in 0 .. QLen - 1
        BY <1>2, <1>9, <1>10, <1>12, <3>2, <4>1
      <4>3. e[Before(b)].sg = 1
        BY <1>1, <4>2 DEF CutOk
      <4>4. e2[Before(b)] = d[Before(b)]
        BY <4>2, ElemsAt
      <4> QED BY <1>14, <4>2, <4>3, <4>4
    <3> QED BY <3>1, <3>2
  <2>2. ASSUME NEW t \in Tails(p)', Before(t) \in mv2 PROVE e2[Before(t)].sg = 1
    <3>1. t \in tl /\ Before(t) \in mv /\ Before(t) \in tk
      BY <1>2, <1>10, <1>12, <2>2
    <3>2. e[Before(t)].sg = 1
      BY <1>1, <3>1 DEF CutOk
    <3> QED BY <1>14, <3>1, <3>2
  <2> QED BY <2>1, <2>2 DEF CutOk
<1>17. ElemOk(e2, s, mem, w, tk, mv2)
  <2>1. mv2 \subseteq mv /\ mv \subseteq tk
    BY <1>10, <1>12
  <2> HIDE DEF e, e2, tk, mv, mv2, s, w
  <2> QED BY <1>1, <1>14, <2>1 DEF ElemOk
<1>18. AimedOk(p, e2, w)
  <2>1. \A i \in mv : e2[i] = e[i]
    BY <1>12, <1>14
  <2> HIDE DEF e, e2
  <2> QED BY <1>1, <2>1, AimedSame
<1>19. CopiedIn(p, q', msg') \subseteq cp
  <2>1. CASE p = "egress"
    BY <1>2, <2>1 DEF CopiedIn
  <2>2. CASE p = "ingress"
    BY <1>5, <1>10, <2>2 DEF CopiedIn
  <2> QED BY <2>1, <2>2, PairIs
<1> DEFINE cp2 == CopiedIn(p, q', msg')
<1>20. CopiedOk(Dst[p], s, d, w, cp2)
  BY <1>1, <1>19 DEF CopiedOk
<1>21. Spread(PoolBufs(p), Bufs(e2), tk, ring[Pool[p]], full, ring["shadow"], g, owned[p])
  <2>1. \A i \in tk : Bufs(e2)[i] = Bufs(e)[i]
    BY <1>12, <1>14, BufsAt
  <2> HIDE DEF e, e2, tk, full, g
  <2> QED BY <1>1, <2>1, SpreadSame
<1>22. SourceOk(p, s, mem, sent2)
  BY <1>1, <1>11 DEF SourceOk
<1> DEFINE r2 == ring'
<1> DEFINE mm2 == mem'
<1> DEFINE q2 == q'
<1> DEFINE m2 == msg'
<1> DEFINE ow2 == owned'[p]
<1> DEFINE w2 == Todo'
<1> DEFINE tl2 == Tails(p)'
<1>23. /\ r2[Src[p]] = s /\ r2[Dst[p]] = d /\ r2[Pool[p]] = ring[Pool[p]] /\ r2["shadow"] = ring["shadow"]
       /\ r2["host_bp"] = ring["host_bp"] /\ mm2 = mem /\ w2 = w
       /\ ow2 = owned[p] /\ e2 = ElemsOf(p, r2, UnreadIn(p, m2))
       /\ SentIn(p, m2) = sent2 /\ UnreadIn(p, m2) = un2 /\ MovingIn(p, q2, m2) = mv2 /\ TakenIn(p, q2, m2) = tk
       /\ CopiedIn(p, q2, m2) = cp2 /\ FullIn(p, q2, m2) = full /\ FetchedIn(p, q2) = g
       /\ PoolOk(p, q2, m2) /\ m2[Dst[p]].prod = b
  BY <1>2, <1>5, <1>6
<1>24. /\ s \in [0 .. QLen - 1 -> Elements] /\ d \in [0 .. QLen - 1 -> Elements]
       /\ (p = "ingress" => FillIn(q2) = fi)
       /\ (p = "ingress" => CopiedOk("shadow", ring["host_bp"], ring["shadow"], w, fi))
       /\ CutOk(d, e2, un2, mv2, b, tl2)
  BY <1>1, <1>6, <1>16
<1> HIDE DEF r2, mm2, q2, m2, ow2, w2, tl2, s, d, e2, un2, mv2, sent2, tk, cp2, full, g, fi, w
<1>25. DataOf(p, r2, mm2, q2, m2, w2, tl2, ow2)
  <2>1. p = "ingress" => CopiedOk("shadow", r2["host_bp"], r2["shadow"], w2, FillIn(q2))
    BY <1>23, <1>24
  <2> QED BY <1>15, <1>17, <1>18, <1>20, <1>21, <1>22, <1>23, <1>24, <2>1, DataFrom
<1> QED BY <1>25 DEF r2, mm2, q2, m2, ow2, w2, tl2

\* The clean-up, with the jobs as the caller has them.
LEMMA CleaningData ==
  ASSUME IInv, Data, IInv', NEW L, NEW E, NEW U, NEW P, NEW H, NEW X, NEW y, Whole(L, E, U, P, H, X, y),
         NEW js, NEW l, WorkOf(js, l, sub, hw, L, E, U, P, H), gie_clean_dma_jobs(js),
         UNCHANGED <<ring, mem, sub, owned, nxt>>, \A i \in 1 .. Len(js) : js[i] \in AllJobs,
         \A j \in AllJobs' : j \in AllJobs \/ \E i \in 1 .. Len(jobs') : j = jobs'[i]
  PROVE  Data'
<1>1. Regions(q, msg) /\ Kinds(Todo, q, msg)
  BY RegionsIs, KindsIs
<1>2. /\ mem \in [AllBufs -> Tag \cup {NoData}] /\ nxt \in [Pairs -> Nat] /\ OnlyCopied(Todo)
      /\ owned \in [Pairs -> SUBSET AllPoolBufs] /\ (\A p \in Pairs : owned[p] \subseteq PoolBufs(p))
      /\ \A p \in CopyPayload : DataOf(p, ring, mem, q, msg, Todo, Tails(p), owned[p])
  BY DEF Data, AllBufs
<1>3. \A p \in Pairs : \E a, b : Clearing(p, a, b)
  BY ClearIs
<1>4. Kinds(Todo', q', msg')
  <2>1. (IInv => Kinds(Todo, q, msg))'
    BY KindsIs, PTL
  <2> QED BY <2>1
<1>5. Todo' = Todo
  BY CleanTodo
<1>6. ASSUME NEW p \in CopyPayload PROVE DataOf(p, ring', mem', q', msg', Todo', Tails(p)', owned'[p])
  <2>1. p \in Pairs /\ DataOf(p, ring, mem, q, msg, Todo, Tails(p), owned[p])
    BY <1>2, GieAssumption
  <2>2. PICK a, b : Clearing(p, a, b)
    BY <1>3, <2>1
  <2>3. Kinds(Todo, q', msg')
    BY <1>4, <1>5
  <2> QED BY <1>1, <2>1, <2>2, <2>3, ClearOne
<1>7. OnlyCopied(Todo')
  BY <1>2, <1>5
<1> QED BY <1>2, <1>6, <1>7 DEF Data, AllBufs, OnlyCopied

\* Cleaning up keeps it.
LEMMA CleanData == IInv /\ Data /\ Clean => Data'
<1> SUFFICES ASSUME IInv, Data, Clean PROVE Data'
  OBVIOUS
<1>1. PICK L, E, U, P, H, X, y : Whole(L, E, U, P, H, X, y)
  BY DEF IInv
<1>2. gie_clean_dma_jobs(jobs) /\ UNCHANGED <<ring, mem, sub, owned, nxt>> /\ sub = <<>>
  BY DEF Clean, users
<1>3. WorkOf(jobs, left, sub, hw, L, E, U, P, H)
  BY <1>1, Parts
<1>4. IInv'
  BY CleanAct
<1>5. \A i \in 1 .. Len(jobs) : jobs[i] \in AllJobs
  BY DEF AllJobs
<1>6. \A j \in AllJobs' : j \in AllJobs \/ \E i \in 1 .. Len(jobs') : j = jobs'[i]
  <2>1. sub' = <<>> /\ 1 .. Len(sub') = {}
    BY <1>2
  <2> QED BY <2>1 DEF AllJobs
<1>7. PICK js, l : js = jobs /\ l = left
  OBVIOUS
<1>8. /\ WorkOf(js, l, sub, hw, L, E, U, P, H) /\ gie_clean_dma_jobs(js)
      /\ \A i \in 1 .. Len(js) : js[i] \in AllJobs
  BY <1>2, <1>3, <1>5, <1>7
<1> QED BY <1>1, <1>2, <1>4, <1>6, <1>8, CleaningData

\* The jobs that are logged, or to be.
LEMMA LoggedJobs ==
  ASSUME IInv, sub # <<>>
  PROVE  /\ \A i \in 1 .. Len(Logged) : Logged[i] \in AllJobs
         /\ \A j \in AllJobs : (\E i \in 1 .. Len(Logged) : j = Logged[i])
                               \/ \E m \in 2 .. Len(sub) : j = sub[m].job
         /\ \A m \in 2 .. Len(sub) : sub[m].job \in AllJobs
         /\ Wanted \in Nat /\ Wanted >= 1 /\ Head(sub) = sub[1] /\ IsSeq(sub) /\ Len(sub) \in Nat /\ Len(sub) >= 1
<1>1. PICK L, E, U, P, H, X, y : Whole(L, E, U, P, H, X, y)
  BY DEF IInv
<1>2. WorkOf(jobs, left, sub, hw, L, E, U, P, H)
  BY <1>1, Parts
<1>3. /\ IsSeq(jobs) /\ Len(jobs) \in Nat /\ IsSeq(sub) /\ Len(sub) \in Nat
  BY <1>2, WorkIs
<1>4. Wanted \in Nat /\ Wanted >= 1 /\ Head(sub) = sub[1] /\ Len(sub) >= 1
  BY <1>1, <1>3, LoggedIs, TailOf
<1>5. CASE left = 0
  <2> DEFINE e == sub[1].job
  <2> DEFINE G == Append(jobs, e)
  <2>1. Logged = G
    BY <1>4, <1>5 DEF Logged
  <2>2. /\ Len(G) = Len(jobs) + 1 /\ (\A i \in 1 .. Len(jobs) : G[i] = jobs[i]) /\ G[Len(jobs) + 1] = e
    BY <1>3, AppendIs
  <2>3. AllJobs = {jobs[i] : i \in 1 .. Len(jobs)} \cup {sub[m].job : m \in 1 .. Len(sub)}
    BY <1>5 DEF AllJobs
  <2>4. e \in AllJobs /\ \A m \in 2 .. Len(sub) : sub[m].job \in AllJobs
    BY <1>3, <1>4, <2>3
  <2> HIDE DEF G, e
  <2>5. \A i \in 1 .. Len(G) : G[i] \in AllJobs
    <3>1. ASSUME NEW i \in 1 .. Len(G) PROVE G[i] \in AllJobs
      <4>1. i \in 1 .. Len(jobs) \/ i = Len(jobs) + 1
        BY <1>3, <2>2
      <4> QED BY <2>2, <2>3, <2>4, <4>1
    <3> QED BY <3>1
  <2>6. ASSUME NEW j \in AllJobs
        PROVE  (\E i \in 1 .. Len(G) : j = G[i]) \/ \E m \in 2 .. Len(sub) : j = sub[m].job
    <3>1. CASE \E i \in 1 .. Len(jobs) : j = jobs[i]
      <4>1. PICK i \in 1 .. Len(jobs) : j = jobs[i]
        BY <3>1
      <4>2. i \in 1 .. Len(G) /\ j = G[i]
        BY <1>3, <2>2, <4>1
      <4> QED BY <4>2
    <3>2. CASE \E m \in 1 .. Len(sub) : j = sub[m].job
      <4>1. PICK m \in 1 .. Len(sub) : j = sub[m].job
        BY <3>2
      <4>2. m \in 2 .. Len(sub) \/ m = 1
        BY <1>3
      <4>3. m = 1 => j = G[Len(jobs) + 1] /\ Len(jobs) + 1 \in 1 .. Len(G)
        BY <1>3, <2>2, <4>1 DEF e
      <4> QED BY <4>1, <4>2, <4>3
    <3> QED BY <2>3, <3>1, <3>2
  <2>7. \A i \in 1 .. Len(Logged) : Logged[i] \in AllJobs
    BY <2>1, <2>5
  <2>8. \A j \in AllJobs : (\E i \in 1 .. Len(Logged) : j = Logged[i])
                         \/ \E m \in 2 .. Len(sub) : j = sub[m].job
    BY <2>1, <2>6
  <2> HIDE DEF AllJobs
  <2> QED BY <1>3, <1>4, <2>4, <2>7, <2>8
<1>6. CASE left # 0
  <2>1. Logged = jobs
    BY <1>6 DEF Logged
  <2>2. \A m \in 2 .. Len(sub) : m \in {o \in 1 .. Len(sub) : left = 0 \/ o > 1}
    BY <1>3
  <2>3. \A m \in {o \in 1 .. Len(sub) : left = 0 \/ o > 1} : m \in 2 .. Len(sub)
    BY <1>3, <1>6
  <2>4. \A i \in 1 .. Len(Logged) : Logged[i] \in AllJobs
    BY <2>1 DEF AllJobs
  <2>5. \A m \in 2 .. Len(sub) : sub[m].job \in AllJobs
    BY <2>2 DEF AllJobs
  <2>6. ASSUME NEW j \in AllJobs
        PROVE  (\E i \in 1 .. Len(Logged) : j = Logged[i]) \/ \E m \in 2 .. Len(sub) : j = sub[m].job
    <3>1. CASE \E i \in 1 .. Len(jobs) : j = jobs[i]
      BY <2>1, <3>1
    <3>2. CASE \E m \in {o \in 1 .. Len(sub) : left = 0 \/ o > 1} : j = sub[m].job
      <4>1. PICK m \in {o \in 1 .. Len(sub) : left = 0 \/ o > 1} : j = sub[m].job
        BY <3>2
      <4> QED BY <2>3, <4>1
    <3> QED BY <3>1, <3>2 DEF AllJobs
  <2> QED BY <1>3, <1>4, <2>4, <2>5, <2>6
<1> QED BY <1>5, <1>6

\* Retrying is cleaning up.
LEMMA RetryData == IInv /\ Data /\ Retry => Data'
<1> SUFFICES ASSUME IInv, Data, Retry PROVE Data'
  OBVIOUS
<1>1. PICK L, E, U, P, H, X, y : Whole(L, E, U, P, H, X, y)
  BY DEF IInv
<1>2. sub # <<>> /\ gie_clean_dma_jobs(Logged) /\ left' = Wanted /\ UNCHANGED <<ring, mem, sub, owned, nxt>>
  BY DEF Retry, users
<1>3. WorkOf(Logged, Wanted, sub, hw, L, E, U, P, H)
  BY <1>1, <1>2, LoggedIs
<1>4. IInv'
  BY RetryStep
<1>5. \A i \in 1 .. Len(Logged) : Logged[i] \in AllJobs
  BY <1>2, LoggedJobs
<1>6. \A j \in AllJobs' : j \in AllJobs \/ \E i \in 1 .. Len(jobs') : j = jobs'[i]
  <2>1. left' # 0 /\ sub' = sub /\ Len(sub) \in Nat
    BY <1>2, LoggedJobs
  <2>2. \A m \in {o \in 1 .. Len(sub') : left' = 0 \/ o > 1} : m \in 2 .. Len(sub)
    BY <2>1
  <2>3. \A m \in 2 .. Len(sub) : sub'[m].job \in AllJobs
    BY <1>2, <2>1, LoggedJobs
  <2> QED BY <2>2, <2>3 DEF AllJobs
<1>7. PICK js, l : js = Logged /\ l = Wanted
  OBVIOUS
<1>8. /\ WorkOf(js, l, sub, hw, L, E, U, P, H) /\ gie_clean_dma_jobs(js)
      /\ \A i \in 1 .. Len(js) : js[i] \in AllJobs
  BY <1>2, <1>3, <1>5, <1>7
<1> QED BY <1>1, <1>2, <1>4, <1>6, <1>8, CleaningData

-----------------------------------------------------------------------------
(* dmax2_enq *)

\* What is in the rings and the buffers, and what is to come, is the same.
LEMMA DataSame ==
  ASSUME Data, UNCHANGED <<q, msg, ring, mem, owned, nxt>>, Todo' = Todo, AllJobs' = AllJobs
  PROVE  Data'
<1>1. \A p : Tails(p)' = Tails(p)
  BY DEF Tails
<1> QED BY <1>1 DEF Data

\* A submission is accepted as a whole.
LEMMA EnqueueData == IInv /\ Data /\ NoSplit /\ NoSplit' /\ Enqueue => Data'
<1> SUFFICES ASSUME IInv, Data, NoSplit, NoSplit', Enqueue PROVE Data'
  OBVIOUS
<1>1. PICK L, E, U, P, H, X, y : Whole(L, E, U, P, H, X, y)
  BY DEF IInv
<1> DEFINE k == Lesser(Wanted, DmaSpace)
<1> DEFINE D == hw.descs
<1> DEFINE B == sub[1].descs
<1>2. /\ sub # <<>> /\ DmaSpace > 0 /\ hw' = [hw EXCEPT !.descs = @ \o SubSeq(Head(sub).descs, 1, k)]
      /\ left' = Wanted - k /\ sub' = (IF k = Wanted THEN Tail(sub) ELSE sub)
      /\ jobs' = Logged /\ UNCHANGED <<q, msg, ring, mem, owned, nxt>>
  BY DEF Enqueue, users
<1>3. /\ Wanted \in Nat /\ Wanted >= 1 /\ Head(sub) = sub[1] /\ IsSeq(sub) /\ Len(sub) \in Nat /\ Len(sub) >= 1
  BY <1>2, LoggedJobs
<1>4. WorkOf(jobs, left, sub, hw, L, E, U, P, H)
  BY <1>1, Parts
<1>5. IsSeq(B) /\ Len(B) \in Nat /\ Len(B) >= 1
  BY <1>2, <1>4, Pending
<1>6. hw = [descs |-> D, done |-> hw.done] /\ IsSeq(D) /\ Len(D) \in Nat /\ hw.done \in 0 .. Len(D)
  BY HwIs
<1>7. Wanted = Len(B)
  BY <1>3 DEF NoSplit, Wanted
<1>8. k \in Nat /\ k >= 1 /\ k <= Wanted
  <2>1. DmaSpace \in Int
    BY <1>6, Params DEF DmaSpace
  <2> QED BY <1>2, <1>3, <2>1 DEF Lesser
<1> HIDE DEF k
<1>9. k = Wanted
  <2> SUFFICES ASSUME k # Wanted PROVE FALSE
    OBVIOUS
  <2>1. left' # 0 /\ sub' = sub
    BY <1>2, <1>3, <1>8
  <2>2. left' = Len(B)
    BY <1>3, <2>1 DEF NoSplit
  <2> QED BY <1>2, <1>3, <1>7, <1>8, <2>2
<1>10. left' = 0 /\ sub' = Tail(sub)
  BY <1>2, <1>3, <1>9
<1>11. /\ IsSeq(Tail(sub)) /\ Len(Tail(sub)) = Len(sub) - 1
       /\ \A i \in 1 .. Len(sub) - 1 : Tail(sub)[i] = sub[i + 1]
  BY <1>2, <1>3, TailOf
<1>12. SubSeq(B, 1, k) = B
  <2>1. /\ IsSeq(SubSeq(B, 1, Len(B))) /\ Len(SubSeq(B, 1, Len(B))) = Len(B) - 1 + 1
        /\ \A i \in 1 .. Len(B) - 1 + 1 : SubSeq(B, 1, Len(B))[i] = B[1 + i - 1]
    BY <1>5, SubIs
  <2>2. Len(B) - 1 + 1 = Len(B) /\ \A i \in 1 .. Len(B) : 1 + i - 1 = i
    BY <1>5
  <2> DEFINE C == SubSeq(B, 1, Len(B))
  <2>3. IsSeq(C) /\ Len(C) = Len(B) /\ \A i \in 1 .. Len(B) : C[i] = B[i]
    BY <2>1, <2>2
  <2> HIDE DEF C, B
  <2>4. C = B
    BY <1>5, <2>3, SameSeq
  <2> QED BY <1>7, <1>9, <2>4 DEF C
<1>13. hw'.descs = D \o B /\ hw'.done = hw.done
  BY <1>2, <1>3, <1>6, <1>12
<1> HIDE DEF D, B
<1>14. /\ Len(D \o B) = Len(D) + Len(B)
       /\ (\A i \in 1 .. Len(D) : (D \o B)[i] = D[i])
       /\ \A i \in 1 .. Len(B) : (D \o B)[Len(D) + i] = B[i]
  BY <1>5, <1>6, CatIs
<1> DEFINE F == {B[i] : i \in 1 .. Len(B)}
<1> DEFINE R == UNION {{sub[m].descs[i] : i \in 1 .. Len(sub[m].descs)} : m \in 2 .. Len(sub)}
<1>15. PendingDescs' = PendingDescs \cup F
  <2> DEFINE G == D \o B
  <2>1. /\ Len(G) = Len(D) + Len(B) /\ (\A i \in 1 .. Len(D) : G[i] = D[i])
        /\ \A i \in 1 .. Len(B) : G[Len(D) + i] = B[i]
    BY <1>14
  <2>2. PendingDescs' = {G[i] : i \in hw.done + 1 .. Len(G)} /\ PendingDescs = {D[i] : i \in hw.done + 1 .. Len(D)}
    BY <1>13 DEF PendingDescs, D
  <2> HIDE DEF G
  <2>3. ASSUME NEW i \in hw.done + 1 .. Len(G) PROVE G[i] \in PendingDescs \cup F
    <3>1. CASE i <= Len(D)
      <4>1. i \in hw.done + 1 .. Len(D) /\ i \in 1 .. Len(D)
        BY <1>5, <1>6, <2>1, <3>1
      <4> QED BY <2>1, <2>2, <4>1
    <3>2. CASE ~(i <= Len(D))
      <4>1. i - Len(D) \in 1 .. Len(B) /\ Len(D) + (i - Len(D)) = i
        BY <1>5, <1>6, <2>1, <3>2
      <4>2. G[i] = B[i - Len(D)]
        BY <2>1, <4>1
      <4> QED BY <4>1, <4>2
    <3> QED BY <3>1, <3>2
  <2>4. ASSUME NEW i \in hw.done + 1 .. Len(D) PROVE D[i] \in PendingDescs'
    <3>1. i \in hw.done + 1 .. Len(G) /\ i \in 1 .. Len(D)
      BY <1>5, <1>6, <2>1
    <3>2. G[i] = D[i]
      BY <2>1, <3>1
    <3> QED BY <2>2, <3>1, <3>2
  <2>5. ASSUME NEW i \in 1 .. Len(B) PROVE B[i] \in PendingDescs'
    <3>1. Len(D) + i \in hw.done + 1 .. Len(G)
      BY <1>5, <1>6, <2>1
    <3>2. G[Len(D) + i] = B[i]
      BY <2>1
    <3> QED BY <2>2, <3>1, <3>2
  <2>6. PendingDescs' \subseteq PendingDescs \cup F
    BY <2>2, <2>3
  <2>7. PendingDescs \subseteq PendingDescs'
    BY <2>2, <2>4
  <2>8. F \subseteq PendingDescs'
    BY <2>5
  <2> QED BY <2>6, <2>7, <2>8
<1>16. Coming = F \cup R
  <2> DEFINE Of(m) == {sub[m].descs[i] : i \in 1 .. Len(sub[m].descs)}
  <2>1. Coming = UNION {Of(m) : m \in 1 .. Len(sub)} /\ R = UNION {Of(m) : m \in 2 .. Len(sub)} /\ F = Of(1)
    BY DEF Coming, B
  <2> HIDE DEF Of, R, F
  <2>2. 1 .. Len(sub) = {1} \cup (2 .. Len(sub))
    BY <1>3
  <2> QED BY <2>1, <2>2
<1>17. Coming' = R
  <2> DEFINE s2 == Tail(sub)
  <2> DEFINE Of(m) == {sub[m].descs[i] : i \in 1 .. Len(sub[m].descs)}
  <2> DEFINE Of2(m) == {s2[m].descs[i] : i \in 1 .. Len(s2[m].descs)}
  <2>1. Coming' = UNION {Of2(m) : m \in 1 .. Len(s2)} /\ R = UNION {Of(m) : m \in 2 .. Len(sub)}
    BY <1>10 DEF Coming
  <2>2. Len(s2) = Len(sub) - 1 /\ \A m \in 1 .. Len(sub) - 1 : s2[m] = sub[m + 1]
    BY <1>11
  <2>3. \A m \in 1 .. Len(sub) - 1 : Of2(m) = Of(m + 1)
    BY <2>2
  <2> HIDE DEF Of, Of2, R, s2
  <2>4. ASSUME NEW m \in 1 .. Len(s2) PROVE m + 1 \in 2 .. Len(sub) /\ Of2(m) = Of(m + 1)
    BY <1>3, <2>2, <2>3
  <2>5. ASSUME NEW m \in 2 .. Len(sub) PROVE m - 1 \in 1 .. Len(s2) /\ Of2(m - 1) = Of(m)
    <3>1. m - 1 \in 1 .. Len(s2) /\ m - 1 \in 1 .. Len(sub) - 1 /\ (m - 1) + 1 = m
      BY <1>3, <2>2
    <3>2. Of2(m - 1) = Of((m - 1) + 1)
      BY <2>3, <3>1
    <3> QED BY <3>1, <3>2
  <2>6. {Of2(m) : m \in 1 .. Len(s2)} = {Of(m) : m \in 2 .. Len(sub)}
    <3>1. \A m \in 1 .. Len(s2) : \E o \in 2 .. Len(sub) : Of2(m) = Of(o)
      BY <2>4
    <3>2. \A o \in 2 .. Len(sub) : \E m \in 1 .. Len(s2) : Of2(m) = Of(o)
      BY <2>5
    <3> QED BY <3>1, <3>2
  <2> QED BY <2>1, <2>6
<1>18. Todo' = Todo
  <2> HIDE DEF F, R
  <2> QED BY <1>15, <1>16, <1>17 DEF Todo
<1>19. AllJobs' = AllJobs
  <2>1. /\ \A i \in 1 .. Len(Logged) : Logged[i] \in AllJobs
        /\ \A j \in AllJobs : (\E i \in 1 .. Len(Logged) : j = Logged[i])
                              \/ \E m \in 2 .. Len(sub) : j = sub[m].job
        /\ \A m \in 2 .. Len(sub) : sub[m].job \in AllJobs
    BY <1>2, LoggedJobs
  <2>2. AllJobs' = {Logged[i] : i \in 1 .. Len(Logged)} \cup {Tail(sub)[m].job : m \in 1 .. Len(Tail(sub))}
    BY <1>2, <1>10 DEF AllJobs
  <2> DEFINE s2 == Tail(sub)
  <2> DEFINE G == Logged
  <2>3. AllJobs' = {G[i] : i \in 1 .. Len(G)} \cup {s2[m].job : m \in 1 .. Len(s2)}
    BY <2>2
  <2>4. Len(s2) = Len(sub) - 1 /\ \A m \in 1 .. Len(sub) - 1 : s2[m] = sub[m + 1]
    BY <1>11
  <2>5. /\ \A i \in 1 .. Len(G) : G[i] \in AllJobs
        /\ \A j \in AllJobs : (\E i \in 1 .. Len(G) : j = G[i])
                              \/ \E m \in 2 .. Len(sub) : j = sub[m].job
    BY <2>1
  <2> HIDE DEF s2, G
  <2>6. ASSUME NEW m \in 1 .. Len(s2) PROVE s2[m].job \in AllJobs
    <3>1. m + 1 \in 2 .. Len(sub) /\ s2[m] = sub[m + 1]
      BY <1>3, <2>4
    <3> QED BY <2>1, <3>1
  <2>7. ASSUME NEW m \in 2 .. Len(sub) PROVE sub[m].job \in AllJobs'
    <3>1. m - 1 \in 1 .. Len(s2) /\ m - 1 \in 1 .. Len(sub) - 1 /\ (m - 1) + 1 = m
      BY <1>3, <2>4
    <3>2. s2[m - 1] = sub[(m - 1) + 1]
      BY <2>4, <3>1
    <3>3. s2[m - 1].job = sub[m].job
      BY <3>1, <3>2
    <3> QED BY <2>3, <3>1, <3>3
  <2>8. AllJobs' \subseteq AllJobs
    BY <2>3, <2>5, <2>6
  <2>9. AllJobs \subseteq AllJobs'
    BY <2>3, <2>5, <2>7
  <2> QED BY <2>8, <2>9
<1> QED BY <1>2, <1>18, <1>19, DataSame

\* Nothing of it changes when the process exits or nothing happens.
LEMMA StillData == Data /\ (GiveUp \/ UNCHANGED vars) => Data'
<1> SUFFICES ASSUME Data, GiveUp \/ UNCHANGED vars PROVE Data'
  OBVIOUS
<1>1. UNCHANGED <<q, msg, ring, mem, owned, nxt, hw, jobs, sub, left>>
  BY DEF GiveUp, vars, users
<1>2. Todo' = Todo /\ AllJobs' = AllJobs
  BY <1>1 DEF Todo, PendingDescs, Coming, AllJobs
<1> QED BY <1>1, <1>2, DataSame

-----------------------------------------------------------------------------
(* What is submitted *)

\* The descriptors of a list of submissions.
DescsIn(t) == UNION {{t[m].descs[k] : k \in 1 .. Len(t[m].descs)} : m \in 1 .. Len(t)}

\* What a handler submits comes on top of what there is to do.
LEMMA MoreWork ==
  ASSUME sub = <<>>, left = 0, UNCHANGED <<hw, jobs, left>>
  PROVE  /\ Todo \subseteq Todo' /\ DescsIn(sub') \subseteq Todo'
         /\ \A d \in Todo' : d \in Todo \/ d \in DescsIn(sub')
         /\ \A p : \A t \in Tails(p)' :
              t \in Tails(p) \/ \E m \in 1 .. Len(sub') : Carries(sub'[m].job, p) /\ t = sub'[m].job.tail
<1>1. Coming = {}
  <2>1. 1 .. Len(sub) = {}
    BY EmptyIs
  <2> QED BY <2>1 DEF Coming
<1>2. Coming' = DescsIn(sub') /\ PendingDescs' = PendingDescs
  BY DEF Coming, DescsIn, PendingDescs
<1>3. Todo \subseteq Todo' /\ DescsIn(sub') \subseteq Todo' /\ \A d \in Todo' : d \in Todo \/ d \in DescsIn(sub')
  BY <1>1, <1>2 DEF Todo
<1>4. \A j \in AllJobs' : j \in AllJobs \/ \E m \in 1 .. Len(sub') : j = sub'[m].job
  BY DEF AllJobs
<1>5. ASSUME NEW p, NEW t \in Tails(p)'
      PROVE  t \in Tails(p) \/ \E m \in 1 .. Len(sub') : Carries(sub'[m].job, p) /\ t = sub'[m].job.tail
  <2>1. PICK j \in AllJobs' : Carries(j, p) /\ t = j.tail
    BY <1>5 DEF Tails
  <2>2. CASE j \in AllJobs
    BY <2>1, <2>2 DEF Tails
  <2>3. CASE j \notin AllJobs
    BY <1>4, <2>1, <2>3
  <2> QED BY <2>2, <2>3
<1> QED BY <1>3, <1>5

\* The descriptors of two lists.
LEMMA CatDescs ==
  ASSUME NEW s, NEW t, IsSeq(s), IsSeq(t)
  PROVE  /\ DescsIn(s \o t) = DescsIn(s) \cup DescsIn(t)
         /\ \A m \in 1 .. Len(s \o t) : (\E k \in 1 .. Len(s) : (s \o t)[m] = s[k])
                                        \/ \E k \in 1 .. Len(t) : (s \o t)[m] = t[k]
<1> DEFINE c == s \o t
<1>1. /\ Len(s) \in Nat /\ Len(t) \in Nat /\ Len(c) = Len(s) + Len(t)
      /\ (\A i \in 1 .. Len(s) : c[i] = s[i]) /\ \A i \in 1 .. Len(t) : c[Len(s) + i] = t[i]
  BY CatIs DEF IsSeq
<1> HIDE DEF c
<1>2. ASSUME NEW m \in 1 .. Len(c)
      PROVE  (\E k \in 1 .. Len(s) : c[m] = s[k]) \/ \E k \in 1 .. Len(t) : c[m] = t[k]
  <2>1. CASE m <= Len(s)
    <3>1. m \in 1 .. Len(s)
      BY <1>1, <2>1
    <3> QED BY <1>1, <3>1
  <2>2. CASE ~(m <= Len(s))
    <3>1. m - Len(s) \in 1 .. Len(t) /\ Len(s) + (m - Len(s)) = m
      BY <1>1, <2>2
    <3>2. c[Len(s) + (m - Len(s))] = t[m - Len(s)]
      BY <1>1, <3>1
    <3> QED BY <3>1, <3>2
  <2> QED BY <2>1, <2>2
<1> DEFINE Of(e) == {e.descs[k] : k \in 1 .. Len(e.descs)}
<1>3. /\ DescsIn(c) = UNION {Of(c[m]) : m \in 1 .. Len(c)} /\ DescsIn(s) = UNION {Of(s[m]) : m \in 1 .. Len(s)}
      /\ DescsIn(t) = UNION {Of(t[m]) : m \in 1 .. Len(t)}
  BY DEF DescsIn
<1> HIDE DEF Of
<1>4. DescsIn(c) \subseteq DescsIn(s) \cup DescsIn(t)
  BY <1>2, <1>3
<1>5. DescsIn(s) \subseteq DescsIn(c)
  <2>1. \A m \in 1 .. Len(s) : m \in 1 .. Len(c) /\ c[m] = s[m]
    BY <1>1
  <2> QED BY <1>3, <2>1
<1>6. DescsIn(t) \subseteq DescsIn(c)
  <2>1. \A m \in 1 .. Len(t) : Len(s) + m \in 1 .. Len(c) /\ c[Len(s) + m] = t[m]
    BY <1>1
  <2> QED BY <1>3, <2>1
<1>7. DescsIn(c) = DescsIn(s) \cup DescsIn(t)
  BY <1>4, <1>5, <1>6
<1> QED BY <1>2, <1>7 DEF c

\* A list of one, and of none.
LEMMA OneDescs == ASSUME NEW e PROVE DescsIn(<<e>>) = {e.descs[k] : k \in 1 .. Len(e.descs)}
<1>1. Len(<<e>>) = 1 /\ <<e>>[1] = e
  BY OneIs
<1>2. 1 .. 1 = {1}
  OBVIOUS
<1> QED BY <1>1, <1>2 DEF DescsIn

\* No submissions, no descriptors.
LEMMA NoDescs == DescsIn(<<>>) = {} /\ 1 .. Len(<<>>) = {}
<1>1. 1 .. Len(<<>>) = {}
  BY EmptyIs
<1> QED BY <1>1 DEF DescsIn

\* t copies the elements from slot f to slot v, and only its last job publishes.
QeOf(d, src, dst) ==
  \E x, c \in Nat : d = [op |-> "qe", src |-> src, dst |-> dst, first |-> x, cnt |-> c]
QesOf(t, src, dst, f, v, l, flag, tl) ==
  /\ \A d \in DescsIn(t) : QeOf(d, src, dst)
  /\ \A i \in Slots(f, v, l) : CopyTo(DescsIn(t), dst, i)
  /\ \A m \in 1 .. Len(t) : t[m].job.src = src /\ t[m].job.tail = tl
                          /\ (t[m].job.flag = flag \/ (flag = "produce" /\ t[m].job.flag = "none"))

\* What gie_copy_qes submits: n elements from f on.
LEMMA QesDescs ==
  ASSUME NEW l \in Nat \ {0}, NEW src, Len_(src) = l, NEW dst, NEW f \in 0 .. l - 1, NEW n \in 1 .. l - 1,
         NEW flag, NEW hd, NEW tl, NEW t, t = gie_copy_qes(src, dst, n, f, flag, hd, tl)
  PROVE  QesOf(t, src, dst, f, q_idx_add(f, n, l), l, flag, tl)
<1> DEFINE v == q_idx_add(f, n, l)
<1> DEFINE D(x, c) == [op |-> "qe", src |-> src, dst |-> dst, first |-> x, cnt |-> c]
<1> DEFINE quiet == IF flag = "produce" THEN "none" ELSE flag
<1>1. ASSUME NEW x \in Nat, NEW c \in Nat, NEW g
      PROVE  /\ QeCopy(src, dst, x, c, g, hd, tl).job.src = src /\ QeCopy(src, dst, x, c, g, hd, tl).job.tail = tl
             /\ QeCopy(src, dst, x, c, g, hd, tl).job.flag = g
             /\ DescsIn(<<QeCopy(src, dst, x, c, g, hd, tl)>>) = {D(x, c)}
  <2> DEFINE e == QeCopy(src, dst, x, c, g, hd, tl)
  <2>1. e.job.src = src /\ e.job.tail = tl /\ e.job.flag = g /\ e.descs = <<D(x, c)>>
    BY DEF QeCopy, NewJob
  <2> HIDE DEF e, D
  <2>2. Len(<<D(x, c)>>) = 1 /\ <<D(x, c)>>[1] = D(x, c)
    BY OneIs
  <2>3. 1 .. 1 = {1}
    OBVIOUS
  <2>4. {e.descs[k] : k \in 1 .. Len(e.descs)} = {D(x, c)}
    BY <2>1, <2>2, <2>3
  <2>5. DescsIn(<<e>>) = {D(x, c)}
    BY <2>4, OneDescs
  <2> QED BY <2>1, <2>5 DEF e
<1>2. ASSUME NEW x \in Nat, NEW c \in Nat, NEW i \in x .. x + c - 1, NEW w, D(x, c) \in w
      PROVE  CopyTo(w, dst, i)
  <2>1. D(x, c).op = "qe" /\ D(x, c).dst = dst /\ Covered(D(x, c)) = x .. x + c - 1
    BY DEF Covered
  <2> HIDE DEF D
  <2> QED BY <1>2, <2>1 DEF CopyTo
<1> HIDE DEF D
<1>3. v = (IF f + n < l THEN f + n ELSE f + n - l) /\ v \in 0 .. l - 1
  BY AddCases
<1>4. CASE f + n > l
  <2> DEFINE a == QeCopy(src, dst, f, l - f, quiet, hd, tl)
  <2> DEFINE b == QeCopy(src, dst, 0, n - (l - f), flag, hd, tl)
  <2>1. t = <<a, b>> /\ l - f \in Nat /\ n - (l - f) \in Nat /\ 0 \in Nat
    <3>1. l - f \in Nat /\ n - (l - f) \in Nat /\ 0 \in Nat
      BY <1>4
    <3>2. t = <<a, b>>
      BY <1>4 DEF gie_copy_qes
    <3> QED BY <3>1, <3>2
  <2>2. /\ a.job.src = src /\ a.job.tail = tl /\ a.job.flag = quiet /\ DescsIn(<<a>>) = {D(f, l - f)}
        /\ b.job.src = src /\ b.job.tail = tl /\ b.job.flag = flag /\ DescsIn(<<b>>) = {D(0, n - (l - f))}
    <3>1. /\ a.job.src = src /\ a.job.tail = tl /\ a.job.flag = quiet /\ DescsIn(<<a>>) = {D(f, l - f)}
      BY <1>1, <2>1
    <3>2. b.job.src = src /\ b.job.tail = tl /\ b.job.flag = flag /\ DescsIn(<<b>>) = {D(0, n - (l - f))}
      BY <1>1, <2>1
    <3> QED BY <3>1, <3>2
  <2> HIDE DEF a, b
  <2>3. t = <<a>> \o <<b>> /\ IsSeq(<<a>>) /\ IsSeq(<<b>>)
    <3>1. IsSeq(<<a>>) /\ IsSeq(<<b>>)
      BY OneIs
    <3>2. <<a>> \o <<b>> = Append(<<a>>, b)
      BY <3>1, AppendCat
    <3>3. Append(<<a>>, b) = <<a, b>>
      <4> DEFINE z == <<>>
      <4>1. IsSeq(z) /\ IsSeq(<<a, b>>) /\ IsSeq(<<a>>) /\ z = <<>>
        BY EmptyIs, TwoIs, OneIs
      <4>2. z \o <<a, b>> = <<a, b>> /\ z \o <<a>> = <<a>>
        BY <4>1, EmptyCat
      <4> HIDE DEF z
      <4>3. z \o <<a, b>> = Append(Append(z, a), b) /\ z \o <<a>> = Append(z, a)
        BY <4>1, AppendCat, AppendCat2
      <4> QED BY <4>2, <4>3
    <3> QED BY <2>1, <3>1, <3>2, <3>3
  <2>4. DescsIn(t) = {D(f, l - f), D(0, n - (l - f))}
    BY <2>2, <2>3, CatDescs
  <2>5. ASSUME NEW i \in Slots(f, v, l) PROVE CopyTo(DescsIn(t), dst, i)
    <3>1. i \in 0 .. l - 1 /\ (f <= i \/ i < v)
      BY <1>3, <1>4, SlotIs
    <3>2. i \in f .. f + (l - f) - 1 \/ i \in 0 .. 0 + (n - (l - f)) - 1
      BY <1>3, <1>4, <3>1
    <3>3. D(f, l - f) \in DescsIn(t) /\ D(0, n - (l - f)) \in DescsIn(t)
      BY <2>4
    <3> QED BY <1>2, <2>1, <3>2, <3>3
  <2>6. ASSUME NEW m \in 1 .. Len(t)
        PROVE  t[m].job.src = src /\ t[m].job.tail = tl
               /\ (t[m].job.flag = flag \/ (flag = "produce" /\ t[m].job.flag = "none"))
    <3>1. t[m] = a \/ t[m] = b
      BY <2>1
    <3>2. CASE t[m] = a
      <4>1. a.job.flag = flag \/ (flag = "produce" /\ a.job.flag = "none")
        BY <2>2
      <4> HIDE DEF quiet
      <4> QED BY <2>2, <3>2, <4>1
    <3>3. CASE t[m] = b
      <4> HIDE DEF quiet
      <4> QED BY <2>2, <3>3
    <3> QED BY <3>1, <3>2, <3>3
  <2>7. \A d \in DescsIn(t) : QeOf(d, src, dst)
    <3>1. \A d \in DescsIn(t) : \E x, c \in Nat : d = D(x, c)
      BY <2>1, <2>4
    <3> QED BY <3>1 DEF D, QeOf
  <2> QED BY <2>5, <2>6, <2>7 DEF QesOf
<1>5. CASE ~(f + n > l)
  <2> DEFINE a == QeCopy(src, dst, f, n, flag, hd, tl)
  <2>1. t = <<a>> /\ n \in Nat /\ f \in Nat
    BY <1>5 DEF gie_copy_qes
  <2>2. a.job.src = src /\ a.job.tail = tl /\ a.job.flag = flag /\ DescsIn(<<a>>) = {D(f, n)}
    BY <1>1, <2>1
  <2> HIDE DEF a
  <2>3. ASSUME NEW i \in Slots(f, v, l) PROVE CopyTo(DescsIn(t), dst, i)
    <3>1. i \in 0 .. l - 1 /\ IF f <= v THEN f <= i /\ i < v ELSE f <= i \/ i < v
      BY <1>3, SlotIs
    <3>2. i \in f .. f + n - 1
      BY <1>3, <1>5, <3>1
    <3> QED BY <1>2, <2>1, <2>2, <3>2
  <2>4. ASSUME NEW m \in 1 .. Len(t)
        PROVE  t[m].job.src = src /\ t[m].job.tail = tl
               /\ (t[m].job.flag = flag \/ (flag = "produce" /\ t[m].job.flag = "none"))
    <3>1. t[m] = a
      BY <2>1
    <3> QED BY <2>2, <3>1
  <2>5. \A d \in DescsIn(t) : QeOf(d, src, dst)
    <3>1. \A d \in DescsIn(t) : \E x, c \in Nat : d = D(x, c)
      BY <2>1, <2>2
    <3> QED BY <3>1 DEF D, QeOf
  <2> QED BY <2>3, <2>4, <2>5 DEF QesOf
<1> QED BY <1>4, <1>5

-----------------------------------------------------------------------------
(* gie_process_remote_q, phase one *)

\* The elements from slot t to slot v are going to be copied.
Asking(t, v) ==
  /\ t = q["host_tx"].qe_tail /\ v \in 0 .. QLen - 1
  /\ q'["host_tx"].qe_tail = v /\ q'["host_tx"].head = q["host_tx"].head
  /\ Occupancy(t, q["host_tx"].head, QLen) + Occupancy(v, t, QLen) < QLen
  /\ (\A x \in Queues : x # "host_tx" /\ x # "lcl_rx" => q'[x] = q[x])
  /\ Todo \subseteq Todo' /\ (\A d \in Todo' : d \in Todo \/ d.op = "qe")
  /\ (\A i \in Slots(t, v, QLen) : CopyTo(Todo', "lcl_rx", i))
  /\ (\A p : Tails(p)' \subseteq Tails(p))
  /\ UNCHANGED <<msg, ring, mem, owned, nxt>>

\* ProcessRemoteQ does that.
LEMMA AskIs == ASSUME IInv, NEW p0 \in Pairs, ProcessRemoteQ(p0) PROVE \E t, v : Asking(t, v)
<1>1. PICK L, E, U, P, H, X, y : Whole(L, E, U, P, H, X, y)
  BY DEF IInv
<1>2. PICK src, dst, s, d : /\ src = "host_tx" /\ dst = "lcl_rx"
                            /\ s = [q[src] EXCEPT !.tail = msg[src].prod]
                            /\ d = [q[dst] EXCEPT !.head = msg[dst].cons]
  OBVIOUS
<1>3. PICK n : n = Clipped(d, ToCopy(s, d))
  OBVIOUS
<1>p. p0 = "egress" /\ src = Src[p0] /\ dst = Dst[p0]
  BY <1>2, Names DEF ProcessRemoteQ
<1>4. /\ sub = <<>> /\ UNCHANGED <<msg, ring, mem, hw, jobs, left, owned, nxt>>
      /\ \/ q' = [q EXCEPT ![src] = s, ![dst] = d] /\ UNCHANGED sub
         \/ /\ q' = [q EXCEPT ![src] = [s EXCEPT !.qe_tail = Ahead(@, n, src)],
                               ![dst] = [d EXCEPT !.qe_tail = Ahead(@, n, dst)]]
            /\ sub' = IF n > 0 THEN gie_copy_qes(src, dst, n, s.qe_tail, "update", 0, 0) ELSE <<>>
  BY <1>2, <1>3, <1>p DEF ProcessRemoteQ, Clipped, ToCopy, users
<1>5. left = 0
  BY <1>1, <1>4, Idle
<1> DEFINE M == Len(L)
<1> DEFINE h == H[p0]
<1> DEFINE x == X[p0]
<1> DEFINE x1 == [rd |-> X[p0].rd, sd |-> X[p0].rd, qt |-> X[p0].qt, tl |-> X[p0].sp, sp |-> X[p0].sp]
<1>6. /\ PairAt(p0, q[src], q[dst], msg[src], msg[dst], U[src][0], U[src][M], P[p0][0], P[p0][M], h, x)
      /\ q[src] \in QIdx /\ q[dst] \in QIdx /\ x \in Spot
      /\ msg[src].prod \in Nat /\ msg[dst].cons \in Nat /\ P[p0][0] \in Nat /\ h \in Nat /\ P[p0][0] <= h
  BY <1>1, <1>p, PairData
<1>7. /\ PairAt(p0, s, d, msg[src], msg[dst], U[src][0], U[src][M], P[p0][0], P[p0][M], h, x1)
      /\ s \in QIdx /\ d \in QIdx /\ x1 \in Spot
  <2> DEFINE a == q[src]
  <2> DEFINE b == q[dst]
  <2> DEFINE ms == msg[src]
  <2> DEFINE md == msg[dst]
  <2> DEFINE u0 == U[src][0]
  <2> DEFINE uM == U[src][M]
  <2> DEFINE b0 == P[p0][0]
  <2> DEFINE bM == P[p0][M]
  <2>1. ReadWords(a, b, ms, md, x, s, d, x1)
    BY <1>2 DEF ReadWords
  <2>2. /\ a \in QIdx /\ b \in QIdx /\ b0 \in Nat /\ h \in Nat /\ b0 <= h /\ x \in Spot
        /\ PairAt(p0, a, b, ms, md, u0, uM, b0, bM, h, x) /\ ms.prod \in Nat /\ md.cons \in Nat
    BY <1>6
  <2> HIDE DEF x1, M, a, b, ms, md, u0, uM, b0, bM, h, x
  <2>3. PairAt(p0, s, d, ms, md, u0, uM, b0, bM, h, x1) /\ s \in QIdx /\ d \in QIdx /\ x1 \in Spot
    BY <2>1, <2>2, Reread
  <2> QED BY <2>3 DEF a, b, ms, md, u0, uM, b0, bM
<1> HIDE DEF x1
<1>8. n \in Nat /\ (x1.qt + n) - x1.sd < QLen
  <2>1. n \in Nat /\ x1.qt + n <= x1.tl /\ (x1.qt + n) - x1.sd < QLen /\ n <= QLen
    BY <1>3, <1>p, <1>6, <1>7, RemoteCount
  <2> QED BY <2>1
<1> DEFINE t == q[src].qe_tail
<1> DEFINE g == q[src].head
<1> DEFINE qt == x1.qt
<1>9. /\ t = qt % QLen /\ g = h % QLen /\ qt \in Nat /\ h <= qt /\ (qt + n) - h < QLen
      /\ s.qe_tail = t /\ s.head = g /\ d.qe_tail = t
  <2>1. /\ x1.sd \in Nat /\ x1.rd \in Nat /\ x1.qt \in Nat
    BY <1>7 DEF Spot
  <2>2. /\ s.head = h % QLen /\ x1.sd <= x1.rd /\ x1.rd <= P[p0][0] /\ h <= x1.qt
        /\ s.qe_tail = x1.qt % QLen /\ d.qe_tail = x1.qt % QLen
    BY <1>7, <1>p DEF PairAt
  <2>3. (x1.qt + n) - h < QLen
    <3> HIDE DEF h
    <3> QED BY SMTT(30), <1>6, <1>8, <2>1, <2>2, Params
  <2>4. s.qe_tail = t /\ s.head = g
    BY <1>2, <1>6 DEF QIdx
  <2> QED BY <2>1, <2>2, <2>3, <2>4
<1> DEFINE v == (qt + n) % QLen
<1>10. /\ g \in 0 .. QLen - 1 /\ t \in 0 .. QLen - 1 /\ v \in 0 .. QLen - 1
       /\ q_idx_add(t, n, QLen) = v /\ Occupancy(v, t, QLen) = n /\ Occupancy(t, g, QLen) = qt - h /\ n < QLen
       /\ (qt - h) + n < QLen
  <2> HIDE DEF t, g, qt, h
  <2>0. QLen \in Nat \ {0} /\ h \in Nat
    BY Params, <1>6
  <2>1. qt + n \in Nat /\ qt <= qt + n /\ (qt + n) - qt < QLen /\ (qt + n) - qt = n /\ qt - h < QLen /\ n < QLen
        /\ (qt - h) + n < QLen
    BY <1>8, <1>9, <2>0
  <2>2. g \in 0 .. QLen - 1 /\ t \in 0 .. QLen - 1 /\ v \in 0 .. QLen - 1
    BY <1>9, <2>0, <2>1, ModRange
  <2>3. q_idx_add(t, n, QLen) = v
    BY <1>8, <1>9, <2>0, AddIs
  <2>4. Occupancy(v, t, QLen) = n
    BY <1>9, <2>0, <2>1, OccIs
  <2>5. Occupancy(t, g, QLen) = qt - h
    BY <1>9, <2>0, <2>1, OccIs
  <2> QED BY <2>1, <2>2, <2>3, <2>4, <2>5
<1>11. /\ q \in [Queues -> QIdx] /\ src \in Queues /\ dst \in Queues /\ src # dst /\ Len_(src) = QLen /\ Len_(dst) = QLen
  <2>1. IndexOk
    BY Basic
  <2> QED BY <1>2, <1>p, <2>1, Names DEF IndexOk
<1>12. /\ Todo \subseteq Todo' /\ DescsIn(sub') \subseteq Todo'
       /\ \A f \in Todo' : f \in Todo \/ f \in DescsIn(sub')
       /\ \A p : \A z \in Tails(p)' :
            z \in Tails(p) \/ \E m \in 1 .. Len(sub') : Carries(sub'[m].job, p) /\ z = sub'[m].job.tail
  BY <1>4, <1>5, MoreWork
<1> HIDE DEF t, g, qt, v, h, x, M
<1>13. CASE q' = [q EXCEPT ![src] = s, ![dst] = d] /\ UNCHANGED sub
  <2>1. q'[src] = s /\ \A z \in Queues : z # src /\ z # dst => q'[z] = q[z]
    BY <1>11, <1>13
  <2>2. DescsIn(sub') = {} /\ 1 .. Len(sub') = {}
    BY <1>4, <1>13, NoDescs
  <2>3. Slots(t, t, QLen) = {} /\ Occupancy(t, t, QLen) = 0
    <3>1. Occupancy(t, t, QLen) = 0 /\ QLen \in Nat \ {0}
      BY <1>10, Params, OccupancyCases
    <3>2. Slots(t, t, QLen) = {}
      BY <1>10, BeforeIn
    <3> QED BY <3>1, <3>2
  <2>4. Occupancy(t, g, QLen) + 0 < QLen
    <3>1. Occupancy(t, g, QLen) = qt - h /\ (qt - h) + n < QLen /\ n \in Nat /\ qt \in Nat /\ h \in Nat /\ QLen \in Nat
      BY <1>6, <1>8, <1>9, <1>10, Params
    <3> QED BY <3>1
  <2>5. q'["host_tx"].qe_tail = t /\ q'["host_tx"].head = g
    BY <1>2, <1>9, <2>1
  <2>6. (\A f \in Todo' : f \in Todo \/ f.op = "qe") /\ \A p : Tails(p)' \subseteq Tails(p)
    BY <1>12, <2>2
  <2>7. Asking(t, t)
    <3>1. t = q["host_tx"].qe_tail /\ g = q["host_tx"].head
      BY <1>2 DEF t, g
    <3> QED BY <1>2, <1>4, <1>10, <1>12, <2>1, <2>3, <2>4, <2>5, <2>6, <3>1 DEF Asking
  <2> QED BY <2>7
<1>14. CASE /\ q' = [q EXCEPT ![src] = [s EXCEPT !.qe_tail = Ahead(@, n, src)],
                               ![dst] = [d EXCEPT !.qe_tail = Ahead(@, n, dst)]]
            /\ sub' = IF n > 0 THEN gie_copy_qes(src, dst, n, s.qe_tail, "update", 0, 0) ELSE <<>>
  <2> DEFINE s2 == [s EXCEPT !.qe_tail = Ahead(@, n, src)]
  <2>1. q'[src] = s2 /\ \A z \in Queues : z # src /\ z # dst => q'[z] = q[z]
    <3> HIDE DEF s2
    <3> QED BY <1>11, <1>14 DEF s2
  <2>2. s2.qe_tail = v /\ s2.head = g
    <3>1. Ahead(s.qe_tail, n, src) = v
      BY <1>9, <1>10, <1>11 DEF Ahead
    <3> QED BY <1>7, <1>9, <3>1 DEF QIdx
  <2> HIDE DEF s2
  <2>3. /\ \A i \in Slots(t, v, QLen) : CopyTo(Todo', dst, i)
        /\ \A f \in DescsIn(sub') : f.op = "qe"
        /\ \A m \in 1 .. Len(sub') : sub'[m].job.flag = "update"
    <3>1. CASE n > 0
      <4> DEFINE c == sub'
      <4>0. PICK flag, z0 : flag = "update" /\ z0 = 0
        OBVIOUS
      <4>1. c = gie_copy_qes(src, dst, n, t, flag, z0, z0) /\ n \in 1 .. QLen - 1
        <5>1. n \in 1 .. QLen - 1
          BY <1>8, <1>10, <3>1, Params
        <5> QED BY <1>9, <1>14, <3>1, <4>0, <5>1
      <4> HIDE DEF c
      <4>2. QesOf(c, src, dst, t, v, QLen, flag, z0)
        <5>1. QLen \in Nat \ {0} /\ t \in 0 .. QLen - 1 /\ Len_(src) = QLen /\ q_idx_add(t, n, QLen) = v
          BY <1>10, <1>11, Params
        <5> QED BY <4>1, <5>1, QesDescs
      <4>3. \A i \in Slots(t, v, QLen) : CopyTo(Todo', dst, i)
        <5>1. \A i \in Slots(t, v, QLen) : CopyTo(DescsIn(c), dst, i)
          BY <4>2 DEF QesOf
        <5>2. DescsIn(c) \subseteq Todo'
          BY <1>12 DEF c
        <5> QED BY <5>1, <5>2 DEF CopyTo
      <4>4. \A f \in DescsIn(c) : f.op = "qe"
        BY <4>2 DEF QesOf, QeOf
      <4>5. \A m \in 1 .. Len(c) : c[m].job.flag = "update"
        BY <4>0, <4>2 DEF QesOf
      <4> QED BY <4>3, <4>4, <4>5 DEF c
    <3>2. CASE ~(n > 0)
      <4>1. n = 0 /\ sub' = <<>>
        BY <1>8, <1>14, <3>2
      <4>2. DescsIn(sub') = {} /\ 1 .. Len(sub') = {}
        BY <4>1, NoDescs
      <4>3. v = t
        <5>1. q_idx_add(t, 0, QLen) = t
          BY <1>10, Params, AddCases
        <5> QED BY <1>10, <4>1, <5>1
      <4>4. Slots(t, v, QLen) = {}
        BY <1>10, <4>3, BeforeIn
      <4> QED BY <4>2, <4>4
    <3> QED BY <3>1, <3>2
  <2>4. \A p : Tails(p)' \subseteq Tails(p)
    <3>1. \A m \in 1 .. Len(sub') : \A p : ~Carries(sub'[m].job, p)
      BY <2>3 DEF Carries
    <3> QED BY <1>12, <3>1
  <2>5. \A f \in Todo' : f \in Todo \/ f.op = "qe"
    BY <1>12, <2>3
  <2>6. q'["host_tx"].qe_tail = v /\ q'["host_tx"].head = g
    BY <1>2, <2>1, <2>2
  <2>7. Occupancy(t, g, QLen) + Occupancy(v, t, QLen) < QLen
    BY <1>10
  <2>8. Asking(t, v)
    <3>1. t = q["host_tx"].qe_tail /\ g = q["host_tx"].head
      BY <1>2 DEF t, g
    <3> QED BY <1>2, <1>4, <1>10, <1>12, <2>1, <2>3, <2>4, <2>5, <2>6, <2>7, <3>1 DEF Asking
  <2> QED BY <2>8
<1> QED BY <1>4, <1>13, <1>14

\* A pair whose elements are asked for is as it should be.
LEMMA AskOne ==
  ASSUME NEW p \in CopyPayload, p \in Pairs, p = "egress",
         DataOf(p, ring, mem, q, msg, Todo, Tails(p), owned[p]), Regions(q, msg), NEW t, NEW v, Asking(t, v)
  PROVE  DataOf(p, ring', mem', q', msg', Todo', Tails(p)', owned'[p])
<1> DEFINE w2 == Todo'
<1> DEFINE tl2 == Tails(p)'
<1> DEFINE q2 == q'
<1> DEFINE h == q["host_tx"].head
<1>1. /\ t = q["host_tx"].qe_tail /\ v \in 0 .. QLen - 1 /\ q2["host_tx"].qe_tail = v /\ q2["host_tx"].head = h
      /\ Occupancy(t, h, QLen) + Occupancy(v, t, QLen) < QLen
      /\ (\A x \in Queues : x # "host_tx" /\ x # "lcl_rx" => q2[x] = q[x])
      /\ Todo \subseteq w2 /\ (\A d \in w2 : d \in Todo \/ d.op = "qe")
      /\ (\A i \in Slots(t, v, QLen) : CopyTo(w2, "lcl_rx", i)) /\ tl2 \subseteq Tails(p)
      /\ msg' = msg /\ ring' = ring /\ mem' = mem /\ owned' = owned
  BY DEF Asking
<1>2. Src[p] = "host_tx" /\ Dst[p] = "lcl_rx" /\ Pool[p] = "lcl_bp" /\ "lcl_bp" \in Queues /\ QLen \in Nat \ {0}
  BY Names, Params
<1>3. Around(p, q, msg) /\ CopyAround(q, msg) /\ t \in 0 .. QLen - 1 /\ h \in 0 .. QLen - 1
  <2>1. Around(p, q, msg) /\ CopyAround(q, msg)
    BY DEF Regions
  <2> QED BY <1>1, <1>2, <2>1 DEF Around, CopyAround
<1> HIDE DEF w2, tl2, q2
<1>4. DataOf(p, ring, mem, q, msg, w2, tl2, owned[p])
  <2>1. SameIdx(p, q, msg, q, msg)
    BY DEF SameIdx
  <2>2. SameRings(p, ring, ring) /\ SameBufs(p, mem, mem)
    BY DEF SameRings, SameBufs
  <2>3. SameWork(p, Todo, w2)
    BY <1>1, WorkSame
  <2> QED BY <1>1, <1>3, <2>1, <2>2, <2>3, Frame
<1> DEFINE s == ring[Src[p]]
<1> DEFINE d == ring[Dst[p]]
<1> DEFINE un == UnreadIn(p, msg)
<1> DEFINE e == ElemsOf(p, ring, un)
<1>5. /\ s \in [0 .. QLen - 1 -> Elements] /\ d \in [0 .. QLen - 1 -> Elements]
      /\ SourceOk(p, s, mem, SentIn(p, msg)) /\ WholeOk(s, SentIn(p, msg))
      /\ ElemOk(e, s, mem, w2, TakenIn(p, q, msg), MovingIn(p, q, msg)) /\ AimedOk(p, e, w2)
      /\ CopiedOk(Dst[p], s, d, w2, CopiedIn(p, q, msg))
      /\ CutOk(d, e, un, MovingIn(p, q, msg), msg[Dst[p]].prod, tl2)
      /\ PoolOk(p, q, msg)
      /\ Spread(PoolBufs(p), Bufs(e), TakenIn(p, q, msg), ring[Pool[p]], FullIn(p, q, msg), ring["shadow"],
                FetchedIn(p, q), owned[p])
  BY <1>4, DataIs
<1>6. /\ MovingIn(p, q2, msg) = MovingIn(p, q, msg) /\ TakenIn(p, q2, msg) = TakenIn(p, q, msg)
      /\ FullIn(p, q2, msg) = FullIn(p, q, msg) /\ FetchedIn(p, q2) = FetchedIn(p, q) /\ PoolOk(p, q2, msg)
  <2>1. q2["lcl_bp"] = q["lcl_bp"]
    BY <1>1, <1>2
  <2>2. PoolOk(p, q2, msg)
    BY <1>2, <1>5, <2>1 DEF PoolOk
  <2>3. FullIn(p, q2, msg) = FullIn(p, q, msg)
    BY <1>2, <2>1 DEF FullIn
  <2>4. MovingIn(p, q2, msg) = MovingIn(p, q, msg) /\ TakenIn(p, q2, msg) = TakenIn(p, q, msg)
    BY <1>1, <1>2 DEF MovingIn, TakenIn
  <2>5. FetchedIn(p, q2) = FetchedIn(p, q)
    BY DEF FetchedIn
  <2> QED BY <2>2, <2>3, <2>4, <2>5
<1>7. CopiedOk(Dst[p], s, d, w2, CopiedIn(p, q2, msg))
  <2>1. CopiedIn(p, q2, msg) = Slots(h, v, QLen) /\ CopiedIn(p, q, msg) = Slots(h, t, QLen)
    BY <1>1, <1>2 DEF CopiedIn
  <2>2. Slots(h, v, QLen) = Slots(h, t, QLen) \cup Slots(t, v, QLen)
    <3> HIDE DEF h
    <3> QED BY <1>1, <1>2, <1>3, SlotsSplit
  <2>3. \A i \in Slots(t, v, QLen) : CopyTo(w2, Dst[p], i)
    BY <1>1, <1>2
  <2> QED BY <1>5, <2>1, <2>2, <2>3 DEF CopiedOk
<1> HIDE DEF s, d, un, e
<1>8. DataOf(p, ring, mem, q2, msg, w2, tl2, owned[p])
  <2>1. e = ElemsOf(p, ring, UnreadIn(p, msg)) /\ s = ring[Src[p]] /\ d = ring[Dst[p]] /\ un = UnreadIn(p, msg)
    BY DEF e, un, s, d
  <2>2. p = "ingress" => CopiedOk("shadow", ring["host_bp"], ring["shadow"], w2, FillIn(q2))
    OBVIOUS
  <2> QED BY <1>5, <1>6, <1>7, <2>1, <2>2, DataFrom
<1> QED BY <1>1, <1>8 DEF w2, tl2, q2

\* Asking for elements keeps it.
LEMMA RemoteData == ASSUME NEW p0 \in Pairs PROVE IInv /\ Data /\ ProcessRemoteQ(p0) => Data'
<1> SUFFICES ASSUME IInv, Data, ProcessRemoteQ(p0) PROVE Data'
  OBVIOUS
<1>1. Regions(q, msg)
  BY RegionsIs
<1>2. /\ mem \in [AllBufs -> Tag \cup {NoData}] /\ nxt \in [Pairs -> Nat] /\ OnlyCopied(Todo)
      /\ owned \in [Pairs -> SUBSET AllPoolBufs] /\ (\A p \in Pairs : owned[p] \subseteq PoolBufs(p))
      /\ \A p \in CopyPayload : DataOf(p, ring, mem, q, msg, Todo, Tails(p), owned[p])
  BY DEF Data, AllBufs
<1>3. PICK t, v : Asking(t, v)
  BY AskIs
<1>4. UNCHANGED <<msg, ring, mem, owned, nxt>> /\ p0 = "egress"
  BY <1>3 DEF Asking, ProcessRemoteQ
<1>5. ASSUME NEW p \in CopyPayload PROVE DataOf(p, ring', mem', q', msg', Todo', Tails(p)', owned'[p])
  <2>1. p \in Pairs /\ DataOf(p, ring, mem, q, msg, Todo, Tails(p), owned[p])
    BY <1>2, GieAssumption
  <2>2. CASE p = p0
    BY <1>1, <1>3, <1>4, <2>1, <2>2, AskOne
  <2>3. CASE p # p0
    <3>1. "host_tx" \in Own(p0) /\ "lcl_rx" \in Own(p0)
      BY <1>4, Names DEF Own
    <3>2. \A x \in Queues : x \notin Own(p0) => msg'[x] = msg[x] /\ ring'[x] = ring[x] /\ q'[x] = q[x]
      BY <1>3, <1>4, <3>1 DEF Asking
    <3>3. owned'[p] = owned[p] /\ \A b \in AllBufs : b[1] \notin Own(p0) => mem'[b] = mem[b]
      BY <1>4
    <3>4. SameWork(p, Todo, Todo') /\ Tails(p)' \subseteq Tails(p)
      <4>1. /\ Todo \subseteq Todo' /\ (\A d \in Todo' : d \in Todo \/ d.op = "qe")
            /\ Tails(p)' \subseteq Tails(p)
        BY <1>3 DEF Asking
      <4>2. \A d \in Todo' : d.op = "buf" /\ d.src[1] = Src[p] => d \in Todo
        BY <4>1
      <4> QED BY <4>1, <4>2, WorkSame
    <3> QED BY <1>1, <2>1, <2>3, <3>2, <3>3, <3>4, OtherPair
  <2> QED BY <2>2, <2>3
<1>6. OnlyCopied(Todo')
  <2>1. \A d \in Todo' : d.op = "buf" => d \in Todo
    BY <1>3 DEF Asking
  <2> QED BY <1>2, <2>1 DEF OnlyCopied
<1> QED BY <1>2, <1>4, <1>5, <1>6 DEF Data, AllBufs

-----------------------------------------------------------------------------
(* Elements get buffers *)

\* What Accepted takes is of the elements and of the buffers there are, and
\* ends a packet.
LEMMA AcceptedWhole ==
  ASSUME NEW r, NEW h, NEW limit \in Nat, NEW avail \in Nat, NEW n, n = Accepted(r, h, limit, avail),
         \A k \in 0 .. limit - 1 : r[q_idx_add(h, k, QLen)].sg # 1 =>
            /\ SgEn /\ r[q_idx_add(h, k, QLen)].sg = 2
            /\ k + 1 < limit => r[q_idx_add(h, k + 1, QLen)].sg = 1
  PROVE  /\ n \in 0 .. limit /\ n <= avail
         /\ n > 0 => r[q_idx_add(h, n - 1, QLen)].sg = 1
<1> DEFINE g(k) == r[q_idx_add(h, k, QLen)].sg
<1> DEFINE ok(k) == /\ avail - k >= 1
                    /\ (SgEn /\ g(k) > 1) => g(k) - 1 <= limit - k - 1 /\ avail - k >= g(k)
<1> DEFINE good == {m \in 0 .. limit : \A k \in 0 .. m - 1 : ok(k)}
<1>1. n = CHOOSE m \in good : \A o \in good : o <= m
  BY DEF Accepted
<1>2. \A k \in 0 .. limit - 1 : g(k) # 1 => SgEn /\ g(k) = 2 /\ (k + 1 < limit => g(k + 1) = 1)
  OBVIOUS
<1> HIDE DEF g
<1>3. good \in SUBSET (0 .. limit) /\ 0 \in good
  OBVIOUS
<1>4. n \in good /\ \A o \in good : o <= n
  <2>1. \E m \in good : \A o \in good : o <= m
    <3> HIDE DEF good
    <3>1. good # {}
      BY <1>3
    <3> QED BY <1>3, <3>1, NatMax
  <2> HIDE DEF good
  <2> QED BY <1>1, <2>1
<1>5. n \in 0 .. limit /\ \A k \in 0 .. n - 1 : ok(k)
  BY <1>4
<1>6. n <= avail
  <2>1. CASE n = 0
    BY <2>1
  <2>2. CASE n # 0
    <3>1. n - 1 \in 0 .. n - 1
      BY <1>5, <2>2
    <3>2. avail - (n - 1) >= 1
      BY <1>5, <3>1
    <3> QED BY <1>5, <3>2
  <2> QED BY <2>1, <2>2
<1>7. ASSUME n > 0, g(n - 1) # 1 PROVE FALSE
  <2>1. n - 1 \in 0 .. n - 1 /\ n - 1 \in 0 .. limit - 1 /\ n \in Nat /\ (n - 1) + 1 = n
    BY <1>5, <1>7
  <2>2. SgEn /\ g(n - 1) = 2 /\ (n < limit => g(n) = 1)
    BY <1>2, <1>7, <2>1
  <2>3. 2 - 1 <= limit - (n - 1) - 1 /\ avail - (n - 1) >= 2
    <3>1. ok(n - 1)
      BY <1>5, <2>1
    <3> QED BY <2>2, <3>1
  <2>4. n < limit /\ avail - n >= 1
    BY <2>1, <2>3
  <2>5. ok(n)
    BY <2>2, <2>4
  <2>6. n + 1 \in good
    <3>1. n + 1 \in 0 .. limit
      BY <2>1, <2>4
    <3>2. ASSUME NEW k \in 0 .. (n + 1) - 1 PROVE ok(k)
      <4>1. k \in 0 .. n - 1 \/ k = n
        BY <2>1
      <4> HIDE DEF ok
      <4> QED BY <1>5, <2>5, <4>1
    <3> HIDE DEF ok
    <3> QED BY <3>1, <3>2
  <2>7. n + 1 <= n
    BY <1>4, <2>6
  <2> QED BY <2>1, <2>7
<1> QED BY <1>5, <1>6, <1>7 DEF g

\* A batch is of no more elements than there are.
LEMMA ClipTo ==
  ASSUME NEW d \in QIdx, NEW m \in Nat
  PROVE  gie_clip_batch(d, m) \in 0 .. m /\ gie_clip_batch(d, m) <= Batch
<1> DEFINE x == d.tail - d.head + QLen
<1>1. x \in Int /\ QLen \in Nat \ {0} /\ Batch \in Nat \ {0}
  BY Params DEF QIdx
<1> DEFINE o == x % QLen
<1>2. o \in 0 .. QLen - 1
  <2> HIDE DEF x
  <2> QED BY <1>1, IntMod
<1>3. q_space(d, QLen) = QLen - o - 1
  BY DEF q_space, q_occupancy, Occupancy
<1> HIDE DEF o
<1> DEFINE s == QLen - o - 1
<1>4. s \in Nat
  BY <1>1, <1>2
<1>5. gie_clip_batch(d, m) = Lesser(Lesser(m, Batch), s)
  BY <1>3 DEF gie_clip_batch
<1> HIDE DEF s
<1> QED BY <1>1, <1>4, <1>5 DEF Lesser

\* The slots before, and past, those that are handed over.
LEMMA BeforeAdd ==
  ASSUME NEW h \in 0 .. QLen - 1, NEW n \in 1 .. QLen - 1
  PROVE  Before(q_idx_add(h, n, QLen)) = q_idx_add(h, n - 1, QLen)
<1>1. QLen \in Nat \ {0} /\ n \in 0 .. QLen - 1 /\ n - 1 \in 0 .. QLen - 1
  BY Params
<1>2. /\ q_idx_add(h, n, QLen) = (IF h + n < QLen THEN h + n ELSE h + n - QLen)
      /\ q_idx_add(h, n, QLen) \in 0 .. QLen - 1
      /\ q_idx_add(h, n - 1, QLen) = (IF h + (n - 1) < QLen THEN h + (n - 1) ELSE h + (n - 1) - QLen)
  BY <1>1, AddCases
<1> DEFINE v == q_idx_add(h, n, QLen)
<1> HIDE DEF v
<1>3. Before(v) = IF v = 0 THEN QLen - 1 ELSE v - 1
  BY <1>2, BeforeIs DEF v
<1> QED BY <1>1, <1>2, <1>3 DEF v

\* The slot before a stretch is not in it.
LEMMA BeforeOut ==
  ASSUME NEW a \in 0 .. QLen - 1, NEW v \in 0 .. QLen - 1
  PROVE  Before(a) \notin Slots(a, v, QLen)
<1>1. QLen \in Nat \ {0}
  BY Params
<1>2. Before(a) = (IF a = 0 THEN QLen - 1 ELSE a - 1) /\ Before(a) \in 0 .. QLen - 1
  BY BeforeIs
<1>3. Before(a) \in Slots(a, v, QLen) => IF a <= v THEN a <= Before(a) /\ Before(a) < v ELSE a <= Before(a) \/ Before(a) < v
  BY <1>1, <1>2, SlotIs
<1> QED BY <1>1, <1>2, <1>3

\* One more than k slots on.
LEMMA AddNext ==
  ASSUME NEW h \in 0 .. QLen - 1, NEW k \in 0 .. QLen - 1, k + 1 <= QLen - 1
  PROVE  q_idx_add(q_idx_add(h, k, QLen), 1, QLen) = q_idx_add(h, k + 1, QLen)
<1>1. QLen \in Nat \ {0} /\ k + 1 \in 0 .. QLen - 1 /\ 1 \in 0 .. QLen - 1
  BY Params
<1> DEFINE j == q_idx_add(h, k, QLen)
<1>2. j = (IF h + k < QLen THEN h + k ELSE h + k - QLen) /\ j \in 0 .. QLen - 1
  BY <1>1, AddCases
<1>3. q_idx_add(h, k + 1, QLen) = IF h + (k + 1) < QLen THEN h + (k + 1) ELSE h + (k + 1) - QLen
  BY <1>1, AddCases
<1> HIDE DEF j
<1>4. q_idx_add(j, 1, QLen) = IF j + 1 < QLen THEN j + 1 ELSE j + 1 - QLen
  BY <1>1, <1>2, AddCases
<1> QED BY <1>1, <1>2, <1>3, <1>4 DEF j

\* The n slots N of e, from h on, have what the n slots F of r have, from a on.
OneToOne(n, h, l1, N, e, a, l2, F, r) ==
  /\ l1 \in Nat \ {0} /\ l2 \in Nat \ {0} /\ h \in 0 .. l1 - 1 /\ a \in 0 .. l2 - 1
  /\ n \in 0 .. l1 - 1 /\ n \in 0 .. l2 - 1
  /\ N = Slots(h, q_idx_add(h, n, l1), l1) /\ F = Slots(a, q_idx_add(a, n, l2), l2)
  /\ \A i \in N : e[i] = r[q_idx_add(a, Occupancy(i, h, l1), l2)]

\* Slots handed over one to one hold the same.
LEMMA HandSlots ==
  ASSUME NEW n, NEW h, NEW l1, NEW N, NEW e, NEW a, NEW l2, NEW F, NEW r,
         OneToOne(n, h, l1, N, e, a, l2, F, r), Distinct(r, F)
  PROVE  Held(e, N) = Held(r, F) /\ Distinct(e, N)
<1>0. /\ l1 \in Nat \ {0} /\ l2 \in Nat \ {0} /\ h \in 0 .. l1 - 1 /\ a \in 0 .. l2 - 1
      /\ n \in 0 .. l1 - 1 /\ n \in 0 .. l2 - 1
      /\ N = Slots(h, q_idx_add(h, n, l1), l1) /\ F = Slots(a, q_idx_add(a, n, l2), l2)
      /\ \A i \in N : e[i] = r[q_idx_add(a, Occupancy(i, h, l1), l2)]
  BY DEF OneToOne
<1> DEFINE f(i) == q_idx_add(a, Occupancy(i, h, l1), l2)
<1> DEFINE o(i) == Occupancy(i, h, l1)
<1>1. ASSUME NEW i \in N PROVE f(i) \in F /\ o(i) \in 0 .. n - 1 /\ e[i] = r[f(i)] /\ Occupancy(f(i), a, l2) = o(i)
                                /\ q_idx_add(h, o(i), l1) = i
  <2>1. o(i) \in 0 .. n - 1 /\ q_idx_add(h, o(i), l1) = i
    BY <1>0, SlotFrom
  <2> HIDE DEF o
  <2>2. q_idx_add(a, o(i), l2) \in F /\ Occupancy(q_idx_add(a, o(i), l2), a, l2) = o(i)
    BY <1>0, <2>1, SlotAt
  <2> QED BY <1>0, <2>1, <2>2 DEF o
<1>2. ASSUME NEW j \in F PROVE \E i \in N : f(i) = j
  <2> DEFINE k == Occupancy(j, a, l2)
  <2>1. k \in 0 .. n - 1 /\ q_idx_add(a, k, l2) = j
    BY <1>0, SlotFrom
  <2> HIDE DEF k
  <2>2. q_idx_add(h, k, l1) \in N /\ Occupancy(q_idx_add(h, k, l1), h, l1) = k
    BY <1>0, <2>1, SlotAt
  <2> QED BY <2>1, <2>2
<1>3. Held(e, N) \subseteq Held(r, F)
  <2> HIDE DEF f, o
  <2> QED BY <1>1 DEF Held
<1>4. Held(r, F) \subseteq Held(e, N)
  <2> HIDE DEF f, o
  <2> QED BY <1>1, <1>2 DEF Held
<1>5. ASSUME NEW i \in N, NEW j \in N, e[i] = e[j] PROVE i = j
  <2> HIDE DEF f, o
  <2>1. f(i) = f(j)
    BY <1>1, <1>5 DEF Distinct
  <2>2. o(i) = o(j)
    BY <1>1, <2>1
  <2> QED BY <1>1, <2>2
<1> QED BY <1>3, <1>4, <1>5 DEF Distinct

\* The buffers of slots F go to the elements N.
LEMMA SpreadHand ==
  ASSUME NEW all, NEW e, NEW tk, NEW r, NEW full, NEW sh, NEW g, NEW ow, Spread(all, e, tk, r, full, sh, g, ow),
         NEW F, NEW f2, full = F \cup f2, F \cap f2 = {}, NEW N, NEW e2, \A i \in tk : e2[i] = e[i],
         Held(e2, N) = Held(r, F), Distinct(e2, N)
  PROVE  Spread(all, e2, tk \cup N, r, f2, sh, g, ow)
<1>1. /\ Distinct(e, tk) /\ Distinct(r, full) /\ Distinct(sh, g)
      /\ Held(e, tk) \cap Held(r, full) = {} /\ Held(e, tk) \cap Held(sh, g) = {} /\ Held(e, tk) \cap ow = {}
      /\ Held(r, full) \cap Held(sh, g) = {} /\ Held(r, full) \cap ow = {} /\ Held(sh, g) \cap ow = {}
      /\ Held(e, tk) \cup Held(r, full) \cup Held(sh, g) \cup ow = all
  BY DEF Spread
<1>2. Held(r, full) = Held(r, F) \cup Held(r, f2) /\ Distinct(r, f2)
  BY <1>1 DEF Held, Distinct
<1>3. Held(r, F) \cap Held(r, f2) = {}
  BY <1>1 DEF Held, Distinct
<1>4. Held(e2, tk \cup N) = Held(e, tk) \cup Held(r, F)
  <2>1. Held(e2, tk \cup N) = Held(e2, tk) \cup Held(e2, N)
    BY DEF Held
  <2>2. Held(e2, tk) = Held(e, tk)
    BY DEF Held
  <2> QED BY <2>1, <2>2
<1>5. Distinct(e2, tk \cup N)
  <2> SUFFICES ASSUME NEW i \in tk \cup N, NEW j \in tk \cup N, e2[i] = e2[j] PROVE i = j
    BY DEF Distinct
  <2>1. \A x \in tk : e2[x] \in Held(e, tk)
    BY DEF Held
  <2>2. \A x \in N : e2[x] \in Held(r, full)
    <3>1. \A x \in N : e2[x] \in Held(e2, N)
      BY DEF Held
    <3> QED BY <1>2, <3>1
  <2>3. CASE i \in tk /\ j \in tk
    BY <1>1, <2>3 DEF Distinct
  <2>4. CASE i \in N /\ j \in N
    BY <2>4 DEF Distinct
  <2>5. CASE i \in tk /\ j \in N
    BY <1>1, <2>1, <2>2, <2>5
  <2>6. CASE i \in N /\ j \in tk
    BY <1>1, <2>1, <2>2, <2>6
  <2> QED BY <2>3, <2>4, <2>5, <2>6
<1> HIDE DEF Held, Distinct
<1>6. Held(e2, tk \cup N) \cap Held(r, f2) = {} /\ Held(r, f2) \cap Held(sh, g) = {} /\ Held(r, f2) \cap ow = {}
  BY <1>1, <1>2, <1>3, <1>4
<1>7. Held(e2, tk \cup N) \cap Held(sh, g) = {} /\ Held(e2, tk \cup N) \cap ow = {}
  BY <1>1, <1>2, <1>4
<1>8. Held(e2, tk \cup N) \cup Held(r, f2) \cup Held(sh, g) \cup ow = all
  BY <1>1, <1>2, <1>4
<1> QED BY <1>1, <1>2, <1>5, <1>6, <1>7, <1>8 DEF Spread

\* The three kinds of places are alike.
LEMMA SpreadTurn ==
  ASSUME NEW all, NEW e, NEW tk, NEW r, NEW full, NEW sh, NEW g, NEW ow
  PROVE  /\ Spread(all, e, tk, r, full, sh, g, ow) => Spread(all, e, tk, sh, g, r, full, ow)
         /\ Spread(all, e, tk, r, full, sh, g, ow) => Spread(all, sh, g, r, full, e, tk, ow)
<1> DEFINE A == Held(e, tk)
<1> DEFINE B == Held(r, full)
<1> DEFINE C == Held(sh, g)
<1>1. Spread(all, e, tk, r, full, sh, g, ow) <=>
        (/\ Distinct(e, tk) /\ Distinct(r, full) /\ Distinct(sh, g)
         /\ A \cap B = {} /\ A \cap C = {} /\ A \cap ow = {} /\ B \cap C = {} /\ B \cap ow = {} /\ C \cap ow = {}
         /\ A \cup B \cup C \cup ow = all)
  BY DEF Spread
<1>2. Spread(all, e, tk, sh, g, r, full, ow) <=>
        (/\ Distinct(e, tk) /\ Distinct(sh, g) /\ Distinct(r, full)
         /\ A \cap C = {} /\ A \cap B = {} /\ A \cap ow = {} /\ C \cap B = {} /\ C \cap ow = {} /\ B \cap ow = {}
         /\ A \cup C \cup B \cup ow = all)
  BY DEF Spread
<1>3. Spread(all, sh, g, r, full, e, tk, ow) <=>
        (/\ Distinct(sh, g) /\ Distinct(r, full) /\ Distinct(e, tk)
         /\ C \cap B = {} /\ C \cap A = {} /\ C \cap ow = {} /\ B \cap A = {} /\ B \cap ow = {} /\ A \cap ow = {}
         /\ C \cup B \cup A \cup ow = all)
  BY DEF Spread
<1> HIDE DEF A, B, C
<1> QED BY <1>1, <1>2, <1>3

-----------------------------------------------------------------------------
(* gie_process_remote_q, phase two *)

\* An element that has arrived points to its source's buffer.
LEMMA ArrivedBuf ==
  ASSUME IInv, "egress" \in Pairs
  PROVE  \A i \in ArrivedIn(q) : ring["lcl_rx"][i].buf = <<"host_tx", i>>
<1> SUFFICES ASSUME NEW i \in ArrivedIn(q) PROVE ring["lcl_rx"][i].buf = <<"host_tx", i>>
  OBVIOUS
<1>1. PICK L, E, U, P, H, X, y : Whole(L, E, U, P, H, X, y)
  BY DEF IInv
<1> DEFINE p == "egress"
<1> DEFINE s == q["host_tx"]
<1>2. Src[p] = "host_tx" /\ Dst[p] = "lcl_rx" /\ "host_tx" \in Queues /\ Len_("host_tx") = QLen /\ QLen \in Nat \ {0}
  BY Names, Params
<1>3. /\ PairAt(p, s, q["lcl_rx"], msg["host_tx"], msg["lcl_rx"],
                U["host_tx"][0], U["host_tx"][Len(L)], P[p][0], P[p][Len(L)], H[p], X[p])
      /\ U["host_tx"][0] \in Nat /\ H[p] \in Nat
  BY <1>1, <1>2, PairData
<1>4. /\ Arrived(E, U, H, Len(L), hw.done) /\ Heads(U) /\ Len(L) \in Nat /\ Steps(L, E, U, P) /\ 0 \in 0 .. Len(L)
  BY <1>1, Parts
<1>5. PICK u, h : u = U["host_tx"][0] /\ h = H[p]
  OBVIOUS
<1>6. s.head = h % QLen /\ s.qe_head = u % QLen /\ u \in Nat /\ h \in Nat
  <2>1. s.head = h % QLen
    BY <1>3, <1>5 DEF PairAt
  <2>2. s.qe_head = u % QLen
    BY <1>2, <1>4, <1>5 DEF Heads
  <2> QED BY <1>3, <1>5, <2>1, <2>2
<1>7. \A x \in h .. u - 1 : ring["lcl_rx"][x % QLen].buf = <<"host_tx", x % QLen>>
  <2>1. \A k \in 0 .. Len(L) : E[k] <= hw.done =>
          \A x \in H["egress"] .. U["host_tx"][k] - 1 : ring["lcl_rx"][x % QLen].buf = <<"host_tx", x % QLen>>
    BY <1>4 DEF Arrived
  <2>2. E[0] = 0
    BY <1>4 DEF Steps
  <2>3. hw.done \in Nat
    <3>1. hw.done \in 0 .. Len(hw.descs) /\ Len(hw.descs) \in Nat
      BY HwIs
    <3> QED BY <3>1
  <2>4. E[0] <= hw.done
    BY <2>2, <2>3
  <2> QED BY <1>4, <1>5, <2>1, <2>4
<1> DEFINE hs == h % QLen
<1> DEFINE us == u % QLen
<1>8. hs \in 0 .. QLen - 1 /\ us \in 0 .. QLen - 1
  BY <1>2, <1>6, ModRange
<1>9. Around(p, q, msg) /\ CopyAround(q, msg)
  BY RegionsIs DEF Regions
<1>10. h <= u /\ u - h < QLen
  <2>1. h <= X[p].qt /\ X[p].qt <= X[p].tl /\ X[p].tl <= X[p].sp /\ X[p].sp - P[p][0] < QLen /\ P[p][0] <= h
        /\ X[p].qt \in Nat /\ X[p].tl \in Nat /\ X[p].sp \in Nat /\ P[p][0] \in Nat /\ U["host_tx"][Len(L)] = X[p].qt
    <3>1. X[p] \in Spot /\ P[p][0] \in Nat /\ P[p][0] <= H[p]
      BY <1>1, PairData
    <3>2. X[p].qt \in Nat /\ X[p].tl \in Nat /\ X[p].sp \in Nat
      BY <3>1 DEF Spot
    <3> QED BY <1>3, <1>5, <3>1, <3>2 DEF PairAt
  <2>2. h <= u
    BY <1>1, <1>2, <1>5, <1>3 DEF PairAt
  <2>3. U["host_tx"][0] <= U["host_tx"][Len(L)]
    <3>1. \A a, b \in 0 .. Len(L) : a <= b => \A x \in Queues : U[x][a] <= U[x][b]
      BY <1>1, Parts, StepsAre
    <3>2. 0 \in 0 .. Len(L) /\ Len(L) \in 0 .. Len(L) /\ 0 <= Len(L)
      BY <1>4
    <3> QED BY <1>2, <3>1, <3>2
  <2>4. u <= X[p].qt
    BY <1>5, <2>1, <2>3
  <2> DEFINE qt == X[p].qt
  <2> DEFINE tl == X[p].tl
  <2> DEFINE sp == X[p].sp
  <2> DEFINE b0 == P[p][0]
  <2>5. qt \in Nat /\ tl \in Nat /\ sp \in Nat /\ b0 \in Nat /\ u <= qt /\ qt <= tl /\ tl <= sp /\ sp - b0 < QLen /\ b0 <= h
    BY <2>1, <2>4
  <2> HIDE DEF qt, tl, sp, b0
  <2> QED BY <1>2, <1>6, <2>2, <2>5
<1>11. Occupancy(us, hs, QLen) = u - h
  BY <1>2, <1>6, <1>10, OccIs
<1> DEFINE k == Occupancy(i, hs, QLen)
<1>12. i \in Slots(hs, us, QLen)
  BY <1>6 DEF ArrivedIn
<1>13. u - h \in 0 .. QLen - 1 /\ us = q_idx_add(hs, u - h, QLen)
  <2>1. u - h \in Nat /\ h + (u - h) = u /\ u - h \in 0 .. QLen - 1
    BY <1>2, <1>6, <1>10
  <2> DEFINE n == u - h
  <2>2. n \in Nat /\ h + n = u
    BY <2>1
  <2> HIDE DEF n
  <2>3. q_idx_add(h % QLen, n, QLen) = (h + n) % QLen
    BY <1>2, <1>6, <2>2, AddIs
  <2> QED BY <2>1, <2>2, <2>3 DEF n
<1> HIDE DEF hs, us
<1>14. k \in 0 .. (u - h) - 1 /\ q_idx_add(hs, k, QLen) = i
  BY <1>2, <1>8, <1>12, <1>13, SlotFrom
<1> HIDE DEF k
<1>15. q_idx_add(hs, k, QLen) = (h + k) % QLen /\ h + k \in h .. u - 1
  <2>1. k \in Nat
    BY <1>14
  <2>2. q_idx_add(hs, k, QLen) = (h + k) % QLen
    BY <1>2, <1>6, <2>1, AddIs DEF hs
  <2> QED BY <1>6, <1>14, <2>2
<1> DEFINE x == h + k
<1>16. x \in h .. u - 1 /\ x % QLen = i
  BY <1>14, <1>15
<1> HIDE DEF x
<1> QED BY <1>7, <1>16

\* The descriptor of the k-th buffer from slot h of ring x on.
BufOf(x, h, k, to) == [op |-> "buf", src |-> <<x, q_idx_add(h, k, QLen)>>, dst |-> to[k]]

\* What gie_copy_buffers_r2l does: n of the first limit elements that have
\* arrived get the buffers of the pool from slot a on.
Buffing(p, h, a, n, v, c, limit, to) ==
  /\ h = q["host_tx"].head /\ a = q["lcl_bp"].head
  /\ limit \in Nat /\ limit <= Occupancy(q["host_tx"].qe_head, h, QLen)
  /\ n = Accepted(ring["lcl_rx"], h, limit, Occupancy(msg["lcl_bp"].prod, a, BpLen))
  /\ v = q_idx_add(h, n, QLen) /\ c = q_idx_add(a, n, BpLen)
  /\ q'["host_tx"].head = v /\ q'["host_tx"].qe_tail = q["host_tx"].qe_tail /\ q'["lcl_bp"].head = c
  /\ (\A x \in Queues : x \notin {"host_tx", "lcl_rx", "lcl_bp"} => q'[x] = q[x])
  /\ (\A x \in Queues : x # "lcl_bp" => msg'[x] = msg[x])
  /\ msg'["lcl_bp"].prod = msg["lcl_bp"].prod /\ msg'["lcl_bp"].cons = c
  /\ (\A k \in 0 .. n - 1 : to[k] = ring["lcl_bp"][q_idx_add(a, k, BpLen)])
  /\ ring'["lcl_rx"] = Rebuffered(ring["lcl_rx"], h, n, to) /\ (\A x \in Queues : x # "lcl_rx" => ring'[x] = ring[x])
  /\ Todo \subseteq Todo' /\ (\A k \in 0 .. n - 1 : BufOf("host_tx", h, k, to) \in Todo')
  /\ (\A d \in Todo' : d \in Todo \/ \E k \in 0 .. n - 1 : d = BufOf("host_tx", h, k, to))
  /\ (\A o \in Pairs : \A t \in Tails(o)' : t \in Tails(o) \/ (n > 0 /\ o = p /\ t = v))
  /\ UNCHANGED <<mem, nxt, owned>>

\* The buffers of the n slots of x from h on.
FromSlots(from, n, x, h) == \A k \in 0 .. n - 1 : from[k] = <<x, q_idx_add(h, k, QLen)>>

\* The list of one submission of buffers.
LEMMA BufsSub ==
  ASSUME NEW flag, NEW src, NEW dst, NEW hd, NEW tl, NEW from, NEW to, NEW n \in Nat, NEW t,
         t = << BufCopy(flag, src, dst, hd, tl, from, to, n) >>, NEW h, NEW x, FromSlots(from, n, x, h)
  PROVE  /\ \A k \in 0 .. n - 1 : BufOf(x, h, k, to) \in DescsIn(t)
         /\ \A d \in DescsIn(t) : \E k \in 0 .. n - 1 : d = BufOf(x, h, k, to)
         /\ Len(t) = 1 /\ t[1].job.flag = flag /\ t[1].job.src = src /\ t[1].job.tail = tl /\ IsSeq(t)
<1> DEFINE e == BufCopy(flag, src, dst, hd, tl, from, to, n)
<1> DEFINE D == [k \in 1 .. n |-> [op |-> "buf", src |-> from[k - 1], dst |-> to[k - 1]]]
<1>1. e.job.flag = flag /\ e.job.src = src /\ e.job.tail = tl /\ e.descs = D
  BY DEF BufCopy, NewJob
<1>2. Len(D) = n
  OBVIOUS
<1>3. \A k \in 1 .. n : D[k] = BufOf(x, h, k - 1, to)
  <2> SUFFICES ASSUME NEW k \in 1 .. n PROVE D[k] = BufOf(x, h, k - 1, to)
    OBVIOUS
  <2>1. k - 1 \in 0 .. n - 1
    OBVIOUS
  <2>2. D[k] = [op |-> "buf", src |-> from[k - 1], dst |-> to[k - 1]]
    OBVIOUS
  <2> HIDE DEF D
  <2>3. from[k - 1] = <<x, q_idx_add(h, k - 1, QLen)>>
    BY <2>1 DEF FromSlots
  <2> QED BY <2>2, <2>3 DEF BufOf
<1> HIDE DEF e, D
<1>4. t = <<e>> /\ Len(t) = 1 /\ t[1] = e /\ IsSeq(t)
  <2>1. t = <<e>>
    BY DEF e
  <2> QED BY <2>1, OneIs
<1>5. DescsIn(t) = {D[k] : k \in 1 .. n}
  <2>1. DescsIn(t) = {e.descs[k] : k \in 1 .. Len(e.descs)}
    BY <1>4, OneDescs
  <2> QED BY <1>1, <1>2, <2>1
<1>6. ASSUME NEW k \in 0 .. n - 1 PROVE BufOf(x, h, k, to) \in DescsIn(t)
  <2>1. k + 1 \in 1 .. n /\ (k + 1) - 1 = k
    OBVIOUS
  <2>2. D[k + 1] = BufOf(x, h, (k + 1) - 1, to)
    BY <1>3, <2>1
  <2>3. D[k + 1] = BufOf(x, h, k, to)
    BY <2>1, <2>2
  <2> QED BY <1>5, <2>1, <2>3
<1>7. ASSUME NEW d \in DescsIn(t) PROVE \E k \in 0 .. n - 1 : d = BufOf(x, h, k, to)
  <2>1. PICK k \in 1 .. n : d = D[k]
    BY <1>5
  <2>2. k - 1 \in 0 .. n - 1
    OBVIOUS
  <2> QED BY <1>3, <2>1, <2>2
<1> QED BY <1>1, <1>4, <1>6, <1>7

\* ProcessBuffers does that.
LEMMA BuffIs ==
  ASSUME IInv, NEW p0 \in Pairs, ProcessBuffers(p0), p0 \in CopyPayload, q["lcl_bp"].head \in 0 .. BpLen - 1
  PROVE  \E h, a, n, v, c, limit, to : Buffing(p0, h, a, n, v, c, limit, to)
<1>2. PICK src, dst, pool, b, head, limit, n, from, to, hd, tl :
        Buffering(p0, src, dst, pool, b, head, limit, n, from, to, hd, tl)
  BY BuffersDo
<1>1. PICK L, E, U, P, H, X, y : Whole(L, E, U, P, H, X, y)
  BY SMTT(30) DEF IInv
<1>3. /\ src = Src[p0] /\ dst = Dst[p0] /\ pool = Pool[p0] /\ b = [q[pool] EXCEPT !.tail = msg[pool].prod]
      /\ head = q[src].head /\ limit = gie_clip_batch(q[dst], qes_copied(q[src], QLen))
  BY ZenonT(30), <1>2 DEF Buffering
<1>4. n = Accepted(ring[dst], head, limit, q_occupancy(b, BpLen))
  BY ZenonT(30), <1>2 DEF Buffering
<1>5. /\ hd = Ahead(head, n, src) /\ tl = Ahead(q[dst].tail, n, dst)
      /\ from = [k \in 0 .. n - 1 |-> ring[dst][Ahead(head, k, dst)].buf]
      /\ to = [k \in 0 .. n - 1 |-> ring[pool][Ahead(b.head, k, pool)]]
  BY ZenonT(30), <1>2 DEF Buffering
<1>6. p0 = "egress" /\ sub = <<>> /\ UNCHANGED <<hw, jobs, left>>
  BY ZenonT(30), <1>2 DEF Buffering
<1>7. /\ msg' = [msg EXCEPT ![pool].cons = Ahead(b.head, n, pool)]
      /\ ring' = [ring EXCEPT ![dst] = Rebuffered(@, head, n, to)]
      /\ sub' = IF n = 0 THEN <<>> ELSE << BufCopy("buffer", src, dst, hd, tl, from, to, n) >>
  BY ZenonT(30), <1>2 DEF Buffering
<1>8. UNCHANGED <<mem, nxt, owned>>
  BY DEF ProcessBuffers, users
<1>9. /\ src \in Queues /\ dst \in Queues /\ pool \in Queues /\ Len_(src) = QLen /\ Len_(dst) = QLen /\ Len_(pool) = BpLen
      /\ src = "host_tx" /\ dst = "lcl_rx" /\ pool = "lcl_bp" /\ QLen \in Nat \ {0} /\ BpLen \in Nat \ {0}
  BY <1>3, <1>6, Names, Params
<1>10. IndexOk /\ RingOk /\ left = 0
  BY <1>1, <1>6, Basic, Idle
<1>11. Around(p0, q, msg) /\ CopyAround(q, msg)
  BY <1>6, RegionsIs DEF Regions
<1> DEFINE h == q[src].head
<1> DEFINE a == q[pool].head
<1> DEFINE v == q_idx_add(h, n, QLen)
<1> DEFINE c == q_idx_add(a, n, BpLen)
<1>12. h \in 0 .. QLen - 1 /\ a \in 0 .. BpLen - 1 /\ q[dst].tail = h /\ q[src].qe_head \in 0 .. QLen - 1
  BY <1>3, <1>9, <1>11 DEF Around, CopyAround
<1>13. q[src] \in QIdx /\ q[dst] \in QIdx /\ q[pool] \in QIdx /\ msg[pool].prod \in Nat /\ q \in [Queues -> QIdx]
  BY <1>9, <1>10 DEF IndexOk, Words
<1>14. b \in QIdx /\ b.head = a /\ b.tail = msg[pool].prod /\ b.qe_head = q[pool].qe_head
  <2> DEFINE g == q[pool]
  <2> DEFINE t == msg[pool].prod
  <2>1. g \in QIdx /\ t \in Nat /\ b = [g EXCEPT !.tail = t]
    BY <1>3, <1>13
  <2> HIDE DEF g, t
  <2>2. b \in QIdx /\ b.head = g.head /\ b.tail = t /\ b.qe_head = g.qe_head
    BY <2>1 DEF QIdx
  <2> QED BY <2>2 DEF g, t
<1> DEFINE avail == Occupancy(msg[pool].prod, a, BpLen)
<1>15. q_occupancy(b, BpLen) = avail /\ avail \in Nat
  <2>1. q_occupancy(b, BpLen) = avail
    BY <1>14 DEF q_occupancy
  <2>2. q_occupancy(b, BpLen) \in Nat
    BY <1>9, <1>14, OccNat
  <2> QED BY <2>1, <2>2
<1> HIDE DEF h, a, avail, v, c
<1>16. limit \in Nat /\ limit <= Occupancy(q[src].qe_head, h, QLen)
  <2> DEFINE m == qes_copied(q[src], QLen)
  <2>1. m = Occupancy(q[src].qe_head, h, QLen)
    BY DEF qes_copied, Occupancy, h
  <2>2. m \in Nat
    <3> DEFINE u == q[src].qe_head
    <3>1. u \in 0 .. QLen - 1 /\ h \in 0 .. QLen - 1 /\ QLen \in Nat \ {0} /\ m = Occupancy(u, h, QLen)
      BY <2>1, <1>9, <1>12
    <3> HIDE DEF u, m
    <3>2. Occupancy(u, h, QLen) \in 0 .. QLen - 1
      BY <3>1, OccupancyCases
    <3> QED BY <3>1, <3>2
  <2>3. limit = gie_clip_batch(q[dst], m)
    BY <1>3
  <2> HIDE DEF m
  <2>4. limit \in 0 .. m
    BY <1>13, <2>2, <2>3, ClipTo
  <2> QED BY <2>1, <2>2, <2>4
<1>17. n = Accepted(ring[dst], h, limit, avail) /\ n \in 0 .. limit /\ n \in Nat
  <2>1. n = Accepted(ring[dst], h, limit, avail)
    BY <1>3, <1>4, <1>15 DEF h
  <2>2. n \in 0 .. limit
    BY <1>15, <1>16, <2>1, AcceptedIs
  <2> QED BY <1>16, <2>1, <2>2
<1>18. hd = v /\ tl = v /\ v \in Nat /\ Ahead(b.head, n, pool) = c /\ c \in Nat
  <2>1. hd = v
    BY <1>3, <1>5, <1>9 DEF Ahead, v, h
  <2>2. tl = v
    BY <1>5, <1>9, <1>12 DEF Ahead, v
  <2>3. Ahead(b.head, n, pool) = c
    BY <1>9, <1>14 DEF Ahead, c
  <2>4. v \in Nat /\ c \in Nat
    <3>1. h \in Nat /\ a \in Nat
      BY <1>12
    <3>2. (h + n) % QLen \in 0 .. QLen - 1 /\ (a + n) % BpLen \in 0 .. BpLen - 1
      <4>1. h + n \in Int /\ a + n \in Int
        BY <1>17, <3>1
      <4> QED BY <1>9, <4>1, IntMod
    <3> QED BY <1>9, <3>2 DEF v, c, q_idx_add
  <2> QED BY <2>1, <2>2, <2>3, <2>4
<1>z. PICK z : z = IF limit > 0 THEN [b EXCEPT !.head = c] ELSE q[pool]
  OBVIOUS
<1>19. z \in QIdx /\ z.qe_head = q[pool].qe_head /\ z.head = c
  <2>1. CASE limit > 0
    <3>1. z = [b EXCEPT !.head = c]
      BY <1>z, <2>1
    <3> QED BY <1>14, <1>18, <3>1 DEF QIdx
  <2>2. CASE ~(limit > 0)
    <3>1. z = q[pool] /\ n = 0
      BY <1>z, <1>16, <1>17, <2>2
    <3>2. 0 \in 0 .. BpLen - 1
      BY <1>9
    <3>3. q_idx_add(a, 0, BpLen) = a
      BY <1>9, <1>12, <3>2, AddCases
    <3>4. z.head = c
      BY <3>1, <3>3 DEF a, c
    <3> QED BY <1>13, <3>1, <3>4
  <2> QED BY <2>1, <2>2
<1>20. q' = [q EXCEPT ![src].head = hd, ![dst].tail = tl, ![pool] = z]
  <2> DEFINE k == p0 \in CopyPayload /\ limit > 0
  <2> DEFINE z1 == [b EXCEPT !.head = Ahead(@, n, pool)]
  <2>1. q' = [q EXCEPT ![src].head = hd, ![dst].tail = tl, ![pool] = IF k THEN z1 ELSE @]
    BY ZenonT(30), <1>2 DEF Buffering
  <2>2. z = IF k THEN z1 ELSE q[pool]
    <3>1. z1 = [b EXCEPT !.head = c]
      BY <1>18
    <3> QED BY <1>z, <3>1
  <2> HIDE DEF k, z1
  <2>3. q = [x \in Queues |-> q[x]] /\ src \in Queues /\ dst \in Queues /\ pool \in Queues
        /\ src # dst /\ src # pool /\ dst # pool
    BY <1>9, <1>13
  <2> QED BY SMTT(30), <2>1, <2>2, <2>3, AtOr
<1>21. /\ q'[src].head = v /\ q'[src].qe_tail = q[src].qe_tail /\ q'[pool].head = c
       /\ \A x \in Queues : x # src /\ x # dst /\ x # pool => q'[x] = q[x]
  <2>1. src # dst /\ src # pool /\ dst # pool /\ hd \in Nat /\ tl \in Nat
    BY <1>9, <1>18
  <2>2. /\ q'[src].head = hd /\ q'[src].qe_tail = q[src].qe_tail
        /\ \A x \in Queues : x # src /\ x # dst /\ x # pool => q'[x] = q[x]
    <3>1. q \in [Queues -> QIdx] /\ src \in Queues /\ dst \in Queues /\ pool \in Queues
      BY <1>9, <1>13
    <3>2. z \in QIdx /\ z.qe_head = q[pool].qe_head
      BY <1>19
    <3>3. /\ q' \in [Queues -> QIdx]
          /\ q'[src].tail = q[src].tail /\ q'[src].head = hd /\ q'[src].qe_tail = q[src].qe_tail
          /\ q'[dst].tail = tl /\ q'[dst].head = q[dst].head /\ q'[dst].qe_tail = q[dst].qe_tail
          /\ (\A x \in Queues : x # src /\ x # dst /\ x # pool => q'[x] = q[x])
          /\ \A x \in Queues : q'[x].qe_head = q[x].qe_head
      <4>1. q' = [q EXCEPT ![src].head = hd, ![dst].tail = tl, ![pool] = z]
        BY <1>20
      <4> QED BY <2>1, <4>1, <3>1, <3>2, ThreeQueues
    <3> QED BY <3>3
  <2>3. q'[pool] = z
    <3> DEFINE s2 == [q[src] EXCEPT !.head = hd]
    <3> DEFINE d2 == [q[dst] EXCEPT !.tail = tl]
    <3>1. q' = [x \in Queues |-> IF x = pool THEN z ELSE IF x = dst THEN d2 ELSE IF x = src THEN s2 ELSE q[x]]
      BY <1>9, <1>13, <1>20
    <3> HIDE DEF s2, d2
    <3> QED BY <1>9, <3>1
  <2> QED BY <1>18, <1>19, <2>2, <2>3
<1>22. /\ \A x \in Queues : x # pool => msg'[x] = msg[x]
       /\ msg'[pool].prod = msg[pool].prod /\ msg'[pool].cons = c
  <2>1. msg' = [msg EXCEPT ![pool].cons = c]
    BY <1>7, <1>18
  <2> QED BY ZenonT(30), <1>9, <1>10, <2>1, ConsIs
<1>23. ASSUME NEW k \in 0 .. n - 1 PROVE to[k] = ring[pool][q_idx_add(a, k, BpLen)]
  <2>1. to[k] = ring[pool][Ahead(b.head, k, pool)]
    BY <1>5
  <2> QED BY <2>1, <1>9, <1>14 DEF Ahead
<1>24. ring'[dst] = Rebuffered(ring[dst], h, n, to) /\ \A x \in Queues : x # dst => ring'[x] = ring[x]
  <2> DEFINE r2 == Rebuffered(ring[dst], head, n, to)
  <2>1. ring' = [ring EXCEPT ![dst] = r2]
    BY <1>7
  <2> HIDE DEF r2
  <2>2. ring'[dst] = r2 /\ \A x \in Queues : x # dst => ring'[x] = ring[x]
    BY <1>9, <1>10, <2>1, SetRing
  <2> QED BY <1>3, <2>2 DEF r2, h
<1>25. ASSUME NEW k \in 0 .. n - 1 PROVE from[k] = <<"host_tx", q_idx_add(h, k, QLen)>>
  <2>1. from[k] = ring[dst][q_idx_add(h, k, QLen)].buf
    BY <1>3, <1>5, <1>9 DEF Ahead, h
  <2> DEFINE u == q[src].qe_head
  <2> DEFINE m == Occupancy(u, h, QLen)
  <2>2. m \in 0 .. QLen - 1 /\ m = Occupancy(u, h, QLen)
    BY <1>9, <1>12, OccupancyCases
  <2>3. limit <= m
    BY <1>16
  <2>4. ArrivedIn(q) = Slots(h, u, QLen)
    BY <1>9 DEF ArrivedIn, h
  <2>5. u \in 0 .. QLen - 1
    BY <1>12
  <2> HIDE DEF u, m
  <2>6. k \in 0 .. m - 1 /\ k \in 0 .. QLen - 1
    <3>1. n \in 0 .. limit /\ limit \in Nat /\ m \in 0 .. QLen - 1 /\ limit <= m /\ QLen \in Nat
      BY <1>9, <1>16, <1>17, <2>2, <2>3
    <3> QED BY <3>1
  <2>7. Occupancy(q_idx_add(h, k, QLen), h, QLen) = k /\ q_idx_add(h, k, QLen) \in 0 .. QLen - 1
    <3>1. QLen \in Nat \ {0} /\ h \in 0 .. QLen - 1 /\ k \in 0 .. QLen - 1
      BY <1>9, <1>12, <2>6
    <3> QED BY <3>1, FirstSlots
  <2>8. q_idx_add(h, k, QLen) \in ArrivedIn(q)
    <3>1. Occupancy(q_idx_add(h, k, QLen), h, QLen) < Occupancy(u, h, QLen)
      BY <2>2, <2>6, <2>7
    <3> QED BY <2>4, <2>7, <3>1 DEF Slots, Occupancy
  <2> QED BY <1>6, <1>9, <2>1, <2>8, ArrivedBuf
<1>26. /\ \A k \in 0 .. n - 1 : BufOf("host_tx", h, k, to) \in DescsIn(sub')
       /\ \A d \in DescsIn(sub') : \E k \in 0 .. n - 1 : d = BufOf("host_tx", h, k, to)
       /\ \A m \in 1 .. Len(sub') : n > 0 /\ sub'[m].job.src = "host_tx" /\ sub'[m].job.tail = v
  <2>1. CASE n = 0
    <3>1. sub' = <<>> /\ 0 .. n - 1 = {}
      BY <1>7, <2>1
    <3> QED BY <3>1, NoDescs
  <2>2. CASE n # 0
    <3> DEFINE t == sub'
    <3> DEFINE flag == "buffer"
    <3> DEFINE x == "host_tx"
    <3>1. t = << BufCopy(flag, src, dst, hd, tl, from, to, n) >>
      BY <1>7, <2>2
    <3>2. FromSlots(from, n, x, h)
      BY <1>25 DEF FromSlots
    <3> HIDE DEF t, flag, x
    <3>3. /\ \A k \in 0 .. n - 1 : BufOf(x, h, k, to) \in DescsIn(t)
          /\ \A d \in DescsIn(t) : \E k \in 0 .. n - 1 : d = BufOf(x, h, k, to)
          /\ Len(t) = 1 /\ t[1].job.src = src /\ t[1].job.tail = tl
      BY ONLY <1>17, <3>1, <3>2, BufsSub
    <3>4. \A m \in 1 .. Len(t) : n > 0 /\ t[m].job.src = "host_tx" /\ t[m].job.tail = v
      <4>1. \A m \in 1 .. Len(t) : m = 1
        BY <3>3
      <4>2. n > 0
        BY <1>17, <2>2
      <4> QED BY <1>9, <1>18, <3>3, <4>1, <4>2
    <3> QED BY <3>3, <3>4 DEF t, x
  <2> QED BY <2>1, <2>2
<1>27. /\ Todo \subseteq Todo' /\ DescsIn(sub') \subseteq Todo' /\ \A d \in Todo' : d \in Todo \/ d \in DescsIn(sub')
       /\ \A p : \A t \in Tails(p)' :
            t \in Tails(p) \/ \E m \in 1 .. Len(sub') : Carries(sub'[m].job, p) /\ t = sub'[m].job.tail
  BY <1>6, <1>10, MoreWork
<1>28. ASSUME NEW o \in Pairs, NEW t \in Tails(o)' PROVE t \in Tails(o) \/ (n > 0 /\ o = p0 /\ t = v)
  <2>1. CASE t \in Tails(o)
    BY <2>1
  <2>2. CASE t \notin Tails(o)
    <3>1. PICK m \in 1 .. Len(sub') : Carries(sub'[m].job, o) /\ t = sub'[m].job.tail
      BY <1>27, <2>2
    <3>2. Src[o] = "host_tx" /\ n > 0 /\ t = v
      BY <1>26, <3>1 DEF Carries
    <3>3. o = p0
      BY <1>3, <1>9, <3>2, Apart
    <3> QED BY <3>2, <3>3
  <2> QED BY <2>1, <2>2
<1>29. /\ Todo \subseteq Todo' /\ (\A k \in 0 .. n - 1 : BufOf("host_tx", h, k, to) \in Todo')
       /\ \A d \in Todo' : d \in Todo \/ \E k \in 0 .. n - 1 : d = BufOf("host_tx", h, k, to)
  BY <1>26, <1>27
<1>30. h = q["host_tx"].head /\ a = q["lcl_bp"].head /\ avail = Occupancy(msg["lcl_bp"].prod, a, BpLen)
       /\ v = q_idx_add(h, n, QLen) /\ c = q_idx_add(a, n, BpLen)
  BY <1>9 DEF h, a, avail, v, c
<1>31. Buffing(p0, h, a, n, v, c, limit, to)
  BY <1>6, <1>8, <1>9, <1>16, <1>17, <1>21, <1>22, <1>23, <1>24, <1>28, <1>29, <1>30 DEF Buffing
<1> QED BY <1>31

\* The first k slots of some, and the rest.
LEMMA SkipSlots ==
  ASSUME NEW n \in Nat \ {0}, NEW a \in 0 .. n - 1, NEW b \in 0 .. n - 1, NEW k \in 0 .. n - 1,
         k <= Occupancy(b, a, n), NEW v, v = q_idx_add(a, k, n)
  PROVE  /\ v \in 0 .. n - 1 /\ Occupancy(v, a, n) = k /\ Occupancy(b, v, n) = Occupancy(b, a, n) - k
         /\ Slots(a, b, n) = Slots(a, v, n) \cup Slots(v, b, n) /\ Slots(a, v, n) \cap Slots(v, b, n) = {}
<1>1. v = (IF a + k < n THEN a + k ELSE a + k - n) /\ v \in 0 .. n - 1
  BY AddCases
<1>2. /\ Occupancy(b, a, n) = (IF b >= a THEN b - a ELSE b - a + n)
      /\ Occupancy(b, v, n) = (IF b >= v THEN b - v ELSE b - v + n)
      /\ Occupancy(v, a, n) = (IF v >= a THEN v - a ELSE v - a + n)
  BY <1>1, OccupancyCases
<1>3. Occupancy(v, a, n) = k /\ Occupancy(b, v, n) = Occupancy(b, a, n) - k
      /\ Occupancy(v, a, n) + Occupancy(b, v, n) < n
  BY <1>1, <1>2
<1> QED BY <1>1, <1>3, SlotsSplit

\* Buffers of the pools; r2 is r with buffers to from slot h on, those of N.
PoolTo(n, to) == \A k \in 0 .. n - 1 : to[k] \in AllPoolBufs
NewBufs(r, r2, h, N, to) ==
  /\ r2 \in [0 .. QLen - 1 -> Elements]
  /\ \A i \in 0 .. QLen - 1 : r2[i].tag = r[i].tag /\ r2[i].sg = r[i].sg
  /\ \A i \in N : r2[i].buf = to[Occupancy(i, h, QLen)]
  /\ \A i \in 0 .. QLen - 1 : i \notin N => r2[i] = r[i]
\* The elements that get buffers keep all else.
LEMMA RebufAt ==
  ASSUME NEW r \in [0 .. QLen - 1 -> Elements], NEW h \in 0 .. QLen - 1, NEW n \in 0 .. QLen - 1, NEW to,
         PoolTo(n, to), NEW r2, r2 = Rebuffered(r, h, n, to), NEW N, N = Slots(h, q_idx_add(h, n, QLen), QLen)
  PROVE  NewBufs(r, r2, h, N, to)
<1>0. QLen \in Nat \ {0}
  BY Params
<1>1. /\ N \subseteq 0 .. QLen - 1
      /\ \A i \in 0 .. QLen - 1 : i \in N <=> Occupancy(i, h, QLen) < n
  BY <1>0, FirstSlots DEF Slots
<1> DEFINE f(i) == IF Occupancy(i, h, QLen) < n THEN [r[i] EXCEPT !.buf = to[Occupancy(i, h, QLen)]] ELSE r[i]
<1>2. r2 = [i \in 0 .. QLen - 1 |-> f(i)]
  BY DEF Rebuffered
<1>3. ASSUME NEW i \in 0 .. QLen - 1
      PROVE  /\ f(i) \in Elements /\ f(i).tag = r[i].tag /\ f(i).sg = r[i].sg
             /\ (i \in N => f(i).buf = to[Occupancy(i, h, QLen)]) /\ (i \notin N => f(i) = r[i])
  <2> DEFINE x == r[i]
  <2> DEFINE o == Occupancy(i, h, QLen)
  <2>1. x \in Elements /\ o \in 0 .. QLen - 1
    BY <1>0, OccupancyCases
  <2>2. f(i) = IF o < n THEN [x EXCEPT !.buf = to[o]] ELSE x
    OBVIOUS
  <2>3. i \in N <=> o < n
    BY <1>1
  <2>4. o < n => to[o] \in AllPoolBufs
    BY <2>1 DEF PoolTo
  <2> HIDE DEF x, o, f
  <2>5. /\ f(i) \in Elements /\ f(i).tag = x.tag /\ f(i).sg = x.sg
        /\ (i \in N => f(i).buf = to[o]) /\ (i \notin N => f(i) = x)
    BY <2>1, <2>2, <2>3, <2>4 DEF Elements
  <2> QED BY <2>5 DEF x, o
<1> HIDE DEF f
<1> QED BY <1>1, <1>2, <1>3 DEF NewBufs

\* The sets after n elements of those that have arrived got buffers.
BuffSets(p, N, v, F, c) ==
  /\ MovingIn(p, q', msg') = MovingIn(p, q, msg) \cup N /\ TakenIn(p, q', msg') = TakenIn(p, q, msg) \cup N
  /\ N \subseteq ArrivedIn(q) /\ CopiedIn(p, q', msg') \subseteq CopiedIn(p, q, msg) \ N
  /\ FullIn(p, q, msg) = F \cup FullIn(p, q', msg') /\ F \cap FullIn(p, q', msg') = {}
  /\ FetchedIn(p, q') = FetchedIn(p, q) /\ UnreadIn(p, msg') = UnreadIn(p, msg) /\ SentIn(p, msg') = SentIn(p, msg)
  /\ PoolOk(p, q', msg') /\ v \in 0 .. QLen - 1

\* The sets of slots are so after it.
LEMMA BuffSetsIs ==
  ASSUME NEW p \in Pairs, p = "egress", Regions(q, msg), PoolOk(p, q, msg),
         NEW h, NEW a, NEW n, NEW v, NEW c, NEW limit, NEW to, Buffing(p, h, a, n, v, c, limit, to),
         n \in 0 .. limit, n <= Occupancy(msg["lcl_bp"].prod, a, BpLen),
         NEW N, N = Slots(h, v, QLen), NEW F, F = Slots(a, c, BpLen)
  PROVE  BuffSets(p, N, v, F, c) /\ n \in 0 .. QLen - 1 /\ n \in 0 .. BpLen - 1
<1>0. /\ Src[p] = "host_tx" /\ Dst[p] = "lcl_rx" /\ Pool[p] = "lcl_bp" /\ QLen \in Nat \ {0} /\ BpLen \in Nat \ {0}
      /\ "host_tx" \in Queues /\ "lcl_rx" \in Queues /\ "lcl_bp" \in Queues
  BY Names, Params
<1>1. /\ h = q["host_tx"].head /\ a = q["lcl_bp"].head
      /\ limit \in Nat /\ limit <= Occupancy(q["host_tx"].qe_head, h, QLen)
      /\ v = q_idx_add(h, n, QLen) /\ c = q_idx_add(a, n, BpLen)
      /\ q'["host_tx"].head = v /\ q'["host_tx"].qe_tail = q["host_tx"].qe_tail /\ q'["lcl_bp"].head = c
      /\ msg'["host_tx"] = msg["host_tx"] /\ msg'["lcl_rx"] = msg["lcl_rx"]
      /\ msg'["lcl_bp"].prod = msg["lcl_bp"].prod /\ msg'["lcl_bp"].cons = c
  BY <1>0 DEF Buffing
<1>2. Around(p, q, msg) /\ CopyAround(q, msg)
  BY DEF Regions
<1> DEFINE rd == msg["lcl_rx"].cons
<1> DEFINE a0 == msg["host_tx"].cons
<1> DEFINE u == q["host_tx"].qe_head
<1> DEFINE t == q["host_tx"].qe_tail
<1> DEFINE z == msg["lcl_bp"].prod
<1>3. /\ rd \in 0 .. QLen - 1 /\ a0 \in 0 .. QLen - 1 /\ h \in 0 .. QLen - 1 /\ u \in 0 .. QLen - 1 /\ t \in 0 .. QLen - 1
      /\ Occupancy(a0, rd, QLen) + (Occupancy(h, a0, QLen) + Occupancy(u, h, QLen) + Occupancy(t, u, QLen)) < QLen
  BY <1>0, <1>1, <1>2 DEF Around, CopyAround
<1>4. a \in 0 .. BpLen - 1 /\ z \in 0 .. BpLen - 1
  BY <1>0, <1>1 DEF PoolOk
<1>5. /\ MovingIn(p, q, msg) = Slots(a0, h, QLen) /\ TakenIn(p, q, msg) = Slots(rd, h, QLen)
      /\ CopiedIn(p, q, msg) = Slots(h, t, QLen) /\ ArrivedIn(q) = Slots(h, u, QLen) /\ FullIn(p, q, msg) = Slots(a, z, BpLen)
      /\ MovingIn(p, q', msg') = Slots(a0, v, QLen) /\ TakenIn(p, q', msg') = Slots(rd, v, QLen)
      /\ CopiedIn(p, q', msg') = Slots(v, t, QLen) /\ FullIn(p, q', msg') = Slots(c, z, BpLen)
  BY <1>0, <1>1 DEF MovingIn, TakenIn, CopiedIn, ArrivedIn, FullIn
<1>6. FetchedIn(p, q') = FetchedIn(p, q) /\ UnreadIn(p, msg') = UnreadIn(p, msg) /\ SentIn(p, msg') = SentIn(p, msg)
  BY <1>0, <1>1 DEF FetchedIn, UnreadIn, SentIn
<1> HIDE DEF rd, a0, u, t, z
<1> DEFINE oa == Occupancy(a0, rd, QLen)
<1> DEFINE oh == Occupancy(h, a0, QLen)
<1> DEFINE ou == Occupancy(u, h, QLen)
<1> DEFINE ot == Occupancy(t, u, QLen)
<1> DEFINE oz == Occupancy(z, a, BpLen)
<1>7. /\ oa \in 0 .. QLen - 1 /\ oh \in 0 .. QLen - 1 /\ ou \in 0 .. QLen - 1 /\ ot \in 0 .. QLen - 1
      /\ oz \in 0 .. BpLen - 1
  BY <1>0, <1>3, <1>4, OccupancyCases
<1>8. oa + (oh + ou + ot) < QLen /\ n <= ou /\ n <= oz /\ n \in Nat
  BY <1>1, <1>3, <1>7 DEF u, z
<1>o. ou = Occupancy(u, h, QLen) /\ ot = Occupancy(t, u, QLen) /\ oa = Occupancy(a0, rd, QLen)
      /\ oh = Occupancy(h, a0, QLen) /\ oz = Occupancy(z, a, BpLen)
  OBVIOUS
<1> HIDE DEF oa, oh, ou, ot, oz
<1>9. n \in 0 .. QLen - 1 /\ n \in 0 .. BpLen - 1 /\ ou + ot < QLen /\ n <= ou + ot /\ oh + n < QLen /\ oa + oh < QLen
      /\ (oa + oh) + n < QLen
  BY <1>0, <1>7, <1>8
<1>10. Occupancy(t, h, QLen) = ou + ot
  BY <1>0, <1>3, <1>9, <1>o, SlotsSplit
<1>11. /\ v \in 0 .. QLen - 1 /\ Occupancy(v, h, QLen) = n
       /\ Slots(h, t, QLen) = Slots(h, v, QLen) \cup Slots(v, t, QLen) /\ Slots(h, v, QLen) \cap Slots(v, t, QLen) = {}
  <2>1. n <= Occupancy(t, h, QLen)
    BY <1>9, <1>10
  <2> QED BY <1>0, <1>1, <1>3, <1>9, <2>1, SkipSlots
<1>12. N \subseteq Slots(h, u, QLen)
  <2>1. n <= Occupancy(u, h, QLen)
    BY <1>8, <1>o
  <2> QED BY <1>0, <1>1, <1>3, <1>9, <2>1, SkipSlots
<1>13. Slots(a0, v, QLen) = Slots(a0, h, QLen) \cup N
  <2>1. Occupancy(h, a0, QLen) + Occupancy(v, h, QLen) < QLen
    BY <1>9, <1>11, <1>o
  <2> QED BY <1>0, <1>3, <1>11, <2>1, SlotsSplit
<1>14. Slots(rd, v, QLen) = Slots(rd, h, QLen) \cup N
  <2>1. Occupancy(h, rd, QLen) = oa + oh
    BY <1>0, <1>3, <1>9, <1>o, SlotsSplit
  <2>2. Occupancy(h, rd, QLen) + Occupancy(v, h, QLen) < QLen
    BY <1>9, <1>11, <2>1
  <2> QED BY <1>0, <1>3, <1>11, <2>2, SlotsSplit
<1>15. c \in 0 .. BpLen - 1 /\ Slots(a, z, BpLen) = F \cup Slots(c, z, BpLen) /\ F \cap Slots(c, z, BpLen) = {}
  <2>1. n <= Occupancy(z, a, BpLen)
    BY <1>8, <1>o
  <2> QED BY <1>0, <1>1, <1>4, <1>9, <2>1, SkipSlots
<1>16. PoolOk(p, q', msg')
  <2>1. msg'["lcl_bp"].prod \in 0 .. BpLen - 1 /\ msg'["lcl_bp"].cons = c /\ q'["lcl_bp"].head = c
    BY <1>1, <1>4 DEF z
  <2> QED BY <1>0, <1>15, <2>1 DEF PoolOk
<1>17. CopiedIn(p, q', msg') \subseteq CopiedIn(p, q, msg) \ N
  BY <1>5, <1>11
<1> QED BY <1>5, <1>6, <1>9, <1>11, <1>12, <1>13, <1>14, <1>15, <1>16, <1>17 DEF BuffSets

\* The packets of the elements that got buffers are whole.
LEMMA BuffWhole ==
  ASSUME NEW p \in Pairs, p = "egress", Regions(q, msg), WholeOk(ring["host_tx"], SentIn(p, msg)),
         \A i \in ArrivedIn(q) : ring["lcl_rx"][i] = ring["host_tx"][i],
         NEW h, NEW a, NEW n, NEW v, NEW c, NEW limit, NEW to, Buffing(p, h, a, n, v, c, limit, to),
         msg["lcl_bp"].prod \in 0 .. BpLen - 1, a \in 0 .. BpLen - 1
  PROVE  /\ n \in 0 .. limit /\ n <= Occupancy(msg["lcl_bp"].prod, a, BpLen)
         /\ n > 0 => Before(v) \in ArrivedIn(q) /\ ring["lcl_rx"][Before(v)].sg = 1
<1>0. Src[p] = "host_tx" /\ Dst[p] = "lcl_rx" /\ QLen \in Nat \ {0} /\ BpLen \in Nat \ {0}
  BY Names, Params
<1>1. Around(p, q, msg) /\ CopyAround(q, msg)
  BY DEF Regions
<1> DEFINE r == ring["lcl_rx"]
<1> DEFINE s == ring["host_tx"]
<1> DEFINE u == q["host_tx"].qe_head
<1> DEFINE ou == Occupancy(u, h, QLen)
<1> DEFINE avail == Occupancy(msg["lcl_bp"].prod, a, BpLen)
<1>2. /\ h = q["host_tx"].head /\ limit \in Nat /\ limit <= ou /\ n = Accepted(r, h, limit, avail)
      /\ v = q_idx_add(h, n, QLen)
  BY DEF Buffing
<1>3. h \in 0 .. QLen - 1 /\ u \in 0 .. QLen - 1 /\ ArrivedIn(q) = Slots(h, u, QLen)
  BY <1>0, <1>1, <1>2 DEF Around, CopyAround, ArrivedIn
<1>4. avail \in Nat
  <2>1. avail \in 0 .. BpLen - 1
    BY <1>0, OccupancyCases
  <2> QED BY <1>0, <2>1
<1> HIDE DEF u, avail
<1>5. ou \in 0 .. QLen - 1 /\ ou = Occupancy(u, h, QLen)
  BY <1>0, <1>3, OccupancyCases
<1> HIDE DEF ou, r, s
<1>6. ASSUME NEW k \in 0 .. limit - 1
      PROVE  q_idx_add(h, k, QLen) \in ArrivedIn(q) /\ k \in 0 .. QLen - 1
  <2>1. k \in 0 .. QLen - 1 /\ k < ou
    BY <1>0, <1>2, <1>5
  <2>2. q_idx_add(h, k, QLen) \in 0 .. QLen - 1 /\ Occupancy(q_idx_add(h, k, QLen), h, QLen) = k
    BY <1>0, <1>3, <2>1, FirstSlots
  <2>3. Occupancy(q_idx_add(h, k, QLen), h, QLen) < Occupancy(u, h, QLen)
    BY <1>5, <2>1, <2>2
  <2> QED BY <1>3, <2>1, <2>2, <2>3 DEF Slots, Occupancy
<1>7. ArrivedIn(q) \subseteq SentIn(p, msg)
  BY <1>1, CopiedAre
<1>8. ASSUME NEW k \in 0 .. limit - 1, r[q_idx_add(h, k, QLen)].sg # 1
      PROVE  /\ SgEn /\ r[q_idx_add(h, k, QLen)].sg = 2
             /\ k + 1 < limit => r[q_idx_add(h, k + 1, QLen)].sg = 1
  <2> DEFINE i == q_idx_add(h, k, QLen)
  <2> DEFINE j == q_idx_add(i, 1, QLen)
  <2>1. i \in ArrivedIn(q) /\ i \in SentIn(p, msg) /\ r[i] = s[i]
    BY <1>6, <1>7 DEF r, s
  <2>2. s[i].sg # 1
    BY <1>8, <2>1
  <2>3. SgEn /\ s[i].sg = 2 /\ s[j].sg = 1
    <3> HIDE DEF i
    <3> QED BY <2>1, <2>2 DEF WholeOk, s
  <2>4. k + 1 < limit => r[q_idx_add(h, k + 1, QLen)] = s[j]
    <3> SUFFICES ASSUME k + 1 < limit PROVE r[q_idx_add(h, k + 1, QLen)] = s[j]
      OBVIOUS
    <3>1. k + 1 \in 0 .. limit - 1
      BY <1>2
    <3>2. q_idx_add(h, k + 1, QLen) \in ArrivedIn(q) /\ k + 1 \in 0 .. QLen - 1
      BY <1>6, <3>1
    <3>3. j = q_idx_add(h, k + 1, QLen)
      <4>1. k \in 0 .. QLen - 1 /\ k + 1 <= QLen - 1
        BY <1>0, <1>6, <3>2
      <4> QED BY <1>3, <4>1, AddNext
    <3> HIDE DEF j
    <3> QED BY <3>2, <3>3 DEF r, s
  <2> HIDE DEF j
  <2> QED BY <2>1, <2>3, <2>4
<1>9. /\ n \in 0 .. limit /\ n <= avail /\ (n > 0 => r[q_idx_add(h, n - 1, QLen)].sg = 1)
  <2>1. \A k \in 0 .. limit - 1 : r[q_idx_add(h, k, QLen)].sg # 1 =>
            /\ SgEn /\ r[q_idx_add(h, k, QLen)].sg = 2
            /\ k + 1 < limit => r[q_idx_add(h, k + 1, QLen)].sg = 1
    BY <1>8
  <2>2. limit \in Nat /\ avail \in Nat /\ n = Accepted(r, h, limit, avail)
    BY <1>2, <1>4 DEF r, avail
  <2> QED BY ONLY <2>1, <2>2, AcceptedWhole
<1>10. ASSUME n > 0 PROVE Before(v) \in ArrivedIn(q) /\ r[Before(v)].sg = 1
  <2>1. n - 1 \in 0 .. limit - 1 /\ n \in 1 .. QLen - 1
    BY <1>0, <1>2, <1>5, <1>9, <1>10
  <2>2. Before(v) = q_idx_add(h, n - 1, QLen)
    BY <1>2, <1>3, <2>1, BeforeAdd
  <2>3. q_idx_add(h, n - 1, QLen) \in ArrivedIn(q)
    BY <1>6, <2>1
  <2> QED BY <1>9, <1>10, <2>2, <2>3
<1> QED BY <1>9, <1>10 DEF r, avail

\* The pair whose elements get buffers is as it should be.
LEMMA BuffOne ==
  ASSUME NEW p \in CopyPayload, p \in Pairs, p = "egress",
         DataOf(p, ring, mem, q, msg, Todo, Tails(p), owned[p]), Regions(q, msg), Kinds(Todo, q, msg),
         TailsIn(p, Tails(p), q, msg),
         NEW h, NEW a, NEW n, NEW v, NEW c, NEW limit, NEW to, Buffing(p, h, a, n, v, c, limit, to)
  PROVE  /\ DataOf(p, ring', mem', q', msg', Todo', Tails(p)', owned'[p])
         /\ n \in Nat /\ \A k \in 0 .. n - 1 : to[k] \in PoolBufs(p)
<1> DEFINE s == ring[Src[p]]
<1> DEFINE d == ring[Dst[p]]
<1> DEFINE un == UnreadIn(p, msg)
<1> DEFINE mv == MovingIn(p, q, msg)
<1> DEFINE tk == TakenIn(p, q, msg)
<1> DEFINE sent == SentIn(p, msg)
<1> DEFINE cp == CopiedIn(p, q, msg)
<1> DEFINE e == ElemsOf(p, ring, un)
<1> DEFINE full == FullIn(p, q, msg)
<1> DEFINE full2 == FullIn(p, q', msg')
<1> DEFINE g == FetchedIn(p, q)
<1> DEFINE pr == msg[Dst[p]].prod
<1> DEFINE w == Todo
<1> DEFINE w2 == Todo'
<1> DEFINE tl == Tails(p)
<1> DEFINE tl2 == Tails(p)'
<1> DEFINE rp == ring[Pool[p]]
<1> DEFINE d2 == ring'[Dst[p]]
<1> DEFINE N == Slots(h, v, QLen)
<1> DEFINE F == Slots(a, c, BpLen)
<1>0. /\ Src[p] = "host_tx" /\ Dst[p] = "lcl_rx" /\ Pool[p] = "lcl_bp" /\ QLen \in Nat \ {0} /\ BpLen \in Nat \ {0}
      /\ "host_tx" \in Queues /\ "lcl_rx" \in Queues /\ "lcl_bp" \in Queues
  BY Names, Params
<1>1. /\ s \in [0 .. QLen - 1 -> Elements] /\ d \in [0 .. QLen - 1 -> Elements]
      /\ SourceOk(p, s, mem, sent) /\ WholeOk(s, sent) /\ ElemOk(e, s, mem, w, tk, mv) /\ AimedOk(p, e, w)
      /\ CopiedOk(Dst[p], s, d, w, cp) /\ CutOk(d, e, un, mv, pr, tl) /\ PoolOk(p, q, msg)
      /\ Spread(PoolBufs(p), Bufs(e), tk, rp, full, ring["shadow"], g, owned[p])
  BY DataIs
<1>2. /\ h = q["host_tx"].head /\ a = q["lcl_bp"].head /\ v = q_idx_add(h, n, QLen) /\ c = q_idx_add(a, n, BpLen)
      /\ (\A k \in 0 .. n - 1 : to[k] = rp[q_idx_add(a, k, BpLen)])
      /\ d2 = Rebuffered(d, h, n, to) /\ (\A x \in Queues : x # "lcl_rx" => ring'[x] = ring[x])
      /\ w \subseteq w2 /\ (\A k \in 0 .. n - 1 : BufOf("host_tx", h, k, to) \in w2)
      /\ (\A f \in w2 : f \in w \/ \E k \in 0 .. n - 1 : f = BufOf("host_tx", h, k, to))
      /\ (\A t \in tl2 : t \in tl \/ (n > 0 /\ t = v))
      /\ mem' = mem /\ owned' = owned /\ msg'[Dst[p]] = msg[Dst[p]] /\ limit \in Nat
  BY <1>0 DEF Buffing
<1>3. Around(p, q, msg) /\ CopyAround(q, msg)
  BY DEF Regions
<1>4. h \in 0 .. QLen - 1 /\ a \in 0 .. BpLen - 1 /\ msg["lcl_bp"].prod \in 0 .. BpLen - 1
      /\ msg[Src[p]].cons \in 0 .. QLen - 1 /\ msg[Dst[p]].cons \in 0 .. QLen - 1 /\ pr \in 0 .. QLen - 1
      /\ pr = msg[Src[p]].cons
  BY <1>0, <1>1, <1>2, <1>3 DEF PoolOk, Around
<1>5. \A i \in ArrivedIn(q) : d[i] = s[i] /\ i \in sent /\ i \notin tk /\ i \in cp /\ i \in 0 .. QLen - 1
  <2>1. /\ cp = ArrivedIn(q) \cup NamedIn(p, q, msg) /\ ArrivedIn(q) \cap NamedIn(p, q, msg) = {}
        /\ cp \cap tk = {} /\ cp \subseteq sent
    BY <1>3, CopiedAre
  <2>2. \A i \in cp : CopyTo(w, Dst[p], i) \/ d[i] = s[i]
    BY <1>1 DEF CopiedOk
  <2>3. \A i : CopyTo(w, Dst[p], i) => i \in NamedIn(p, q, msg)
    BY CopyNamed
  <2>4. sent \subseteq 0 .. QLen - 1
    BY <1>3, TakenIs
  <2> HIDE DEF cp, w, d, s, sent, tk
  <2> QED BY <2>1, <2>2, <2>3, <2>4
<1>6. /\ n \in 0 .. limit /\ n <= Occupancy(msg["lcl_bp"].prod, a, BpLen)
      /\ (n > 0 => Before(v) \in ArrivedIn(q) /\ d[Before(v)].sg = 1)
  <2>1. WholeOk(ring["host_tx"], SentIn(p, msg)) /\ \A i \in ArrivedIn(q) : ring["lcl_rx"][i] = ring["host_tx"][i]
    BY <1>0, <1>1, <1>5
  <2>2. /\ n \in 0 .. limit /\ n <= Occupancy(msg["lcl_bp"].prod, a, BpLen)
        /\ (n > 0 => Before(v) \in ArrivedIn(q) /\ ring["lcl_rx"][Before(v)].sg = 1)
    BY <1>4, <2>1, BuffWhole
  <2> QED BY <1>0, <2>2
<1>7. BuffSets(p, N, v, F, c) /\ n \in 0 .. QLen - 1 /\ n \in 0 .. BpLen - 1
  BY <1>1, <1>6, BuffSetsIs
<1>8. /\ MovingIn(p, q', msg') = mv \cup N /\ TakenIn(p, q', msg') = tk \cup N
      /\ N \subseteq ArrivedIn(q) /\ CopiedIn(p, q', msg') \subseteq cp \ N
      /\ full = F \cup full2 /\ F \cap full2 = {}
      /\ FetchedIn(p, q') = g /\ UnreadIn(p, msg') = un /\ SentIn(p, msg') = sent
      /\ PoolOk(p, q', msg') /\ v \in 0 .. QLen - 1
  BY <1>7 DEF BuffSets
<1>9. ASSUME NEW k \in 0 .. n - 1 PROVE to[k] \in PoolBufs(p) /\ q_idx_add(a, k, BpLen) \in F
  <2>1. q_idx_add(a, k, BpLen) \in F
    BY <1>0, <1>2, <1>4, <1>7, SlotAt
  <2>2. \A i \in full : rp[i] \in PoolBufs(p)
    <3> DEFINE e1 == Bufs(e)
    <3> DEFINE all == PoolBufs(p)
    <3> DEFINE sh == ring["shadow"]
    <3> DEFINE ow == owned[p]
    <3>1. Spread(all, e1, tk, rp, full, sh, g, ow)
      BY <1>1
    <3> HIDE DEF e1, all, tk, rp, full, sh, g, ow
    <3>2. \A i \in full : rp[i] \in all
      BY <3>1, SpreadIn
    <3> QED BY <3>2 DEF all
  <2> HIDE DEF full, F, full2, rp
  <2> QED BY <1>2, <1>8, <2>1, <2>2
<1>10. /\ d2 \in [0 .. QLen - 1 -> Elements]
       /\ \A i \in 0 .. QLen - 1 : d2[i].tag = d[i].tag /\ d2[i].sg = d[i].sg
       /\ \A i \in N : d2[i].buf = to[Occupancy(i, h, QLen)]
       /\ \A i \in 0 .. QLen - 1 : i \notin N => d2[i] = d[i]
  <2>1. PoolTo(n, to)
    BY <1>9, BufsAre DEF PoolTo
  <2>2. d \in [0 .. QLen - 1 -> Elements] /\ d2 = Rebuffered(d, h, n, to) /\ N = Slots(h, q_idx_add(h, n, QLen), QLen)
    BY <1>1, <1>2
  <2>3. h \in 0 .. QLen - 1 /\ n \in 0 .. QLen - 1
    BY <1>4, <1>7
  <2> HIDE DEF d, d2, N
  <2>4. NewBufs(d, d2, h, N, to)
    BY ONLY <2>1, <2>2, <2>3, RebufAt
  <2> QED BY <2>4 DEF NewBufs
<1>11. /\ tk \subseteq 0 .. QLen - 1 /\ sent \subseteq 0 .. QLen - 1 /\ tk = un \cup mv /\ mv \subseteq sent
  BY <1>3, TakenIs
<1>12. \A i \in 0 .. QLen - 1 : e[i] = d[i]
  BY <1>0, ElemsAt
<1>13. ElemsOf(p, ring', un) = [i \in 0 .. QLen - 1 |-> d2[i]]
  BY DEF ElemsOf
<1> DEFINE e2 == ElemsOf(p, ring', un)
<1>14. \A i \in 0 .. QLen - 1 : e2[i] = d2[i]
  BY <1>13
<1>15. \A i \in N : /\ Occupancy(i, h, QLen) \in 0 .. n - 1 /\ q_idx_add(h, Occupancy(i, h, QLen), QLen) = i
                    /\ i \in 0 .. QLen - 1
  BY <1>0, <1>2, <1>4, <1>7, SlotFrom
<1>16. \A k \in 0 .. n - 1 : q_idx_add(h, k, QLen) \in N /\ Occupancy(q_idx_add(h, k, QLen), h, QLen) = k
  BY <1>0, <1>2, <1>4, <1>7, SlotAt
<1>17. \A i \in tk : i \notin N
  BY <1>5, <1>8
<1>18. un = Slots(msg[Dst[p]].cons, pr, QLen) /\ mv \cup N = Slots(pr, v, QLen)
  <2>1. un = Slots(msg[Dst[p]].cons, pr, QLen)
    BY DEF UnreadIn
  <2>2. MovingIn(p, q', msg') = Slots(pr, v, QLen)
    <3>1. q'["host_tx"].head = v /\ msg'["host_tx"] = msg["host_tx"]
      BY <1>0 DEF Buffing
    <3> QED BY <1>0, <1>4, <3>1 DEF MovingIn
  <2> QED BY <1>8, <2>1, <2>2
<1> HIDE DEF s, d, un, mv, tk, sent, cp, e, full, full2, g, pr, w, tl, rp, N, F, e2, d2, w2, tl2
<1>19. \A i \in tk : e2[i] = e[i]
  BY <1>10, <1>11, <1>12, <1>14, <1>17
<1>20. ElemOk(e2, s, mem, w2, tk \cup N, mv \cup N)
  <2>1. ASSUME NEW i \in N PROVE e2[i].tag = s[i].tag /\ e2[i].tag \in Tag /\ BufTo(w2, e2[i].buf)
    <3>1. i \in 0 .. QLen - 1 /\ d[i] = s[i] /\ i \in sent
      BY <1>5, <1>8
    <3>2. e2[i].tag = s[i].tag /\ s[i].tag \in Tag /\ e2[i].buf = to[Occupancy(i, h, QLen)]
      BY <1>1, <1>10, <1>14, <3>1 DEF SourceOk
    <3> DEFINE k == Occupancy(i, h, QLen)
    <3>3. k \in 0 .. n - 1 /\ BufOf("host_tx", h, k, to) \in w2 /\ e2[i].buf = to[k]
      BY <1>2, <1>15, <3>2
    <3> HIDE DEF k
    <3>4. BufOf("host_tx", h, k, to).op = "buf" /\ BufOf("host_tx", h, k, to).dst = to[k]
      BY DEF BufOf
    <3> QED BY <3>2, <3>3, <3>4 DEF BufTo
  <2>2. ASSUME NEW i \in tk PROVE e2[i].tag \in Tag /\ (BufTo(w2, e2[i].buf) \/ mem[e2[i].buf] = e2[i].tag)
    <3>1. e2[i] = e[i] /\ e[i].tag \in Tag /\ (BufTo(w, e[i].buf) \/ mem[e[i].buf] = e[i].tag)
      BY <1>1, <1>19 DEF ElemOk
    <3> QED BY <1>2, <3>1 DEF BufTo
  <2>3. \A i \in mv : e2[i].tag = s[i].tag
    <3>1. \A i \in mv : e[i].tag = s[i].tag /\ e2[i] = e[i]
      BY <1>1, <1>11, <1>19 DEF ElemOk
    <3> QED BY <3>1
  <2> QED BY <2>1, <2>2, <2>3 DEF ElemOk
<1>21. AimedOk(p, e2, w2)
  <2> SUFFICES ASSUME NEW f \in w2, f.op = "buf", f.src[1] = Src[p] PROVE f.dst = e2[f.src[2]].buf
    BY DEF AimedOk
  <2>1. CASE f \in w
    <3>1. f.src[2] \in mv
      BY <2>1, AimedFrom DEF w, mv
    <3>2. f.dst = e[f.src[2]].buf
      BY <1>1, <2>1 DEF AimedOk
    <3> QED BY <1>11, <1>19, <3>1, <3>2
  <2>2. CASE f \notin w
    <3>1. PICK k \in 0 .. n - 1 : f = BufOf("host_tx", h, k, to)
      BY <1>2, <2>2
    <3>2. f.src[2] = q_idx_add(h, k, QLen) /\ f.dst = to[k]
      BY <3>1 DEF BufOf
    <3> DEFINE i == q_idx_add(h, k, QLen)
    <3>3. i \in N /\ Occupancy(i, h, QLen) = k /\ f.src[2] = i
      BY <1>16, <3>2
    <3> HIDE DEF i
    <3> QED BY <1>10, <1>14, <1>15, <3>2, <3>3
  <2> QED BY <2>1, <2>2
<1>22. CopiedOk(Dst[p], s, d2, w2, CopiedIn(p, q', msg'))
  <2>1. ASSUME NEW i \in cp, i \notin N PROVE CopyTo(w2, Dst[p], i) \/ d2[i] = s[i]
    <3>1. CopyTo(w, Dst[p], i) \/ d[i] = s[i]
      BY <1>1, <2>1 DEF CopiedOk
    <3>2. CopyTo(w, Dst[p], i) => CopyTo(w2, Dst[p], i)
      BY <1>2 DEF CopyTo
    <3>3. i \in 0 .. QLen - 1
      BY DEF cp, CopiedIn, MovingIn, Slots
    <3> QED BY <1>10, <2>1, <3>1, <3>2, <3>3
  <2> QED BY <1>8, <2>1 DEF CopiedOk
<1>23. CutOk(d2, e2, un, mv \cup N, pr, tl2)
  <2>1. ASSUME un # {} PROVE d2[Before(pr)].sg = 1
    <3>1. Before(pr) \in 0 .. QLen - 1
      BY <1>4, BeforeIs
    <3> QED BY <1>1, <1>10, <2>1, <3>1 DEF CutOk
  <2>2. ASSUME NEW t \in tl2, Before(t) \in mv \cup N PROVE e2[Before(t)].sg = 1
    <3>1. CASE t \in tl
      <4>1. t = pr \/ Before(t) \in mv
        BY <3>1 DEF TailsIn, tl, pr, mv
      <4>2. t # pr
        BY <1>4, <1>8, <1>18, <2>2, BeforeOut
      <4>3. Before(t) \in mv /\ e2[Before(t)] = e[Before(t)]
        BY <1>11, <1>19, <4>1, <4>2
      <4> QED BY <1>1, <3>1, <4>3 DEF CutOk
    <3>2. CASE t \notin tl
      <4>1. n > 0 /\ t = v
        BY <1>2, <3>2
      <4>2. Before(v) \in 0 .. QLen - 1 /\ d[Before(v)].sg = 1
        BY <1>5, <1>6, <4>1
      <4> QED BY <1>10, <1>14, <4>1, <4>2
    <3> QED BY <3>1, <3>2
  <2> QED BY <2>1, <2>2 DEF CutOk
<1>24. Spread(PoolBufs(p), Bufs(e2), tk \cup N, rp, full2, ring["shadow"], g, owned[p])
  <2> DEFINE all == PoolBufs(p)
  <2> DEFINE b1 == Bufs(e)
  <2> DEFINE b2 == Bufs(e2)
  <2> DEFINE sh == ring["shadow"]
  <2> DEFINE ow == owned[p]
  <2>1. Spread(all, b1, tk, rp, full, sh, g, ow)
    BY <1>1
  <2>2. \A i \in tk : b2[i] = b1[i]
    BY <1>11, <1>19, BufsAt
  <2>3. Distinct(rp, F)
    <3>1. Distinct(rp, full)
      BY <2>1 DEF Spread
    <3> QED BY <1>8, <3>1 DEF Distinct
  <2>4. \A i \in N : b2[i] = rp[q_idx_add(a, Occupancy(i, h, QLen), BpLen)]
    <3> SUFFICES ASSUME NEW i \in N PROVE b2[i] = rp[q_idx_add(a, Occupancy(i, h, QLen), BpLen)]
      OBVIOUS
    <3>1. b2[i] = e2[i].buf /\ i \in 0 .. QLen - 1
      BY <1>15, BufsAt
    <3>2. e2[i].buf = to[Occupancy(i, h, QLen)]
      BY <1>10, <1>14, <3>1
    <3> QED BY <1>2, <1>15, <3>1, <3>2
  <2> HIDE DEF all, b1, b2, sh, ow
  <2>5. Held(b2, N) = Held(rp, F) /\ Distinct(b2, N)
    <3>1. N = Slots(h, q_idx_add(h, n, QLen), QLen) /\ F = Slots(a, q_idx_add(a, n, BpLen), BpLen)
      BY <1>2 DEF N, F
    <3>2. /\ QLen \in Nat \ {0} /\ BpLen \in Nat \ {0} /\ h \in 0 .. QLen - 1 /\ a \in 0 .. BpLen - 1
          /\ n \in 0 .. QLen - 1 /\ n \in 0 .. BpLen - 1
      BY <1>0, <1>4, <1>7
    <3>3. OneToOne(n, h, QLen, N, b2, a, BpLen, F, rp)
      BY ONLY <2>4, <3>1, <3>2 DEF OneToOne
    <3> QED BY ONLY <2>3, <3>3, HandSlots
  <2>6. Spread(all, b2, tk \cup N, rp, full2, sh, g, ow)
    BY <1>8, <2>1, <2>2, <2>5, SpreadHand
  <2> QED BY <2>6 DEF all, b2, sh, ow
<1> DEFINE r2 == ring'
<1> DEFINE q2 == q'
<1> DEFINE m2 == msg'
<1>25. /\ r2[Src[p]] = s /\ r2[Dst[p]] = d2 /\ r2[Pool[p]] = rp
       /\ SentIn(p, m2) = sent /\ UnreadIn(p, m2) = un /\ MovingIn(p, q2, m2) = mv \cup N /\ TakenIn(p, q2, m2) = tk \cup N
       /\ FullIn(p, q2, m2) = full2 /\ FetchedIn(p, q2) = g
       /\ PoolOk(p, q2, m2) /\ m2[Dst[p]].prod = pr /\ e2 = ElemsOf(p, r2, UnreadIn(p, m2))
       /\ CopiedOk(Dst[p], s, d2, w2, CopiedIn(p, q2, m2))
  BY <1>0, <1>2, <1>8, <1>22 DEF s, d2, rp, full2, pr, e2
<1>26. r2["shadow"] = ring["shadow"]
  BY <1>2, Names
<1> HIDE DEF r2, q2, m2
<1>27. DataOf(p, r2, mem, q2, m2, w2, tl2, owned[p])
  <2>1. p = "ingress" => CopiedOk("shadow", r2["host_bp"], r2["shadow"], w2, FillIn(q2))
    OBVIOUS
  <2> QED BY <1>1, <1>10, <1>20, <1>21, <1>23, <1>24, <1>25, <1>26, <2>1, DataFrom
<1>28. n \in Nat
  BY <1>6
<1> QED BY <1>2, <1>9, <1>27, <1>28 DEF r2, q2, m2, w2, tl2


\* The step that hands buffers to the elements that have arrived.
LEMMA BuffersData == ASSUME NEW p0 \in Pairs PROVE IInv /\ Data /\ ProcessBuffers(p0) => Data'
<1> SUFFICES ASSUME IInv, Data, ProcessBuffers(p0) PROVE Data'
  OBVIOUS
<1>1. Regions(q, msg) /\ Kinds(Todo, q, msg) /\ TailsIn(p0, Tails(p0), q, msg)
  BY RegionsIs, KindsIs, TailsIs
<1>2. /\ mem \in [AllBufs -> Tag \cup {NoData}] /\ nxt \in [Pairs -> Nat] /\ OnlyCopied(Todo)
      /\ owned \in [Pairs -> SUBSET AllPoolBufs] /\ (\A p \in Pairs : owned[p] \subseteq PoolBufs(p))
      /\ \A p \in CopyPayload : p \in Pairs /\ DataOf(p, ring, mem, q, msg, Todo, Tails(p), owned[p])
  BY SMTT(30), GieAssumption DEF Data, AllBufs
<1>3. UNCHANGED <<mem, nxt, owned>> /\ p0 = "egress"
  BY DEF ProcessBuffers, users
<1>4. /\ "host_tx" \in Own(p0) /\ "lcl_rx" \in Own(p0) /\ "lcl_bp" \in Own(p0) /\ Src[p0] = "host_tx"
      /\ Dst[p0] = "lcl_rx" /\ Pool[p0] = "lcl_bp"
  BY <1>3, Names DEF Own
<1>5. CASE p0 \in CopyPayload
  <2>1. q["lcl_bp"].head \in 0 .. BpLen - 1
    BY <1>2, <1>4, <1>5, DataIs DEF PoolOk
  <2>2. PICK h, a, n, v, c, limit, to : Buffing(p0, h, a, n, v, c, limit, to)
    BY <1>5, <2>1, BuffIs
  <2>3. /\ DataOf(p0, ring', mem', q', msg', Todo', Tails(p0)', owned'[p0])
        /\ n \in Nat /\ \A k \in 0 .. n - 1 : to[k] \in PoolBufs(p0)
    BY <1>1, <1>2, <1>3, <1>5, <2>2, BuffOne
  <2>4. /\ (\A x \in Queues : x \notin {"host_tx", "lcl_rx", "lcl_bp"} => q'[x] = q[x])
        /\ (\A x \in Queues : x # "lcl_bp" => msg'[x] = msg[x])
        /\ (\A x \in Queues : x # "lcl_rx" => ring'[x] = ring[x])
        /\ Todo \subseteq Todo'
        /\ (\A d \in Todo' : d \in Todo \/ \E k \in 0 .. n - 1 : d = BufOf("host_tx", h, k, to))
        /\ (\A o \in Pairs : \A t \in Tails(o)' : t \in Tails(o) \/ (n > 0 /\ o = p0 /\ t = v))
    BY <2>2 DEF Buffing
  <2>5. \A k : BufOf("host_tx", h, k, to).src[1] = "host_tx"
    BY DEF BufOf
  <2>6. ASSUME NEW d \in Todo', d \notin Todo PROVE d.src[1] = "host_tx"
    BY <2>4, <2>5, <2>6
  <2>7. ASSUME NEW p \in CopyPayload, p # p0
        PROVE  DataOf(p, ring', mem', q', msg', Todo', Tails(p)', owned'[p])
    <3>1. p \in Pairs /\ DataOf(p, ring, mem, q, msg, Todo, Tails(p), owned[p]) /\ Src[p] # Src[p0]
      BY <1>2, <2>7, Apart
    <3>2. \A x \in Queues : x \notin Own(p0) => msg'[x] = msg[x] /\ ring'[x] = ring[x] /\ q'[x] = q[x]
      BY <1>4, <2>4
    <3>3. owned'[p] = owned[p] /\ \A b \in AllBufs : b[1] \notin Own(p0) => mem'[b] = mem[b]
      BY <1>3
    <3>4. SameWork(p, Todo, Todo')
      <4>1. \A d \in Todo' : d.op = "buf" /\ d.src[1] = Src[p] => d \in Todo
        BY <1>4, <2>6, <3>1
      <4> QED BY <2>4, <4>1, WorkSame
    <3>5. Tails(p)' \subseteq Tails(p)
      BY <2>4, <2>7, <3>1
    <3> QED BY <1>1, <2>7, <3>1, <3>2, <3>3, <3>4, <3>5, OtherPair
  <2>8. OnlyCopied(Todo')
    BY <1>2, <1>4, <1>5, <2>6 DEF OnlyCopied
  <2> QED BY <1>2, <1>3, <2>3, <2>7, <2>8 DEF Data, AllBufs
<1>6. CASE p0 \notin CopyPayload
  <2>1. PICK src, dst, pool, b, head, limit, n, from, to, hd, tl :
          Buffering(p0, src, dst, pool, b, head, limit, n, from, to, hd, tl)
    BY BuffersDo
  <2> DEFINE z == IF p0 \in CopyPayload /\ limit > 0 THEN [b EXCEPT !.head = Ahead(@, n, pool)] ELSE q[pool]
  <2>2. /\ src = Src[p0] /\ dst = Dst[p0] /\ pool = Pool[p0] /\ UNCHANGED <<hw, jobs, left>>
        /\ q' = [q EXCEPT ![src].head = hd, ![dst].tail = tl,
                          ![pool] = IF p0 \in CopyPayload /\ limit > 0
                                    THEN [b EXCEPT !.head = Ahead(@, n, pool)] ELSE @]
        /\ msg' = [msg EXCEPT ![src].cons = hd, ![dst].prod = tl] /\ UNCHANGED <<ring, sub>>
    BY <1>6, <2>1 DEF Buffering
  <2>3. \A x \in Queues : x \notin Own(p0) => msg'[x] = msg[x] /\ ring'[x] = ring[x] /\ q'[x] = q[x]
    <3>1. IndexOk /\ src \in Own(p0) /\ dst \in Own(p0) /\ pool \in Own(p0)
      BY <1>4, <2>2, Basic
    <3> SUFFICES ASSUME NEW x \in Queues, x # src, x # dst, x # pool
                 PROVE  msg'[x] = msg[x] /\ ring'[x] = ring[x] /\ q'[x] = q[x]
      BY <3>1
    <3>2. q = [y \in Queues |-> q[y]] /\ msg = [y \in Queues |-> msg[y]]
      BY <3>1 DEF IndexOk
    <3>3. q'[x] = q[x]
      BY <2>2, <3>2
    <3>4. msg'[x] = msg[x]
      BY <2>2, <3>2
    <3> QED BY <2>2, <3>3, <3>4
  <2>4. Todo' = Todo /\ \A p : Tails(p)' = Tails(p)
    BY <2>2, SameTodo
  <2>5. ASSUME NEW p \in CopyPayload PROVE DataOf(p, ring', mem', q', msg', Todo', Tails(p)', owned'[p])
    <3>1. p \in Pairs /\ DataOf(p, ring, mem, q, msg, Todo, Tails(p), owned[p]) /\ p # p0
      BY <1>2, <1>6
    <3>2. SameWork(p, Todo, Todo')
      BY <2>4, WorkSame
    <3>3. owned'[p] = owned[p] /\ \A b1 \in AllBufs : b1[1] \notin Own(p0) => mem'[b1] = mem[b1]
      BY <1>3
    <3> QED BY <1>1, <2>3, <2>4, <3>1, <3>2, <3>3, OtherPair
  <2> QED BY <1>2, <1>3, <2>4, <2>5 DEF Data, AllBufs
<1> QED BY <1>5, <1>6

-----------------------------------------------------------------------------
(* gie_process_local_q *)

\* A slot between two positions is the slot of a position between them.
InStretch(h, u, l, i) == \E x \in h .. u - 1 : x % l = i

\* The position of a slot.
LEMMA PosAt ==
  ASSUME NEW l \in Nat \ {0}, NEW h \in Nat, NEW u \in Nat, h <= u, u - h < l, NEW i \in Slots(h % l, u % l, l)
  PROVE  InStretch(h, u, l, i)
<1> DEFINE n == u - h
<1> DEFINE hs == h % l
<1> DEFINE k == Occupancy(i, hs, l)
<1>1. n \in 0 .. l - 1 /\ h + n = u /\ hs \in 0 .. l - 1
  BY ModRange
<1>2. u % l = q_idx_add(hs, n, l)
  <2> HIDE DEF n
  <2>1. n \in Nat /\ h + n = u
    BY <1>1
  <2>2. q_idx_add(h % l, n, l) = (h + n) % l
    BY <2>1, AddIs
  <2> QED BY <2>1, <2>2
<1> HIDE DEF n, hs
<1>3. i \in Slots(hs, q_idx_add(hs, n, l), l)
  BY <1>2 DEF hs
<1>4. k \in 0 .. n - 1 /\ q_idx_add(hs, k, l) = i
  BY <1>1, <1>3, SlotFrom
<1> HIDE DEF k
<1>5. q_idx_add(hs, k, l) = (h + k) % l
  <2>1. k \in Nat
    BY <1>4
  <2> QED BY <2>1, AddIs DEF hs
<1> DEFINE x == h + k
<1>6. x \in h .. u - 1 /\ x % l = i
  BY <1>1, <1>4, <1>5
<1> HIDE DEF x
<1> QED BY <1>6 DEF InStretch

\* An element that is produced and not accepted points to its own buffer.
LEMMA SentBuf ==
  ASSUME IInv, "ingress" \in Pairs
  PROVE  \A i \in Slots(q["lcl_tx"].head, msg["lcl_tx"].prod, QLen) : ring["lcl_tx"][i].buf = <<"lcl_tx", i>>
<1> DEFINE p == "ingress"
<1>1. PICK L, E, U, P, H, X, y : Whole(L, E, U, P, H, X, y)
  BY DEF IInv
<1>2. Src[p] = "lcl_tx" /\ Dst[p] = "host_rx" /\ QLen \in Nat \ {0}
  BY Names, Params
<1>3. PICK h, u, b0 : h = H[p] /\ u = X[p].sp /\ b0 = P[p][0]
  OBVIOUS
<1>4. /\ h \in Nat /\ u \in Nat /\ b0 \in Nat /\ b0 <= h /\ h <= u /\ u - b0 < QLen
  <2> DEFINE qt == X[p].qt
  <2> DEFINE tl == X[p].tl
  <2>1. /\ qt \in Nat /\ tl \in Nat /\ h \in Nat /\ u \in Nat /\ b0 \in Nat /\ b0 <= h /\ h <= qt /\ qt <= tl /\ tl <= u
        /\ u - b0 < QLen
    BY ZenonT(30), <1>1, <1>3, PairNum
  <2> HIDE DEF qt, tl
  <2> QED BY <2>1
<1>5. q["lcl_tx"].head = h % QLen /\ msg["lcl_tx"].prod = u % QLen
  <2>1. PairAt(p, q["lcl_tx"], q["host_rx"], msg["lcl_tx"], msg["host_rx"],
               U["lcl_tx"][0], U["lcl_tx"][Len(L)], P[p][0], P[p][Len(L)], H[p], X[p])
    BY <1>1, <1>2, PairData
  <2> QED BY <1>3, <2>1 DEF PairAt
<1>6. \A x \in h .. u - 1 : ring["lcl_tx"][x % QLen].buf = <<"lcl_tx", x % QLen>>
  <2>1. Sent(p, P, H, X[p].sp)
    BY <1>1, Parts
  <2> QED BY <1>2, <1>3, <2>1 DEF Sent
<1>7. ASSUME NEW i \in Slots(h % QLen, u % QLen, QLen) PROVE ring["lcl_tx"][i].buf = <<"lcl_tx", i>>
  <2>1. PICK x \in h .. u - 1 : x % QLen = i
    <3>1. u - h < QLen /\ QLen \in Nat \ {0} /\ h \in Nat /\ u \in Nat /\ h <= u
      BY <1>2, <1>4
    <3>2. i \in Slots(h % QLen, u % QLen, QLen)
      OBVIOUS
    <3>3. InStretch(h, u, QLen, i)
      BY ONLY <3>1, <3>2, PosAt
    <3> QED BY <3>3 DEF InStretch
  <2> QED BY <1>6, <2>1
<1> QED BY <1>5, <1>7

\* From one index to another it is as far as it is.
LEMMA FromTo ==
  ASSUME NEW n \in Nat \ {0}, NEW a \in 0 .. n - 1, NEW b \in 0 .. n - 1
  PROVE  /\ q_idx_add(a, Occupancy(b, a, n), n) = b /\ q_idx_add(a, 0, n) = a /\ Occupancy(a, a, n) = 0
         /\ (Occupancy(b, a, n) = 0 => b = a) /\ Slots(a, a, n) = {}
<1>1. Occupancy(b, a, n) = (IF b >= a THEN b - a ELSE b - a + n) /\ Occupancy(b, a, n) \in 0 .. n - 1
  BY OccupancyCases
<1>2. Occupancy(a, a, n) = 0
  <2>1. Occupancy(a, a, n) = IF a >= a THEN a - a ELSE a - a + n
    BY OccupancyCases
  <2> QED BY <2>1
<1> DEFINE k == Occupancy(b, a, n)
<1>3. k \in 0 .. n - 1 /\ k = IF b >= a THEN b - a ELSE b - a + n
  BY <1>1
<1> HIDE DEF k
<1>4. q_idx_add(a, k, n) = IF a + k < n THEN a + k ELSE a + k - n
  BY <1>3, AddCases
<1>5. q_idx_add(a, k, n) = b /\ (k = 0 => b = a)
  BY <1>3, <1>4
<1>6. q_idx_add(a, 0, n) = a
  <2>1. 0 \in 0 .. n - 1
    OBVIOUS
  <2>2. q_idx_add(a, 0, n) = IF a + 0 < n THEN a + 0 ELSE a + 0 - n
    BY <2>1, AddCases
  <2> QED BY <2>2
<1>7. Slots(a, a, n) = {}
  <2>1. \A i : i \in Slots(a, a, n) => a <= i /\ i < a /\ i \in Nat
    BY SlotIs
  <2>2. \A i : i \in Slots(a, a, n) => FALSE
    BY <2>1
  <2> QED BY <2>2
<1> QED BY <1>2, <1>5, <1>6, <1>7 DEF k

\* What gie_bpool_fill_shadow does to the pool and its shadow: the entries up
\* to v are the shadow's now, and those from v to t are being copied.
Filling(f, v, t) ==
  /\ f.b \in QIdx /\ f.sh \in QIdx /\ f.b.qe_head = q["host_bp"].qe_head /\ f.sh.qe_head = q["shadow"].qe_head
  /\ f.b.head = v /\ f.b.qe_tail = t /\ f.cons = v
  /\ f.sh.head = q["shadow"].head /\ f.sh.tail = v /\ v \in 0 .. BpLen - 1 /\ t \in 0 .. BpLen - 1
  /\ IsSeq(f.sub) /\ (\A d \in DescsIn(f.sub) : d.op = "qe") /\ (\A m \in 1 .. Len(f.sub) : f.sub[m].job.flag = "update")
  /\ \/ v = q["host_bp"].head /\ t = q["host_bp"].qe_tail
     \/ v = q["host_bp"].qe_head /\ t = v /\ q["host_bp"].qe_tail = v
     \/ /\ v = q["host_bp"].head /\ v = q["host_bp"].qe_tail
        /\ Occupancy(t, v, BpLen) <= Occupancy(msg["host_bp"].prod, v, BpLen)
        /\ \A i \in Slots(v, t, BpLen) : CopyTo(DescsIn(f.sub), "shadow", i)

\* A fill may submit nothing.
LEMMA NoSub == IsSeq(<<>>) /\ (\A d \in DescsIn(<<>>) : d.op = "qe") /\ \A m \in 1 .. Len(<<>>) : <<>>[m].job.flag = "update"
<1>1. IsSeq(<<>>) /\ DescsIn(<<>>) = {} /\ 1 .. Len(<<>>) = {}
  BY EmptyIs, NoDescs
<1> QED BY <1>1

\* What a fill submits copies the entries it takes.
LEMMA FillNew ==
  ASSUME NEW v \in 0 .. BpLen - 1, NEW z \in 0 .. BpLen - 1, "host_bp" \in Queues, Len_("host_bp") = BpLen,
         NEW n, n = Lesser(FillSize, Occupancy(z, v, BpLen)),
         NEW t, t = IF n = 0 THEN <<>> ELSE gie_copy_qes("host_bp", "shadow", n, v, "update", 0, 0),
         NEW w, w = q_idx_add(v, n, BpLen)
  PROVE  /\ w \in 0 .. BpLen - 1 /\ Occupancy(w, v, BpLen) <= Occupancy(z, v, BpLen) /\ IsSeq(t)
         /\ (\A d \in DescsIn(t) : d.op = "qe") /\ (\A m \in 1 .. Len(t) : t[m].job.flag = "update")
         /\ (\A i \in Slots(v, w, BpLen) : CopyTo(DescsIn(t), "shadow", i))
<1>0. BpLen \in Nat \ {0} /\ FillSize \in Nat \ {0}
  BY Params
<1> DEFINE o == Occupancy(z, v, BpLen)
<1>1. o \in 0 .. BpLen - 1 /\ n = Lesser(FillSize, o)
  BY <1>0, OccupancyCases
<1> HIDE DEF o
<1>2. n \in 0 .. BpLen - 1 /\ n <= o
  BY <1>0, <1>1 DEF Lesser
<1>3. w \in 0 .. BpLen - 1 /\ Occupancy(w, v, BpLen) = n
  BY <1>0, <1>2, FirstSlots
<1>4. CASE n = 0
  <2>1. t = <<>> /\ w = v /\ Slots(v, w, BpLen) = {}
    BY <1>0, <1>4, FromTo
  <2> QED BY <1>2, <1>3, <2>1, NoSub DEF o
<1>5. CASE n # 0
  <2>1. t = gie_copy_qes("host_bp", "shadow", n, v, "update", 0, 0) /\ n \in 1 .. BpLen - 1
    BY <1>0, <1>2, <1>5
  <2>2. QesOf(t, "host_bp", "shadow", v, w, BpLen, "update", 0)
    BY <1>0, <2>1, QesDescs
  <2>3. IsSeq(t)
    BY <2>1, CopySeq
  <2>4. \A d \in DescsIn(t) : d.op = "qe"
    BY <2>2 DEF QesOf, QeOf
  <2>5. \A m \in 1 .. Len(t) : t[m].job.flag = "update"
    BY <2>2 DEF QesOf
  <2>6. \A i \in Slots(v, w, BpLen) : CopyTo(DescsIn(t), "shadow", i)
    BY <2>2 DEF QesOf
  <2> QED BY <1>2, <1>3, <2>3, <2>4, <2>5, <2>6 DEF o
<1> QED BY <1>4, <1>5

\* gie_bpool_fill_shadow does that.
LEMMA FillingIs ==
  ASSUME IndexOk, "ingress" \in CopyPayload, "ingress" \in Pairs, PoolAround(q), PoolOk("ingress", q, msg),
         NEW avail, NEW qes, NEW f, Choice(f, avail, qes)
  PROVE  \E v, t : Filling(f, v, t)
<1> DEFINE b == q["host_bp"]
<1> DEFINE sh == q["shadow"]
<1> DEFINE c == msg["host_bp"].cons
<1> DEFINE pr == msg["host_bp"].prod
<1>0. BpLen \in Nat \ {0} /\ Pool["ingress"] = "host_bp" /\ "host_bp" \in Queues /\ "shadow" \in Queues
      /\ Len_("host_bp") = BpLen /\ Len_("shadow") = BpLen
  BY Names, Params
<1>1. b \in QIdx /\ sh \in QIdx
  BY <1>0 DEF IndexOk
<1>2. /\ c = b.head /\ pr \in 0 .. BpLen - 1 /\ sh.tail = b.head /\ b.head \in 0 .. BpLen - 1
      /\ b.qe_head \in 0 .. BpLen - 1 /\ b.qe_tail \in 0 .. BpLen - 1
  BY <1>0 DEF PoolOk, PoolAround
<1>3. \/ f = [b |-> b, sh |-> sh, cons |-> c, sub |-> <<>>]
      \/ f = gie_bpool_fill_shadow("host_bp", b, sh)
  BY DEF Choice
<1> DEFINE copied == qes_copied(b, BpLen)
<1> DEFINE fresh == [b EXCEPT !.tail = pr]
<1> DEFINE fill == Lesser(FillSize, q_occupancy(fresh, BpLen))
<1> DEFINE t == IF fill = 0 THEN <<>> ELSE gie_copy_qes("host_bp", "shadow", fill, b.qe_tail, "update", 0, 0)
<1> DEFINE x == Ahead(b.qe_tail, fill, "host_bp")
<1> DEFINE busy == qes_in_copy(b, BpLen)
<1>4. busy = Occupancy(b.qe_tail, b.qe_head, BpLen) /\ copied = Occupancy(b.qe_head, b.head, BpLen)
  BY DEF qes_in_copy, qes_copied, Occupancy
<1>5. /\ fresh \in QIdx /\ fresh.head = b.head /\ fresh.tail = pr /\ fresh.qe_head = b.qe_head /\ fresh.qe_tail = b.qe_tail
      /\ q_occupancy(fresh, BpLen) = Occupancy(pr, b.head, BpLen)
  <2>1. pr \in Nat
    BY <1>0, <1>2
  <2>2. /\ fresh \in QIdx /\ fresh.head = b.head /\ fresh.tail = pr /\ fresh.qe_head = b.qe_head
        /\ fresh.qe_tail = b.qe_tail
    <3> HIDE DEF b, pr
    <3> QED BY <1>1, <2>1 DEF QIdx
  <2> QED BY <2>2 DEF q_occupancy
<1>6. busy \in 0 .. BpLen - 1 /\ copied \in 0 .. BpLen - 1
  BY ZenonT(30), <1>0, <1>2, <1>4, OccupancyCases
<1>7. \/ f = [b |-> b, sh |-> sh, cons |-> c, sub |-> <<>>]
      \/ busy = 0 /\ f = [b |-> [b EXCEPT !.head = Ahead(@, copied, "host_bp")],
                          sh |-> [sh EXCEPT !.tail = Ahead(@, copied, "shadow")],
                          cons |-> Ahead(b.head, copied, "host_bp"), sub |-> <<>>]
      \/ /\ busy = 0 /\ copied = 0
         /\ f = [b |-> [fresh EXCEPT !.qe_tail = Ahead(@, fill, "host_bp")], sh |-> sh, cons |-> c, sub |-> t]
  <2> DEFINE g1 == [b |-> b, sh |-> sh, cons |-> c, sub |-> <<>>]
  <2> DEFINE g2 == [b |-> [b EXCEPT !.head = Ahead(@, copied, "host_bp")],
                    sh |-> [sh EXCEPT !.tail = Ahead(@, copied, "shadow")],
                    cons |-> Ahead(b.head, copied, "host_bp"), sub |-> <<>>]
  <2> DEFINE g3 == [b |-> [fresh EXCEPT !.qe_tail = Ahead(@, fill, "host_bp")], sh |-> sh, cons |-> c, sub |-> t]
  <2>1. gie_bpool_fill_shadow("host_bp", b, sh) =
          CASE busy > 0 -> g1 [] busy = 0 /\ copied > 0 -> g2 [] OTHER -> g3
    BY DEF gie_bpool_fill_shadow
  <2> HIDE DEF g1, g2, g3, busy, copied, fill, fresh, t
  <2>2. f = g1 \/ f = CASE busy > 0 -> g1 [] busy = 0 /\ copied > 0 -> g2 [] OTHER -> g3
    BY <1>3, <2>1 DEF g1
  <2>3. CASE busy > 0
    BY <2>2, <2>3 DEF g1
  <2>4. CASE busy = 0 /\ copied > 0
    <3>1. ~(busy > 0)
      BY <2>4
    <3>2. f = g1 \/ f = g2
      BY <2>2, <2>4, <3>1
    <3> QED BY <2>4, <3>2 DEF g1, g2
  <2>5. CASE busy = 0 /\ copied = 0
    <3>1. ~(busy > 0) /\ ~(copied > 0)
      BY <2>5
    <3>2. f = g1 \/ f = g3
      BY <2>2, <2>5, <3>1
    <3> QED BY <2>5, <3>2 DEF g1, g3
  <2> QED BY <1>0, <1>6, <2>3, <2>4, <2>5
<1>8. CASE f = [b |-> b, sh |-> sh, cons |-> c, sub |-> <<>>]
  <2>1. f.b = b /\ f.sh = sh /\ f.cons = c /\ f.sub = <<>>
    BY <1>8
  <2>2. Filling(f, b.head, b.qe_tail)
    BY <1>1, <1>2, <2>1, NoSub DEF Filling
  <2> QED BY <2>2
<1>9. CASE busy = 0 /\ f = [b |-> [b EXCEPT !.head = Ahead(@, copied, "host_bp")],
                            sh |-> [sh EXCEPT !.tail = Ahead(@, copied, "shadow")],
                            cons |-> Ahead(b.head, copied, "host_bp"), sub |-> <<>>]
  <2> DEFINE v == b.qe_head
  <2>1. Ahead(b.head, copied, "host_bp") = v /\ Ahead(sh.tail, copied, "shadow") = v
    BY <1>0, <1>2, <1>4, FromTo DEF Ahead
  <2>2. b.qe_tail = v /\ v \in 0 .. BpLen - 1 /\ v \in Nat
    <3> DEFINE x1 == b.qe_tail
    <3>1. x1 \in 0 .. BpLen - 1 /\ v \in 0 .. BpLen - 1 /\ BpLen \in Nat \ {0} /\ Occupancy(x1, v, BpLen) = 0
      BY <1>0, <1>2, <1>4, <1>9
    <3> HIDE DEF x1, v
    <3>2. x1 = v
      BY ONLY <3>1, FromTo
    <3> QED BY <3>1, <3>2 DEF x1
  <2> DEFINE b2 == [b EXCEPT !.head = v]
  <2> DEFINE s2 == [sh EXCEPT !.tail = v]
  <2>3. b2 = [b EXCEPT !.head = Ahead(@, copied, "host_bp")] /\ s2 = [sh EXCEPT !.tail = Ahead(@, copied, "shadow")]
    <3> HIDE DEF v, b, sh, copied
    <3> QED BY <1>1, <2>1 DEF QIdx
  <2>4. f.b = b2 /\ f.sh = s2 /\ f.cons = v /\ f.sub = <<>>
    <3> HIDE DEF v, b2, s2, copied
    <3> QED BY <1>9, <2>1, <2>3
  <2>5. /\ b2 \in QIdx /\ b2.head = v /\ b2.qe_tail = b.qe_tail /\ b2.qe_head = b.qe_head
        /\ s2 \in QIdx /\ s2.head = sh.head /\ s2.tail = v /\ s2.qe_head = sh.qe_head
    <3>v. v \in Nat
      BY <2>2
    <3> HIDE DEF v, b, sh
    <3> QED BY <1>1, <3>v DEF QIdx
  <2> HIDE DEF b2, s2
  <2>6. Filling(f, v, v)
    BY <2>2, <2>4, <2>5, NoSub DEF Filling
  <2> QED BY <2>6
<1>10. CASE /\ busy = 0 /\ copied = 0
            /\ f = [b |-> [fresh EXCEPT !.qe_tail = Ahead(@, fill, "host_bp")], sh |-> sh, cons |-> c, sub |-> t]
  <2> DEFINE v == b.head
  <2>1. b.qe_head = v /\ b.qe_tail = v
    <3> DEFINE x1 == b.qe_tail
    <3> DEFINE x2 == b.qe_head
    <3>1. /\ x1 \in 0 .. BpLen - 1 /\ x2 \in 0 .. BpLen - 1 /\ v \in 0 .. BpLen - 1 /\ BpLen \in Nat \ {0}
          /\ Occupancy(x1, x2, BpLen) = 0 /\ Occupancy(x2, v, BpLen) = 0
      BY <1>0, <1>2, <1>4, <1>10
    <3> HIDE DEF x1, x2, v
    <3>2. x1 = x2
      BY ONLY <3>1, FromTo
    <3>3. x2 = v
      BY ONLY <3>1, FromTo
    <3> QED BY <3>2, <3>3 DEF x1, x2
  <2>2. /\ fill = Lesser(FillSize, Occupancy(pr, v, BpLen)) /\ x = q_idx_add(v, fill, BpLen)
        /\ t = IF fill = 0 THEN <<>> ELSE gie_copy_qes("host_bp", "shadow", fill, v, "update", 0, 0)
    BY <1>0, <1>5, <2>1 DEF Ahead
  <2>3. pr \in 0 .. BpLen - 1 /\ v \in 0 .. BpLen - 1
    BY <1>2
  <2> DEFINE b2 == [fresh EXCEPT !.qe_tail = x]
  <2>4. b2 = [fresh EXCEPT !.qe_tail = Ahead(@, fill, "host_bp")]
    <3>1. x = Ahead(fresh.qe_tail, fill, "host_bp")
      BY <1>5
    <3> HIDE DEF fresh, x, fill
    <3> QED BY <1>5, <3>1 DEF QIdx
  <2>5. f.b = b2 /\ f.sh = sh /\ f.cons = c /\ f.sub = t
    <3> HIDE DEF b2, t, fresh, fill
    <3> QED BY <1>10, <2>4
  <2> HIDE DEF fill, t, x
  <2>6. /\ x \in 0 .. BpLen - 1 /\ Occupancy(x, v, BpLen) <= Occupancy(pr, v, BpLen) /\ IsSeq(t)
        /\ (\A d \in DescsIn(t) : d.op = "qe") /\ (\A m \in 1 .. Len(t) : t[m].job.flag = "update")
        /\ (\A i \in Slots(v, x, BpLen) : CopyTo(DescsIn(t), "shadow", i))
    <3> HIDE DEF v, pr
    <3> QED BY <1>0, <2>2, <2>3, FillNew
  <2>7. b2 \in QIdx /\ b2.head = v /\ b2.qe_tail = x /\ b2.qe_head = b.qe_head
    <3>1. x \in Nat
      BY <2>6
    <3>2. b2 \in QIdx /\ b2.head = fresh.head /\ b2.qe_tail = x /\ b2.qe_head = fresh.qe_head
      <4> HIDE DEF fresh
      <4> QED BY <1>5, <3>1 DEF QIdx
    <3> QED BY <1>5, <3>2
  <2> HIDE DEF b2
  <2>8. Filling(f, v, x)
    BY <1>1, <1>2, <2>1, <2>3, <2>5, <2>6, <2>7 DEF Filling
  <2> QED BY <2>8
<1> QED BY <1>7, <1>8, <1>9, <1>10

\* The entries that become the shadow's: those that have been copied, F.
FillSets(p, qq, mg, F) ==
  /\ FullIn(p, q, msg) = F \cup FullIn(p, qq, mg) /\ F \cap FullIn(p, qq, mg) = {}
  /\ FetchedIn(p, qq) = FetchedIn(p, q) \cup F
  /\ F = {} \/ (F = FillIn(q) /\ FillLeft(q) = {})
  /\ PoolOk(p, qq, mg)

\* The sets of slots are so after it.
LEMMA FillSetsIs ==
  ASSUME FillFits, NEW p \in CopyPayload, p \in Pairs, p = "ingress", PoolAround(q), PoolOk(p, q, msg),
         NEW f, NEW v, NEW t, Filling(f, v, t), NEW qq, NEW mg, qq["host_bp"] = f.b, qq["shadow"] = f.sh,
         mg["host_bp"].cons = f.cons, mg["host_bp"].prod = msg["host_bp"].prod
  PROVE  \E F : FillSets(p, qq, mg, F)
<1> DEFINE h == q["host_bp"].head
<1> DEFINE u == q["host_bp"].qe_head
<1> DEFINE x == q["host_bp"].qe_tail
<1> DEFINE z == msg["host_bp"].prod
<1> DEFINE a == q["shadow"].head
<1>0. Pool[p] = "host_bp" /\ BpLen \in Nat \ {0}
  BY Names, Params
<1>1. /\ h \in 0 .. BpLen - 1 /\ u \in 0 .. BpLen - 1 /\ x \in 0 .. BpLen - 1 /\ z \in 0 .. BpLen - 1 /\ a \in 0 .. BpLen - 1
      /\ Occupancy(x, h, BpLen) <= Occupancy(z, h, BpLen)
      /\ Occupancy(h, a, BpLen) + Occupancy(u, h, BpLen) + Occupancy(x, u, BpLen) < BpLen
  BY <1>0 DEF PoolOk, PoolAround
<1>2. /\ FullIn(p, q, msg) = Slots(h, z, BpLen) /\ FullIn(p, qq, mg) = Slots(v, z, BpLen)
      /\ FetchedIn(p, q) = Slots(a, h, BpLen) /\ FetchedIn(p, qq) = Slots(a, v, BpLen)
      /\ FillIn(q) = Slots(h, x, BpLen) /\ FillLeft(q) = Slots(u, x, BpLen)
  BY <1>0 DEF FullIn, FetchedIn, FillIn, FillLeft, Filling, PoolAround
<1>3. /\ v \in 0 .. BpLen - 1 /\ t \in 0 .. BpLen - 1
      /\ qq["host_bp"].head = v /\ qq["host_bp"].qe_tail = t /\ mg["host_bp"].cons = v /\ mg["host_bp"].prod = z
      /\ \/ v = h /\ t = x
         \/ v = u /\ t = v /\ x = v
         \/ v = h /\ Occupancy(t, v, BpLen) <= Occupancy(z, v, BpLen)
  BY DEF Filling
<1>4. ASSUME Occupancy(t, v, BpLen) <= Occupancy(z, v, BpLen) PROVE PoolOk(p, qq, mg)
  BY <1>0, <1>1, <1>3, <1>4 DEF PoolOk
<1> HIDE DEF h, u, x, z, a
<1>5. CASE v = h /\ (t = x \/ Occupancy(t, v, BpLen) <= Occupancy(z, v, BpLen))
  <2>1. PoolOk(p, qq, mg)
    BY <1>1, <1>4, <1>5
  <2>2. FillSets(p, qq, mg, {})
    BY <1>2, <1>5, <2>1 DEF FillSets
  <2> QED BY <2>2
<1>6. CASE v = u /\ t = v /\ x = v
  <2> DEFINE F == Slots(h, u, BpLen)
  <2> DEFINE o == Occupancy(u, h, BpLen)
  <2> DEFINE oa == Occupancy(h, a, BpLen)
  <2>1. o \in 0 .. BpLen - 1 /\ oa \in 0 .. BpLen - 1 /\ Occupancy(z, u, BpLen) \in 0 .. BpLen - 1
        /\ Occupancy(x, u, BpLen) \in 0 .. BpLen - 1
    BY <1>0, <1>1, OccupancyCases
  <2>2. o <= Occupancy(z, h, BpLen) /\ oa + o < BpLen
    <3> DEFINE r == Occupancy(x, u, BpLen)
    <3>1. o = Occupancy(x, h, BpLen) /\ r \in 0 .. BpLen - 1 /\ oa + o + r < BpLen
      BY <1>1, <1>6, <2>1
    <3>2. oa + o < BpLen
      <4> HIDE DEF o, oa, r
      <4> QED BY <1>0, <2>1, <3>1
    <3> QED BY <1>1, <3>1, <3>2
  <2>3. u = q_idx_add(h, o, BpLen)
    BY <1>0, <1>1, FromTo
  <2>4. /\ Slots(h, z, BpLen) = F \cup Slots(u, z, BpLen) /\ F \cap Slots(u, z, BpLen) = {}
    <3>1. o <= Occupancy(z, h, BpLen)
      BY <2>2
    <3> HIDE DEF o
    <3> QED BY <1>0, <1>1, <2>1, <2>3, <3>1, SkipSlots
  <2>5. Slots(a, u, BpLen) = Slots(a, h, BpLen) \cup F
    BY <1>0, <1>1, <2>2, SlotsSplit
  <2>6. PoolOk(p, qq, mg)
    <3>1. Occupancy(t, v, BpLen) = 0
      BY <1>0, <1>1, <1>6, FromTo
    <3>2. 0 <= Occupancy(z, v, BpLen)
      BY <1>6, <2>1
    <3> QED BY <1>4, <3>1, <3>2
  <2>7. F = FillIn(q) /\ FillLeft(q) = {}
    <3>1. Slots(u, x, BpLen) = {}
      BY <1>0, <1>1, <1>6, FromTo
    <3> QED BY <1>2, <1>6, <3>1
  <2> HIDE DEF F
  <2>8. FillSets(p, qq, mg, F)
    BY <1>2, <1>6, <2>4, <2>5, <2>6, <2>7 DEF FillSets
  <2> QED BY <2>8
<1> QED BY <1>3, <1>5, <1>6

\* Only entries that are not copied yet have a descriptor.
LEMMA FillNamed ==
  ASSUME NEW qq, NEW mg, NEW w, Kinds(w, qq, mg), NEW i, CopyTo(w, "shadow", i)
  PROVE  i \in FillLeft(qq)
<1>1. PICK d \in w : d.op = "qe" /\ d.dst = "shadow" /\ i \in Covered(d)
  BY DEF CopyTo
<1>2. Kind(d, qq, mg)
  BY DEF Kinds
<1>3. CASE \E p \in Pairs : OfBuffer(d, p, qq, mg)
  BY <1>1, <1>3 DEF OfBuffer
<1>4. CASE \E p \in Pairs : OfElements(d, p, qq, mg)
  <2>1. PICK p \in Pairs : OfElements(d, p, qq, mg)
    BY <1>4
  <2>2. d.dst = Dst[p]
    BY <2>1 DEF OfElements
  <2>3. Dst[p] # "shadow"
    BY Names, Params
  <2> QED BY <1>1, <2>2, <2>3
<1>5. CASE OfPool(d, qq)
  BY <1>1, <1>5 DEF OfPool
<1> QED BY <1>2, <1>3, <1>4, <1>5 DEF Kind

\* The data after gie_bpool_fill_shadow.
LEMMA FillOne ==
  ASSUME FillFits, NEW p \in CopyPayload, p \in Pairs, p = "ingress",
         DataOf(p, ring, mem, q, msg, Todo, Tails(p), owned[p]), Regions(q, msg), Kinds(Todo, q, msg),
         NEW f, NEW v, NEW t, Filling(f, v, t), NEW qq, NEW mg, qq["host_bp"] = f.b, qq["shadow"] = f.sh,
         mg["host_bp"].cons = f.cons, mg["host_bp"].prod = msg["host_bp"].prod,
         \A x \in Queues : x # "host_bp" => mg[x] = msg[x] /\ (x # "shadow" => qq[x] = q[x]),
         NEW w, w = Todo \cup DescsIn(f.sub)
  PROVE  DataOf(p, ring, mem, qq, mg, w, Tails(p), owned[p])
<1>0. /\ Src[p] = "lcl_tx" /\ Dst[p] = "host_rx" /\ Pool[p] = "host_bp" /\ Src[p] \in Queues /\ Dst[p] \in Queues
      /\ BpLen \in Nat \ {0}
  BY Names, Params
<1>1. Around(p, q, msg) /\ PoolAround(q)
  BY DEF Regions
<1> DEFINE tl == Tails(p)
<1> DEFINE ow == owned[p]
<1>2. SameWork(p, Todo, w)
  <2>1. \A d \in w : d.op = "buf" /\ d.src[1] = Src[p] => d \in Todo
    BY DEF Filling
  <2> QED BY <2>1, WorkSame
<1>3. DataOf(p, ring, mem, q, msg, w, tl, ow)
  <2>1. SameIdx(p, q, msg, q, msg) /\ SameRings(p, ring, ring) /\ SameBufs(p, mem, mem)
    BY DEF SameIdx, SameRings, SameBufs
  <2> QED BY <1>1, <1>2, <2>1, Frame
<1> DEFINE un == UnreadIn(p, msg)
<1> DEFINE mv == MovingIn(p, q, msg)
<1> DEFINE tk == TakenIn(p, q, msg)
<1> DEFINE sent == SentIn(p, msg)
<1> DEFINE cp == CopiedIn(p, q, msg)
<1> DEFINE e == ElemsOf(p, ring, un)
<1> DEFINE full == FullIn(p, q, msg)
<1> DEFINE g == FetchedIn(p, q)
<1> DEFINE full2 == FullIn(p, qq, mg)
<1> DEFINE g2 == FetchedIn(p, qq)
<1> DEFINE s == ring[Src[p]]
<1> DEFINE d == ring[Dst[p]]
<1> DEFINE rp == ring["host_bp"]
<1> DEFINE sh == ring["shadow"]
<1>4. /\ s \in [0 .. QLen - 1 -> Elements] /\ d \in [0 .. QLen - 1 -> Elements]
      /\ SourceOk(p, s, mem, sent) /\ WholeOk(s, sent) /\ ElemOk(e, s, mem, w, tk, mv) /\ AimedOk(p, e, w)
      /\ CopiedOk(Dst[p], s, d, w, cp) /\ CutOk(d, e, un, mv, msg[Dst[p]].prod, tl) /\ PoolOk(p, q, msg)
      /\ CopiedOk("shadow", rp, sh, w, FillIn(q))
      /\ Spread(PoolBufs(p), Bufs(e), tk, ring[Pool[p]], full, sh, g, ow)
  BY <1>3, DataIs
<1>5. PICK F : FillSets(p, qq, mg, F)
  BY <1>1, <1>4, FillSetsIs
<1>6. /\ full = F \cup full2 /\ F \cap full2 = {} /\ g2 = g \cup F /\ (F = {} \/ (F = FillIn(q) /\ FillLeft(q) = {}))
      /\ PoolOk(p, qq, mg)
  BY <1>5 DEF FillSets
<1>7. \A i \in F : sh[i] = rp[i]
  <2>1. CopiedOk("shadow", rp, sh, Todo, FillIn(q))
    <3> DEFINE w0 == Todo
    <3>1. DataOf(p, ring, mem, q, msg, w0, tl, ow)
      OBVIOUS
    <3> HIDE DEF w0, tl, ow
    <3>2. p = "ingress" => CopiedOk("shadow", rp, sh, w0, FillIn(q))
      BY <3>1, DataIs
    <3> QED BY <3>2 DEF w0
  <2>2. \A i : CopyTo(Todo, "shadow", i) => i \in FillLeft(q)
    BY FillNamed
  <2> QED BY <1>6, <2>1, <2>2 DEF CopiedOk
<1>8. CopiedOk("shadow", rp, sh, w, FillIn(qq))
  <2>1. FillIn(qq) = Slots(v, t, BpLen) /\ FillIn(q) = Slots(q["host_bp"].head, q["host_bp"].qe_tail, BpLen)
    BY DEF FillIn, Filling
  <2>2. CASE v = q["host_bp"].head /\ t = q["host_bp"].qe_tail
    BY <1>4, <2>1, <2>2
  <2>3. CASE t = v
    <3>1. v \in 0 .. BpLen - 1
      BY DEF Filling
    <3>2. Slots(v, v, BpLen) = {}
      BY <1>0, <3>1, FromTo
    <3> QED BY <2>1, <2>3, <3>2 DEF CopiedOk
  <2>4. CASE \A i \in Slots(v, t, BpLen) : CopyTo(DescsIn(f.sub), "shadow", i)
    <3>1. \A i : CopyTo(DescsIn(f.sub), "shadow", i) => CopyTo(w, "shadow", i)
      BY DEF CopyTo
    <3> QED BY <2>1, <2>4, <3>1 DEF CopiedOk
  <2> QED BY <2>2, <2>3, <2>4 DEF Filling
<1>9. /\ UnreadIn(p, mg) = un /\ MovingIn(p, qq, mg) = mv /\ TakenIn(p, qq, mg) = tk /\ SentIn(p, mg) = sent
      /\ mg[Dst[p]] = msg[Dst[p]]
  <2>1. qq[Src[p]] = q[Src[p]] /\ mg[Src[p]] = msg[Src[p]] /\ mg[Dst[p]] = msg[Dst[p]]
    BY <1>0
  <2> QED BY <2>1 DEF UnreadIn, MovingIn, TakenIn, SentIn
<1>10. CopiedIn(p, qq, mg) = cp
  BY <1>9 DEF CopiedIn
<1>11. Spread(PoolBufs(p), Bufs(e), tk, rp, full2, sh, g2, ow)
  <2> DEFINE all == PoolBufs(p)
  <2> DEFINE b == Bufs(e)
  <2>1. Spread(all, b, tk, rp, full, sh, g, ow)
    BY <1>0, <1>4
  <2> HIDE DEF all, b, tk, rp, full, sh, g, ow, full2, g2
  <2>2. Spread(all, sh, g, rp, full, b, tk, ow)
    BY <2>1, SpreadTurn
  <2>3. Held(sh, F) = Held(rp, F)
    BY <1>7 DEF Held
  <2>4. Distinct(sh, F)
    <3>1. Distinct(rp, full)
      BY <2>1 DEF Spread
    <3> QED BY <1>6, <1>7, <3>1 DEF Distinct
  <2>5. \A i \in g : sh[i] = sh[i]
    OBVIOUS
  <2>6. full = F \cup full2 /\ F \cap full2 = {}
    BY <1>6
  <2>7. Spread(all, sh, g \cup F, rp, full2, b, tk, ow)
    BY ONLY <2>2, <2>3, <2>4, <2>5, <2>6, SpreadHand
  <2>8. Spread(all, b, tk, rp, full2, sh, g \cup F, ow)
    BY <2>7, SpreadTurn
  <2> QED BY <1>6, <2>8 DEF all, b
<1> HIDE DEF un, mv, tk, sent, cp, full, g, full2, g2, tl, ow
<1>12. e = ElemsOf(p, ring, UnreadIn(p, mg))
  BY <1>9
<1> HIDE DEF e
<1>13. DataOf(p, ring, mem, qq, mg, w, tl, ow)
  <2>1. /\ SourceOk(p, ring[Src[p]], mem, SentIn(p, mg)) /\ WholeOk(ring[Src[p]], SentIn(p, mg))
        /\ ElemOk(e, ring[Src[p]], mem, w, TakenIn(p, qq, mg), MovingIn(p, qq, mg)) /\ AimedOk(p, e, w)
        /\ CopiedOk(Dst[p], ring[Src[p]], ring[Dst[p]], w, CopiedIn(p, qq, mg))
        /\ CutOk(ring[Dst[p]], e, UnreadIn(p, mg), MovingIn(p, qq, mg), mg[Dst[p]].prod, tl) /\ PoolOk(p, qq, mg)
    BY <1>4, <1>6, <1>9, <1>10
  <2>2. Spread(PoolBufs(p), Bufs(e), TakenIn(p, qq, mg), ring[Pool[p]], FullIn(p, qq, mg), ring["shadow"], FetchedIn(p, qq), ow)
    BY <1>0, <1>9, <1>11 DEF full2, g2
  <2>3. p = "ingress" => CopiedOk("shadow", ring["host_bp"], ring["shadow"], w, FillIn(qq))
    BY <1>8
  <2>4. ring[Src[p]] \in [0 .. QLen - 1 -> Elements] /\ ring[Dst[p]] \in [0 .. QLen - 1 -> Elements]
    BY <1>4
  <2> HIDE DEF s, d, rp, sh
  <2> QED BY ONLY <1>12, <2>1, <2>2, <2>3, <2>4, DataFrom
<1> QED BY <1>13 DEF tl, ow

\* The elements of lcl_tx from slot h to slot v get the shadow's buffers from
\* entry a to entry c; qq, mg and w are the indices, the words and the
\* descriptors before that.
Taking(p, qq, mg, w, h, a, n, v, c, limit, to) ==
  /\ h = qq["lcl_tx"].head /\ a = qq["shadow"].head
  /\ limit \in Nat /\ limit <= Occupancy(mg["lcl_tx"].prod, h, QLen)
  /\ Occupancy(h, mg["host_rx"].cons, QLen) + limit < QLen
  /\ n = Accepted(ring["lcl_tx"], h, limit, Occupancy(qq["shadow"].tail, a, BpLen))
  /\ v = q_idx_add(h, n, QLen) /\ c = q_idx_add(a, n, BpLen)
  /\ q'["lcl_tx"].head = v /\ q'["shadow"].head = c /\ q'["shadow"].tail = qq["shadow"].tail
  /\ q'["host_bp"] = qq["host_bp"]
  /\ msg'["lcl_tx"] = mg["lcl_tx"] /\ msg'["host_rx"] = mg["host_rx"] /\ msg'["host_bp"] = mg["host_bp"]
  /\ (\A k \in 0 .. n - 1 : to[k] = ring["shadow"][q_idx_add(a, k, BpLen)])
  /\ ring'["lcl_tx"] = Rebuffered(ring["lcl_tx"], h, n, to) /\ (\A x \in Queues : x # "lcl_tx" => ring'[x] = ring[x])
  /\ w \subseteq Todo' /\ (\A k \in 0 .. n - 1 : BufOf("lcl_tx", h, k, to) \in Todo')
  /\ (\A i \in Slots(h, v, QLen) : CopyTo(Todo', "host_rx", i))
  /\ (\A d \in Todo' : d \in w \/ d.op = "qe" \/ \E k \in 0 .. n - 1 : d = BufOf("lcl_tx", h, k, to))
  /\ (\A t \in Tails(p)' : t \in Tails(p) \/ (n > 0 /\ t = v))
  /\ mem' = mem /\ owned' = owned

\* The slots after that: N is those of the elements, F those of the entries.
TakeSets(p, qq, mg, N, v, F, c) ==
  /\ MovingIn(p, q', msg') = MovingIn(p, qq, mg) \cup N /\ TakenIn(p, q', msg') = TakenIn(p, qq, mg) \cup N
  /\ N \cap TakenIn(p, qq, mg) = {} /\ N \subseteq SentIn(p, mg)
  /\ FetchedIn(p, qq) = F \cup FetchedIn(p, q') /\ F \cap FetchedIn(p, q') = {}
  /\ FullIn(p, q', msg') = FullIn(p, qq, mg) /\ FillIn(q') = FillIn(qq)
  /\ UnreadIn(p, msg') = UnreadIn(p, mg) /\ SentIn(p, msg') = SentIn(p, mg)
  /\ PoolOk(p, q', msg') /\ v \in 0 .. QLen - 1

\* The sets of slots are so after it.
LEMMA TakeSetsIs ==
  ASSUME NEW p \in Pairs, p = "ingress", NEW qq, NEW mg, NEW w, Around(p, qq, mg), PoolOk(p, qq, mg),
         NEW h, NEW a, NEW n, NEW v, NEW c, NEW limit, NEW to, Taking(p, qq, mg, w, h, a, n, v, c, limit, to),
         a \in 0 .. BpLen - 1, qq["shadow"].tail \in 0 .. BpLen - 1,
         n \in 0 .. limit, n <= Occupancy(qq["shadow"].tail, a, BpLen),
         NEW N, N = Slots(h, v, QLen), NEW F, F = Slots(a, c, BpLen)
  PROVE  TakeSets(p, qq, mg, N, v, F, c) /\ n \in 0 .. QLen - 1 /\ n \in 0 .. BpLen - 1
<1>0. /\ Src[p] = "lcl_tx" /\ Dst[p] = "host_rx" /\ Pool[p] = "host_bp" /\ QLen \in Nat \ {0} /\ BpLen \in Nat \ {0}
  BY Names, Params
<1>1. /\ h = qq["lcl_tx"].head /\ a = qq["shadow"].head /\ limit \in Nat /\ limit <= Occupancy(mg["lcl_tx"].prod, h, QLen)
      /\ Occupancy(h, mg["host_rx"].cons, QLen) + limit < QLen
      /\ v = q_idx_add(h, n, QLen) /\ c = q_idx_add(a, n, BpLen)
      /\ q'["lcl_tx"].head = v /\ q'["shadow"].head = c /\ q'["shadow"].tail = qq["shadow"].tail
      /\ q'["host_bp"] = qq["host_bp"]
      /\ msg'["lcl_tx"] = mg["lcl_tx"] /\ msg'["host_rx"] = mg["host_rx"] /\ msg'["host_bp"] = mg["host_bp"]
  BY DEF Taking
<1> DEFINE rd == mg["host_rx"].cons
<1> DEFINE a0 == mg["lcl_tx"].cons
<1> DEFINE z == mg["lcl_tx"].prod
<1> DEFINE y == qq["shadow"].tail
<1>2. /\ rd \in 0 .. QLen - 1 /\ a0 \in 0 .. QLen - 1 /\ h \in 0 .. QLen - 1 /\ z \in 0 .. QLen - 1 /\ y \in 0 .. BpLen - 1
      /\ Occupancy(a0, rd, QLen) + Occupancy(h, a0, QLen) < QLen
      /\ Occupancy(h, a0, QLen) <= Occupancy(z, a0, QLen)
  BY <1>0, <1>1 DEF Around
<1>3. /\ MovingIn(p, qq, mg) = Slots(a0, h, QLen) /\ TakenIn(p, qq, mg) = Slots(rd, h, QLen)
      /\ SentIn(p, mg) = Slots(a0, z, QLen) /\ FetchedIn(p, qq) = Slots(a, y, BpLen)
      /\ MovingIn(p, q', msg') = Slots(a0, v, QLen) /\ TakenIn(p, q', msg') = Slots(rd, v, QLen)
      /\ FetchedIn(p, q') = Slots(c, y, BpLen)
  BY <1>0, <1>1 DEF MovingIn, TakenIn, SentIn, FetchedIn
<1>4. /\ FullIn(p, q', msg') = FullIn(p, qq, mg) /\ FillIn(q') = FillIn(qq)
      /\ UnreadIn(p, msg') = UnreadIn(p, mg) /\ SentIn(p, msg') = SentIn(p, mg) /\ PoolOk(p, q', msg')
  BY <1>0, <1>1 DEF FullIn, FillIn, UnreadIn, SentIn, PoolOk
<1> HIDE DEF rd, a0, z, y
<1> DEFINE oa == Occupancy(a0, rd, QLen)
<1> DEFINE oh == Occupancy(h, a0, QLen)
<1> DEFINE oz == Occupancy(z, h, QLen)
<1> DEFINE or == Occupancy(h, rd, QLen)
<1> DEFINE oy == Occupancy(y, a, BpLen)
<1>5. /\ oa \in 0 .. QLen - 1 /\ oh \in 0 .. QLen - 1 /\ oz \in 0 .. QLen - 1 /\ or \in 0 .. QLen - 1
      /\ oy \in 0 .. BpLen - 1
  BY <1>0, <1>2, OccupancyCases
<1>6. or = oa + oh
  BY <1>0, <1>2, SlotsSplit
<1>7. Slots(a0, z, QLen) = Slots(a0, h, QLen) \cup Slots(h, z, QLen)
  <2>1. h = q_idx_add(a0, oh, QLen)
    BY <1>0, <1>2, FromTo
  <2>2. oh <= Occupancy(z, a0, QLen)
    BY <1>2
  <2> HIDE DEF oh
  <2> QED BY <1>0, <1>2, <1>5, <2>1, <2>2, SkipSlots
<1>o. oa = Occupancy(a0, rd, QLen) /\ oh = Occupancy(h, a0, QLen) /\ oz = Occupancy(z, h, QLen)
      /\ or = Occupancy(h, rd, QLen) /\ oy = Occupancy(y, a, BpLen) /\ limit <= oz /\ or + limit < QLen /\ n <= oy
  BY <1>1 DEF z, rd, y
<1> HIDE DEF oa, oh, oz, or, oy
<1>8. n \in Nat /\ n <= oz /\ n <= oy /\ n \in 0 .. QLen - 1 /\ n \in 0 .. BpLen - 1 /\ or + n < QLen /\ oh + n < QLen
  BY <1>0, <1>1, <1>5, <1>6, <1>o
<1>9. v \in 0 .. QLen - 1 /\ Occupancy(v, h, QLen) = n /\ N \subseteq Slots(h, z, QLen)
  <2>1. n <= Occupancy(z, h, QLen)
    BY <1>8, <1>o
  <2> QED BY <1>0, <1>1, <1>2, <1>8, <2>1, SkipSlots
<1>10. Slots(a0, v, QLen) = Slots(a0, h, QLen) \cup N
  <2>1. Occupancy(h, a0, QLen) + Occupancy(v, h, QLen) < QLen
    BY <1>8, <1>9, <1>o
  <2> QED BY <1>0, <1>2, <1>9, <2>1, SlotsSplit
<1>11. Slots(rd, v, QLen) = Slots(rd, h, QLen) \cup N /\ Slots(rd, h, QLen) \cap N = {}
  <2>1. Occupancy(h, rd, QLen) + Occupancy(v, h, QLen) < QLen
    BY <1>8, <1>9, <1>o
  <2> QED BY <1>0, <1>2, <1>9, <2>1, SlotsSplit
<1>12. Slots(a, y, BpLen) = F \cup Slots(c, y, BpLen) /\ F \cap Slots(c, y, BpLen) = {}
  <2>1. n <= Occupancy(y, a, BpLen)
    BY <1>8, <1>o
  <2> QED BY <1>0, <1>1, <1>2, <1>8, <2>1, SkipSlots
<1> QED BY <1>3, <1>4, <1>7, <1>8, <1>9, <1>10, <1>11, <1>12 DEF TakeSets

\* The packets of the elements that get buffers are whole.
LEMMA TakeWhole ==
  ASSUME NEW p \in Pairs, p = "ingress", NEW qq, NEW mg, NEW w, Around(p, qq, mg), WholeOk(ring["lcl_tx"], SentIn(p, mg)),
         NEW h, NEW a, NEW n, NEW v, NEW c, NEW limit, NEW to, Taking(p, qq, mg, w, h, a, n, v, c, limit, to),
         a \in 0 .. BpLen - 1, qq["shadow"].tail \in 0 .. BpLen - 1
  PROVE  /\ n \in 0 .. limit /\ n <= Occupancy(qq["shadow"].tail, a, BpLen)
         /\ n > 0 => Before(v) \in 0 .. QLen - 1 /\ ring["lcl_tx"][Before(v)].sg = 1
<1>0. Src[p] = "lcl_tx" /\ Dst[p] = "host_rx" /\ QLen \in Nat \ {0} /\ BpLen \in Nat \ {0}
  BY Names, Params
<1> DEFINE s == ring["lcl_tx"]
<1> DEFINE z == mg["lcl_tx"].prod
<1> DEFINE a0 == mg["lcl_tx"].cons
<1> DEFINE oz == Occupancy(z, h, QLen)
<1> DEFINE avail == Occupancy(qq["shadow"].tail, a, BpLen)
<1> DEFINE sent == SentIn(p, mg)
<1>1. /\ h = qq["lcl_tx"].head /\ limit \in Nat /\ limit <= oz /\ n = Accepted(s, h, limit, avail)
      /\ v = q_idx_add(h, n, QLen)
  BY DEF Taking
<1>2. h \in 0 .. QLen - 1 /\ z \in 0 .. QLen - 1 /\ a0 \in 0 .. QLen - 1 /\ sent = Slots(a0, z, QLen)
      /\ Occupancy(h, a0, QLen) <= Occupancy(z, a0, QLen)
  BY <1>0, <1>1 DEF Around, SentIn
<1>3. avail \in Nat
  <2>1. avail \in 0 .. BpLen - 1
    BY <1>0, OccupancyCases
  <2> QED BY <1>0, <2>1
<1> HIDE DEF z, a0, avail, sent
<1>4. oz \in 0 .. QLen - 1 /\ oz = Occupancy(z, h, QLen)
  BY <1>0, <1>2, OccupancyCases
<1> HIDE DEF oz, s
<1>5. Slots(h, z, QLen) \subseteq sent
  <2> DEFINE oh == Occupancy(h, a0, QLen)
  <2>1. h = q_idx_add(a0, oh, QLen) /\ oh \in 0 .. QLen - 1
    BY <1>0, <1>2, FromTo, OccupancyCases
  <2>2. oh <= Occupancy(z, a0, QLen)
    BY <1>2
  <2> HIDE DEF oh
  <2> QED BY <1>0, <1>2, <2>1, <2>2, SkipSlots
<1>6. ASSUME NEW k \in 0 .. limit - 1 PROVE q_idx_add(h, k, QLen) \in sent /\ k \in 0 .. QLen - 1
  <2>1. k \in 0 .. QLen - 1 /\ k < oz
    BY <1>0, <1>1, <1>4
  <2>2. q_idx_add(h, k, QLen) \in 0 .. QLen - 1 /\ Occupancy(q_idx_add(h, k, QLen), h, QLen) = k
    BY <1>0, <1>2, <2>1, FirstSlots
  <2>3. Occupancy(q_idx_add(h, k, QLen), h, QLen) < Occupancy(z, h, QLen)
    BY <1>4, <2>1, <2>2
  <2> QED BY <1>5, <2>1, <2>2, <2>3 DEF Slots, Occupancy
<1>7. ASSUME NEW k \in 0 .. limit - 1, s[q_idx_add(h, k, QLen)].sg # 1
      PROVE  /\ SgEn /\ s[q_idx_add(h, k, QLen)].sg = 2
             /\ k + 1 < limit => s[q_idx_add(h, k + 1, QLen)].sg = 1
  <2> DEFINE i == q_idx_add(h, k, QLen)
  <2> DEFINE j == q_idx_add(i, 1, QLen)
  <2>1. i \in sent /\ s[i].sg # 1
    BY <1>6, <1>7
  <2>2. SgEn /\ s[i].sg = 2 /\ s[j].sg = 1
    <3> HIDE DEF i
    <3> QED BY <2>1 DEF WholeOk, s, sent
  <2>3. k + 1 < limit => j = q_idx_add(h, k + 1, QLen)
    <3> SUFFICES ASSUME k + 1 < limit PROVE j = q_idx_add(h, k + 1, QLen)
      OBVIOUS
    <3>1. k + 1 \in 0 .. limit - 1
      BY <1>1
    <3>2. k \in 0 .. QLen - 1 /\ k + 1 <= QLen - 1
      BY <1>0, <1>6, <3>1
    <3> QED BY <1>2, <3>2, AddNext
  <2> HIDE DEF j
  <2> QED BY <2>2, <2>3
<1>8. /\ n \in 0 .. limit /\ n <= avail /\ (n > 0 => s[q_idx_add(h, n - 1, QLen)].sg = 1)
  <2>1. \A k \in 0 .. limit - 1 : s[q_idx_add(h, k, QLen)].sg # 1 =>
            /\ SgEn /\ s[q_idx_add(h, k, QLen)].sg = 2
            /\ k + 1 < limit => s[q_idx_add(h, k + 1, QLen)].sg = 1
    BY <1>7
  <2>2. limit \in Nat /\ avail \in Nat /\ n = Accepted(s, h, limit, avail)
    BY <1>1, <1>3
  <2> QED BY ONLY <2>1, <2>2, AcceptedWhole
<1>9. ASSUME n > 0 PROVE Before(v) \in 0 .. QLen - 1 /\ s[Before(v)].sg = 1
  <2>1. n \in 1 .. QLen - 1 /\ n - 1 \in 0 .. QLen - 1
    BY <1>0, <1>1, <1>4, <1>8, <1>9
  <2>2. Before(v) = q_idx_add(h, n - 1, QLen)
    BY <1>1, <1>2, <2>1, BeforeAdd
  <2>3. q_idx_add(h, n - 1, QLen) \in 0 .. QLen - 1
    BY <1>0, <1>2, <2>1, FirstSlots
  <2> QED BY <1>8, <1>9, <2>2, <2>3
<1> QED BY <1>8, <1>9 DEF avail, s

\* The data after that.
LEMMA TakeOne ==
  ASSUME NEW p \in CopyPayload, p \in Pairs, p = "ingress", NEW qq, NEW mg, NEW w,
         DataOf(p, ring, mem, qq, mg, w, Tails(p), owned[p]), Around(p, qq, mg),
         qq["shadow"].head \in 0 .. BpLen - 1, qq["shadow"].tail \in 0 .. BpLen - 1,
         \A f \in w : f.op = "buf" /\ f.src[1] = Src[p] => f.src[2] \in MovingIn(p, qq, mg),
         TailsIn(p, Tails(p), qq, mg),
         NEW h, NEW a, NEW n, NEW v, NEW c, NEW limit, NEW to, Taking(p, qq, mg, w, h, a, n, v, c, limit, to)
  PROVE  DataOf(p, ring', mem', q', msg', Todo', Tails(p)', owned'[p])
<1> DEFINE s == ring[Src[p]]
<1> DEFINE d == ring[Dst[p]]
<1> DEFINE un == UnreadIn(p, mg)
<1> DEFINE mv == MovingIn(p, qq, mg)
<1> DEFINE tk == TakenIn(p, qq, mg)
<1> DEFINE sent == SentIn(p, mg)
<1> DEFINE e == ElemsOf(p, ring, un)
<1> DEFINE full == FullIn(p, qq, mg)
<1> DEFINE g == FetchedIn(p, qq)
<1> DEFINE g2 == FetchedIn(p, q')
<1> DEFINE pr == mg[Dst[p]].prod
<1> DEFINE w2 == Todo'
<1> DEFINE tl == Tails(p)
<1> DEFINE tl2 == Tails(p)'
<1> DEFINE rp == ring[Pool[p]]
<1> DEFINE sh == ring["shadow"]
<1> DEFINE s2 == ring'[Src[p]]
<1> DEFINE ow == owned[p]
<1> DEFINE N == Slots(h, v, QLen)
<1> DEFINE F == Slots(a, c, BpLen)
<1>0. /\ Src[p] = "lcl_tx" /\ Dst[p] = "host_rx" /\ Pool[p] = "host_bp" /\ QLen \in Nat \ {0} /\ BpLen \in Nat \ {0}
      /\ "lcl_tx" \in Queues /\ "host_rx" \in Queues /\ "host_bp" \in Queues /\ "shadow" \in Queues
  BY Names, Params
<1>1. /\ s \in [0 .. QLen - 1 -> Elements] /\ d \in [0 .. QLen - 1 -> Elements]
      /\ SourceOk(p, s, mem, sent) /\ WholeOk(s, sent) /\ ElemOk(e, s, mem, w, tk, mv) /\ AimedOk(p, e, w)
      /\ CopiedOk(Dst[p], s, d, w, mv) /\ CutOk(d, e, un, mv, pr, tl) /\ PoolOk(p, qq, mg)
      /\ CopiedOk("shadow", rp, sh, w, FillIn(qq))
      /\ Spread(PoolBufs(p), Bufs(e), tk, rp, full, sh, g, ow)
  <2>1. CopiedIn(p, qq, mg) = mv
    BY DEF CopiedIn
  <2>2. CopiedOk("shadow", ring["host_bp"], sh, w, FillIn(qq))
    <3>1. p = "ingress" => CopiedOk("shadow", ring["host_bp"], ring["shadow"], w, FillIn(qq))
      BY DataIs
    <3> QED BY <3>1
  <2>3. /\ s \in [0 .. QLen - 1 -> Elements] /\ d \in [0 .. QLen - 1 -> Elements]
        /\ SourceOk(p, s, mem, sent) /\ WholeOk(s, sent) /\ ElemOk(e, s, mem, w, tk, mv) /\ AimedOk(p, e, w)
        /\ CopiedOk(Dst[p], s, d, w, CopiedIn(p, qq, mg)) /\ CutOk(d, e, un, mv, pr, tl) /\ PoolOk(p, qq, mg)
        /\ Spread(PoolBufs(p), Bufs(e), tk, rp, full, sh, g, ow)
    BY DataIs
  <2> QED BY <1>0, <2>1, <2>2, <2>3
<1>2. /\ h = qq["lcl_tx"].head /\ a = qq["shadow"].head /\ v = q_idx_add(h, n, QLen) /\ c = q_idx_add(a, n, BpLen)
      /\ (\A k \in 0 .. n - 1 : to[k] = sh[q_idx_add(a, k, BpLen)])
      /\ s2 = Rebuffered(s, h, n, to) /\ (\A x \in Queues : x # "lcl_tx" => ring'[x] = ring[x])
      /\ w \subseteq w2 /\ (\A k \in 0 .. n - 1 : BufOf("lcl_tx", h, k, to) \in w2)
      /\ (\A i \in N : CopyTo(w2, Dst[p], i))
      /\ (\A f \in w2 : f \in w \/ f.op = "qe" \/ \E k \in 0 .. n - 1 : f = BufOf("lcl_tx", h, k, to))
      /\ (\A t \in tl2 : t \in tl \/ (n > 0 /\ t = v))
      /\ mem' = mem /\ owned' = owned /\ msg'[Dst[p]] = mg[Dst[p]] /\ msg'[Src[p]] = mg[Src[p]] /\ limit \in Nat
      /\ q'[Src[p]].head = v
  BY <1>0 DEF Taking
<1>4. h \in 0 .. QLen - 1 /\ a \in 0 .. BpLen - 1 /\ qq["shadow"].tail \in 0 .. BpLen - 1
      /\ mg[Src[p]].cons \in 0 .. QLen - 1 /\ mg[Dst[p]].cons \in 0 .. QLen - 1 /\ pr \in 0 .. QLen - 1
      /\ pr = mg[Src[p]].cons
  BY <1>0, <1>2 DEF Around
<1>6. /\ n \in 0 .. limit /\ n <= Occupancy(qq["shadow"].tail, a, BpLen)
      /\ (n > 0 => Before(v) \in 0 .. QLen - 1 /\ s[Before(v)].sg = 1)
  <2>1. WholeOk(ring["lcl_tx"], SentIn(p, mg))
    BY <1>0, <1>1
  <2>2. /\ n \in 0 .. limit /\ n <= Occupancy(qq["shadow"].tail, a, BpLen)
        /\ (n > 0 => Before(v) \in 0 .. QLen - 1 /\ ring["lcl_tx"][Before(v)].sg = 1)
    BY <1>4, <2>1, TakeWhole
  <2> QED BY <1>0, <2>2
<1>7. TakeSets(p, qq, mg, N, v, F, c) /\ n \in 0 .. QLen - 1 /\ n \in 0 .. BpLen - 1
  BY <1>1, <1>4, <1>6, TakeSetsIs
<1>8. /\ MovingIn(p, q', msg') = mv \cup N /\ TakenIn(p, q', msg') = tk \cup N /\ N \cap tk = {} /\ N \subseteq sent
      /\ g = F \cup g2 /\ F \cap g2 = {} /\ FullIn(p, q', msg') = full /\ FillIn(q') = FillIn(qq)
      /\ UnreadIn(p, msg') = un /\ SentIn(p, msg') = sent /\ PoolOk(p, q', msg') /\ v \in 0 .. QLen - 1
  BY <1>7 DEF TakeSets
<1>9. ASSUME NEW k \in 0 .. n - 1 PROVE to[k] \in PoolBufs(p) /\ q_idx_add(a, k, BpLen) \in F
  <2>1. q_idx_add(a, k, BpLen) \in F
    BY <1>0, <1>2, <1>4, <1>7, SlotAt
  <2>2. \A i \in g : sh[i] \in PoolBufs(p)
    <3> DEFINE e1 == Bufs(e)
    <3> DEFINE all == PoolBufs(p)
    <3>1. Spread(all, e1, tk, rp, full, sh, g, ow)
      BY <1>1
    <3> HIDE DEF e1, all, tk, rp, full, sh, g, ow
    <3>2. \A i \in g : sh[i] \in all
      BY <3>1, SpreadIn
    <3> QED BY <3>2 DEF all
  <2> HIDE DEF g, F, g2, sh
  <2> QED BY <1>2, <1>8, <2>1, <2>2
<1>10. /\ s2 \in [0 .. QLen - 1 -> Elements]
       /\ \A i \in 0 .. QLen - 1 : s2[i].tag = s[i].tag /\ s2[i].sg = s[i].sg
       /\ \A i \in N : s2[i].buf = to[Occupancy(i, h, QLen)]
       /\ \A i \in 0 .. QLen - 1 : i \notin N => s2[i] = s[i]
  <2>1. PoolTo(n, to)
    BY <1>9, BufsAre DEF PoolTo
  <2>2. s \in [0 .. QLen - 1 -> Elements] /\ s2 = Rebuffered(s, h, n, to) /\ N = Slots(h, q_idx_add(h, n, QLen), QLen)
    BY <1>1, <1>2
  <2>3. h \in 0 .. QLen - 1 /\ n \in 0 .. QLen - 1
    BY <1>4, <1>7
  <2> HIDE DEF s, s2, N
  <2>4. NewBufs(s, s2, h, N, to)
    BY ONLY <2>1, <2>2, <2>3, RebufAt
  <2> QED BY <2>4 DEF NewBufs
<1>11. /\ tk \subseteq 0 .. QLen - 1 /\ sent \subseteq 0 .. QLen - 1 /\ tk = un \cup mv /\ un \cap mv = {} /\ mv \subseteq sent
  BY TakenIs
<1>12. \A i \in 0 .. QLen - 1 : e[i] = IF i \in un THEN d[i] ELSE s[i]
  BY ElemsAt
<1> DEFINE e2 == ElemsOf(p, ring', un)
<1>14. \A i \in 0 .. QLen - 1 : e2[i] = IF i \in un THEN d[i] ELSE s2[i]
  <2>1. ring'[Dst[p]] = d
    BY <1>0, <1>2
  <2> HIDE DEF un, d, s2
  <2> QED BY <2>1, ElemsAt DEF s2
<1>15. \A i \in N : /\ Occupancy(i, h, QLen) \in 0 .. n - 1 /\ q_idx_add(h, Occupancy(i, h, QLen), QLen) = i
                    /\ i \in 0 .. QLen - 1
  BY <1>0, <1>2, <1>4, <1>7, SlotFrom
<1>16. \A k \in 0 .. n - 1 : q_idx_add(h, k, QLen) \in N /\ Occupancy(q_idx_add(h, k, QLen), h, QLen) = k
  BY <1>0, <1>2, <1>4, <1>7, SlotAt
<1>17. \A i \in tk : i \notin N
  BY <1>8
<1>18. un = Slots(mg[Dst[p]].cons, pr, QLen) /\ mv \cup N = Slots(pr, v, QLen)
  <2>1. un = Slots(mg[Dst[p]].cons, pr, QLen)
    BY DEF UnreadIn
  <2>2. MovingIn(p, q', msg') = Slots(pr, v, QLen)
    BY <1>2, <1>4 DEF MovingIn
  <2> QED BY <1>8, <2>1, <2>2
<1>13. \A f \in w : f.op = "buf" /\ f.src[1] = Src[p] => f.src[2] \in mv
  OBVIOUS
<1>30. TailsIn(p, tl, qq, mg)
  OBVIOUS
<1> HIDE DEF s, d, un, mv, tk, sent, e, full, g, g2, pr, tl, rp, sh, N, F, e2, s2, w2, tl2, ow
<1>19. \A i \in tk : e2[i] = e[i]
  BY <1>10, <1>11, <1>12, <1>14, <1>17
<1>29. \A i \in N : e2[i] = s2[i]
  BY <1>11, <1>14, <1>15, <1>17
<1>20. ElemOk(e2, s2, mem, w2, tk \cup N, mv \cup N)
  <2>1. ASSUME NEW i \in N PROVE e2[i].tag = s2[i].tag /\ e2[i].tag \in Tag /\ BufTo(w2, e2[i].buf)
    <3>1. i \in 0 .. QLen - 1 /\ i \in sent
      BY <1>8, <1>15
    <3>2. e2[i] = s2[i] /\ s2[i].tag = s[i].tag /\ s[i].tag \in Tag /\ s2[i].buf = to[Occupancy(i, h, QLen)]
      BY <1>1, <1>10, <1>29, <3>1 DEF SourceOk
    <3> DEFINE k == Occupancy(i, h, QLen)
    <3>3. k \in 0 .. n - 1 /\ BufOf("lcl_tx", h, k, to) \in w2 /\ e2[i].buf = to[k]
      BY <1>2, <1>15, <3>2
    <3> HIDE DEF k
    <3>4. BufOf("lcl_tx", h, k, to).op = "buf" /\ BufOf("lcl_tx", h, k, to).dst = to[k]
      BY DEF BufOf
    <3> QED BY <3>2, <3>3, <3>4 DEF BufTo
  <2>2. ASSUME NEW i \in tk PROVE e2[i].tag \in Tag /\ (BufTo(w2, e2[i].buf) \/ mem[e2[i].buf] = e2[i].tag)
    <3>1. e2[i] = e[i] /\ e[i].tag \in Tag /\ (BufTo(w, e[i].buf) \/ mem[e[i].buf] = e[i].tag)
      BY <1>1, <1>19 DEF ElemOk
    <3> QED BY <1>2, <3>1 DEF BufTo
  <2>3. ASSUME NEW i \in mv PROVE e2[i].tag = s2[i].tag
    <3>1. e[i].tag = s[i].tag /\ e2[i] = e[i] /\ i \in 0 .. QLen - 1
      BY <1>1, <1>11, <1>19 DEF ElemOk
    <3> QED BY <1>10, <3>1
  <2> QED BY <2>1, <2>2, <2>3 DEF ElemOk
<1>21. AimedOk(p, e2, w2)
  <2> SUFFICES ASSUME NEW f \in w2, f.op = "buf", f.src[1] = Src[p] PROVE f.dst = e2[f.src[2]].buf
    BY DEF AimedOk
  <2>1. CASE f \in w
    <3>1. f.src[2] \in mv
      BY <1>13, <2>1
    <3>2. f.dst = e[f.src[2]].buf
      BY <1>1, <2>1 DEF AimedOk
    <3> QED BY <1>11, <1>19, <3>1, <3>2
  <2>2. CASE f \notin w
    <3>1. PICK k \in 0 .. n - 1 : f = BufOf("lcl_tx", h, k, to)
      BY <1>2, <2>2
    <3>2. f.src[2] = q_idx_add(h, k, QLen) /\ f.dst = to[k]
      BY <3>1 DEF BufOf
    <3> DEFINE i == q_idx_add(h, k, QLen)
    <3>3. i \in N /\ Occupancy(i, h, QLen) = k /\ f.src[2] = i
      BY <1>16, <3>2
    <3> HIDE DEF i
    <3> QED BY <1>10, <1>29, <3>2, <3>3
  <2> QED BY <2>1, <2>2
<1>22. CopiedOk(Dst[p], s2, d, w2, mv \cup N)
  <2>1. ASSUME NEW i \in mv PROVE CopyTo(w2, Dst[p], i) \/ d[i] = s2[i]
    <3>1. CopyTo(w, Dst[p], i) \/ d[i] = s[i]
      BY <1>1 DEF CopiedOk
    <3>2. CopyTo(w, Dst[p], i) => CopyTo(w2, Dst[p], i)
      BY <1>2 DEF CopyTo
    <3>3. i \in 0 .. QLen - 1 /\ i \notin N
      BY <1>11, <1>17
    <3> QED BY <1>10, <3>1, <3>2, <3>3
  <2>2. \A i \in N : CopyTo(w2, Dst[p], i)
    BY <1>2
  <2> QED BY <2>1, <2>2 DEF CopiedOk
<1>23. CutOk(d, e2, un, mv \cup N, pr, tl2)
  <2>1. un # {} => d[Before(pr)].sg = 1
    BY <1>1 DEF CutOk
  <2>2. ASSUME NEW t \in tl2, Before(t) \in mv \cup N PROVE e2[Before(t)].sg = 1
    <3>1. CASE t \in tl
      <4>1. t = pr \/ Before(t) \in mv
        BY <1>30, <3>1 DEF TailsIn, pr, mv
      <4>2. t # pr
        BY <1>4, <1>8, <1>18, <2>2, BeforeOut
      <4>3. Before(t) \in mv /\ e2[Before(t)] = e[Before(t)]
        BY <1>11, <1>19, <4>1, <4>2
      <4> QED BY <1>1, <3>1, <4>3 DEF CutOk
    <3>2. CASE t \notin tl
      <4>1. n > 0 /\ t = v
        BY <1>2, <3>2
      <4>2. Before(v) \in 0 .. QLen - 1 /\ s[Before(v)].sg = 1
        BY <1>6, <4>1
      <4>3. Before(v) \notin un
        <5>1. (mv \cup N) \cap un = {}
          BY <1>11, <1>17
        <5> QED BY <2>2, <4>1, <5>1
      <4> QED BY <1>10, <1>14, <4>1, <4>2, <4>3
    <3> QED BY <3>1, <3>2
  <2> QED BY <2>1, <2>2 DEF CutOk
<1>24. Spread(PoolBufs(p), Bufs(e2), tk \cup N, rp, full, sh, g2, ow)
  <2> DEFINE all == PoolBufs(p)
  <2> DEFINE b1 == Bufs(e)
  <2> DEFINE b2 == Bufs(e2)
  <2>1. Spread(all, b1, tk, rp, full, sh, g, ow)
    BY <1>1
  <2>2. \A i \in tk : b2[i] = b1[i]
    BY <1>11, <1>19, BufsAt
  <2>3. Distinct(sh, F)
    <3>1. Distinct(sh, g)
      BY <2>1 DEF Spread
    <3> QED BY <1>8, <3>1 DEF Distinct
  <2>4. \A i \in N : b2[i] = sh[q_idx_add(a, Occupancy(i, h, QLen), BpLen)]
    <3> SUFFICES ASSUME NEW i \in N PROVE b2[i] = sh[q_idx_add(a, Occupancy(i, h, QLen), BpLen)]
      OBVIOUS
    <3>1. b2[i] = e2[i].buf /\ i \in 0 .. QLen - 1
      BY <1>15, BufsAt
    <3>2. e2[i].buf = to[Occupancy(i, h, QLen)]
      BY <1>10, <1>29, <3>1
    <3> QED BY <1>2, <1>15, <3>1, <3>2
  <2> HIDE DEF all, b1, b2
  <2>5. Held(b2, N) = Held(sh, F) /\ Distinct(b2, N)
    <3>1. N = Slots(h, q_idx_add(h, n, QLen), QLen) /\ F = Slots(a, q_idx_add(a, n, BpLen), BpLen)
      BY <1>2 DEF N, F
    <3>2. /\ QLen \in Nat \ {0} /\ BpLen \in Nat \ {0} /\ h \in 0 .. QLen - 1 /\ a \in 0 .. BpLen - 1
          /\ n \in 0 .. QLen - 1 /\ n \in 0 .. BpLen - 1
      BY <1>0, <1>4, <1>7
    <3>3. OneToOne(n, h, QLen, N, b2, a, BpLen, F, sh)
      BY ONLY <2>4, <3>1, <3>2 DEF OneToOne
    <3> QED BY ONLY <2>3, <3>3, HandSlots
  <2>6. Spread(all, b1, tk, sh, g, rp, full, ow)
    BY <2>1, SpreadTurn
  <2>7. g = F \cup g2 /\ F \cap g2 = {}
    BY <1>8
  <2>8. Spread(all, b2, tk \cup N, sh, g2, rp, full, ow)
    BY ONLY <2>2, <2>5, <2>6, <2>7, SpreadHand
  <2>9. Spread(all, b2, tk \cup N, rp, full, sh, g2, ow)
    BY <2>8, SpreadTurn
  <2> QED BY <2>9 DEF all, b2
<1>31. SourceOk(p, s2, mem, sent) /\ WholeOk(s2, sent)
  <2>1. SourceOk(p, s2, mem, sent)
    BY <1>1, <1>10, <1>11 DEF SourceOk
  <2>2. WholeOk(s2, sent)
    <3> SUFFICES ASSUME NEW i \in sent, s2[i].sg # 1
                 PROVE  SgEn /\ s2[i].sg = 2 /\ q_idx_add(i, 1, QLen) \in sent /\ s2[q_idx_add(i, 1, QLen)].sg = 1
      BY DEF WholeOk
    <3> DEFINE j == q_idx_add(i, 1, QLen)
    <3>1. s2[i].sg = s[i].sg
      BY <1>10, <1>11
    <3>2. SgEn /\ s[i].sg = 2 /\ j \in sent /\ s[j].sg = 1
      BY <1>1, <3>1 DEF WholeOk
    <3> HIDE DEF j
    <3>3. s2[j].sg = s[j].sg
      BY <1>10, <1>11, <3>2
    <3> QED BY <3>1, <3>2, <3>3 DEF j
  <2> QED BY <2>1, <2>2
<1> DEFINE r2 == ring'
<1> DEFINE q2 == q'
<1> DEFINE m2 == msg'
<1>25. /\ r2[Src[p]] = s2 /\ r2[Dst[p]] = d /\ r2[Pool[p]] = rp /\ r2["shadow"] = sh /\ r2["host_bp"] = rp
       /\ SentIn(p, m2) = sent /\ UnreadIn(p, m2) = un /\ MovingIn(p, q2, m2) = mv \cup N /\ TakenIn(p, q2, m2) = tk \cup N
       /\ FullIn(p, q2, m2) = full /\ FetchedIn(p, q2) = g2 /\ CopiedIn(p, q2, m2) = mv \cup N
       /\ PoolOk(p, q2, m2) /\ m2[Dst[p]].prod = pr /\ e2 = ElemsOf(p, r2, UnreadIn(p, m2)) /\ FillIn(q2) = FillIn(qq)
  <2>1. r2[Src[p]] = s2 /\ r2[Dst[p]] = d /\ r2[Pool[p]] = rp /\ r2["shadow"] = sh /\ r2["host_bp"] = rp
    BY <1>0, <1>2, Names DEF s2, d, rp, sh
  <2>2. CopiedIn(p, q2, m2) = MovingIn(p, q2, m2)
    BY DEF CopiedIn
  <2> QED BY <1>2, <1>8, <2>1, <2>2 DEF g2, pr, e2
<1> HIDE DEF r2, q2, m2
<1>26. CopiedOk("shadow", rp, sh, w2, FillIn(q2))
  <2>1. \A i : CopyTo(w, "shadow", i) => CopyTo(w2, "shadow", i)
    BY <1>2 DEF CopyTo
  <2> QED BY <1>1, <1>25, <2>1 DEF CopiedOk
<1>27. DataOf(p, r2, mem, q2, m2, w2, tl2, ow)
  <2>1. p = "ingress" => CopiedOk("shadow", r2["host_bp"], r2["shadow"], w2, FillIn(q2))
    BY <1>25, <1>26
  <2>2. CopiedOk(Dst[p], r2[Src[p]], r2[Dst[p]], w2, CopiedIn(p, q2, m2))
    BY <1>22, <1>25
  <2> QED BY <1>1, <1>10, <1>20, <1>21, <1>23, <1>24, <1>25, <1>31, <2>1, <2>2, DataFrom
<1> QED BY <1>2, <1>27 DEF r2, q2, m2, w2, tl2, ow

\* What gie_process_local_q submits: fs for the shadow, then bs for the buffers
\* and the n elements from slot h to slot v.
Handed(fs, bs, n, h, v) ==
  sub' = fs \o (IF n = 0 THEN <<>> ELSE bs \o gie_copy_qes("lcl_tx", "host_rx", n, h, "produce", v, v))

\* What is to be done then, and what the jobs publish.
LEMMA LocalWork ==
  ASSUME sub = <<>>, left = 0, UNCHANGED <<hw, jobs, left>>,
         NEW fs, IsSeq(fs), \A m \in 1 .. Len(fs) : fs[m].job.flag = "update",
         NEW bs, IsSeq(bs), \A m \in 1 .. Len(bs) : bs[m].job.flag = "none",
         NEW n \in 0 .. QLen - 1, NEW h \in 0 .. QLen - 1, NEW v, v = q_idx_add(h, n, QLen), Len_("lcl_tx") = QLen,
         Handed(fs, bs, n, h, v)
  PROVE  /\ Todo \subseteq Todo' /\ DescsIn(fs) \subseteq Todo' /\ (n > 0 => DescsIn(bs) \subseteq Todo')
         /\ (\A i \in Slots(h, v, QLen) : CopyTo(Todo', "host_rx", i))
         /\ (\A d \in Todo' : d \in Todo \/ d \in DescsIn(fs) \/ (n > 0 /\ d \in DescsIn(bs)) \/ d.op = "qe")
         /\ \A o : \A t \in Tails(o)' : t \in Tails(o) \/ (n > 0 /\ Src[o] = "lcl_tx" /\ t = v)
<1>0. QLen \in Nat \ {0}
  BY Params
<1>1. /\ Todo \subseteq Todo' /\ DescsIn(sub') \subseteq Todo'
      /\ (\A d \in Todo' : d \in Todo \/ d \in DescsIn(sub'))
      /\ \A o : \A t \in Tails(o)' :
           t \in Tails(o) \/ \E m \in 1 .. Len(sub') : Carries(sub'[m].job, o) /\ t = sub'[m].job.tail
  BY MoreWork
<1>2. \A m \in 1 .. Len(fs) : \A o : ~Carries(fs[m].job, o)
  BY DEF Carries
<1>3. CASE n = 0
  <2>1. sub' = fs \o <<>> /\ IsSeq(<<>>)
    BY <1>3, EmptyIs DEF Handed
  <2> DEFINE e == <<>>
  <2>2. IsSeq(e) /\ DescsIn(e) = {} /\ 1 .. Len(e) = {} /\ sub' = fs \o e
    BY <2>1, NoDescs
  <2> HIDE DEF e
  <2> DEFINE c == sub'
  <2>3. /\ DescsIn(c) = DescsIn(fs)
        /\ \A m \in 1 .. Len(c) : \E k \in 1 .. Len(fs) : c[m] = fs[k]
    <3>1. /\ DescsIn(c) = DescsIn(fs) \cup DescsIn(e)
          /\ \A m \in 1 .. Len(c) : (\E k \in 1 .. Len(fs) : c[m] = fs[k]) \/ \E k \in 1 .. Len(e) : c[m] = e[k]
      <4> HIDE DEF c
      <4>1. c = fs \o e
        BY <2>2 DEF c
      <4>2. IsSeq(fs) /\ IsSeq(e)
        BY <2>2
      <4>3. /\ DescsIn(fs \o e) = DescsIn(fs) \cup DescsIn(e)
            /\ \A m \in 1 .. Len(fs \o e) : (\E k \in 1 .. Len(fs) : (fs \o e)[m] = fs[k])
                                             \/ \E k \in 1 .. Len(e) : (fs \o e)[m] = e[k]
        BY <4>2, CatDescs
      <4> QED BY <4>1, <4>3
    <3> HIDE DEF c
    <3> QED BY <2>2, <3>1
  <2> HIDE DEF c
  <2>4. Slots(h, v, QLen) = {}
    <3>1. q_idx_add(h, 0, QLen) = h /\ Slots(h, h, QLen) = {}
      BY <1>0, FromTo
    <3>2. v = h
      BY <1>3, <3>1
    <3> QED BY <3>1, <3>2
  <2>5. DescsIn(sub') = DescsIn(fs) /\ \A m \in 1 .. Len(sub') : \A o : ~Carries(sub'[m].job, o)
    <3>1. \A m \in 1 .. Len(c) : \A o : ~Carries(c[m].job, o)
      BY <1>2, <2>3
    <3> QED BY <2>3, <3>1 DEF c
  <2>6. \A o : \A t \in Tails(o)' : t \in Tails(o)
    BY <1>1, <2>5
  <2>7. DescsIn(fs) \subseteq Todo' /\ \A d \in Todo' : d \in Todo \/ d \in DescsIn(fs)
    BY <1>1, <2>5
  <2> QED BY <1>1, <1>3, <2>4, <2>6, <2>7
<1>4. CASE n # 0
  <2> DEFINE qs == gie_copy_qes("lcl_tx", "host_rx", n, h, "produce", v, v)
  <2> DEFINE r == bs \o qs
  <2> DEFINE c == sub'
  <2>1. n \in 1 .. QLen - 1
    BY <1>4
  <2>2. IsSeq(qs) /\ QesOf(qs, "lcl_tx", "host_rx", h, v, QLen, "produce", v)
    BY <1>0, <2>1, CopySeq, QesDescs
  <2>3. c = fs \o r
    BY <1>4 DEF Handed
  <2> HIDE DEF qs
  <2>4. IsSeq(r)
    BY <2>2, CatIs
  <2>5. DescsIn(r) = DescsIn(bs) \cup DescsIn(qs)
        /\ \A m \in 1 .. Len(r) : (\E k \in 1 .. Len(bs) : r[m] = bs[k]) \/ \E k \in 1 .. Len(qs) : r[m] = qs[k]
    BY <2>2, CatDescs
  <2> HIDE DEF r, c
  <2>6. DescsIn(c) = DescsIn(fs) \cup DescsIn(r)
        /\ \A m \in 1 .. Len(c) : (\E k \in 1 .. Len(fs) : c[m] = fs[k]) \/ \E k \in 1 .. Len(r) : c[m] = r[k]
    BY <2>3, <2>4, CatDescs
  <2>7. /\ \A d \in DescsIn(qs) : d.op = "qe"
        /\ \A i \in Slots(h, v, QLen) : CopyTo(DescsIn(qs), "host_rx", i)
        /\ \A m \in 1 .. Len(qs) : qs[m].job.src = "lcl_tx" /\ qs[m].job.tail = v
    BY <2>2 DEF QesOf, QeOf
  <2>8. DescsIn(c) = DescsIn(fs) \cup DescsIn(bs) \cup DescsIn(qs) /\ DescsIn(c) = DescsIn(sub')
    BY <2>5, <2>6 DEF c
  <2>9. \A i \in Slots(h, v, QLen) : CopyTo(Todo', "host_rx", i)
    <3>1. DescsIn(qs) \subseteq Todo'
      BY <1>1, <2>8
    <3> QED BY <2>7, <3>1 DEF CopyTo
  <2>10. \A o : \A m \in 1 .. Len(c) : Carries(c[m].job, o) => Src[o] = "lcl_tx" /\ c[m].job.tail = v
    <3> SUFFICES ASSUME NEW o, NEW m \in 1 .. Len(c), Carries(c[m].job, o)
                 PROVE  Src[o] = "lcl_tx" /\ c[m].job.tail = v
      OBVIOUS
    <3>1. \A k \in 1 .. Len(bs) : ~Carries(bs[k].job, o)
      BY DEF Carries
    <3>2. \A k \in 1 .. Len(fs) : c[m] # fs[k]
      BY <1>2
    <3>3. PICK k \in 1 .. Len(r) : c[m] = r[k]
      BY <2>6, <3>2
    <3>4. PICK l \in 1 .. Len(qs) : r[k] = qs[l]
      BY <2>5, <3>1, <3>3
    <3>5. qs[l].job.src = "lcl_tx" /\ qs[l].job.tail = v /\ Carries(qs[l].job, o)
      BY <2>7, <3>3, <3>4
    <3>6. Src[o] = "lcl_tx"
      BY <3>5 DEF Carries
    <3> QED BY <3>3, <3>4, <3>5, <3>6
  <2>11. \A o : \A t \in Tails(o)' : t \in Tails(o) \/ (n > 0 /\ Src[o] = "lcl_tx" /\ t = v)
    <3> SUFFICES ASSUME NEW o, NEW t \in Tails(o)', t \notin Tails(o)
                 PROVE  n > 0 /\ Src[o] = "lcl_tx" /\ t = v
      OBVIOUS
    <3>1. PICK m \in 1 .. Len(sub') : Carries(sub'[m].job, o) /\ t = sub'[m].job.tail
      BY <1>1
    <3>2. Src[o] = "lcl_tx" /\ t = v
      BY <2>10, <3>1 DEF c
    <3> QED BY <2>1, <3>2
  <2>12. \A d \in Todo' : d \in Todo \/ d \in DescsIn(fs) \/ (n > 0 /\ d \in DescsIn(bs)) \/ d.op = "qe"
    BY <1>1, <2>1, <2>7, <2>8
  <2>13. DescsIn(fs) \subseteq Todo' /\ (n > 0 => DescsIn(bs) \subseteq Todo')
    BY <1>1, <2>8
  <2> QED BY <1>1, <2>9, <2>11, <2>12, <2>13
<1> QED BY <1>3, <1>4

-----------------------------------------------------------------------------
(* gie_process_local_q *)

\* A batch fits in the destination's ring.
LEMMA ClipRoom ==
  ASSUME NEW d \in QIdx, NEW m \in Nat
  PROVE  Occupancy(d.tail, d.head, QLen) + gie_clip_batch(d, m) < QLen
<1> DEFINE x == d.tail - d.head + QLen
<1>1. x \in Int /\ QLen \in Nat \ {0} /\ Batch \in Nat \ {0}
  BY Params DEF QIdx
<1> DEFINE o == x % QLen
<1>2. o \in 0 .. QLen - 1
  <2> HIDE DEF x
  <2> QED BY <1>1, IntMod
<1>3. q_space(d, QLen) = QLen - o - 1 /\ Occupancy(d.tail, d.head, QLen) = o
  BY DEF q_space, q_occupancy, Occupancy
<1> HIDE DEF o
<1> DEFINE s == QLen - o - 1
<1>4. s \in Nat
  BY <1>1, <1>2
<1>5. gie_clip_batch(d, m) = Lesser(Lesser(m, Batch), s)
  BY <1>3 DEF gie_clip_batch
<1>6. gie_clip_batch(d, m) \in Nat /\ gie_clip_batch(d, m) <= s
  <2> HIDE DEF s
  <2> QED BY <1>1, <1>4, <1>5 DEF Lesser
<1> DEFINE g == gie_clip_batch(d, m)
<1>7. g \in Nat /\ g <= QLen - o - 1
  BY <1>6
<1> HIDE DEF g
<1>8. o + g < QLen
  BY <1>1, <1>2, <1>7
<1> QED BY <1>3, <1>8 DEF g

\* Four queues change, and one word.
LEMMA FourAt ==
  ASSUME IndexOk, NEW a \in Queues, NEW b \in Queues, NEW c \in Queues, NEW e \in Queues,
         a # b, a # c, a # e, b # c, b # e, c # e,
         NEW v, NEW w, NEW z, NEW g, Four(a, b, c, e, v, w, z, g, q')
  PROVE  /\ q'[a] = v /\ q'[b] = w /\ q'[c] = z /\ q'[e] = g
         /\ (\A x \in Queues : x # a /\ x # b /\ x # c /\ x # e => q'[x] = q[x])
<1>1. q = [x \in Queues |-> q[x]]
  BY DEF IndexOk
<1>2. q' = [x \in Queues |-> IF x = e THEN g ELSE IF x = c THEN z ELSE IF x = b THEN w ELSE IF x = a THEN v ELSE q[x]]
  BY <1>1 DEF Four
<1> QED BY <1>2

\* What gie_process_local_q does when it gets past its early return, for the
\* pair that copies buffers.
Locally(p, qq, mg, w, h, a, n, v, c, limit, to, f) ==
  /\ Taking(p, qq, mg, w, h, a, n, v, c, limit, to) /\ n \in Nat
  /\ (\A d \in DescsIn(f.sub) : d.op = "qe")
  /\ qq["host_bp"] = f.b /\ qq["shadow"] = f.sh /\ mg["host_bp"].cons = f.cons
  /\ mg["host_bp"].prod = msg["host_bp"].prod /\ w = Todo \cup DescsIn(f.sub)
  /\ (\A x \in Queues : x # "host_bp" => mg[x] = msg[x] /\ (x # "shadow" => qq[x] = q[x]))
  /\ (\A x \in Queues : x \notin {"lcl_tx", "host_rx", "host_bp", "shadow"} => q'[x] = q[x])
  /\ (\A x \in Queues : x # "host_bp" => msg'[x] = msg[x])
  /\ \A o : \A t \in Tails(o)' : t \in Tails(o) \/ (n > 0 /\ Src[o] = "lcl_tx" /\ t = v)

\* ProcessLocalQ does that.
LEMMA LocalIs ==
  ASSUME IInv, NEW p \in CopyPayload, p \in Pairs, p = "ingress", PoolOk(p, q, msg),
         sub = <<>>, UNCHANGED <<hw, jobs, left, mem, owned>>,
         NEW src, NEW dst, NEW pool, NEW s, NEW d, NEW qes, NEW avail, NEW f, NEW n, NEW from, NEW to,
         NEW hd, NEW tl, Local1(p, src, dst, pool, s, d, qes, avail, f, n, from, to, hd, tl),
         Local2(p, src, dst, pool, s, d, f, n, from, to, hd, tl)
  PROVE  \E qq, mg, w, h, a, v, c, limit, z, t :
           Locally(p, qq, mg, w, h, a, n, v, c, limit, to, f) /\ Filling(f, z, t)
<1>1. /\ src = "lcl_tx" /\ dst = "host_rx" /\ pool = "host_bp"
      /\ src \in Queues /\ dst \in Queues /\ pool \in Queues /\ "shadow" \in Queues
      /\ Len_(src) = QLen /\ Len_(dst) = QLen /\ Len_(pool) = BpLen /\ Len_("shadow") = BpLen
      /\ QLen \in Nat \ {0} /\ BpLen \in Nat \ {0}
  BY SMTT(30), Names, Params DEF Local1
<1>2. /\ s = [q[src] EXCEPT !.tail = msg[src].prod] /\ d = [q[dst] EXCEPT !.head = msg[dst].cons]
      /\ qes = gie_clip_batch(d, q_occupancy(s, QLen)) /\ avail = q_occupancy(q["shadow"], BpLen)
      /\ n = Accepted(ring[src], s.head, Lesser(qes, avail), q_occupancy(f.sh, BpLen))
      /\ from = [k \in 0 .. n - 1 |-> ring[src][Ahead(s.head, k, src)].buf]
      /\ to = [k \in 0 .. n - 1 |-> ring["shadow"][Ahead(f.sh.head, k, "shadow")]]
      /\ hd = Ahead(s.head, n, src) /\ tl = Ahead(d.tail, n, dst)
  BY ZenonT(30) DEF Local1
<1>3. Choice(f, avail, qes)
  BY <1>1 DEF Local1, Choice
<1>4. IndexOk /\ RingOk /\ left = 0 /\ Around(p, q, msg) /\ PoolAround(q)
  <2>1. PICK L, E, U, P, H, X, y : Whole(L, E, U, P, H, X, y)
    BY DEF IInv
  <2> QED BY <2>1, Idle, Basic, RegionsIs DEF Regions
<1>5. PICK z, t : Filling(f, z, t)
  BY <1>3, <1>4, FillingIs
<1>6. /\ f.b \in QIdx /\ f.sh \in QIdx /\ f.cons = z /\ f.sh.head = q["shadow"].head /\ f.sh.tail = z
      /\ z \in 0 .. BpLen - 1 /\ IsSeq(f.sub) /\ (\A e \in DescsIn(f.sub) : e.op = "qe")
      /\ \A m \in 1 .. Len(f.sub) : f.sub[m].job.flag = "update"
  BY <1>5 DEF Filling
<1> DEFINE h == q[src].head
<1> DEFINE a == q["shadow"].head
<1> DEFINE zp == msg[src].prod
<1> DEFINE rd == msg[dst].cons
<1>7. h \in 0 .. QLen - 1 /\ zp \in 0 .. QLen - 1 /\ rd \in 0 .. QLen - 1 /\ q[dst].tail = h /\ a \in 0 .. BpLen - 1
  BY <1>1, <1>4, Names DEF Around, PoolAround
<1>8. q[src] \in QIdx /\ q[dst] \in QIdx /\ q["shadow"] \in QIdx /\ zp \in Nat /\ rd \in Nat
  BY <1>1, <1>4 DEF IndexOk, Words
<1>9. s \in QIdx /\ s.head = h /\ s.tail = zp /\ d \in QIdx /\ d.tail = h /\ d.head = rd
  <2> DEFINE g == q[src]
  <2> DEFINE k == q[dst]
  <2>1. g \in QIdx /\ k \in QIdx /\ s = [g EXCEPT !.tail = zp] /\ d = [k EXCEPT !.head = rd] /\ zp \in Nat /\ rd \in Nat
    BY <1>2, <1>8
  <2> HIDE DEF g, k, zp, rd
  <2>2. s \in QIdx /\ s.head = g.head /\ s.tail = zp /\ d \in QIdx /\ d.tail = k.tail /\ d.head = rd
    BY <2>1 DEF QIdx
  <2> QED BY <1>7, <2>2 DEF g, k
<1> DEFINE limit == Lesser(qes, avail)
<1> DEFINE v == q_idx_add(h, n, QLen)
<1> DEFINE c == q_idx_add(a, n, BpLen)
<1> HIDE DEF h, a, zp, rd
<1>10. /\ limit \in Nat /\ limit <= Occupancy(zp, h, QLen) /\ Occupancy(h, rd, QLen) + limit < QLen
       /\ Occupancy(zp, h, QLen) \in 0 .. QLen - 1
  <2> DEFINE m == q_occupancy(s, QLen)
  <2> DEFINE o == Occupancy(h, rd, QLen)
  <2>1. m = Occupancy(zp, h, QLen) /\ m \in 0 .. QLen - 1 /\ Occupancy(d.tail, d.head, QLen) = o
    <3>1. m = Occupancy(zp, h, QLen) /\ Occupancy(d.tail, d.head, QLen) = o
      BY <1>9 DEF q_occupancy
    <3>2. m \in 0 .. QLen - 1
      BY <1>1, <1>9, OccBelow
    <3> QED BY <3>1, <3>2
  <2>2. avail \in Nat
    BY <1>1, <1>2, <1>8, OccNat
  <2>3. qes \in 0 .. m /\ o + qes < QLen
    <3>1. m \in Nat /\ qes = gie_clip_batch(d, m)
      BY <1>2, <2>1
    <3> HIDE DEF m, o
    <3>2. qes \in 0 .. m
      BY <1>9, <3>1, ClipTo
    <3>3. Occupancy(d.tail, d.head, QLen) + qes < QLen
      BY <1>9, <3>1, ClipRoom
    <3> QED BY <2>1, <3>2, <3>3
  <2>4. o \in Nat
    <3>1. Occupancy(h, rd, QLen) \in 0 .. QLen - 1
      BY <1>1, <1>7, OccupancyCases
    <3> QED BY <3>1
  <2> HIDE DEF m, o
  <2>5. limit \in Nat /\ limit <= qes
    BY <2>1, <2>2, <2>3 DEF Lesser
  <2> HIDE DEF limit
  <2>6. limit <= m /\ o + limit < QLen
    BY <1>1, <2>1, <2>3, <2>4, <2>5
  <2> QED BY <2>1, <2>5, <2>6 DEF m, o
<1> DEFINE av == Occupancy(f.sh.tail, a, BpLen)
<1>11. n = Accepted(ring[src], h, limit, av) /\ n \in 0 .. limit /\ av \in Nat
  <2>1. q_occupancy(f.sh, BpLen) = av
    BY <1>6 DEF q_occupancy, a
  <2>2. av \in Nat
    BY <1>1, <1>6, <2>1, OccNat
  <2>3. n = Accepted(ring[src], h, limit, av)
    BY <1>2, <1>9, <2>1
  <2> HIDE DEF limit, av
  <2> QED BY <1>10, <2>2, <2>3, AcceptedIs
<1> HIDE DEF limit
<1>12. n \in 0 .. QLen - 1 /\ n \in Nat /\ n <= Occupancy(zp, h, QLen)
  <2> DEFINE o == Occupancy(zp, h, QLen)
  <2>1. o \in 0 .. QLen - 1 /\ limit <= o
    BY <1>10
  <2> HIDE DEF o
  <2>2. n \in 0 .. QLen - 1 /\ n <= o
    BY SMTT(30), <1>1, <1>10, <1>11, <2>1
  <2> QED BY <2>2 DEF o
<1>13. hd = v /\ tl = v /\ Ahead(f.sh.head, n, "shadow") = c
  BY <1>1, <1>2, <1>6, <1>9 DEF Ahead, a
<1>14. \A k \in 0 .. n - 1 : from[k] = <<"lcl_tx", q_idx_add(h, k, QLen)>>
  <2> SUFFICES ASSUME NEW k \in 0 .. n - 1 PROVE from[k] = <<"lcl_tx", q_idx_add(h, k, QLen)>>
    OBVIOUS
  <2> DEFINE i == q_idx_add(h, k, QLen)
  <2>1. from[k] = ring["lcl_tx"][i].buf
    BY <1>1, <1>2, <1>9 DEF Ahead
  <2>2. i \in 0 .. QLen - 1 /\ Occupancy(i, h, QLen) = k
    BY <1>1, <1>7, <1>12, SlotAt
  <2>3. k < Occupancy(zp, h, QLen)
    <3> DEFINE o == Occupancy(zp, h, QLen)
    <3>1. o \in 0 .. QLen - 1 /\ n <= o
      BY <1>10, <1>12
    <3> HIDE DEF o
    <3>2. k < o
      BY <1>1, <1>12, <3>1
    <3> QED BY <3>2 DEF o
  <2> HIDE DEF i
  <2>4. i \in Slots(h, zp, QLen)
    BY <2>2, <2>3 DEF Slots, Occupancy
  <2>5. ring["lcl_tx"][i].buf = <<"lcl_tx", i>>
    BY <1>1, <2>4, SentBuf DEF h, zp
  <2> QED BY <2>1, <2>5 DEF i
<1>15. /\ q' = [q EXCEPT ![src] = [s EXCEPT !.head = hd], ![dst] = [d EXCEPT !.tail = tl], ![pool] = f.b,
                         !["shadow"] = [f.sh EXCEPT !.head = Ahead(@, n, "shadow")]]
       /\ msg' = [msg EXCEPT ![pool].cons = f.cons]
       /\ ring' = [ring EXCEPT ![src] = Rebuffered(@, s.head, n, to)]
       /\ sub' = f.sub \o
            IF n = 0 THEN <<>>
            ELSE << BufCopy("none", src, dst, 0, 0, from, to, n) >>
                 \o gie_copy_qes(src, dst, n, s.head, "produce", hd, tl)
  BY DEF Local2
<1>16. /\ q'["lcl_tx"].head = v /\ q'["shadow"].head = c /\ q'["shadow"].tail = f.sh.tail /\ q'["host_bp"] = f.b
       /\ \A x \in Queues : x \notin {"lcl_tx", "host_rx", "host_bp", "shadow"} => q'[x] = q[x]
  <2> DEFINE s2 == [s EXCEPT !.head = hd]
  <2> DEFINE d2 == [d EXCEPT !.tail = tl]
  <2> DEFINE g2 == [f.sh EXCEPT !.head = Ahead(@, n, "shadow")]
  <2>1. s2.head = v /\ g2.head = c /\ g2.tail = f.sh.tail
    <3> HIDE DEF v, c
    <3> QED BY <1>6, <1>9, <1>13 DEF QIdx
  <2> DEFINE b2 == f.b
  <2> DEFINE x == "shadow"
  <2>2. Four(src, dst, pool, x, s2, d2, b2, g2, q')
    BY <1>15 DEF Four
  <2> HIDE DEF s2, d2, g2, b2, x
  <2>3. /\ q'[src] = s2 /\ q'[pool] = b2 /\ q'[x] = g2
        /\ (\A y \in Queues : y # src /\ y # dst /\ y # pool /\ y # x => q'[y] = q[y])
    <3>1. src # dst /\ src # pool /\ src # x /\ dst # pool /\ dst # x /\ pool # x
      BY <1>1 DEF x
    <3>2. src \in Queues /\ dst \in Queues /\ pool \in Queues /\ x \in Queues /\ IndexOk
      BY <1>1, <1>4 DEF x
    <3>3. /\ q'[src] = s2 /\ q'[pool] = b2 /\ q'[x] = g2 /\ q'[dst] = d2
          /\ (\A y \in Queues : y # src /\ y # dst /\ y # pool /\ y # x => q'[y] = q[y])
      BY ONLY <2>2, <3>1, <3>2, FourAt
    <3> QED BY <3>3
  <2> QED BY <1>1, <2>1, <2>3 DEF b2, x
<1>17. /\ \A x \in Queues : x # "host_bp" => msg'[x] = msg[x]
       /\ msg'["host_bp"].prod = msg["host_bp"].prod /\ msg'["host_bp"].cons = f.cons
  BY <1>1, <1>4, <1>15, ConsIs
<1>18. ring'["lcl_tx"] = Rebuffered(ring["lcl_tx"], h, n, to) /\ \A x \in Queues : x # "lcl_tx" => ring'[x] = ring[x]
  <2>1. ring' = [ring EXCEPT ![src] = Rebuffered(ring[src], h, n, to)]
    BY <1>9, <1>15
  <2> QED BY <1>1, <1>4, <2>1, SetRing
<1> DEFINE bs == << BufCopy("none", src, dst, 0, 0, from, to, n) >>
<1>19. /\ (\A k \in 0 .. n - 1 : BufOf("lcl_tx", h, k, to) \in DescsIn(bs))
       /\ (\A e \in DescsIn(bs) : \E k \in 0 .. n - 1 : e = BufOf("lcl_tx", h, k, to))
       /\ Len(bs) = 1 /\ bs[1].job.flag = "none" /\ IsSeq(bs)
  <2> DEFINE F == "none"
  <2> DEFINE x == "lcl_tx"
  <2> DEFINE o == 0
  <2>1. bs = << BufCopy(F, src, dst, o, o, from, to, n) >>
    OBVIOUS
  <2>2. FromSlots(from, n, x, h)
    BY <1>14 DEF FromSlots
  <2>3. n \in Nat
    BY <1>12
  <2> HIDE DEF bs, F, x, o
  <2>4. /\ (\A k \in 0 .. n - 1 : BufOf(x, h, k, to) \in DescsIn(bs))
        /\ (\A e \in DescsIn(bs) : \E k \in 0 .. n - 1 : e = BufOf(x, h, k, to))
        /\ Len(bs) = 1 /\ bs[1].job.flag = F /\ IsSeq(bs)
    BY ONLY <2>1, <2>2, <2>3, BufsSub
  <2> QED BY <2>4 DEF F, x
<1>20. /\ Todo \subseteq Todo' /\ DescsIn(f.sub) \subseteq Todo' /\ (n > 0 => DescsIn(bs) \subseteq Todo')
       /\ (\A i \in Slots(h, v, QLen) : CopyTo(Todo', "host_rx", i))
       /\ (\A e \in Todo' : e \in Todo \/ e \in DescsIn(f.sub) \/ (n > 0 /\ e \in DescsIn(bs)) \/ e.op = "qe")
       /\ \A o : \A x \in Tails(o)' : x \in Tails(o) \/ (n > 0 /\ Src[o] = "lcl_tx" /\ x = v)
  <2> DEFINE fs == f.sub
  <2>1. IsSeq(fs) /\ (\A m \in 1 .. Len(fs) : fs[m].job.flag = "update")
    BY <1>6
  <2>2. IsSeq(bs) /\ (\A m \in 1 .. Len(bs) : bs[m].job.flag = "none")
    <3> HIDE DEF bs
    <3> QED BY <1>19
  <2>3. Handed(fs, bs, n, h, v)
    BY <1>1, <1>9, <1>13, <1>15 DEF Handed
  <2>4. v = q_idx_add(h, n, QLen) /\ Len_("lcl_tx") = QLen
    BY <1>1
  <2> HIDE DEF fs, bs, v
  <2>5. /\ Todo \subseteq Todo' /\ DescsIn(fs) \subseteq Todo' /\ (n > 0 => DescsIn(bs) \subseteq Todo')
        /\ (\A i \in Slots(h, v, QLen) : CopyTo(Todo', "host_rx", i))
        /\ (\A e \in Todo' : e \in Todo \/ e \in DescsIn(fs) \/ (n > 0 /\ e \in DescsIn(bs)) \/ e.op = "qe")
        /\ \A o : \A x \in Tails(o)' : x \in Tails(o) \/ (n > 0 /\ Src[o] = "lcl_tx" /\ x = v)
    <3>1. sub = <<>> /\ left = 0 /\ UNCHANGED <<hw, jobs, left>>
      BY <1>4
    <3>2. n \in 0 .. QLen - 1 /\ h \in 0 .. QLen - 1
      BY <1>7, <1>12
    <3> QED BY ONLY <2>1, <2>2, <2>3, <2>4, <3>1, <3>2, LocalWork
  <2> QED BY <2>5 DEF fs
<1>21. \A k \in 0 .. n - 1 : to[k] = ring["shadow"][q_idx_add(a, k, BpLen)]
  BY <1>1, <1>2, <1>6 DEF Ahead, a
<1> DEFINE qq == [x \in Queues |-> IF x = "host_bp" THEN f.b ELSE IF x = "shadow" THEN f.sh ELSE q[x]]
<1> DEFINE mg == msg'
<1> DEFINE w == Todo \cup DescsIn(f.sub)
<1>22. /\ qq["host_bp"] = f.b /\ qq["shadow"] = f.sh /\ qq["lcl_tx"] = q["lcl_tx"]
       /\ \A x \in Queues : x # "host_bp" /\ x # "shadow" => qq[x] = q[x]
  BY <1>1
<1>23. h = q["lcl_tx"].head /\ a = q["shadow"].head /\ zp = msg["lcl_tx"].prod /\ rd = msg["host_rx"].cons
  BY <1>1 DEF h, a, zp, rd
<1>24. /\ w \subseteq Todo' /\ (\A k \in 0 .. n - 1 : BufOf("lcl_tx", h, k, to) \in Todo')
       /\ (\A e \in Todo' : e \in w \/ e.op = "qe" \/ \E k \in 0 .. n - 1 : e = BufOf("lcl_tx", h, k, to))
  <2> HIDE DEF bs, v
  <2>1. ASSUME NEW k \in 0 .. n - 1 PROVE BufOf("lcl_tx", h, k, to) \in Todo'
    <3>1. n > 0
      BY <1>12
    <3> QED BY <1>19, <1>20, <3>1
  <2>2. w \subseteq Todo'
    BY <1>20
  <2>3. ASSUME NEW e \in Todo', e \notin w, e.op # "qe" PROVE \E k \in 0 .. n - 1 : e = BufOf("lcl_tx", h, k, to)
    BY <1>19, <1>20, <2>3
  <2> QED BY <2>1, <2>2, <2>3
<1> HIDE DEF qq, mg, w, bs, v, c, av
<1>25. Taking(p, qq, mg, w, h, a, n, v, c, limit, to)
  <2>1. mg["lcl_tx"] = msg["lcl_tx"] /\ mg["host_rx"] = msg["host_rx"] /\ mg = msg' /\ qq["shadow"].tail = f.sh.tail
        /\ qq["lcl_tx"].head = h /\ qq["shadow"].head = a
    BY <1>1, <1>6, <1>17, <1>22, <1>23 DEF mg
  <2>2. /\ n = Accepted(ring["lcl_tx"], h, limit, Occupancy(qq["shadow"].tail, a, BpLen))
        /\ v = q_idx_add(h, n, QLen) /\ c = q_idx_add(a, n, BpLen)
    BY <1>1, <1>11, <2>1 DEF v, c, av
  <2>3. /\ limit \in Nat /\ limit <= Occupancy(mg["lcl_tx"].prod, h, QLen)
        /\ Occupancy(h, mg["host_rx"].cons, QLen) + limit < QLen
    BY <1>10, <1>23, <2>1
  <2>4. /\ q'["lcl_tx"].head = v /\ q'["shadow"].head = c /\ q'["shadow"].tail = qq["shadow"].tail
        /\ q'["host_bp"] = qq["host_bp"]
    BY <1>16, <1>22
  <2>5. \A x \in Tails(p)' : x \in Tails(p) \/ (n > 0 /\ x = v)
    BY <1>20
  <2>6. mem' = mem /\ owned' = owned
    OBVIOUS
  <2> QED BY <1>18, <1>20, <1>21, <1>24, <2>1, <2>2, <2>3, <2>4, <2>5, <2>6 DEF Taking
<1>26. Locally(p, qq, mg, w, h, a, n, v, c, limit, to, f)
  <2>1. w = Todo \cup DescsIn(f.sub) /\ mg = msg'
    BY DEF w, mg
  <2> QED BY <1>6, <1>12, <1>16, <1>17, <1>20, <1>22, <1>25, <2>1 DEF Locally
<1> QED BY SMTT(30), <1>5, <1>26

\* The data after that.
LEMMA LocalOne ==
  ASSUME FillFits, NEW p \in CopyPayload, p \in Pairs, p = "ingress",
         DataOf(p, ring, mem, q, msg, Todo, Tails(p), owned[p]), Regions(q, msg), Kinds(Todo, q, msg),
         TailsIn(p, Tails(p), q, msg), NEW qq, NEW mg, NEW w, NEW h, NEW a, NEW n, NEW v, NEW c, NEW limit, NEW to,
         NEW f, Locally(p, qq, mg, w, h, a, n, v, c, limit, to, f), NEW z, NEW t, Filling(f, z, t)
  PROVE  DataOf(p, ring', mem', q', msg', Todo', Tails(p)', owned'[p])
<1>0. /\ Src[p] = "lcl_tx" /\ Dst[p] = "host_rx" /\ "lcl_tx" \in Queues /\ "host_rx" \in Queues
  BY Names
<1>1. /\ qq["host_bp"] = f.b /\ qq["shadow"] = f.sh /\ mg["host_bp"].cons = f.cons
      /\ mg["host_bp"].prod = msg["host_bp"].prod /\ w = Todo \cup DescsIn(f.sub)
      /\ (\A x \in Queues : x # "host_bp" => mg[x] = msg[x] /\ (x # "shadow" => qq[x] = q[x]))
      /\ Taking(p, qq, mg, w, h, a, n, v, c, limit, to)
  BY DEF Locally
<1>2. DataOf(p, ring, mem, qq, mg, w, Tails(p), owned[p])
  BY <1>1, FillOne
<1>3. /\ mg["lcl_tx"] = msg["lcl_tx"] /\ mg["host_rx"] = msg["host_rx"]
      /\ qq["lcl_tx"] = q["lcl_tx"] /\ qq["host_rx"] = q["host_rx"]
  BY <1>0, <1>1
<1>4. Around(p, qq, mg)
  <2>1. Around(p, q, msg)
    BY DEF Regions
  <2> QED BY <1>0, <1>3, <2>1 DEF Around
<1>5. MovingIn(p, qq, mg) = MovingIn(p, q, msg)
  BY <1>0, <1>3 DEF MovingIn
<1>6. TailsIn(p, Tails(p), qq, mg)
  BY <1>0, <1>3, <1>5 DEF TailsIn
<1>7. qq["shadow"].head \in 0 .. BpLen - 1 /\ qq["shadow"].tail \in 0 .. BpLen - 1
  <2>1. PoolAround(q)
    BY DEF Regions
  <2>2. f.sh.head = q["shadow"].head /\ f.sh.tail = z /\ z \in 0 .. BpLen - 1
    BY DEF Filling
  <2> QED BY <1>1, <2>1, <2>2 DEF PoolAround
<1>8. \A d \in w : d.op = "buf" /\ d.src[1] = Src[p] => d.src[2] \in MovingIn(p, qq, mg)
  <2>1. \A d \in DescsIn(f.sub) : d.op = "qe"
    BY DEF Locally
  <2>2. \A d \in Todo : d.op = "buf" /\ d.src[1] = Src[p] => d.src[2] \in MovingIn(p, q, msg)
    BY AimedFrom
  <2> QED BY <1>1, <1>5, <2>1, <2>2
<1> QED BY <1>1, <1>2, <1>4, <1>6, <1>7, <1>8, TakeOne

\* Copies of elements, only.
LEMMA CopyOnly ==
  ASSUME NEW src, NEW dst, NEW n, NEW first, NEW flag, NEW hd, NEW tl, NEW t,
         t = gie_copy_qes(src, dst, n, first, flag, hd, tl)
  PROVE  (\A d \in DescsIn(t) : d.op = "qe") /\ \A m \in 1 .. Len(t) : t[m].job.src = src
<1> DEFINE D(x, c) == [op |-> "qe", src |-> src, dst |-> dst, first |-> x, cnt |-> c]
<1>1. ASSUME NEW x, NEW c, NEW g
      PROVE  QeCopy(src, dst, x, c, g, hd, tl).job.src = src /\ QeCopy(src, dst, x, c, g, hd, tl).descs = <<D(x, c)>>
  BY DEF QeCopy, NewJob
<1> DEFINE quiet == IF flag = "produce" THEN "none" ELSE flag
<1> DEFINE e == Len_(src) - first
<1> DEFINE A == QeCopy(src, dst, first, e, quiet, hd, tl)
<1> DEFINE B == QeCopy(src, dst, 0, n - e, flag, hd, tl)
<1> DEFINE C == QeCopy(src, dst, first, n, flag, hd, tl)
<1>2. t = <<A, B>> \/ t = <<C>>
  BY DEF gie_copy_qes
<1>3. \A x, c, k : k \in 1 .. Len(<<D(x, c)>>) => <<D(x, c)>>[k] = D(x, c)
  <2> SUFFICES ASSUME NEW x, NEW c, NEW k \in 1 .. Len(<<D(x, c)>>) PROVE <<D(x, c)>>[k] = D(x, c)
    OBVIOUS
  <2> DEFINE o == D(x, c)
  <2> HIDE DEF o
  <2>1. Len(<<o>>) = 1 /\ <<o>>[1] = o
    OBVIOUS
  <2>2. k \in 1 .. Len(<<o>>)
    BY DEF o
  <2>3. <<o>>[k] = o
    BY <2>1, <2>2
  <2> QED BY <2>3 DEF o
<1> DEFINE Made(y) == \E x, c, g : y = QeCopy(src, dst, x, c, g, hd, tl)
<1>4. Made(A) /\ Made(B) /\ Made(C)
  OBVIOUS
<1> HIDE DEF A, B, C
<1>5. \A m \in 1 .. Len(t) : Made(t[m])
  <2>1. Len(<<C>>) = 1 /\ <<C>>[1] = C /\ Len(<<A, B>>) = 2 /\ <<A, B>>[1] = A /\ <<A, B>>[2] = B
    OBVIOUS
  <2> HIDE DEF Made
  <2>2. CASE t = <<C>>
    BY <1>4, <2>1, <2>2
  <2>3. CASE t = <<A, B>>
    <3>1. \A m \in 1 .. Len(t) : m = 1 \/ m = 2
      BY <2>1, <2>3
    <3> QED BY <1>4, <2>1, <2>3, <3>1
  <2> QED BY <1>2, <2>2, <2>3
<1>6. \A m \in 1 .. Len(t) : t[m].job.src = src /\ \E x, c : t[m].descs = <<D(x, c)>>
  <2> SUFFICES ASSUME NEW m \in 1 .. Len(t) PROVE t[m].job.src = src /\ \E x, c : t[m].descs = <<D(x, c)>>
    OBVIOUS
  <2>1. PICK x, c, g : t[m] = QeCopy(src, dst, x, c, g, hd, tl)
    BY <1>5
  <2>2. t[m].job.src = src /\ t[m].descs = <<D(x, c)>>
    BY <1>1, <2>1
  <2> QED BY <2>2
<1>7. \A x, c : D(x, c).op = "qe"
  OBVIOUS
<1> HIDE DEF D
<1>8. ASSUME NEW d \in DescsIn(t) PROVE d.op = "qe"
  <2>1. PICK m \in 1 .. Len(t) : d \in {t[m].descs[k] : k \in 1 .. Len(t[m].descs)}
    BY DEF DescsIn
  <2>2. PICK k \in 1 .. Len(t[m].descs) : d = t[m].descs[k]
    BY <2>1
  <2>3. PICK x, c : t[m].descs = <<D(x, c)>>
    BY <1>6
  <2>4. d = D(x, c)
    BY <1>3, <2>2, <2>3
  <2> QED BY <1>7, <2>4
<1> QED BY <1>6, <1>8

\* It submits copies of elements only when it copies no buffers.
LEMMA LocalOther ==
  ASSUME IInv, NEW p0 \in Pairs, p0 \notin CopyPayload, p0 = "ingress", sub = <<>>, UNCHANGED <<hw, jobs, left>>,
         NEW src, NEW dst, NEW pool, NEW s, NEW d, NEW qes, NEW avail, NEW f, NEW n, NEW from, NEW to,
         NEW hd, NEW tl, Local1(p0, src, dst, pool, s, d, qes, avail, f, n, from, to, hd, tl),
         Local2(p0, src, dst, pool, s, d, f, n, from, to, hd, tl)
  PROVE  /\ \A x \in Queues : x \notin Own(p0) => msg'[x] = msg[x] /\ ring'[x] = ring[x] /\ q'[x] = q[x]
         /\ Todo \subseteq Todo' /\ \A e \in Todo' : e \in Todo \/ e.op = "qe"
         /\ \A o \in Pairs : o # p0 => Tails(o)' \subseteq Tails(o)
<1>1. /\ src = "lcl_tx" /\ dst = "host_rx" /\ pool = "host_bp"
      /\ src \in Queues /\ dst \in Queues /\ pool \in Queues /\ "shadow" \in Queues
      /\ src \in Own(p0) /\ dst \in Own(p0) /\ pool \in Own(p0) /\ "shadow" \in Own(p0)
  BY Names DEF Local1, Own
<1>2. IndexOk /\ left = 0
  <2>1. PICK L, E, U, P, H, X, y : Whole(L, E, U, P, H, X, y)
    BY SMTT(30) DEF IInv
  <2> QED BY <2>1, Idle, Basic
<1>3. f.sub = <<>>
  BY DEF Local1
<1> DEFINE s2 == [s EXCEPT !.head = hd]
<1> DEFINE d2 == [d EXCEPT !.tail = tl]
<1> DEFINE b2 == f.b
<1> DEFINE g2 == [f.sh EXCEPT !.head = IF p0 \in CopyPayload THEN Ahead(@, n, "shadow") ELSE @]
<1> DEFINE y == "shadow"
<1>4. Four(src, dst, pool, y, s2, d2, b2, g2, q')
  BY DEF Local2, Four
<1> HIDE DEF s2, d2, b2, g2, y
<1>5. \A x \in Queues : x \notin Own(p0) => q'[x] = q[x]
  <2>1. src # dst /\ src # pool /\ src # y /\ dst # pool /\ dst # y /\ pool # y
    BY <1>1 DEF y
  <2>2. src \in Queues /\ dst \in Queues /\ pool \in Queues /\ y \in Queues /\ IndexOk /\ y \in Own(p0)
    BY <1>1, <1>2 DEF y
  <2>3. /\ q'[src] = s2 /\ q'[pool] = b2 /\ q'[y] = g2 /\ q'[dst] = d2
        /\ (\A x \in Queues : x # src /\ x # dst /\ x # pool /\ x # y => q'[x] = q[x])
    BY ONLY <1>4, <2>1, <2>2, FourAt
  <2> QED BY <1>1, <2>2, <2>3
<1>6. \A x \in Queues : x \notin Own(p0) => msg'[x] = msg[x]
  <2>1. msg' = [msg EXCEPT ![pool].cons = f.cons]
    BY DEF Local2
  <2> QED BY <1>1, <1>2, <2>1, ConsIs
<1>7. ring' = ring
  BY DEF Local2
<1> DEFINE qs == gie_copy_qes(src, dst, n, s.head, "produce", hd, tl)
<1>8. sub' = <<>> \/ sub' = qs
  <2> DEFINE e == <<>>
  <2> DEFINE r == IF n = 0 THEN e ELSE e \o qs
  <2>1. IsSeq(qs) /\ IsSeq(e)
    BY CopySeq, EmptyIs
  <2>2. sub' = f.sub \o r
    BY DEF Local2
  <2>3. e \o qs = qs /\ e \o e = e
    BY <2>1, EmptyCat
  <2>4. r = e \/ r = qs
    BY <2>3
  <2>5. f.sub = e
    BY <1>3
  <2> HIDE DEF e, r, qs
  <2>6. sub' = e \/ sub' = qs
    BY <2>2, <2>3, <2>4, <2>5
  <2> QED BY <2>6 DEF e
<1>9. (\A e \in DescsIn(sub') : e.op = "qe") /\ \A m \in 1 .. Len(sub') : sub'[m].job.src = src
  <2>1. CASE sub' = <<>>
    <3>1. DescsIn(sub') = {} /\ 1 .. Len(sub') = {}
      BY <2>1, NoDescs
    <3> QED BY <3>1
  <2>2. CASE sub' = qs
    <3> DEFINE t == sub'
    <3> DEFINE g == "produce"
    <3> DEFINE h == s.head
    <3>1. t = gie_copy_qes(src, dst, n, h, g, hd, tl)
      BY <2>2
    <3> HIDE DEF t, g, h
    <3>2. (\A e \in DescsIn(t) : e.op = "qe") /\ \A m \in 1 .. Len(t) : t[m].job.src = src
      BY ONLY <3>1, CopyOnly
    <3> QED BY <3>2 DEF t
  <2> QED BY <1>8, <2>1, <2>2
<1> HIDE DEF qs
<1>10. /\ Todo \subseteq Todo' /\ (\A e \in Todo' : e \in Todo \/ e \in DescsIn(sub'))
       /\ \A o : \A t \in Tails(o)' :
            t \in Tails(o) \/ \E m \in 1 .. Len(sub') : Carries(sub'[m].job, o) /\ t = sub'[m].job.tail
  BY <1>2, MoreWork
<1>11. ASSUME NEW o \in Pairs, o # p0 PROVE Tails(o)' \subseteq Tails(o)
  <2>1. Src[o] # src
    BY <1>11, Apart DEF Local1
  <2>2. \A m \in 1 .. Len(sub') : ~Carries(sub'[m].job, o)
    BY <1>9, <2>1 DEF Carries
  <2> QED BY SMTT(30), <1>10, <2>2
<1> QED BY <1>5, <1>6, <1>7, <1>9, <1>10, <1>11

\* It only reads the words when there is nothing to do.
LEMMA LocalReads ==
  ASSUME IInv, NEW p0 \in Pairs, p0 = "ingress", NEW src, NEW dst, src = Src[p0], dst = Dst[p0], NEW s, NEW d,
         s = [q[src] EXCEPT !.tail = msg[src].prod], d = [q[dst] EXCEPT !.head = msg[dst].cons],
         q' = [q EXCEPT ![src] = s, ![dst] = d], UNCHANGED <<msg, ring, mem, hw, jobs, sub, left, owned>>,
         NEW p \in Pairs, DataOf(p, ring, mem, q, msg, Todo, Tails(p), owned[p])
  PROVE  DataOf(p, ring', mem', q', msg', Todo', Tails(p)', owned'[p])
<1>1. Regions(q, msg) /\ IndexOk /\ src \in Queues /\ dst \in Queues /\ src = "lcl_tx" /\ dst = "host_rx"
  BY RegionsIs, Basic, Names
<1>2. Todo' = Todo /\ Tails(p)' = Tails(p)
  BY SameTodo
<1>3. q'[src] = s /\ \A x \in Queues : x # src /\ x # dst => q'[x] = q[x]
  <2> HIDE DEF IndexOk
  <2>1. q = [x \in Queues |-> q[x]] /\ src # dst
    BY <1>1 DEF IndexOk
  <2> QED BY <1>1, <2>1
<1>4. s.head = q[src].head /\ s.qe_tail = q[src].qe_tail
  <2> DEFINE g == q[src]
  <2> DEFINE t == msg[src].prod
  <2>1. g \in QIdx /\ s = [g EXCEPT !.tail = t]
    BY <1>1 DEF IndexOk
  <2> HIDE DEF g, t
  <2>2. s.head = g.head /\ s.qe_tail = g.qe_tail
    BY <2>1 DEF QIdx
  <2> QED BY <2>2 DEF g
<1>5. SameIdx(p, q, msg, q', msg')
  <2>1. Src[p] \in Queues /\ Pool[p] \in Queues /\ Src[p] # dst /\ Pool[p] # src /\ Pool[p] # dst /\ "shadow" \in Queues
        /\ "shadow" # src /\ "shadow" # dst
    BY <1>1, Names, Apart
  <2>2. q'[Src[p]].head = q[Src[p]].head /\ q'[Src[p]].qe_tail = q[Src[p]].qe_tail
    <3>1. CASE Src[p] = src
      BY <1>3, <1>4, <3>1
    <3>2. CASE Src[p] # src
      BY <1>3, <2>1, <3>2
    <3> QED BY <3>1, <3>2
  <2>3. q'[Pool[p]] = q[Pool[p]] /\ q'["shadow"] = q["shadow"]
    BY <1>3, <2>1
  <2> QED BY <2>2, <2>3 DEF SameIdx
<1>6. SameRings(p, ring, ring') /\ SameBufs(p, mem, mem')
  BY DEF SameRings, SameBufs
<1>7. SameWork(p, Todo, Todo')
  BY <1>2, WorkSame
<1> QED BY <1>1, <1>2, <1>5, <1>6, <1>7, Others

\* The step that takes the elements of lcl_tx.
LEMMA LocalData == ASSUME FillFits, NEW p0 \in Pairs PROVE IInv /\ Data /\ ProcessLocalQ(p0) => Data'
<1> SUFFICES ASSUME IInv, Data, ProcessLocalQ(p0) PROVE Data'
  OBVIOUS
<1>1. Regions(q, msg) /\ Kinds(Todo, q, msg) /\ TailsIn(p0, Tails(p0), q, msg)
  BY RegionsIs, KindsIs, TailsIs
<1>2. /\ mem \in [AllBufs -> Tag \cup {NoData}] /\ nxt \in [Pairs -> Nat] /\ OnlyCopied(Todo)
      /\ owned \in [Pairs -> SUBSET AllPoolBufs] /\ (\A p \in Pairs : owned[p] \subseteq PoolBufs(p))
      /\ \A p \in CopyPayload : p \in Pairs /\ DataOf(p, ring, mem, q, msg, Todo, Tails(p), owned[p])
  BY SMTT(30), GieAssumption DEF Data, AllBufs
<1>3. UNCHANGED <<mem, nxt, owned>> /\ p0 = "ingress"
  BY ZenonT(30) DEF ProcessLocalQ, users
<1>4. /\ sub = <<>> /\ UNCHANGED <<hw, jobs, left>>
      /\ \E src, dst, pool, s, d, qes, avail, f, n, from, to, hd, tl :
           /\ Local1(p0, src, dst, pool, s, d, qes, avail, f, n, from, to, hd, tl)
           /\ \/ q' = [q EXCEPT ![src] = s, ![dst] = d] /\ UNCHANGED <<msg, ring, sub>>
              \/ Local2(p0, src, dst, pool, s, d, f, n, from, to, hd, tl)
  BY LocalDo
<1>5. PICK src, dst, pool, s, d, qes, avail, f, n, from, to, hd, tl :
        /\ Local1(p0, src, dst, pool, s, d, qes, avail, f, n, from, to, hd, tl)
        /\ \/ q' = [q EXCEPT ![src] = s, ![dst] = d] /\ UNCHANGED <<msg, ring, sub>>
           \/ Local2(p0, src, dst, pool, s, d, f, n, from, to, hd, tl)
  BY SMTT(30), <1>4
<1>6. /\ src = Src[p0] /\ dst = Dst[p0] /\ s = [q[src] EXCEPT !.tail = msg[src].prod]
      /\ d = [q[dst] EXCEPT !.head = msg[dst].cons]
  BY ZenonT(30), <1>5 DEF Local1
<1>7. /\ Src[p0] = "lcl_tx" /\ "lcl_tx" \in Own(p0) /\ "host_rx" \in Own(p0) /\ "host_bp" \in Own(p0)
      /\ "shadow" \in Own(p0)
  BY <1>3, Names DEF Own
\* Pair p, which is another one, is left alone.
<1>8. ASSUME NEW p \in CopyPayload, p # p0,
             \A x \in Queues : x \notin Own(p0) => msg'[x] = msg[x] /\ ring'[x] = ring[x] /\ q'[x] = q[x],
             Todo \subseteq Todo', \A e \in Todo' : e.op = "buf" /\ e.src[1] # "lcl_tx" => e \in Todo,
             Tails(p)' \subseteq Tails(p)
      PROVE  DataOf(p, ring', mem', q', msg', Todo', Tails(p)', owned'[p])
  <2>1. p \in Pairs /\ DataOf(p, ring, mem, q, msg, Todo, Tails(p), owned[p]) /\ Src[p] # Src[p0]
    BY <1>2, <1>8, Apart
  <2>2. SameWork(p, Todo, Todo')
    <3>1. \A e \in Todo' : e.op = "buf" /\ e.src[1] = Src[p] => e \in Todo
      BY <1>7, <1>8, <2>1
    <3> QED BY <1>8, <3>1, WorkSame
  <2>3. owned'[p] = owned[p] /\ \A b \in AllBufs : b[1] \notin Own(p0) => mem'[b] = mem[b]
    BY <1>3
  <2> QED BY <1>1, <1>8, <2>1, <2>2, <2>3, OtherPair
<1>9. CASE q' = [q EXCEPT ![src] = s, ![dst] = d] /\ UNCHANGED <<msg, ring, sub>>
  <2>1. Todo' = Todo
    BY <1>4, <1>9, SameTodo
  <2>2. UNCHANGED <<msg, ring, mem, hw, jobs, sub, left, owned>>
    BY <1>3, <1>4, <1>9
  <2>3. ASSUME NEW p \in CopyPayload PROVE DataOf(p, ring', mem', q', msg', Todo', Tails(p)', owned'[p])
    BY <1>2, <1>3, <1>6, <1>9, <2>2, LocalReads
  <2> QED BY <1>2, <1>3, <2>1, <2>3 DEF Data, AllBufs
<1>10. CASE Local2(p0, src, dst, pool, s, d, f, n, from, to, hd, tl) /\ p0 \notin CopyPayload
  <2>1. /\ \A x \in Queues : x \notin Own(p0) => msg'[x] = msg[x] /\ ring'[x] = ring[x] /\ q'[x] = q[x]
        /\ Todo \subseteq Todo' /\ (\A e \in Todo' : e \in Todo \/ e.op = "qe")
        /\ \A o \in Pairs : o # p0 => Tails(o)' \subseteq Tails(o)
    BY <1>3, <1>4, <1>5, <1>10, LocalOther
  <2>2. ASSUME NEW p \in CopyPayload PROVE DataOf(p, ring', mem', q', msg', Todo', Tails(p)', owned'[p])
    <3>1. p # p0 /\ p \in Pairs
      BY <1>2, <1>10
    <3>2. \A e \in Todo' : e.op = "buf" /\ e.src[1] # "lcl_tx" => e \in Todo
      BY <2>1
    <3> QED BY <1>8, <2>1, <3>1, <3>2
  <2>3. OnlyCopied(Todo')
    <3>1. \A e \in Todo' : e.op = "buf" => e \in Todo
      BY <2>1
    <3> QED BY <1>2, <3>1 DEF OnlyCopied
  <2> QED BY <1>2, <1>3, <2>2, <2>3 DEF Data, AllBufs
<1>11. CASE Local2(p0, src, dst, pool, s, d, f, n, from, to, hd, tl) /\ p0 \in CopyPayload
  <2>1. PoolOk(p0, q, msg) /\ DataOf(p0, ring, mem, q, msg, Todo, Tails(p0), owned[p0])
    <3>1. DataOf(p0, ring, mem, q, msg, Todo, Tails(p0), owned[p0])
      BY <1>2, <1>11
    <3> QED BY <3>1, DataIs
  <2>2. PICK qq, mg, w, h, a, v, c, limit, z, t :
          Locally(p0, qq, mg, w, h, a, n, v, c, limit, to, f) /\ Filling(f, z, t)
    <3>1. UNCHANGED <<hw, jobs, left, mem, owned>>
      BY <1>3, <1>4
    <3> QED BY <1>3, <1>4, <1>5, <1>11, <2>1, <3>1, LocalIs
  <2>3. DataOf(p0, ring', mem', q', msg', Todo', Tails(p0)', owned'[p0])
    BY <1>1, <1>3, <1>11, <2>1, <2>2, LocalOne
  <2>4. /\ (\A e \in DescsIn(f.sub) : e.op = "qe") /\ w = Todo \cup DescsIn(f.sub)
        /\ (\A x \in Queues : x \notin {"lcl_tx", "host_rx", "host_bp", "shadow"} => q'[x] = q[x])
        /\ (\A x \in Queues : x # "host_bp" => msg'[x] = msg[x])
        /\ (\A o : \A x \in Tails(o)' : x \in Tails(o) \/ (n > 0 /\ Src[o] = "lcl_tx" /\ x = v))
    BY <2>2 DEF Locally
  <2>5. /\ (\A x \in Queues : x # "lcl_tx" => ring'[x] = ring[x]) /\ w \subseteq Todo'
        /\ (\A e \in Todo' : e \in w \/ e.op = "qe" \/ \E k \in 0 .. n - 1 : e = BufOf("lcl_tx", h, k, to))
    <3>1. Taking(p0, qq, mg, w, h, a, n, v, c, limit, to)
      BY <2>2 DEF Locally
    <3> QED BY <3>1 DEF Taking
  <2>6. \A k : BufOf("lcl_tx", h, k, to).src[1] = "lcl_tx"
    BY DEF BufOf
  <2>7. ASSUME NEW e \in Todo', e.op = "buf", e \notin Todo PROVE e.src[1] = "lcl_tx"
    BY <2>4, <2>5, <2>6, <2>7
  <2>8. ASSUME NEW p \in CopyPayload, p # p0
        PROVE  DataOf(p, ring', mem', q', msg', Todo', Tails(p)', owned'[p])
    <3>1. p \in Pairs /\ Src[p] # "lcl_tx"
      BY <1>2, <1>7, <2>8, Apart
    <3>2. \A x \in Queues : x \notin Own(p0) => msg'[x] = msg[x] /\ ring'[x] = ring[x] /\ q'[x] = q[x]
      BY <1>7, <2>4, <2>5
    <3>3. Todo \subseteq Todo' /\ \A e \in Todo' : e.op = "buf" /\ e.src[1] # "lcl_tx" => e \in Todo
      BY <2>4, <2>5, <2>7
    <3>4. Tails(p)' \subseteq Tails(p)
      BY <2>4, <3>1
    <3> QED BY <1>8, <2>8, <3>2, <3>3, <3>4
  <2>9. OnlyCopied(Todo')
    BY <1>2, <1>7, <1>11, <2>7 DEF OnlyCopied
  <2> QED BY <1>2, <1>3, <2>3, <2>8, <2>9 DEF Data, AllBufs
<1> QED BY <1>5, <1>9, <1>10, <1>11

-----------------------------------------------------------------------------
(* The first state, and the steps together *)

\* Nothing is sent at first; a pool's buffers are in its ring, as far as they fit,
\* and with the consumer.
LEMMA FirstSpread ==
  ASSUME NEW n, NEW r, NEW e, NEW sh, NEW k \in 0 .. NBufs, \A i \in 0 .. k - 1 : r[i] = <<n, i + 1>>
  PROVE  Spread({n} \X (1 .. NBufs), e, {}, r, 0 .. k - 1, sh, {}, {n} \X (k + 1 .. NBufs))
<1>1. NBufs \in Nat /\ k \in Nat
  BY GieAssumption
<1>2. Held(r, 0 .. k - 1) = {n} \X (1 .. k)
  <2>1. ASSUME NEW b \in {n} \X (1 .. k) PROVE b \in Held(r, 0 .. k - 1)
    <3>1. PICK i \in 1 .. k : b = <<n, i>>
      OBVIOUS
    <3>2. i - 1 \in 0 .. k - 1 /\ (i - 1) + 1 = i
      BY <1>1
    <3>3. r[i - 1] = <<n, (i - 1) + 1>>
      BY <3>2
    <3>4. b = r[i - 1]
      BY <3>1, <3>2, <3>3
    <3> QED BY <3>2, <3>4 DEF Held
  <2>2. ASSUME NEW i \in 0 .. k - 1 PROVE r[i] \in {n} \X (1 .. k)
    <3>1. r[i] = <<n, i + 1>>
      OBVIOUS
    <3>2. i + 1 \in 1 .. k
      BY <1>1
    <3> QED BY <3>1, <3>2
  <2> QED BY <2>1, <2>2 DEF Held
<1>3. Distinct(r, 0 .. k - 1)
  <2> SUFFICES ASSUME NEW i \in 0 .. k - 1, NEW j \in 0 .. k - 1, r[i] = r[j] PROVE i = j
    BY DEF Distinct
  <2>1. <<n, i + 1>> = <<n, j + 1>>
    OBVIOUS
  <2>2. i + 1 = j + 1
    BY <2>1
  <2> QED BY <1>1, <2>2
<1>4. Held(e, {}) = {} /\ Held(sh, {}) = {} /\ Distinct(e, {}) /\ Distinct(sh, {})
  BY DEF Held, Distinct
<1>5. ({n} \X (1 .. k)) \cap ({n} \X (k + 1 .. NBufs)) = {}
  <2>1. (1 .. k) \cap (k + 1 .. NBufs) = {}
    BY <1>1
  <2> QED BY <2>1
<1>6. ({n} \X (1 .. k)) \cup ({n} \X (k + 1 .. NBufs)) = {n} \X (1 .. NBufs)
  <2>1. (1 .. k) \cup (k + 1 .. NBufs) = 1 .. NBufs
    BY <1>1
  <2> QED BY <2>1
<1> QED BY <1>2, <1>3, <1>4, <1>5, <1>6 DEF Spread

\* No element is in the works at first, and no pool entry is being copied.
LEMMA FirstSets ==
  ASSUME Init, NEW p \in Pairs
  PROVE  /\ UnreadIn(p, msg) = {} /\ MovingIn(p, q, msg) = {} /\ TakenIn(p, q, msg) = {} /\ SentIn(p, msg) = {}
         /\ CopiedIn(p, q, msg) = {} /\ FetchedIn(p, q) = {} /\ (p = "ingress" => FillIn(q) = {})
         /\ FullIn(p, q, msg) = 0 .. PoolFill - 1 /\ PoolFill \in 0 .. NBufs /\ PoolFill \in 0 .. BpLen - 1
         /\ PoolOk(p, q, msg)
<1>1. /\ Src[p] \in Queues /\ Dst[p] \in Queues /\ Pool[p] \in Queues /\ "shadow" \in Queues
      /\ Src[p] \notin PoolQs /\ Dst[p] \notin PoolQs /\ Pool[p] \in PoolQs
  <2>1. \A o \in Pairs : Src[p] # Pool[o] /\ Dst[p] # Pool[o]
    BY Apart
  <2> QED BY <2>1, Names DEF PoolQs
<1>2. /\ q[Src[p]] = ResetQueue /\ q[Dst[p]] = ResetQueue /\ q[Pool[p]] = ResetQueue /\ q["shadow"] = ResetQueue
      /\ msg[Src[p]] = [cons |-> 0, prod |-> 0] /\ msg[Dst[p]] = [cons |-> 0, prod |-> 0]
      /\ msg[Pool[p]] = [cons |-> 0, prod |-> PoolFill]
  BY <1>1 DEF Init
<1>3. QLen \in Nat \ {0} /\ BpLen \in Nat \ {0} /\ 0 \in 0 .. QLen - 1 /\ 0 \in 0 .. BpLen - 1
      /\ NBufs \in Nat
  BY Params, GieAssumption
<1>4. Slots(0, 0, QLen) = {} /\ Slots(0, 0, BpLen) = {}
  BY <1>3, FromTo
<1>5. PoolFill \in 0 .. NBufs /\ PoolFill \in 0 .. BpLen - 1
  BY <1>3 DEF PoolFill, Lesser
<1>6. FullIn(p, q, msg) = 0 .. PoolFill - 1
  <2> DEFINE k == PoolFill
  <2>1. k \in 0 .. BpLen - 1
    BY <1>5
  <2>2. FullIn(p, q, msg) = Slots(0, k, BpLen)
    BY <1>2 DEF FullIn, ResetQueue
  <2> HIDE DEF k
  <2>3. \A i : i \in Slots(0, k, BpLen) <=> i \in 0 .. BpLen - 1 /\ IF 0 <= k THEN 0 <= i /\ i < k ELSE 0 <= i \/ i < k
    BY ONLY <2>1, <1>3, SlotIs
  <2>4. \A i : i \in Slots(0, k, BpLen) <=> i \in 0 .. k - 1
    BY <2>1, <2>3, <1>3
  <2> QED BY <2>2, <2>4 DEF k
<1>7. PoolOk(p, q, msg)
  <2>1. p = "ingress" => Occupancy(0, 0, BpLen) <= Occupancy(PoolFill, 0, BpLen)
    <3>1. Occupancy(0, 0, BpLen) = 0
      BY <1>3, FromTo
    <3>2. Occupancy(PoolFill, 0, BpLen) \in Nat
      BY <1>3, <1>5 DEF Occupancy
    <3> QED BY <3>1, <3>2
  <2> QED BY <2>1, <1>2, <1>3, <1>5 DEF PoolOk, ResetQueue
<1>8. FetchedIn(p, q) = {}
  BY <1>2, <1>4 DEF FetchedIn, ResetQueue
<1>9. p = "ingress" => FillIn(q) = {}
  BY <1>2, <1>4, Names DEF FillIn, ResetQueue
<1>10. /\ UnreadIn(p, msg) = {} /\ MovingIn(p, q, msg) = {} /\ TakenIn(p, q, msg) = {} /\ SentIn(p, msg) = {}
       /\ CopiedIn(p, q, msg) = {}
  BY <1>2, <1>4 DEF UnreadIn, MovingIn, TakenIn, SentIn, CopiedIn, ResetQueue
<1> QED BY <1>5, <1>6, <1>7, <1>8, <1>9, <1>10

\* There are no descriptors and no jobs at first.
LEMMA FirstWork == Init => Todo = {} /\ \A p : Tails(p) = {}
<1> SUFFICES ASSUME Init PROVE Todo = {} /\ \A p : Tails(p) = {}
  OBVIOUS
<1>1. jobs = <<>> /\ sub = <<>> /\ hw.descs = <<>> /\ hw.done = 0 /\ Len(<<>>) = 0 /\ \A k : k \notin 1 .. Len(<<>>)
  BY NoDescs, EmptyIs DEF Init
<1>2. PendingDescs = {}
  BY <1>1 DEF PendingDescs
<1>3. Coming = {}
  BY <1>1 DEF Coming
<1>4. AllJobs = {}
  BY <1>1 DEF AllJobs
<1> QED BY <1>2, <1>3, <1>4 DEF Todo, Tails

\* The first state is as it should be.
LEMMA InitData == Init => Data
<1> SUFFICES ASSUME Init PROVE Data
  OBVIOUS
<1>1. Todo = {} /\ \A p : Tails(p) = {}
  BY FirstWork
<1>2. ASSUME NEW p \in CopyPayload PROVE DataOf(p, ring, mem, q, msg, Todo, Tails(p), owned[p])
  <2>1. p \in Pairs
    BY Params
  <2>2. /\ UnreadIn(p, msg) = {} /\ MovingIn(p, q, msg) = {} /\ TakenIn(p, q, msg) = {} /\ SentIn(p, msg) = {}
        /\ CopiedIn(p, q, msg) = {} /\ FetchedIn(p, q) = {} /\ (p = "ingress" => FillIn(q) = {})
        /\ FullIn(p, q, msg) = 0 .. PoolFill - 1 /\ PoolFill \in 0 .. NBufs /\ PoolFill \in 0 .. BpLen - 1
        /\ PoolOk(p, q, msg)
    BY <2>1, FirstSets
  <2>3. /\ ring[Src[p]] = [i \in 0 .. QLen - 1 |-> NoElement] /\ ring[Dst[p]] = [i \in 0 .. QLen - 1 |-> NoElement]
        /\ ring[Pool[p]] = [i \in 0 .. BpLen - 1 |-> IF i < PoolFill THEN <<Pool[p], i + 1>> ELSE NoBuf]
    <3>1. /\ Src[p] \in Queues /\ Dst[p] \in Queues /\ Pool[p] \in Queues
          /\ Src[p] \in DataQs /\ Dst[p] \in DataQs /\ Pool[p] \in PoolQs
          /\ Len_(Src[p]) = QLen /\ Len_(Dst[p]) = QLen /\ Len_(Pool[p]) = BpLen
      BY <2>1, Names
    <3>2. Pool[p] \notin DataQs
      <4>1. \A o \in Pairs : Src[o] # Pool[p] /\ Dst[o] # Pool[p]
        BY <2>1, Apart
      <4> QED BY <4>1 DEF DataQs
    <3> QED BY <3>1, <3>2 DEF Init
  <2>4. NoElement \in Elements
    BY DEF NoElement, Elements
  <2>5. ring[Src[p]] \in [0 .. QLen - 1 -> Elements] /\ ring[Dst[p]] \in [0 .. QLen - 1 -> Elements]
    BY <2>3, <2>4
  <2>6. PICK e : e = ElemsOf(p, ring, UnreadIn(p, msg))
    OBVIOUS
  <2>7. SourceOk(p, ring[Src[p]], mem, {}) /\ WholeOk(ring[Src[p]], {})
    BY DEF SourceOk, WholeOk
  <2>8. ElemOk(e, ring[Src[p]], mem, Todo, {}, {}) /\ AimedOk(p, e, Todo)
    BY <1>1 DEF ElemOk, AimedOk
  <2>9. /\ CopiedOk(Dst[p], ring[Src[p]], ring[Dst[p]], Todo, {})
        /\ CopiedOk("shadow", ring["host_bp"], ring["shadow"], Todo, {})
    BY DEF CopiedOk
  <2>10. CutOk(ring[Dst[p]], e, {}, {}, msg[Dst[p]].prod, Tails(p))
    BY <1>1 DEF CutOk
  <2>11. owned[p] = {Pool[p]} \X (PoolFill + 1 .. NBufs)
    BY <2>1 DEF Init
  <2>12. \A i \in 0 .. PoolFill - 1 : ring[Pool[p]][i] = <<Pool[p], i + 1>>
    <3> DEFINE k == PoolFill
    <3>1. k \in 0 .. BpLen - 1 /\ BpLen \in Nat
      BY <2>2, Params
    <3>2. ring[Pool[p]] = [i \in 0 .. BpLen - 1 |-> IF i < k THEN <<Pool[p], i + 1>> ELSE NoBuf]
      BY <2>3
    <3> HIDE DEF k
    <3>3. \A i \in 0 .. k - 1 : i \in 0 .. BpLen - 1 /\ i < k
      BY <3>1
    <3>4. \A i \in 0 .. k - 1 : ring[Pool[p]][i] = <<Pool[p], i + 1>>
      BY <3>2, <3>3
    <3> QED BY <3>4 DEF k
  <2>13. Spread(PoolBufs(p), Bufs(e), {}, ring[Pool[p]], 0 .. PoolFill - 1, ring["shadow"], {}, owned[p])
    <3>1. Spread({Pool[p]} \X (1 .. NBufs), Bufs(e), {}, ring[Pool[p]], 0 .. PoolFill - 1, ring["shadow"], {},
                 {Pool[p]} \X (PoolFill + 1 .. NBufs))
      BY <2>2, <2>12, FirstSpread
    <3> QED BY <3>1, <2>11 DEF PoolBufs
  <2> HIDE DEF PoolFill
  <2> QED BY <2>2, <2>5, <2>6, <2>7, <2>8, <2>9, <2>10, <2>13, DataFrom
<1>3. mem \in [SrcBufs \cup AllPoolBufs -> Tag \cup {NoData}] /\ nxt \in [Pairs -> Nat]
  BY DEF Init
<1>4. \A p \in Pairs : owned[p] \subseteq PoolBufs(p)
  <2> SUFFICES ASSUME NEW p \in Pairs PROVE owned[p] \subseteq PoolBufs(p)
    OBVIOUS
  <2>1. PoolFill \in 0 .. NBufs /\ NBufs \in Nat
    BY FirstSets, GieAssumption
  <2>2. PoolFill + 1 .. NBufs \subseteq 1 .. NBufs
    BY <2>1
  <2>3. owned[p] = {Pool[p]} \X (PoolFill + 1 .. NBufs)
    BY DEF Init
  <2> QED BY <2>2, <2>3 DEF PoolBufs
<1>5. owned \in [Pairs -> SUBSET AllPoolBufs]
  <2>1. \A p \in Pairs : PoolBufs(p) \subseteq AllPoolBufs
    BY DEF AllPoolBufs
  <2>2. owned = [p \in Pairs |-> owned[p]]
    BY DEF Init
  <2> QED BY <1>4, <2>1, <2>2
<1>6. OnlyCopied(Todo)
  BY <1>1 DEF OnlyCopied
<1> QED BY <1>2, <1>3, <1>4, <1>5, <1>6 DEF Data

\* Every step keeps it, as long as no submission is taken in part.
LEMMA NextData ==
  ASSUME FillFits
  PROVE  IInv /\ Data /\ NoSplit /\ NoSplit' /\ [Next]_vars => Data'
<1> SUFFICES ASSUME IInv, Data, NoSplit, NoSplit', [Next]_vars PROVE Data'
  OBVIOUS
<1>1. CASE UNCHANGED vars
  BY <1>1, StillData
<1>2. ASSUME NEW p \in Pairs,
             \/ \E n \in Packets : Send(p, n)
             \/ Recv(p) \/ PutBuff(p) \/ ProcessRemoteQ(p) \/ ProcessBuffers(p) \/ ProcessLocalQ(p)
      PROVE Data'
  BY <1>2, SendData, RecvData, PutData, RemoteData, BuffersData, LocalData
<1>3. CASE Dma \/ Clean \/ Enqueue \/ Retry \/ GiveUp
  BY <1>3, DmaData, CleanData, EnqueueData, RetryData, StillData
<1> QED BY <1>1, <1>2, <1>3 DEF Next

-----------------------------------------------------------------------------
(* What the invariant says of the properties *)

\* The elements a consumer can see are those of the ring it reads.
LEMMA SeenIs ==
  ASSUME IInv, NEW p \in Pairs
  PROVE  Unread(p) = UnreadIn(p, msg) /\ Around(p, q, msg)
<1>1. Len_(Dst[p]) = QLen
  BY Names
<1>2. Regions(q, msg)
  BY RegionsIs
<1> QED BY <1>1, <1>2 DEF Unread, Posted, UnreadIn, Regions

\* No buffer of an unread element is about to be written: the copies to come are
\* to buffers of elements that are not published, and every buffer is in one place.
LEMMA UnreadQuiet ==
  ASSUME IInv, Data, NEW p \in CopyPayload, NEW i \in UnreadIn(p, msg), NEW e, e = ElemsOf(p, ring, UnreadIn(p, msg))
  PROVE  ~ BufTo(Todo, e[i].buf)
<1> SUFFICES ASSUME NEW d \in Todo, d.op = "buf", d.dst = e[i].buf PROVE FALSE
  BY DEF BufTo
<1>1. p \in Pairs /\ Kinds(Todo, q, msg)
  BY Params, KindsIs
<1>2. \A o \in Pairs : Around(o, q, msg)
  BY RegionsIs DEF Regions
<1>3. OnlyCopied(Todo) /\ \A o \in CopyPayload : DataOf(o, ring, mem, q, msg, Todo, Tails(o), owned[o])
  BY DEF Data
<1>4. PICK o \in CopyPayload : d.src[1] = Src[o]
  BY <1>3 DEF OnlyCopied
<1>5. o \in Pairs
  BY Params
<1>6. d.src[2] \in MovingIn(o, q, msg)
  BY ONLY <1>1, <1>4, <1>5, d \in Todo, d.op = "buf", AimedFrom
<1>7. DataOf(o, ring, mem, q, msg, Todo, Tails(o), owned[o]) /\ DataOf(p, ring, mem, q, msg, Todo, Tails(p), owned[p])
  BY <1>3
<1>8. PICK f : f = ElemsOf(o, ring, UnreadIn(o, msg))
  OBVIOUS
<1>9. d.dst = f[d.src[2]].buf
  <2>1. AimedOk(o, f, Todo)
    BY ONLY <1>7, <1>8, DataIs
  <2> QED BY <2>1, <1>4 DEF AimedOk
<1>10. /\ TakenIn(o, q, msg) = UnreadIn(o, msg) \cup MovingIn(o, q, msg)
       /\ UnreadIn(o, msg) \cap MovingIn(o, q, msg) = {}
       /\ TakenIn(o, q, msg) \subseteq 0 .. QLen - 1
  BY ONLY <1>2, <1>5, TakenIs
<1>11. /\ TakenIn(p, q, msg) = UnreadIn(p, msg) \cup MovingIn(p, q, msg)
       /\ TakenIn(p, q, msg) \subseteq 0 .. QLen - 1
  BY ONLY <1>1, <1>2, TakenIs
<1>12. /\ \A j \in TakenIn(o, q, msg) : f[j].buf \in PoolBufs(o)
       /\ \A j, k \in TakenIn(o, q, msg) : f[j].buf = f[k].buf => j = k
  BY ONLY <1>7, <1>8, <1>10, ElemBuf
<1>13. \A j \in TakenIn(p, q, msg) : e[j].buf \in PoolBufs(p)
  BY ONLY <1>7, <1>11, e = ElemsOf(p, ring, UnreadIn(p, msg)), ElemBuf
<1>14. d.dst \in PoolBufs(o) /\ d.dst \in PoolBufs(p)
  BY <1>6, <1>9, <1>10, <1>11, <1>12, <1>13
<1>15. o = p
  BY <1>1, <1>5, <1>14, BufsAre
<1>16. e = f
  BY <1>8, <1>15
<1>17. i = d.src[2]
  BY <1>6, <1>9, <1>10, <1>12, <1>15, <1>16
<1> QED BY <1>6, <1>10, <1>15, <1>17

\* An element its consumer can see has its packet, and so has its buffer.
LEMMA DataComplete == IInv /\ Data => PublishedComplete
<1> SUFFICES ASSUME IInv, Data, NEW p \in CopyPayload, NEW i \in Unread(p)
             PROVE  ring[Dst[p]][i].tag # NoData /\ mem[ring[Dst[p]][i].buf] = ring[Dst[p]][i].tag
  BY DEF PublishedComplete
<1>1. p \in Pairs
  BY Params
<1>2. Unread(p) = UnreadIn(p, msg) /\ Around(p, q, msg)
  BY <1>1, SeenIs
<1>3. DataOf(p, ring, mem, q, msg, Todo, Tails(p), owned[p])
  BY DEF Data
<1>4. PICK e : e = ElemsOf(p, ring, UnreadIn(p, msg))
  OBVIOUS
<1>5. /\ TakenIn(p, q, msg) = UnreadIn(p, msg) \cup MovingIn(p, q, msg)
      /\ TakenIn(p, q, msg) \subseteq 0 .. QLen - 1
  BY ONLY <1>2, TakenIs
<1>6. i \in TakenIn(p, q, msg) /\ i \in 0 .. QLen - 1 /\ i \in UnreadIn(p, msg)
  BY <1>2, <1>5
<1>7. e[i] = ring[Dst[p]][i]
  BY <1>4, <1>6, ElemsAt
<1>8. ElemOk(e, ring[Src[p]], mem, Todo, TakenIn(p, q, msg), MovingIn(p, q, msg))
  BY <1>3, <1>4, DataIs
<1>9. e[i].tag \in Tag /\ (BufTo(Todo, e[i].buf) \/ mem[e[i].buf] = e[i].tag)
  BY <1>6, <1>8 DEF ElemOk
<1>10. ~ BufTo(Todo, e[i].buf)
  BY <1>4, <1>6, UnreadQuiet
<1>11. \A t \in Tag : t # NoData
  BY GieAssumption DEF Tag, NoData
<1> QED BY <1>7, <1>9, <1>10, <1>11

\* The last element a consumer can see ends a packet.
LEMMA DataWhole == IInv /\ Data => SgWhole
<1> SUFFICES ASSUME IInv, Data, NEW p \in CopyPayload, Unread(p) # {}
             PROVE  ring[Dst[p]][Before(msg[Dst[p]].prod)].sg = 1
  BY DEF SgWhole, Before
<1>1. p \in Pairs
  BY Params
<1>2. Unread(p) = UnreadIn(p, msg)
  BY <1>1, SeenIs
<1>3. DataOf(p, ring, mem, q, msg, Todo, Tails(p), owned[p])
  BY DEF Data
<1>4. CutOk(ring[Dst[p]], ElemsOf(p, ring, UnreadIn(p, msg)), UnreadIn(p, msg), MovingIn(p, q, msg), msg[Dst[p]].prod, Tails(p))
  BY <1>3, DataIs
<1> QED BY <1>2, <1>4 DEF CutOk

\* A function that takes no value twice has as many values as arguments.
LEMMA ImageSize ==
  ASSUME NEW S, IsFiniteSet(S), NEW r, Distinct(r, S)
  PROVE  IsFiniteSet(Held(r, S)) /\ Cardinality(Held(r, S)) = Cardinality(S)
<1> DEFINE f == [i \in S |-> r[i]]
<1>1. f \in Bijection(S, Held(r, S))
  <2>1. f \in [S -> Held(r, S)]
    BY DEF Held
  <2>2. \A i, j \in S : f[i] = f[j] => i = j
    BY DEF Distinct
  <2>3. \A x \in Held(r, S) : \E i \in S : f[i] = x
    BY DEF Held
  <2>4. DOMAIN f = S
    OBVIOUS
  <2> HIDE DEF f
  <2>5. IsInjective(f)
    BY <2>2, <2>4 DEF IsInjective
  <2>6. f \in Injection(S, Held(r, S))
    BY <2>1, <2>5 DEF Injection
  <2>7. f \in Surjection(S, Held(r, S))
    BY <2>1, <2>3 DEF Surjection
  <2> QED BY <2>6, <2>7 DEF Bijection
<1>2. ExistsBijection(S, Held(r, S))
  BY <1>1 DEF ExistsBijection
<1> QED BY <1>2, FS_Bijection

\* A pool has NBufs buffers.
LEMMA PoolSize ==
  ASSUME NEW p PROVE IsFiniteSet(PoolBufs(p)) /\ Cardinality(PoolBufs(p)) = NBufs
<1> DEFINE r == [i \in 1 .. NBufs |-> <<Pool[p], i>>]
<1>1. NBufs \in Nat
  BY GieAssumption
<1>2. IsFiniteSet(1 .. NBufs) /\ Cardinality(1 .. NBufs) = NBufs
  <2>1. IsFiniteSet(1 .. NBufs) /\ Cardinality(1 .. NBufs) = IF 1 > NBufs THEN 0 ELSE NBufs - 1 + 1
    BY <1>1, FS_Interval
  <2> QED BY <1>1, <2>1
<1>3. Distinct(r, 1 .. NBufs)
  BY DEF Distinct
<1>4. Held(r, 1 .. NBufs) = PoolBufs(p)
  BY DEF Held, PoolBufs
<1> QED BY <1>2, <1>3, <1>4, ImageSize

\* Sets with nothing in common have as many members as their union.
LEMMA TwoSize ==
  ASSUME NEW A, NEW B, IsFiniteSet(A), IsFiniteSet(B), A \cap B = {}
  PROVE  IsFiniteSet(A \cup B) /\ Cardinality(A \cup B) = Cardinality(A) + Cardinality(B)
<1>1. Cardinality(A \cap B) = 0
  BY FS_EmptySet
<1>2. Cardinality(A) \in Nat /\ Cardinality(B) \in Nat
  BY FS_CardinalityType
<1>3. IsFiniteSet(A \cup B) /\ Cardinality(A \cup B) = Cardinality(A) + Cardinality(B) - Cardinality(A \cap B)
  BY FS_Union
<1> DEFINE x == Cardinality(A)
           y == Cardinality(B)
           z == Cardinality(A \cap B)
           u == Cardinality(A \cup B)
<1>4. u = x + y - z /\ z = 0 /\ x \in Nat /\ y \in Nat
  BY <1>1, <1>2, <1>3
<1> HIDE DEF x, y, z, u
<1>5. u = x + y
  BY <1>4
<1> QED BY <1>3, <1>5 DEF x, y, u

\* The same for four sets.
LEMMA FourSize ==
  ASSUME NEW A, NEW B, NEW C, NEW D,
         IsFiniteSet(A), IsFiniteSet(B), IsFiniteSet(C), IsFiniteSet(D),
         A \cap B = {}, A \cap C = {}, A \cap D = {}, B \cap C = {}, B \cap D = {}, C \cap D = {}
  PROVE  Cardinality(A \cup B \cup C \cup D) = Cardinality(A) + Cardinality(B) + Cardinality(C) + Cardinality(D)
<1>1. IsFiniteSet(A \cup B) /\ Cardinality(A \cup B) = Cardinality(A) + Cardinality(B)
  BY TwoSize
<1>2. (A \cup B) \cap C = {} /\ (A \cup B \cup C) \cap D = {}
  OBVIOUS
<1>3. IsFiniteSet(A \cup B \cup C) /\ Cardinality(A \cup B \cup C) = Cardinality(A \cup B) + Cardinality(C)
  BY <1>1, <1>2, TwoSize
<1>4. Cardinality(A \cup B \cup C \cup D) = Cardinality(A \cup B \cup C) + Cardinality(D)
  BY <1>2, <1>3, TwoSize
<1> QED BY <1>1, <1>3, <1>4

\* Slots are finitely many.
LEMMA SlotsFinite ==
  ASSUME NEW n \in Nat, NEW a, NEW b PROVE IsFiniteSet(Slots(a, b, n))
<1>1. IsFiniteSet(0 .. n - 1)
  BY FS_Interval
<1>2. Slots(a, b, n) \in SUBSET (0 .. n - 1)
  BY DEF Slots
<1> QED BY <1>1, <1>2, FS_Subset

\* The values of a function, and what is in its slots.
LEMMA RangeIs ==
  ASSUME NEW r, NEW S PROVE Range([i \in S |-> r[i]]) = Held(r, S)
BY DEF Range, Held

\* The three places of GIE's where a pool's buffers are, as slots.
LEMMA PlacesAre ==
  ASSUME IInv, NEW p \in Pairs
  PROVE  /\ InRing(p) = [i \in FullIn(p, q, msg) |-> ring[Pool[p]][i]]
         /\ InShadow(p) = [i \in FetchedIn(p, q) |-> ring["shadow"][i]]
         /\ InElements(p) = [i \in TakenIn(p, q, msg) |-> Bufs(ElemsOf(p, ring, UnreadIn(p, msg)))[i]]
<1>1. Unread(p) = UnreadIn(p, msg) /\ Around(p, q, msg)
  BY SeenIs
<1>2. q[Dst[p]].tail = q[Src[p]].head
  BY <1>1 DEF Around
<1>3. TakenIn(p, q, msg) \subseteq 0 .. QLen - 1
  BY <1>1, TakenIs
<1>4. Slots(msg[Dst[p]].cons, q[Dst[p]].tail, QLen) = TakenIn(p, q, msg)
  BY <1>2 DEF TakenIn
<1>5. InElements(p) = [i \in TakenIn(p, q, msg) |->
        ring[IF p = "ingress" /\ i \notin UnreadIn(p, msg) THEN Src[p] ELSE Dst[p]][i].buf]
  BY <1>1, <1>4 DEF InElements
<1>6. ASSUME NEW i \in TakenIn(p, q, msg)
      PROVE  Bufs(ElemsOf(p, ring, UnreadIn(p, msg)))[i]
               = ring[IF p = "ingress" /\ i \notin UnreadIn(p, msg) THEN Src[p] ELSE Dst[p]][i].buf
  <2>1. i \in 0 .. QLen - 1
    BY <1>3
  <2>2. Bufs(ElemsOf(p, ring, UnreadIn(p, msg)))[i] = ElemsOf(p, ring, UnreadIn(p, msg))[i].buf
    BY <2>1, BufsAt
  <2>3. ElemsOf(p, ring, UnreadIn(p, msg))[i]
          = IF p = "ingress" /\ i \notin UnreadIn(p, msg) THEN ring[Src[p]][i] ELSE ring[Dst[p]][i]
    BY <2>1, ElemsAt
  <2> QED BY <2>2, <2>3
<1>7. InElements(p) = [i \in TakenIn(p, q, msg) |-> Bufs(ElemsOf(p, ring, UnreadIn(p, msg)))[i]]
  BY <1>5, <1>6
<1>8. InRing(p) = [i \in FullIn(p, q, msg) |-> ring[Pool[p]][i]]
  BY DEF InRing, FullIn
<1>9. InShadow(p) = [i \in FetchedIn(p, q) |-> ring["shadow"][i]]
  BY DEF InShadow, FetchedIn
<1> QED BY <1>7, <1>8, <1>9

\* Every buffer of a pool is in one place, once.
LEMMA DataSpread == IInv /\ Data => BuffersConserved
<1> SUFFICES ASSUME IInv, Data, NEW p \in CopyPayload
             PROVE  /\ Range(InRing(p)) \cup Range(InShadow(p)) \cup Range(InElements(p)) \cup owned[p] = PoolBufs(p)
                    /\ Cardinality(DOMAIN InRing(p)) + Cardinality(DOMAIN InShadow(p))
                       + Cardinality(DOMAIN InElements(p)) + Cardinality(owned[p]) = NBufs
  BY DEF BuffersConserved
<1>1. p \in Pairs
  BY Params
<1>2. PICK b : b = Bufs(ElemsOf(p, ring, UnreadIn(p, msg)))
  OBVIOUS
<1> DEFINE r == ring[Pool[p]]
           sh == ring["shadow"]
           tk == TakenIn(p, q, msg)
           full == FullIn(p, q, msg)
           got_ == FetchedIn(p, q)
<1>3. /\ InRing(p) = [i \in full |-> r[i]] /\ InShadow(p) = [i \in got_ |-> sh[i]]
      /\ InElements(p) = [i \in tk |-> b[i]]
  BY <1>1, <1>2, PlacesAre
<1>4. Spread(PoolBufs(p), b, tk, r, full, sh, got_, owned[p])
  <2>1. DataOf(p, ring, mem, q, msg, Todo, Tails(p), owned[p])
    BY DEF Data
  <2> QED BY <2>1, <1>2, DataIs
<1>5. IsFiniteSet(tk) /\ IsFiniteSet(full) /\ IsFiniteSet(got_)
  <2>1. QLen \in Nat /\ BpLen \in Nat
    BY Params
  <2>2. IsFiniteSet({})
    BY FS_EmptySet
  <2> QED BY <2>1, <2>2, SlotsFinite DEF TakenIn, FullIn, FetchedIn
<1> HIDE DEF r, sh, tk, full, got_
<1>6. /\ Range(InRing(p)) = Held(r, full) /\ Range(InShadow(p)) = Held(sh, got_) /\ Range(InElements(p)) = Held(b, tk)
      /\ DOMAIN InRing(p) = full /\ DOMAIN InShadow(p) = got_ /\ DOMAIN InElements(p) = tk
  BY <1>3, RangeIs
<1> DEFINE A == Held(r, full)
           B == Held(sh, got_)
           C == Held(b, tk)
<1>7. /\ IsFiniteSet(A) /\ Cardinality(A) = Cardinality(full)
      /\ IsFiniteSet(B) /\ Cardinality(B) = Cardinality(got_)
      /\ IsFiniteSet(C) /\ Cardinality(C) = Cardinality(tk)
  BY <1>4, <1>5, ImageSize DEF Spread
<1>8. IsFiniteSet(PoolBufs(p)) /\ Cardinality(PoolBufs(p)) = NBufs
  BY PoolSize
<1>9. /\ A \cap B = {} /\ A \cap C = {} /\ B \cap C = {}
      /\ A \cap owned[p] = {} /\ B \cap owned[p] = {} /\ C \cap owned[p] = {}
      /\ A \cup B \cup C \cup owned[p] = PoolBufs(p)
  BY <1>4 DEF Spread
<1>10. IsFiniteSet(owned[p])
  <2>1. owned[p] \in SUBSET PoolBufs(p)
    BY <1>9
  <2> QED BY <2>1, <1>8, FS_Subset
<1> HIDE DEF A, B, C
<1>11. Cardinality(A \cup B \cup C \cup owned[p]) = Cardinality(A) + Cardinality(B) + Cardinality(C) + Cardinality(owned[p])
  BY <1>7, <1>9, <1>10, FourSize
<1>12. Range(InRing(p)) = A /\ Range(InShadow(p)) = B /\ Range(InElements(p)) = C
  BY <1>6 DEF A, B, C
<1> QED BY <1>6, <1>7, <1>8, <1>9, <1>11, <1>12

-----------------------------------------------------------------------------
(* The theorems *)

\* As long as no submission is taken in part, the data stay as they should be.
THEOREM DataInvariance == ASSUME FillFits PROVE Spec /\ []NoSplit => []Data
<1>1. IInv /\ Data /\ NoSplit /\ NoSplit' /\ [Next]_vars => Data'
  BY NextData
<1> QED BY <1>1, InitData, DataPathInvariance, PTL DEF Spec

\* What a consumer can see is complete: the element has its packet's tag and its
\* buffer the packet (gie_copy_buffers_r2l, gie_copy_buffers_l2r and
\* gie_clean_dma_jobs publish after the copies), unless dmax2_enq took part of a
\* submission, after which gie_dma_copy_single offers the array from its start:
\* MCGiePartialEnqueue shows what is published then.
THEOREM PublishedIsComplete == ASSUME FillFits PROVE Spec /\ []NoSplit => []PublishedComplete
<1>1. Spec /\ []NoSplit => []Data
  BY DataInvariance
<1> QED BY <1>1, DataComplete, DataPathInvariance, PTL

\* Every buffer of a pool is at any time in one place, once: in the pool's ring,
\* in the shadow, in an element or with the consumer (gie_get_bpool_bufs,
\* giu_gpio_recv, giu_bpool_put_buff). None is lost, and none is used twice.
THEOREM BuffersAreConserved == ASSUME FillFits PROVE Spec /\ []NoSplit => []BuffersConserved
<1>1. Spec /\ []NoSplit => []Data
  BY DataInvariance
<1> QED BY <1>1, DataSpread, DataPathInvariance, PTL

\* What a consumer can see ends with the last element of a packet: an S/G packet
\* is published as a whole (gie_copy_buffers_r2l and gie_copy_buffers_l2r give
\* buffers to all of its elements or to none).
THEOREM PacketsAreWhole == ASSUME FillFits PROVE Spec /\ []NoSplit => []SgWhole
<1>1. Spec /\ []NoSplit => []Data
  BY DataInvariance
<1> QED BY <1>1, DataWhole, DataPathInvariance, PTL

=============================================================================
