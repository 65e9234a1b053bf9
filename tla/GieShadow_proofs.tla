-------------------------- MODULE GieShadow_proofs --------------------------
(***************************************************************************)
(* For every ring length, batch and fill size that satisfy FillFits, the   *)
(* prefetch of a host pool never overruns its shadow and copies posted     *)
(* entries only.                                                           *)
(***************************************************************************)
EXTENDS GieShadow, TLAPS

-----------------------------------------------------------------------------
(* Indices.  Each "%" is first replaced by a conditional subtraction,      *)
(* after which everything is linear.                                       *)

\* One subtraction is enough for a number below twice the modulus.
LEMMA ModWrap ==
  ASSUME NEW n \in Nat \ {0}, NEW x \in 0 .. 2 * n - 1
  PROVE  x % n = IF x < n THEN x ELSE x - n
  OBVIOUS

LEMMA OccupancyCases ==
  ASSUME NEW n \in Nat \ {0}, NEW a \in 0 .. n - 1, NEW b \in 0 .. n - 1
  PROVE  /\ Occupancy(a, b, n) = IF a >= b THEN a - b ELSE a - b + n
         /\ Occupancy(a, b, n) \in 0 .. n - 1
<1> DEFINE x == a - b + n
<1>1. x \in 0 .. 2 * n - 1
  OBVIOUS
<1>2. x % n = IF x < n THEN x ELSE x - n
  <2> HIDE DEF x
  <2> QED BY <1>1, ModWrap
<1> QED
  BY <1>1, <1>2 DEF Occupancy

LEMMA AddCases ==
  ASSUME NEW n \in Nat \ {0}, NEW a \in 0 .. n - 1, NEW k \in 0 .. n - 1
  PROVE  /\ q_idx_add(a, k, n) = IF a + k < n THEN a + k ELSE a + k - n
         /\ q_idx_add(a, k, n) \in 0 .. n - 1
<1> DEFINE x == a + k
<1>1. x \in 0 .. 2 * n - 1
  OBVIOUS
<1>2. x % n = IF x < n THEN x ELSE x - n
  <2> HIDE DEF x
  <2> QED BY <1>1, ModWrap
<1> QED
  BY <1>1, <1>2 DEF q_idx_add

\* The producer of a ring that has room for k moves it k further from any
\* index it does not overtake.
LEMMA ProducerMoves ==
  ASSUME NEW n \in Nat \ {0}, NEW a \in 0 .. n - 1, NEW b \in 0 .. n - 1,
         NEW k \in 0 .. n - 1, Occupancy(a, b, n) + k < n
  PROVE  /\ q_idx_add(a, k, n) \in 0 .. n - 1
         /\ Occupancy(q_idx_add(a, k, n), b, n) = Occupancy(a, b, n) + k
<1> DEFINE c == q_idx_add(a, k, n)
<1>1. c = (IF a + k < n THEN a + k ELSE a + k - n) /\ c \in 0 .. n - 1
  BY AddCases
<1>2. Occupancy(a, b, n) = IF a >= b THEN a - b ELSE a - b + n
  BY OccupancyCases
<1>3. Occupancy(c, b, n) = IF c >= b THEN c - b ELSE c - b + n
  BY <1>1, OccupancyCases
<1> HIDE DEF c
<1>4. Occupancy(c, b, n) = Occupancy(a, b, n) + k
  BY <1>1, <1>2, <1>3
<1> QED
  BY <1>1, <1>4 DEF c

\* A consumer that takes k of the elements there are leaves k fewer.
LEMMA ConsumerMoves ==
  ASSUME NEW n \in Nat \ {0}, NEW a \in 0 .. n - 1, NEW b \in 0 .. n - 1,
         NEW k \in 0 .. n - 1, k <= Occupancy(a, b, n)
  PROVE  /\ q_idx_add(b, k, n) \in 0 .. n - 1
         /\ Occupancy(a, q_idx_add(b, k, n), n) = Occupancy(a, b, n) - k
<1> DEFINE c == q_idx_add(b, k, n)
<1>1. c = (IF b + k < n THEN b + k ELSE b + k - n) /\ c \in 0 .. n - 1
  BY AddCases
<1>2. Occupancy(a, b, n) = IF a >= b THEN a - b ELSE a - b + n
  BY OccupancyCases
<1>3. Occupancy(a, c, n) = IF a >= c THEN a - c ELSE a - c + n
  BY <1>1, OccupancyCases
<1> HIDE DEF c
<1>4. Occupancy(a, c, n) = Occupancy(a, b, n) - k
  BY <1>1, <1>2, <1>3
<1> QED
  BY <1>1, <1>4 DEF c

\* An index between the consumer b and the producer a splits the distance.
LEMMA Between ==
  ASSUME NEW n \in Nat \ {0}, NEW a \in 0 .. n - 1, NEW b \in 0 .. n - 1,
         NEW c \in 0 .. n - 1, Occupancy(c, b, n) <= Occupancy(a, b, n)
  PROVE  Occupancy(a, c, n) = Occupancy(a, b, n) - Occupancy(c, b, n)
<1>1. Occupancy(a, b, n) = IF a >= b THEN a - b ELSE a - b + n
  BY OccupancyCases
<1>2. Occupancy(c, b, n) = IF c >= b THEN c - b ELSE c - b + n
  BY OccupancyCases
<1>3. Occupancy(a, c, n) = IF a >= c THEN a - c ELSE a - c + n
  BY OccupancyCases
<1> QED
  BY <1>1, <1>2, <1>3

\* A shorter stretch from the same slot is part of a longer one.
LEMMA SlotsGrow ==
  ASSUME NEW n \in Nat \ {0}, NEW from \in 0 .. n - 1, NEW a \in 0 .. n - 1,
         NEW c \in 0 .. n - 1, Occupancy(c, from, n) <= Occupancy(a, from, n)
  PROVE  Slots(from, c, n) \subseteq Slots(from, a, n)
<1> SUFFICES ASSUME NEW i \in 0 .. n - 1,
                    Occupancy(i, from, n) < Occupancy(c, from, n)
             PROVE  Occupancy(i, from, n) < Occupancy(a, from, n)
  BY DEF Slots, Occupancy
<1> QED
  BY OccupancyCases

\* Two stretches that follow each other and together leave a slot free do not
\* meet.
LEMMA SlotsApart ==
  ASSUME NEW n \in Nat \ {0}, NEW a \in 0 .. n - 1, NEW b \in 0 .. n - 1,
         NEW c \in 0 .. n - 1, Occupancy(b, a, n) + Occupancy(c, b, n) < n
  PROVE  Slots(b, c, n) \cap Slots(a, b, n) = {}
<1> SUFFICES ASSUME NEW i \in 0 .. n - 1,
                    Occupancy(i, b, n) < Occupancy(c, b, n),
                    Occupancy(i, a, n) < Occupancy(b, a, n)
             PROVE  FALSE
  BY DEF Slots, Occupancy
<1>1. Occupancy(i, b, n) = IF i >= b THEN i - b ELSE i - b + n
  BY OccupancyCases
<1>2. Occupancy(c, b, n) = IF c >= b THEN c - b ELSE c - b + n
  BY OccupancyCases
<1>3. Occupancy(i, a, n) = IF i >= a THEN i - a ELSE i - a + n
  BY OccupancyCases
<1>4. Occupancy(b, a, n) = IF b >= a THEN b - a ELSE b - a + n
  BY OccupancyCases
<1> QED
  BY <1>1, <1>2, <1>3, <1>4

-----------------------------------------------------------------------------

\* Distances from the pool's head, the slot the shadow's tail is at too.
Arrived == Occupancy(pool.qe_head, pool.head, BpLen)
Submitted == Occupancy(pool.qe_tail, pool.head, BpLen)
PostedOnes == Occupancy(prod, pool.head, BpLen)
Held == Occupancy(shadow.tail, shadow.head, BpLen)

\* The shadow is filled from where the pool is emptied; the indices of the pool
\* are in order; what is held and what is coming leave a slot free.
IInv ==
  /\ TypeOK
  /\ shadow.tail = pool.head /\ cons = pool.head
  /\ Arrived <= Submitted /\ Submitted <= PostedOnes
  /\ Held + Submitted < BpLen

LEMMA InitInv == ASSUME Parameters PROVE Init => IInv
<1> SUFFICES ASSUME Init PROVE IInv
  OBVIOUS
<1>1. BpLen \in Nat \ {0}
  BY DEF Parameters
<1>2. /\ Occupancy(0, 0, BpLen) = 0
      /\ Occupancy(prod, 0, BpLen) \in 0 .. BpLen - 1
  BY <1>1, OccupancyCases DEF Init
<1> QED
  BY <1>1, <1>2 DEF Init, IInv, TypeOK, Indices, ResetQueue,
                    Arrived, Submitted, PostedOnes, Held

\* The state of an index-level step, with every distance in range.
LEMMA Distances ==
  ASSUME Parameters, TypeOK
  PROVE  /\ BpLen \in Nat \ {0}
         /\ pool.head \in 0 .. BpLen - 1 /\ pool.qe_head \in 0 .. BpLen - 1
         /\ pool.qe_tail \in 0 .. BpLen - 1 /\ pool.tail \in 0 .. BpLen - 1
         /\ shadow.head \in 0 .. BpLen - 1 /\ shadow.tail \in 0 .. BpLen - 1
         /\ prod \in 0 .. BpLen - 1 /\ cons \in 0 .. BpLen - 1
         /\ Arrived \in 0 .. BpLen - 1 /\ Submitted \in 0 .. BpLen - 1
         /\ PostedOnes \in 0 .. BpLen - 1 /\ Held \in 0 .. BpLen - 1
<1>1. /\ BpLen \in Nat \ {0}
      /\ pool.head \in 0 .. BpLen - 1 /\ pool.qe_head \in 0 .. BpLen - 1
      /\ pool.qe_tail \in 0 .. BpLen - 1 /\ pool.tail \in 0 .. BpLen - 1
      /\ shadow.head \in 0 .. BpLen - 1 /\ shadow.tail \in 0 .. BpLen - 1
      /\ prod \in 0 .. BpLen - 1 /\ cons \in 0 .. BpLen - 1
  BY DEF Parameters, TypeOK, Indices
<1> QED
  BY <1>1, OccupancyCases DEF Arrived, Submitted, PostedOnes, Held

\* What the GIE reads from its indices, as differences of distances.
LEMMA CopyState ==
  ASSUME Parameters, IInv
  PROVE  /\ qes_in_copy(pool, BpLen) = Submitted - Arrived
         /\ qes_copied(pool, BpLen) = Arrived
         /\ q_occupancy(shadow, BpLen) = Held
<1>1. TypeOK /\ Arrived <= Submitted
  BY DEF IInv
<1>2. Occupancy(pool.qe_tail, pool.qe_head, BpLen) = Submitted - Arrived
  BY <1>1, Distances, Between DEF Arrived, Submitted
<1> QED
  BY <1>2 DEF qes_in_copy, qes_copied, q_occupancy, Occupancy, Arrived, Held

\* Taking n of the buffers held moves the head of the shadow.
LEMMA TakeHeld ==
  ASSUME Parameters, IInv, NEW n \in 0 .. BpLen - 1, n <= Held
  PROVE  /\ q_idx_add(shadow.head, n, BpLen) \in 0 .. BpLen - 1
         /\ Occupancy(shadow.tail, q_idx_add(shadow.head, n, BpLen), BpLen) = Held - n
  BY Distances, ConsumerMoves DEF IInv, Held

\* The host only posts more.
LEMMA HostPutInv == ASSUME Parameters, IInv, HostPut PROVE IInv'
<1>1. TypeOK
  BY DEF IInv
<1>2. Occupancy(prod, pool.head, BpLen) + 1 < BpLen
  BY <1>1, Distances DEF HostPut, Space, IInv, PostedOnes
<1>3. 1 \in 0 .. BpLen - 1
  BY <1>1, <1>2, Distances DEF PostedOnes
<1>4. /\ prod' \in 0 .. BpLen - 1
      /\ PostedOnes' = PostedOnes + 1
  BY <1>1, <1>2, <1>3, Distances, ProducerMoves DEF HostPut, PostedOnes
<1>5. UNCHANGED <<pool, shadow, cons>>
  BY DEF HostPut
<1> QED
  BY <1>1, <1>4, <1>5, Distances
  DEF IInv, TypeOK, Arrived, Submitted, Held

\* What arrives was submitted.
LEMMA CopyDoneInv ==
  ASSUME Parameters, IInv, NEW k \in 1 .. BpLen - 1, CopyDone(k) PROVE IInv'
<1>1. TypeOK
  BY DEF IInv
<1>2. k <= Submitted - Arrived
  BY CopyState DEF CopyDone
<1>3. k \in 0 .. BpLen - 1 /\ Occupancy(pool.qe_head, pool.head, BpLen) + k < BpLen
  BY <1>1, <1>2, Distances DEF Arrived
<1>4. /\ q_idx_add(pool.qe_head, k, BpLen) \in 0 .. BpLen - 1
      /\ Occupancy(q_idx_add(pool.qe_head, k, BpLen), pool.head, BpLen) = Arrived + k
  BY <1>1, <1>3, Distances, ProducerMoves DEF Arrived
<1>5. /\ pool' = [pool EXCEPT !.qe_head = q_idx_add(@, k, BpLen)]
      /\ UNCHANGED <<shadow, prod, cons>>
  BY DEF CopyDone
<1>6. TypeOK'
  BY <1>1, <1>4, <1>5 DEF TypeOK, Indices
<1>7. /\ pool'.head = pool.head /\ pool'.qe_tail = pool.qe_tail
      /\ pool'.qe_head = q_idx_add(pool.qe_head, k, BpLen)
  BY <1>1, <1>5 DEF TypeOK, Indices
<1>8. Arrived' = Arrived + k /\ Submitted' = Submitted
      /\ PostedOnes' = PostedOnes /\ Held' = Held
  BY <1>4, <1>5, <1>7 DEF Arrived, Submitted, PostedOnes, Held
<1> QED
  BY <1>1, <1>2, <1>5, <1>6, <1>7, <1>8, Distances DEF IInv

\* A batch that starts no fill and accounts for none.
LEMMA WaitInv ==
  ASSUME Parameters, IInv, NEW n \in 0 .. BpLen - 1, n <= Held,
         shadow' = Take(shadow, n), UNCHANGED <<pool, prod, cons>>
  PROVE  IInv'
<1>1. TypeOK
  BY DEF IInv
<1>2. /\ q_idx_add(shadow.head, n, BpLen) \in 0 .. BpLen - 1
      /\ Occupancy(shadow.tail, q_idx_add(shadow.head, n, BpLen), BpLen) = Held - n
  BY TakeHeld
<1>3. TypeOK'
  BY <1>1, <1>2 DEF TypeOK, Indices, Take
<1>4. shadow'.tail = shadow.tail /\ shadow'.head = q_idx_add(shadow.head, n, BpLen)
  BY <1>1 DEF TypeOK, Indices, Take
<1>5. Arrived' = Arrived /\ Submitted' = Submitted
      /\ PostedOnes' = PostedOnes /\ Held' = Held - n
  BY <1>2, <1>4 DEF Arrived, Submitted, PostedOnes, Held
<1> QED
  BY <1>1, <1>3, <1>4, <1>5, Distances DEF IInv

\* Accounting moves the pool's head and the shadow's tail together, to where
\* the copy has got.
LEMMA AccountInv ==
  ASSUME Parameters, IInv, NEW n \in 0 .. BpLen - 1, n <= Held, Account(n)
  PROVE  IInv'
<1> DEFINE k == Arrived
<1> DEFINE h == q_idx_add(pool.head, k, BpLen)
<1>1. TypeOK /\ k \in 0 .. BpLen - 1 /\ k <= Submitted /\ k <= PostedOnes
  BY Distances DEF IInv
<1>2. Submitted = k
  BY <1>1, CopyState, Distances DEF Account
<1>3. /\ h \in 0 .. BpLen - 1
      /\ Occupancy(pool.qe_head, h, BpLen) = 0
      /\ Occupancy(pool.qe_tail, h, BpLen) = 0
      /\ Occupancy(prod, h, BpLen) = PostedOnes - k
  <2>0. /\ BpLen \in Nat \ {0} /\ pool.head \in 0 .. BpLen - 1
        /\ pool.qe_head \in 0 .. BpLen - 1 /\ pool.qe_tail \in 0 .. BpLen - 1
        /\ prod \in 0 .. BpLen - 1
    BY <1>1, Distances
  <2>1. Occupancy(pool.qe_head, pool.head, BpLen) = k
    BY DEF Arrived
  <2>2. Occupancy(pool.qe_tail, pool.head, BpLen) = k
    BY <1>2 DEF Submitted
  <2>3. k <= Occupancy(prod, pool.head, BpLen)
    BY <1>1 DEF PostedOnes
  <2> HIDE DEF k
  <2>4. h \in 0 .. BpLen - 1 /\ Occupancy(pool.qe_head, h, BpLen) = k - k
    BY <1>1, <2>0, <2>1, ConsumerMoves
  <2>5. Occupancy(pool.qe_tail, h, BpLen) = k - k
    BY <1>1, <2>0, <2>2, ConsumerMoves
  <2>6. Occupancy(prod, h, BpLen) = PostedOnes - k
    BY <1>1, <2>0, <2>3, ConsumerMoves DEF PostedOnes
  <2> QED
    BY <1>1, <2>4, <2>5, <2>6
<1>4. /\ q_idx_add(shadow.head, n, BpLen) \in 0 .. BpLen - 1
      /\ Occupancy(shadow.tail, q_idx_add(shadow.head, n, BpLen), BpLen) = Held - n
  BY TakeHeld
<1>5. Occupancy(h, q_idx_add(shadow.head, n, BpLen), BpLen) = Held - n + k
  <2>1. Held - n + k < BpLen
    BY <1>1, <1>2, Distances DEF IInv
  <2>2. h = q_idx_add(shadow.tail, k, BpLen)
    BY DEF IInv
  <2> HIDE DEF h, k
  <2> QED
    BY <1>1, <1>4, <2>1, <2>2, Distances, ProducerMoves
<1>6. /\ shadow' = [Take(shadow, n) EXCEPT !.tail = h]
      /\ pool' = [pool EXCEPT !.head = h]
      /\ cons' = h /\ prod' = prod
  BY CopyState DEF Account, IInv, Take
<1> HIDE DEF h
<1>7. TypeOK'
  BY <1>1, <1>3, <1>4, <1>6 DEF TypeOK, Indices, Take
<1>8. /\ pool'.head = h /\ pool'.qe_head = pool.qe_head /\ pool'.qe_tail = pool.qe_tail
      /\ shadow'.tail = h /\ shadow'.head = q_idx_add(shadow.head, n, BpLen)
  BY <1>1, <1>6 DEF TypeOK, Indices, Take
<1>9. Arrived' = 0 /\ Submitted' = 0 /\ PostedOnes' = PostedOnes - k /\ Held' = Held - n + k
  BY <1>3, <1>5, <1>6, <1>8 DEF Arrived, Submitted, PostedOnes, Held
<1> QED
  BY <1>1, <1>2, <1>6, <1>7, <1>8, <1>9, Distances DEF IInv

\* A fill starts from a shadow that is low, hence holds fewer than FillThresh:
\* the one place that needs FillFits.
LEMMA SubmitInv ==
  ASSUME Parameters, FillFits, IInv, NEW qes \in 0 .. Batch, Low(qes),
         NEW n \in 0 .. BpLen - 1, n <= Held, Submit(n)
  PROVE  IInv'
<1> DEFINE fill == Lesser(FillSize, PostedOnes)
<1>1. TypeOK /\ Arrived <= Submitted
  BY DEF IInv
<1>2. Submitted = 0 /\ Arrived = 0
  BY <1>1, CopyState, Distances DEF Submit
<1>3. Held < FillThresh
  BY <1>1, CopyState, Distances DEF Low, FillFits, Parameters
<1>4. fill \in 0 .. BpLen - 1 /\ fill <= FillSize /\ fill <= PostedOnes
  BY <1>1, Distances DEF Lesser, Parameters
<1>5. /\ pool' = [pool EXCEPT !.tail = prod, !.qe_tail = q_idx_add(@, fill, BpLen)]
      /\ shadow' = Take(shadow, n)
      /\ UNCHANGED <<prod, cons>>
  BY DEF Submit, PostedOnes
<1> HIDE DEF fill
<1>6. /\ q_idx_add(pool.qe_tail, fill, BpLen) \in 0 .. BpLen - 1
      /\ Occupancy(q_idx_add(pool.qe_tail, fill, BpLen), pool.head, BpLen) = fill
  <2>1. Occupancy(pool.qe_tail, pool.head, BpLen) = 0
    BY <1>2 DEF Submitted
  <2>2. Occupancy(pool.qe_tail, pool.head, BpLen) + fill < BpLen
    BY <1>1, <1>4, <2>1, Distances
  <2> QED
    BY <1>1, <1>4, <2>1, <2>2, Distances, ProducerMoves
<1>7. /\ q_idx_add(shadow.head, n, BpLen) \in 0 .. BpLen - 1
      /\ Occupancy(shadow.tail, q_idx_add(shadow.head, n, BpLen), BpLen) = Held - n
  BY TakeHeld
<1>8. TypeOK'
  BY <1>1, <1>5, <1>6, <1>7, Distances DEF TypeOK, Indices, Take
<1>9. /\ pool'.head = pool.head /\ pool'.qe_head = pool.qe_head
      /\ pool'.qe_tail = q_idx_add(pool.qe_tail, fill, BpLen)
      /\ shadow'.tail = shadow.tail /\ shadow'.head = q_idx_add(shadow.head, n, BpLen)
  BY <1>1, <1>5 DEF TypeOK, Indices, Take
<1>10. /\ Arrived' = Arrived /\ Submitted' = fill
       /\ PostedOnes' = PostedOnes /\ Held' = Held - n
  BY <1>5, <1>6, <1>7, <1>9 DEF Arrived, Submitted, PostedOnes, Held
<1>11. Held - n + fill < BpLen
  BY <1>1, <1>3, <1>4, Distances DEF FillFits, Parameters
<1> QED
  BY <1>2, <1>4, <1>5, <1>8, <1>9, <1>10, <1>11 DEF IInv

LEMMA NextInv ==
  ASSUME Parameters, FillFits PROVE IInv /\ [Next]_vars => IInv'
<1> SUFFICES ASSUME IInv, [Next]_vars PROVE IInv'
  OBVIOUS
<1>1. CASE HostPut
  BY <1>1, HostPutInv
<1>2. ASSUME NEW k \in 1 .. BpLen - 1, CopyDone(k) PROVE IInv'
  BY <1>2, CopyDoneInv
<1>3. ASSUME NEW qes \in 0 .. Batch, NEW n \in 0 .. Batch, Process(qes, n) PROVE IInv'
  <2>1. n \in 0 .. BpLen - 1 /\ n <= Held
    BY <1>3, CopyState, Distances DEF Process, IInv, Parameters
  <2>2. CASE Low(qes) /\ Wait(n)
    BY <2>1, <2>2, WaitInv DEF Wait
  <2>3. CASE Low(qes) /\ Account(n)
    BY <2>1, <2>3, AccountInv
  <2>4. CASE Low(qes) /\ Submit(n)
    BY <2>1, <2>4, SubmitInv
  <2>5. CASE shadow' = Take(shadow, n) /\ UNCHANGED <<pool, prod, cons>>
    BY <2>1, <2>5, WaitInv
  <2> QED
    BY <1>3, <2>2, <2>3, <2>4, <2>5 DEF Process
<1>4. CASE UNCHANGED vars
  BY <1>4 DEF IInv, TypeOK, Arrived, Submitted, PostedOnes, Held, vars
<1> QED
  BY <1>1, <1>2, <1>3, <1>4 DEF Next

\* The distances say what the properties say of the slots.
LEMMA InvImplies ==
  ASSUME Parameters PROVE IInv => TypeOK /\ ShadowRoom /\ FillPosted
<1> SUFFICES ASSUME IInv PROVE TypeOK /\ ShadowRoom /\ FillPosted
  OBVIOUS
<1>1. TypeOK
  BY DEF IInv
<1>2. Slots(pool.head, pool.qe_tail, BpLen) \cap Slots(shadow.head, pool.head, BpLen) = {}
  <2>1. Occupancy(pool.head, shadow.head, BpLen)
          + Occupancy(pool.qe_tail, pool.head, BpLen) < BpLen
    BY DEF IInv, Held, Submitted
  <2> QED
    BY <1>1, <2>1, Distances, SlotsApart
<1>3. ShadowRoom
  BY <1>2 DEF ShadowRoom, Filling, IInv, q_occupancy, Occupancy, Held, Submitted
<1>4. FillPosted
  <2>1. Occupancy(pool.qe_tail, pool.head, BpLen) <= Occupancy(prod, pool.head, BpLen)
    BY DEF IInv, Submitted, PostedOnes
  <2> QED
    BY <1>1, <2>1, Distances, SlotsGrow DEF FillPosted, Filling, IInv
<1> QED
  BY <1>1, <1>3, <1>4

\* The indices of a pool and of its shadow stay within their rings
\* (gie_bpool_fill_shadow), whatever the length.
THEOREM ShadowTypeOK ==
  ASSUME Parameters, FillFits PROVE Spec => []TypeOK
<1>1. Init => IInv
  BY InitInv
<1>2. IInv /\ [Next]_vars => IInv'
  BY NextInv
<1>3. IInv => TypeOK
  BY InvImplies
<1> QED
  BY <1>1, <1>2, <1>3, PTL DEF Spec

\* When a threshold and a fill fit in the ring, a background fill never meets a
\* buffer that waits in the shadow and never makes the shadow look empty: what
\* the comment at gie.c:580 takes for granted.
THEOREM ShadowNeverOverrun ==
  ASSUME Parameters, FillFits PROVE Spec => []ShadowRoom
<1>1. Init => IInv
  BY InitInv
<1>2. IInv /\ [Next]_vars => IInv'
  BY NextInv
<1>3. IInv => ShadowRoom
  BY InvImplies
<1> QED
  BY <1>1, <1>2, <1>3, PTL DEF Spec

\* Only posted entries are prefetched, and their slots are given back to the
\* host after they have arrived (gie.c:566-569), never before.
THEOREM PrefetchPosted ==
  ASSUME Parameters, FillFits PROVE Spec => []FillPosted
<1>1. Init => IInv
  BY InitInv
<1>2. IInv /\ [Next]_vars => IInv'
  BY NextInv
<1>3. IInv => FillPosted
  BY InvImplies
<1> QED
  BY <1>1, <1>2, <1>3, PTL DEF Spec
=============================================================================
