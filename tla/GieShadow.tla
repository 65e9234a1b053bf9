----------------------------- MODULE GieShadow -----------------------------
(***************************************************************************)
(* How the GIE prefetches buffers of a host pool (gie.c: gie_bpool_fill_-  *)
(* shadow, gie_get_rem_bpool_bufs, gie_get_shadow_bpool_buf): the entries  *)
(* of the host's ring are copied by DMA, in the background, to the same    *)
(* slots of a local ring, the shadow, and consumed from there.  Only the   *)
(* indices are kept here; Gie has the copies themselves.                   *)
(***************************************************************************)
EXTENDS GieRing

CONSTANTS BpLen,       \* length of the host's ring and of its shadow
          Batch,       \* GIE_MAX_QES_IN_BATCH
          FillSize,    \* GIE_SHADOW_FILL_SIZE
          FillThresh   \* GIE_SHADOW_FILL_THRESH

VARIABLES pool,    \* the pool's queue: src_q of struct gie_bpool
          shadow,  \* the shadow's queue
          prod,    \* the host's published producer index
          cons     \* the consumer index the GIE published

vars == <<pool, shadow, prod, cons>>

Parameters == {BpLen, Batch, FillSize, FillThresh} \subseteq Nat \ {0}

\* What makes a fill fit: the shadow holds fewer than FillThresh (or than a
\* batch of) buffers when a fill starts.  Nothing in the code checks it.
FillFits == Batch <= FillThresh /\ FillThresh + FillSize <= BpLen

Init ==
  /\ pool = ResetQueue /\ shadow = ResetQueue
  /\ prod \in 0 .. BpLen - 1 /\ cons = 0

\* The host posts a buffer while its ring has room.
HostPut ==
  /\ Space(prod, cons, BpLen) >= 1
  /\ prod' = q_idx_add(prod, 1, BpLen)
  /\ UNCHANGED <<pool, shadow, cons>>

\* gie_clean_dma_jobs: k entries of the copy under way have arrived.
CopyDone(k) ==
  /\ k <= qes_in_copy(pool, BpLen)
  /\ pool' = [pool EXCEPT !.qe_head = q_idx_add(@, k, BpLen)]
  /\ UNCHANGED <<shadow, prod, cons>>

Take(sh, n) == [sh EXCEPT !.head = q_idx_add(@, n, BpLen)]

\* gie_bpool_fill_shadow, followed by the n buffers the batch takes.  The three
\* cases: a copy is under way; one has arrived and is taken into account; or a
\* new one is submitted.
Wait(n) ==
  /\ qes_in_copy(pool, BpLen) > 0
  /\ shadow' = Take(shadow, n)
  /\ UNCHANGED <<pool, prod, cons>>

Account(n) ==
  LET copied == qes_copied(pool, BpLen)
      head == q_idx_add(pool.head, copied, BpLen)
  IN /\ qes_in_copy(pool, BpLen) = 0 /\ copied > 0
     /\ shadow' = [Take(shadow, n) EXCEPT !.tail = q_idx_add(@, copied, BpLen)]
     /\ pool' = [pool EXCEPT !.head = head]
     /\ cons' = head
     /\ UNCHANGED prod

\* (mutants: a copy under way is not waited for; more is copied than was posted)
Submit_NoWait(n) ==
  LET fill == Lesser(FillSize, Occupancy(prod, pool.head, BpLen))
  IN /\ qes_copied(pool, BpLen) = 0
     /\ pool' = [pool EXCEPT !.tail = prod, !.qe_tail = q_idx_add(@, fill, BpLen)]
     /\ shadow' = Take(shadow, n)
     /\ UNCHANGED <<prod, cons>>
Submit_All(n) ==
  /\ qes_in_copy(pool, BpLen) = 0 /\ qes_copied(pool, BpLen) = 0
  /\ pool' = [pool EXCEPT !.tail = prod, !.qe_tail = q_idx_add(@, FillSize, BpLen)]
  /\ shadow' = Take(shadow, n)
  /\ UNCHANGED <<prod, cons>>

Submit(n) ==
  LET fill == Lesser(FillSize, Occupancy(prod, pool.head, BpLen))
  IN /\ qes_in_copy(pool, BpLen) = 0 /\ qes_copied(pool, BpLen) = 0
     /\ pool' = [pool EXCEPT !.tail = prod, !.qe_tail = q_idx_add(@, fill, BpLen)]
     /\ shadow' = Take(shadow, n)
     /\ UNCHANGED <<prod, cons>>

\* A batch of "qes" elements that takes n buffers: the shadow is refilled when
\* it is low, and the buffers come from what it held before.
Low(qes) ==
  q_occupancy(shadow, BpLen) < FillThresh \/ q_occupancy(shadow, BpLen) < qes

Process(qes, n) ==
  /\ n <= qes /\ n <= q_occupancy(shadow, BpLen)
  /\ IF Low(qes)
     THEN Wait(n) \/ Account(n) \/ Submit(n)
     ELSE shadow' = Take(shadow, n) /\ UNCHANGED <<pool, prod, cons>>

Next ==
  \/ HostPut
  \/ \E k \in 1 .. BpLen - 1 : CopyDone(k)
  \/ \E qes, n \in 0 .. Batch : Process(qes, n)

Spec == Init /\ [][Next]_vars

-----------------------------------------------------------------------------
TypeOK ==
  /\ pool \in Indices(BpLen) /\ shadow \in Indices(BpLen)
  /\ prod \in 0 .. BpLen - 1 /\ cons \in 0 .. BpLen - 1

\* The slots of the shadow a copy writes, submitted or not yet accounted for.
Filling == Slots(pool.head, pool.qe_tail, BpLen)

\* A fill never writes a slot of the shadow whose buffer is still waiting to be
\* used, and accounting for it leaves the shadow's ring short of full, so that
\* none of its buffers is lost (gie.c:580-582, "if we got here, there is space").
ShadowRoom ==
  /\ Filling \cap Slots(shadow.head, shadow.tail, BpLen) = {}
  /\ q_occupancy(shadow, BpLen) + Occupancy(pool.qe_tail, pool.head, BpLen) < BpLen

\* The entries that are copied are the host's to leave alone: they were posted,
\* and their slots have not been given back.
FillPosted == Filling \subseteq Slots(cons, prod, BpLen)
=============================================================================
