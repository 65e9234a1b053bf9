------------------------------ MODULE GieRing ------------------------------
(***************************************************************************)
(* Index arithmetic of the GIE rings (gie_int.h, the "queue handling       *)
(* macros").  A queue is a record with the four private indices of         *)
(* struct gie_queue; qlen is the length of its ring, a power of two, so    *)
(* that the "& (qlen - 1)" of the macros is "% qlen".                      *)
(***************************************************************************)
EXTENDS Integers

Indices(qlen) == [tail: 0 .. qlen - 1, head: 0 .. qlen - 1,
                  qe_tail: 0 .. qlen - 1, qe_head: 0 .. qlen - 1]

ResetQueue == [tail |-> 0, head |-> 0, qe_tail |-> 0, qe_head |-> 0]

q_idx_add(idx, val, qlen) == (idx + val) % qlen

\* QUEUE_OCCUPANCY of the ring users and q_occupancy of the GIE are the same.
Occupancy(prod, cons, qlen) == (prod - cons + qlen) % qlen
Space(prod, cons, qlen) == qlen - Occupancy(prod, cons, qlen) - 1

q_occupancy(q, qlen) == Occupancy(q.tail, q.head, qlen)
q_space(q, qlen) == qlen - q_occupancy(q, qlen) - 1
q_empty(q) == q.tail = q.head

qes_to_copy(q, qlen) == (q.tail - q.qe_tail + qlen) % qlen
qes_copy_space_Produced(q, qlen) == q_space(q, qlen)  \* (mutant: copies under way)
qes_copy_space(q, qlen) == (q.head - q.qe_tail + qlen - 1) % qlen
qes_in_copy(q, qlen) == (q.qe_tail - q.qe_head + qlen) % qlen
qes_copied(q, qlen) == (q.qe_head - q.head + qlen) % qlen

Lesser(a, b) == IF a < b THEN a ELSE b

\* The slots from "from" (inclusive) to "to" (exclusive), going round the ring.
Slots(from, to, qlen) ==
  {i \in 0 .. qlen - 1 : (i - from + qlen) % qlen < (to - from + qlen) % qlen}
=============================================================================
