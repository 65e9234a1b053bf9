---------------------------- MODULE MCGiuInterim ----------------------------
EXTENDS GiuInterim

\* One queue of the guest and two of the host; two of the host and one of the guest
\* in the other direction.
Src1 == [out |-> 1, in |-> 2]
Dst2 == [out |-> 2, in |-> 1]
\* Two queues of the guest and one of the host.
Src2 == [out |-> 2]
Dst1 == [out |-> 1]
\* One queue of each.
Src1o == [out |-> 1]
Dst2o == [out |-> 2]
\* Three queues of the guest.
Src3 == [out |-> 3]
=============================================================================
