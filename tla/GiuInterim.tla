----------------------------- MODULE GiuInterim -----------------------------
(***************************************************************************)
(* The interim queues of a GPIO (drivers/giu/giu_gpio.c).  The card's      *)
(* application (the guest) sees as many queues as it asked for, the GIE    *)
(* as many as the host has.  In the direction "out" giu_gpio_pre_gie       *)
(* spreads what the guest sent over the queues of the GIE, in "in"         *)
(* giu_gpio_post_gie spreads what the GIE delivered over those of the      *)
(* guest.  A pass goes from source rings to destination rings; in "out" a  *)
(* descriptor counts as consumed only when the GIE has consumed its copy,  *)
(* which a shadow queue remembers.                                         *)
(***************************************************************************)
EXTENDS Integers, Sequences, SequencesExt

CONSTANTS
  Dirs,      \* directions that are modelled, a part of {"out", "in"}
  NumSrc,    \* of a direction: the source queues of a traffic class
  NumDst,    \*                 the destination queues
  SrcLen, DstLen,
  NumIntcs,  \* traffic classes of the guest (num_intcs)
  Sizes,     \* descriptors per packet; more than one (two at most) needs sg_en
  Hashes,    \* whose the hashes are: "packet", the descriptors of a packet have the same
             \* (the sender has written it, GIU_TXD_HK_MODE), or each "descriptor" its own
  Drained    \* whether the guest restarts only when the GIE's queues are empty

ASSUME InterimAssumption ==
  /\ Dirs \subseteq {"out", "in"}
  /\ NumSrc \in [Dirs -> Nat \ {0}] /\ NumDst \in [Dirs -> Nat \ {0}]
  /\ {SrcLen, DstLen} \subseteq Nat \ {0, 1} /\ Sizes \subseteq {1, 2}
  /\ Hashes \subseteq {"packet", "descriptor"} /\ Drained \in BOOLEAN
  /\ NumIntcs \in Nat \ {0}

\* giu_gpio_post_gie has an array entry per traffic class and uses one per queue of the
\* guest (giu_gpio.c:504-515): with more queues than classes what it does is undefined.
ASSUME ArraysFit == "in" \in Dirs => NumDst["in"] <= NumIntcs

VARIABLES
  dir,      \* the direction this behaviour is about
  hash,     \* and whose its hashes are
  src,      \* source rings: the descriptors from the consumer word on, and that word
  dst,      \* destination rings, likewise
  shadow,   \* per source: where its oldest descriptors were copied to (descs)
  last,     \* last_interim_qid or last_qid
  pass,     \* the locals of the function: turn (q), break_..._loop, free_count,
            \* prod_val, cons_val, and the copies no producer word tells of yet
  enabled,  \* is_enable
  sending,  \* whether the producer goes on
  sent      \* history: how many descriptors of each flow were sent and not taken;
            \* descriptors of a flow are numbered from the oldest of these

vars == <<dir, hash, src, dst, shadow, last, pass, enabled, sending, sent>>

Srcs == 0 .. NumSrc[dir] - 1
Dsts == 0 .. NumDst[dir] - 1
Zero == [q \in Srcs |-> [d \in Dsts |-> 0]]
NoPass == [on |-> FALSE, turn |-> 0, break |-> FALSE, free |-> <<>>, prod |-> <<>>,
           cons |-> <<>>, new |-> <<>>]
\* Indices are compared in the direction "out" only, and kept there only.
Index(i, len) == IF dir = "out" THEN i % len ELSE 0
EmptyRing == [buf |-> <<>>, cons |-> 0]

Init ==
  /\ dir \in Dirs /\ hash \in Hashes
  /\ src = [q \in Srcs |-> EmptyRing]
  /\ dst = [d \in Dsts |-> EmptyRing]
  /\ shadow = [q \in Srcs |-> <<>>]
  /\ last = 0
  /\ pass = NoPass
  /\ enabled = FALSE
  /\ sending = TRUE
  /\ sent = Zero

-----------------------------------------------------------------------------
\* The elements of s whose field k is v, in their order: SelectSeq without an operator
\* as its parameter, of which nothing could be proved.
Those(s, k, v) ==
  LET F[i \in 0 .. Len(s)] == IF i = 0 THEN <<>>
                              ELSE IF s[i][k] = v THEN Append(F[i - 1], s[i])
                              ELSE F[i - 1]
  IN F[Len(s)]
OfFlow(s, q) == Those(s, "q", q)
ToDst(s, d) == Those(s, "d", d)

-----------------------------------------------------------------------------
(* The two ends: giu_gpio_send and the GIE; the GIE and giu_gpio_recv *)

Descriptor(d, n, size) == [d |-> d, n |-> n, size |-> size]

\* A packet for d, whose second descriptor hashes to e.  Its head tells how many there are.
Packet(q, d, e, size) ==
  SubSeq(<<Descriptor(d, sent[q][d], size),
           Descriptor(e, sent[q][e] + (IF e = d THEN 1 ELSE 0), 1)>>, 1, size)

Room(q) == SrcLen - 1 - Len(src[q].buf)

\* giu_gpio_send takes as many descriptors as there is room for; the guest sends
\* the rest of a packet when it can.  The GIE delivers whole packets.
Middle(q) == src[q].buf # <<>> /\ Last(src[q].buf).size > 1

Put(q, descs) ==
  /\ src' = [src EXCEPT ![q].buf = @ \o descs]
  /\ sent' = [sent EXCEPT ![q] = [d \in Dsts |-> @[d] + Len(ToDst(descs, d))]]
  /\ UNCHANGED <<dir, hash, dst, shadow, last, pass, enabled, sending>>

Send(q, d, e, size) ==
  /\ sending /\ ~Middle(q) /\ Room(q) > 0
  /\ size = 1 \/ hash = "packet" => e = d
  /\ dir = "in" => size <= Room(q)
  /\ Put(q, SubSeq(Packet(q, d, e, size), 1, IF size <= Room(q) THEN size ELSE Room(q)))

SendRest(q, d) ==
  /\ Middle(q) /\ Room(q) > 0
  /\ hash = "packet" => d = Last(src[q].buf).d
  /\ Put(q, <<Descriptor(d, sent[q][d], 1)>>)

Stop ==
  /\ sending /\ \A q \in Srcs : ~Middle(q)
  /\ sending' = FALSE
  /\ UNCHANGED <<dir, hash, src, dst, shadow, last, pass, enabled, sent>>

\* The oldest descriptor is taken (by the GIE, of a packet that is there as a whole: it
\* waits for the rest), and its flow is numbered anew.
Take(d) ==
  LET q == Head(dst[d].buf).q
      Next1(e) == [e EXCEPT !.n = @ - 1]
      InDst(s) == [j \in DOMAIN s |-> IF s[j].q = q THEN Next1(s[j]) ELSE s[j]]
      InSrc(s) == [j \in DOMAIN s |-> IF s[j].d = d THEN Next1(s[j]) ELSE s[j]]
  IN /\ enabled \/ dir = "in"
     /\ dst[d].buf # <<>>
     /\ dir = "out" => Head(dst[d].buf).size <= Len(dst[d].buf)
     /\ dst' = [dst EXCEPT ![d] = [buf |-> InDst(Tail(@.buf)), cons |-> Index(@.cons + 1, DstLen)]]
     /\ pass' = IF pass.on THEN [pass EXCEPT !.new[d] = InDst(@)] ELSE pass
     /\ src' = [src EXCEPT ![q].buf = InSrc(@)]
     /\ sent' = [sent EXCEPT ![q][d] = @ - 1]
     /\ UNCHANGED <<dir, hash, shadow, last, enabled, sending>>

-----------------------------------------------------------------------------
(* giu_gpio_pre_gie and giu_gpio_post_gie *)

PassBegin ==
  /\ enabled /\ ~pass.on
  /\ pass' = [on |-> TRUE, turn |-> 0, break |-> FALSE,
              free |-> [d \in Dsts |-> DstLen - 1 - Len(dst[d].buf)],
              prod |-> [d \in Dsts |-> Index(dst[d].cons + Len(dst[d].buf), DstLen)],
              cons |-> [d \in Dsts |-> dst[d].cons],
              new |-> [d \in Dsts |-> <<>>]]
  /\ UNCHANGED <<dir, hash, src, dst, shadow, last, enabled, sending, sent>>

Turns_Short == NumSrc[dir] - 1  \* (mutant)
Turns == NumSrc[dir]
Rotate(l, turn) == (l + turn) % NumSrc[dir]

\* The copies of the oldest descriptors of q that the GIE has consumed: the index
\* is compared modulo the length of the interim queue.
Consumed(e) == (pass.cons[e.d] - e.idx) % SrcLen # 0
Retired_All(q) == Len(shadow[q])  \* (mutant)
Retired(q) ==
  CHOOSE k \in 0 .. Len(shadow[q]) :
    /\ \A j \in 1 .. k : Consumed(shadow[q][j])
    /\ k < Len(shadow[q]) => ~Consumed(shadow[q][k + 1])

\* The descriptors of q that have not been copied yet.
Fresh_All(q) == src[q].buf  \* (mutant)
Fresh(q) == SubSeq(src[q].buf, Len(shadow[q]) + 1, Len(src[q].buf))

Before(f, j) == Len(ToDst(SubSeq(f, 1, j - 1), f[j].d))
Fits_NoSg(f, j) == pass.free[f[j].d] > Before(f, j)  \* (mutant)
Fits(f, j) == pass.free[f[j].d] >= Before(f, j) + f[j].size
Copied(f) ==
  CHOOSE m \in 0 .. Len(f) : /\ \A j \in 1 .. m : Fits(f, j)
                             /\ m < Len(f) => ~Fits(f, m + 1)

\* One turn of the loop over the source queues.
Visit ==
  LET q == Rotate(last, pass.turn)
      f == Fresh(q)
      m == Copied(f)
      to(d) == ToDst(SubSeq(f, 1, m), d)
      done == IF dir = "out" THEN Retired(q) ELSE m
      places == [j \in 1 .. m |-> [d |-> f[j].d,
                                   idx |-> (pass.prod[f[j].d] + Before(f, j)) % DstLen]]
  IN /\ pass.on /\ pass.turn < Turns /\ ~pass.break
     /\ last' = q
     /\ src' = [src EXCEPT ![q] = [buf |-> SubSeq(@.buf, done + 1, Len(@.buf)),
                                   cons |-> Index(@.cons + done, SrcLen)]]
     /\ shadow' = IF dir = "out"
                  THEN [shadow EXCEPT ![q] = SubSeq(@, done + 1, Len(@)) \o places]
                  ELSE shadow
     /\ pass' = [pass EXCEPT
                   !.turn = @ + 1,
                   !.break = m < Len(f),
                   !.free = [d \in Dsts |-> @[d] - Len(to(d))],
                   !.prod = [d \in Dsts |-> Index(@[d] + Len(to(d)), DstLen)],
                   !.new = [d \in Dsts |-> @[d] \o [j \in DOMAIN to(d) |->
                                [q |-> q, n |-> to(d)[j].n, size |-> to(d)[j].size]]]]
     /\ UNCHANGED <<dir, hash, dst, enabled, sending, sent>>

\* The producer words of the destination queues are written.
PassEnd ==
  /\ pass.on /\ (pass.turn = Turns \/ pass.break)
  /\ dst' = [d \in Dsts |-> [dst[d] EXCEPT !.buf = @ \o pass.new[d]]]
  /\ pass' = NoPass
  /\ UNCHANGED <<dir, hash, src, shadow, last, enabled, sending, sent>>

-----------------------------------------------------------------------------
(* giu_gpio_enable, and giu_gpio_disable with giu_gpio_reset by a guest that starts
   again; passes are not running *)

Enable ==
  /\ ~enabled
  /\ enabled' = TRUE
  /\ UNCHANGED <<dir, hash, src, dst, shadow, last, pass, sending, sent>>

Restart ==
  /\ enabled /\ ~pass.on
  /\ Drained /\ dir = "out" => \A d \in Dsts : dst[d].buf = <<>>
  /\ enabled' = FALSE
  /\ src' = [q \in Srcs |-> EmptyRing]
  /\ shadow' = [q \in Srcs |-> <<>>]
  /\ dst' = IF dir = "in" THEN [d \in Dsts |-> EmptyRing] ELSE dst
  /\ sent' = Zero
  /\ UNCHANGED <<dir, hash, last, pass, sending>>

Next ==
  \/ \E q \in Srcs, d, e \in Dsts, size \in Sizes : Send(q, d, e, size)
  \/ \E q \in Srcs, d \in Dsts : SendRest(q, d)
  \/ \E d \in Dsts : Take(d)
  \/ Stop \/ PassBegin \/ Visit \/ PassEnd \/ Enable \/ Restart

Spec == Init /\ [][Next]_vars

\* giu_schedule is called for ever; the consumers keep consuming.
FairSpec ==
  /\ Spec
  /\ WF_vars(PassBegin) /\ WF_vars(Visit) /\ WF_vars(PassEnd) /\ WF_vars(Enable)
  /\ WF_vars(\E d \in Dsts : Take(d))

-----------------------------------------------------------------------------
Held(q, d) == OfFlow(dst[d].buf \o (IF pass.on THEN pass.new[d] ELSE <<>>), q)

\* What one queue sends to another arrives complete and in order (giu_gpio.c:
\* 415-463, 528-568): the numbers not yet taken are the ones in the destination
\* ring followed by those of the descriptors not yet copied.
FlowsFifo ==
  \A q \in Srcs, d \in Dsts :
    LET flow == Held(q, d) \o ToDst(Fresh(q), d)
    IN /\ \A j \in DOMAIN flow : flow[j].n = j - 1
       /\ sent[q][d] = Len(flow)

\* A descriptor is given back to the guest (giu_gpio.c:408, mv_giu_gpio.h:539) only
\* when the GIE has consumed its copy: every copy in a ring of the GIE belongs to
\* a descriptor that still waits.
DoneIsTaken ==
  dir = "out" => \A q \in Srcs, d \in Dsts : Len(Held(q, d)) <= Len(ToDst(shadow[q], d))

\* The descriptors of a packet that have the same hash follow one another in a ring
\* (giu_gpio.c:432-441, 545-554), and the guest never sees a part of such a packet.
\* Where descriptors have hashes of their own, nothing keeps a packet together.
PacketsJoined ==
  \A d \in Dsts : \A j \in DOMAIN dst[d].buf :
    LET buf == dst[d].buf
    IN buf[j].size > 1 =>
         IF j < Len(buf) THEN buf[j + 1].q = buf[j].q /\ buf[j + 1].size = 1
                              /\ buf[j + 1].n = buf[j].n + 1
         ELSE dir = "out"
PacketsWhole == hash = "packet" => PacketsJoined

\* Once the producer has stopped every descriptor is consumed and given back: no
\* queue is left out by the rotation (giu_gpio.c:384, 519).  A head whose rest has
\* gone elsewhere the GIE waits for ever.
EventuallyDone ==
  (~sending /\ hash = "packet") ~> \A q \in Srcs : src[q].buf = <<>>
=============================================================================
