---------------------------- MODULE FifoChannel ----------------------------
(***************************************************************************)
(* What a queue pair of the GIE promises to its two ends: a bounded FIFO   *)
(* channel.  Payloads are numbered modulo Tags; "got" is what the receiver *)
(* read last, the descriptor (meta) and the packet it points to (data).    *)
(***************************************************************************)
EXTENDS Integers, Sequences

CONSTANTS Tags,    \* number of different payloads
          Cap,     \* most elements the channel ever holds
          Sizes    \* sizes of the packets that are sent

VARIABLES chan, nxt, got

Init == chan = <<>> /\ nxt = 0 /\ got = [meta |-> Tags - 1, data |-> Tags - 1]

\* A packet of n elements enters as a whole.
Send(n) ==
  /\ Len(chan) + n <= Cap
  /\ chan' = chan \o [k \in 1 .. n |-> (nxt + k - 1) % Tags]
  /\ nxt' = (nxt + n) % Tags
  /\ UNCHANGED got

\* The receiver takes elements in order, each with the payload it was sent with.
Receive ==
  /\ chan # <<>>
  /\ got' = [meta |-> Head(chan), data |-> Head(chan)]
  /\ chan' = Tail(chan)
  /\ UNCHANGED nxt

Next == (\E n \in Sizes : Send(n)) \/ Receive

Spec == Init /\ [][Next]_<<chan, nxt, got>>
=============================================================================
