------------------------------- MODULE SamCio -------------------------------
(***************************************************************************)
(* The crypto I/O rings of the SAM driver (drivers/sam/sam.c, sam.h,       *)
(* sam_hw.h, sam_ipsec.c, sam_ssltls.c) and the sessions whose requests go *)
(* through them.  A cio has a ring of command descriptors (CDR), one or    *)
(* more per request, a ring of result descriptors (RDR), one per request,  *)
(* and the array of operations that tells what a result is for: the three  *)
(* are only matched by position.  Enqueue, dequeue and the engine run side *)
(* by side.                                                                *)
(***************************************************************************)
EXTENDS Integers, Sequences, FiniteSets, SequencesExt

CONSTANTS
  Cios,
  Size,      \* params.size with the entry that sam_hw_ring_init adds
  Sessions,  \* sam_sessions
  Cookies,   \* of requests: the client uses one at a time
  MaxBufs,   \* SAM_CIO_MAX_FRAGS
  Dedicated, \* whether control rings carry no requests (sam.c:965)
  CtrCios,   \* what ctr_cio is in the sessions the client creates: a cio or NoCio
  Eip197,    \* the cios of an EIP197, which caches sessions
  Short,     \* whether requests are made whose data ends before the last buffer
  MaxInv,    \* bound of the client: sessions being destroyed at once on a cio
  Alone,     \* whether no session is created while a cio is closed
  NoCio

Idx == 0 .. Size - 1
Add(i, n) == (i + n) % Size
Sub(i, j) == (i - j + Size) % Size

NoPkt == "none"
Pkts == Cookies \cup Sessions \cup {NoPkt}
Desc == [pkt: Pkts, first: BOOLEAN, last: BOOLEAN]

ASSUME SamAssumption ==
  /\ Size \in Nat \ {0, 1} /\ MaxBufs \in Nat \ {0} /\ MaxInv \in Nat
  /\ CtrCios \subseteq Cios \cup {NoCio} /\ Eip197 \subseteq Cios /\ {Short, Alone, Dedicated} \subseteq BOOLEAN
  /\ NoCio \notin Cios /\ Cookies \cap Sessions = {}

VARIABLES
  cio,      \* struct sam_cio with its struct sam_hw_ring and the rings in memory
  hw,       \* the engine: its positions, its counters of commands and of prepared
            \* results, and the results that are done (HIA_RDR_PROC_COUNT)
  enq,      \* inside sam_cio_enq: requests, RDR and CDR entries not yet submitted
  deq,      \* inside sam_cio_deq: done and i; done is 0 outside
  session,  \* struct sam_sa
  open,     \* the sessions the client has created and not destroyed
  mode,     \* of a cio: "open", "flush", "closing" (sam_cio_deinit) or "closed"
  left      \* the sessions the loop of sam_cio_deinit has not reached

vars == <<cio, hw, enq, deq, session, open, mode, left>>
rings == <<cio, hw, enq, deq>>
users == <<session, open, mode, left>>

FreshCio ==
  [next_request |-> 0, next_result |-> 0, next_cdr |-> 0, next_rdr |-> 0, free_cdr |-> 0,
   ops |-> [i \in Idx |-> [sa |-> NoPkt, cookie |-> NoPkt, bufs_in |-> 0, bufs_out |-> 0]],
   cdr |-> [i \in Idx |-> [pkt |-> NoPkt, first |-> FALSE, last |-> FALSE]],
   rdr |-> [i \in Idx |-> NoPkt]]
FreshHw == [cdr |-> 0, rdr |-> 0, cmds |-> 0, preps |-> 0, done |-> 0]

Init ==
  /\ cio = [c \in Cios |-> FreshCio]
  /\ hw = [c \in Cios |-> FreshHw]
  /\ enq = [c \in Cios |-> [n |-> 0, rdr |-> 0, cdr |-> 0]]
  /\ deq = [c \in Cios |-> [done |-> 0, i |-> 0]]
  /\ session = [s \in Sessions |-> [is_valid |-> FALSE, cio |-> NoCio, ctr_cio |-> NoCio]]
  /\ open = {}
  /\ mode = [c \in Cios |-> "open"]
  /\ left = [c \in Cios |-> {}]

-----------------------------------------------------------------------------
\* The operations in flight: from next_result to next_request.
Pending(x) == Sub(x.next_request, x.next_result)
InFlight(x) == {i \in Idx : Sub(i, x.next_result) < Pending(x)}
IsRequest(op) == op.bufs_out # 0
Uses(c, s) == {i \in InFlight(cio[c]) : IsRequest(cio[c].ops[i]) /\ cio[c].ops[i].sa = s}
Invs(c) == {i \in InFlight(cio[c]) : ~IsRequest(cio[c].ops[i])}
Waiting(k) == \E c \in Cios : \E i \in InFlight(cio[c]) : cio[c].ops[i].cookie = k

\* sam_cio_is_full, sam_hw_cmd_is_free_slot, sam_cio_is_free_slot
IsFull(x) == Add(x.next_request, 1) = x.next_result
FreeCdr(x) == IF x.next_cdr >= x.free_cdr THEN Size - (x.next_cdr - x.free_cdr)
              ELSE x.free_cdr - x.next_cdr
IsFreeSlot_NoCdr(x, n) == ~IsFull(x)  \* (mutant)
IsFreeSlot(x, n) == ~IsFull(x) /\ n < FreeCdr(x)

CmdPut_One(x, n) == Add(x.free_cdr, 1)  \* (mutant)
CmdPut(x, n) == Add(x.free_cdr, n)

\* The first m of the n descriptors of a packet.
Written(x, pkt, m, n) ==
  [i \in Idx |-> LET j == Sub(i, x.next_cdr)
                 IN IF j < m THEN [pkt |-> pkt, first |-> j = 0, last |-> j = n - 1]
                    ELSE x.cdr[i]]

-----------------------------------------------------------------------------
(* The client's sessions *)

\* sam_session_create
Create(s, ctr) ==
  /\ ~session[s].is_valid
  /\ Alone => \A c \in Cios : mode[c] # "closing"
  /\ session' = [session EXCEPT ![s] = [is_valid |-> TRUE, cio |-> NoCio, ctr_cio |-> ctr]]
  /\ open' = open \cup {s}
  /\ UNCHANGED <<rings, mode, left>>

\* sam_cio_sa_invalidate and what follows it in sam_session_destroy: without a
\* control ring the descriptor is given back at once.
Invalidated(x, s, early) ==
  [x EXCEPT !.ops[x.next_request] =
              [@ EXCEPT !.sa = s, !.cookie = NoPkt, !.bufs_in = 0, !.bufs_out = 0],
            !.cdr = Written(x, s, 1, 1),
            !.rdr[x.next_rdr] = NoPkt,
            !.next_cdr = Add(@, 1), !.next_rdr = Add(@, 1),
            !.next_request = Add(@, 1),
            !.free_cdr = IF early THEN Add(@, 1) ELSE @]

\* sam_session_destroy; with a control ring it flushes that ring.  It gives back command
\* descriptors (free_cdr) in one step, as a dequeue does: the callers of one ring take turns.
Destroy_Now(s) ==  \* (mutant)
  /\ session' = [session EXCEPT ![s].is_valid = FALSE]
  /\ UNCHANGED <<cio, hw, mode>>
Destroy(s) ==
  LET ctr == session[s].ctr_cio
      c == IF ctr # NoCio THEN ctr ELSE session[s].cio
  IN IF session[s].cio \in Eip197
     THEN /\ ~IsFull(cio[c])
          /\ cio' = [cio EXCEPT ![c] = Invalidated(@, s, ctr = NoCio)]
          /\ hw' = [hw EXCEPT ![c].cmds = @ + 1, ![c].preps = @ + 1]
          /\ mode' = IF ctr # NoCio THEN [mode EXCEPT ![c] = "flush"] ELSE mode
          /\ UNCHANGED session
     ELSE /\ session' = [session EXCEPT ![s].is_valid = FALSE]
          /\ UNCHANGED <<cio, hw, mode>>

\* The client destroys a session with requests in flight only when their ring is
\* the one that is going to tell that the session is no longer used.
MayDestroy(s) ==
  LET c == session[s].cio
  IN /\ \A d \in Cios \ {c} : Uses(d, s) = {}
     /\ c \in Cios /\ Uses(c, s) # {} => c \in Eip197 /\ session[s].ctr_cio = NoCio
     /\ c \in Cios => mode[c] = "open" /\ enq[c].n = 0 /\ Cardinality(Invs(c)) < MaxInv
     /\ session[s].ctr_cio # NoCio => mode[session[s].ctr_cio] = "open"
                                       /\ enq[session[s].ctr_cio].n = 0

ClientDestroy(s) ==
  /\ s \in open /\ MayDestroy(s)
  /\ Destroy(s)
  /\ open' = open \ {s}
  /\ UNCHANGED <<enq, deq, left>>

-----------------------------------------------------------------------------
(* sam_cio_enq, sam_cio_enq_ipsec and sam_cio_enq_ssltls *)

\* One turn of the loop.  Of a request whose data ends before the last buffer the
\* descriptors are taken back, but it stays counted; and sam_cio_enq takes its
\* RDR entry off the count to submit, which the other two (proto) do not.
EnqOne(c, s, k, n, short, proto) ==
  LET x == cio[c]
      m == IF short THEN n - 1 ELSE n
  IN /\ mode[c] = "open" /\ s \in open /\ ~Waiting(k)
     /\ Dedicated => c \notin CtrCios
     /\ proto => c \in Eip197
     /\ IsFreeSlot(x, n)
     /\ cio' = [cio EXCEPT ![c] =
                  [x EXCEPT !.ops[x.next_request] =
                              [sa |-> s, cookie |-> k, bufs_in |-> n, bufs_out |-> 1],
                            !.cdr = Written(x, k, m, n),
                            !.rdr[x.next_rdr] = NoPkt,
                            !.next_cdr = IF short THEN @ ELSE Add(@, n),
                            !.next_rdr = IF short THEN @ ELSE Add(@, 1),
                            !.next_request = Add(@, 1)]]
     /\ enq' = [enq EXCEPT ![c] = [n |-> @.n + 1,
                                   rdr |-> IF short /\ ~proto THEN @.rdr ELSE @.rdr + 1,
                                   cdr |-> IF short THEN @.cdr ELSE @.cdr + n]]
     /\ session' = [session EXCEPT ![s].cio = c]
     /\ UNCHANGED <<hw, deq, open, mode, left>>

\* sam_hw_rdr_ring_submit, sam_hw_cdr_ring_submit
Submit(c) ==
  /\ enq[c].n > 0
  /\ hw' = [hw EXCEPT ![c].preps = @ + enq[c].rdr, ![c].cmds = @ + enq[c].cdr]
  /\ enq' = [enq EXCEPT ![c] = [n |-> 0, rdr |-> 0, cdr |-> 0]]
  /\ UNCHANGED <<cio, deq, users>>

\* The engine takes the descriptors up to one that is the last of a packet, and
\* writes the next result.
Process(c) ==
  LET h == hw[c]
      ends == {l \in 1 .. h.cmds : cio[c].cdr[Add(h.cdr, l - 1)].last}
      len == CHOOSE l \in ends : \A o \in ends : l <= o
  IN /\ ends # {} /\ h.preps > 0
     /\ cio' = [cio EXCEPT ![c].rdr[h.rdr] = cio[c].cdr[h.cdr].pkt]
     /\ hw' = [hw EXCEPT ![c] = [cdr |-> Add(@.cdr, len), rdr |-> Add(@.rdr, 1),
                                 cmds |-> @.cmds - len, preps |-> @.preps - 1,
                                 done |-> @.done + 1]]
     /\ UNCHANGED <<enq, deq, users>>

-----------------------------------------------------------------------------
(* sam_cio_deq; a flush calls it without results until the cio is empty *)

\* sam_cio_deinit goes on when each session of the cio is destroyed, or flushes
\* when an invalidation finds the ring full.
ToClose(c) == {s \in left[c] : session[s].cio = c}
Flushing_AtEnd(c) == mode[c] = "closing" => ToClose(c) = {}  \* (mutant)
Flushing(c) == mode[c] = "closing" => ToClose(c) = {} \/ IsFull(cio[c])

DeqBegin(c) ==
  /\ mode[c] # "closed" /\ Flushing(c)
  /\ deq[c].done = 0 /\ hw[c].done > 0
  /\ deq' = [deq EXCEPT ![c] = [done |-> hw[c].done, i |-> 0]]
  /\ UNCHANGED <<cio, hw, enq, users>>

\* The next operation is the one the next result belongs to.
Retire(c, x, op) ==
  [x EXCEPT !.next_result = Add(@, 1),
            !.free_cdr = IF IsRequest(op) THEN CmdPut(x, op.bufs_in) ELSE @]

DeqOne(c) ==
  LET op == cio[c].ops[cio[c].next_result]
  IN /\ deq[c].i < deq[c].done
     /\ cio' = [cio EXCEPT ![c] = Retire(c, @, op)]
     /\ session' = IF IsRequest(op) THEN session
                   ELSE [session EXCEPT ![op.sa].is_valid = FALSE]
     /\ deq' = [deq EXCEPT ![c].i = @ + 1]
     /\ UNCHANGED <<hw, enq, open, mode, left>>

\* sam_hw_ring_update with the results that were read, maybe not all.
DeqEnd(c) ==
  /\ deq[c].i > 0
  /\ hw' = [hw EXCEPT ![c].done = @ - deq[c].i]
  /\ deq' = [deq EXCEPT ![c] = [done |-> 0, i |-> 0]]
  /\ UNCHANGED <<cio, enq, users>>

\* sam_cio_flush returns.
FlushEnd(c) ==
  /\ mode[c] = "flush" /\ Pending(cio[c]) = 0 /\ deq[c].done = 0
  /\ mode' = [mode EXCEPT ![c] = "open"]
  /\ UNCHANGED <<rings, session, open, left>>

-----------------------------------------------------------------------------
(* sam_cio_deinit, and sam_cio_init after it *)

Calm(c) == enq[c].n = 0 /\ deq[c].done = 0

\* The client closes a cio that is not the control ring of a session, and whose
\* sessions it could destroy.
CloseBegin(c) ==
  /\ mode[c] = "open" /\ Calm(c)
  /\ \A s \in Sessions :
       /\ session[s].ctr_cio # c
       /\ session[s].cio = c \/ Uses(c, s) # {} =>
            /\ \A d \in Cios \ {c} : Uses(d, s) = {}
            /\ Uses(c, s) # {} => c \in Eip197 /\ session[s].ctr_cio = NoCio
  /\ mode' = [mode EXCEPT ![c] = "closing"]
  /\ left' = [left EXCEPT ![c] = Sessions]
  /\ UNCHANGED <<rings, session, open>>

\* Destroys every session of this cio, whether it is valid or not.
CloseDestroy(c, s) ==
  /\ mode[c] = "closing" /\ Calm(c) /\ s \in ToClose(c)
  /\ session[s].ctr_cio # NoCio => mode[session[s].ctr_cio] = "open"
  /\ Destroy(s)
  /\ open' = open \ {s}
  /\ left' = [left EXCEPT ![c] = @ \ {s}]
  /\ UNCHANGED <<enq, deq>>

CloseEnd(c) ==
  /\ mode[c] = "closing" /\ Calm(c) /\ ToClose(c) = {} /\ Pending(cio[c]) = 0
  /\ \A d \in Cios : mode[d] # "flush"
  /\ mode' = [mode EXCEPT ![c] = "closed"]
  /\ left' = [left EXCEPT ![c] = {}]
  /\ UNCHANGED <<rings, session, open>>

\* sam_cio_init
Open(c) ==
  /\ mode[c] = "closed"
  /\ mode' = [mode EXCEPT ![c] = "open"]
  /\ cio' = [cio EXCEPT ![c] = FreshCio]
  /\ hw' = [hw EXCEPT ![c] = FreshHw]
  /\ UNCHANGED <<enq, deq, session, open, left>>

Engine == \E c \in Cios : Process(c)
Dequeue == \E c \in Cios : DeqBegin(c) \/ DeqOne(c) \/ DeqEnd(c) \/ FlushEnd(c)

Next ==
  \/ \E s \in Sessions :
       \/ \E ctr \in CtrCios : Create(s, ctr)
       \/ ClientDestroy(s)
       \/ \E c \in Cios : CloseDestroy(c, s)
       \/ \E c \in Cios, k \in Cookies, n \in 1 .. MaxBufs, proto \in {FALSE, Short} :
            \E short \in {FALSE, Short} : EnqOne(c, s, k, n, short, proto)
  \/ \E c \in Cios : Submit(c) \/ CloseBegin(c) \/ CloseEnd(c) \/ Open(c)
  \/ Engine \/ Dequeue

Spec == Init /\ [][Next]_vars

\* The engine works on its own, a call of sam_cio_enq, sam_session_destroy or
\* sam_cio_deinit ends, and the application keeps calling sam_cio_deq.
FairSpec ==
  /\ Spec
  /\ \A c \in Cios : /\ WF_vars(Process(c)) /\ WF_vars(Submit(c))
                     /\ WF_vars(DeqBegin(c) \/ DeqOne(c) \/ DeqEnd(c))
                     /\ WF_vars(FlushEnd(c)) /\ WF_vars(CloseEnd(c))
                     /\ WF_vars(\E s \in Sessions : CloseDestroy(c, s))

-----------------------------------------------------------------------------
\* The operations from the first one whose result has not been written on.
Unread(c) == hw[c].done - deq[c].i
Behind(c) == [j \in 1 .. Pending(cio[c]) - Unread(c) |->
                cio[c].ops[Add(cio[c].next_result, Unread(c) + j - 1)]]
PktOf(op) == IF IsRequest(op) THEN op.cookie ELSE op.sa
DescsOf(op) == LET n == IF IsRequest(op) THEN op.bufs_in ELSE 1
               IN [j \in 1 .. n |-> [pkt |-> PktOf(op), first |-> j = 1, last |-> j = n]]

\* A result is given back for the request it is the result of: the operation at
\* next_result (sam.c:1152) and the results that are done go together.
Paired ==
  \A c \in Cios :
    /\ Unread(c) <= Pending(cio[c])
    /\ \A j \in 0 .. Unread(c) - 1 :
         LET i == Add(cio[c].next_result, j) IN cio[c].rdr[i] = PktOf(cio[c].ops[i])

\* The engine is going to process exactly the other operations in flight: no
\* descriptor is overwritten before it is processed, none is lost, and there is
\* one prepared result for each.
RingHoldsPending ==
  \A c \in Cios :
    LET descs == FlattenSeq([j \in DOMAIN Behind(c) |-> DescsOf(Behind(c)[j])])
    IN /\ Len(descs) = hw[c].cmds + enq[c].cdr
       /\ \A j \in DOMAIN descs : cio[c].cdr[Add(hw[c].cdr, j - 1)] = descs[j]
       /\ hw[c].preps + enq[c].rdr = Len(Behind(c))

\* The command ring has a descriptor for every invalidation in flight next to those
\* that are taken for requests.  sam_cio_sa_invalidate (sam.c:726) looks at the array
\* of operations only.
InvalidationsFit == \A c \in Cios \ CtrCios : Cardinality(Invs(c)) <= FreeCdr(cio[c])

\* A session is not freed while a request in flight uses it (sam.c:964, 1159), nor
\* while the client holds it.
SessionAlive ==
  \A s \in Sessions : ~session[s].is_valid => s \notin open /\ \A c \in Cios : Uses(c, s) = {}

\* Once nothing is in flight every descriptor is free again, in the rings that
\* carry requests.
AllGivenBack ==
  \A c \in Cios : (Dedicated => c \notin CtrCios) /\ Pending(cio[c]) = 0 => FreeCdr(cio[c]) = Size

\* A session that is destroyed is freed, and its slot can be used again.
EventuallyFreed == \A s \in Sessions : (s \notin open) ~> (~session[s].is_valid)
=============================================================================
