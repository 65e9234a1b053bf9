-------------------------------- MODULE Gie --------------------------------
(***************************************************************************)
(* The data path of the GIU emulator (src/drivers/giu/gie/gie.c): one      *)
(* thread runs gie_schedule over queue pairs and moves queue elements (QEs)*)
(* and packet buffers between host memory and local memory with a DMA      *)
(* engine that completes descriptors in order.                             *)
(*                                                                         *)
(*   egress   host_tx (remote, source) -> lcl_rx (destination), buffers    *)
(*            from the local pool lcl_bp: gie_process_remote_q             *)
(*   ingress  lcl_tx (local, source) -> host_rx (destination), buffers     *)
(*            from the host pool host_bp through its shadow:               *)
(*            gie_process_local_q                                          *)
(*                                                                         *)
(* Four parties interleave: the producer of each source ring, the consumer *)
(* of each destination ring (which also refills the pool), the GIE thread  *)
(* and the DMA engine.  They share the rings, the buffers and the          *)
(* producer/consumer words of the notification area (msg).                 *)
(***************************************************************************)
EXTENDS GieRing, Sequences, FiniteSets, SequencesExt

CONSTANTS
  Pairs,        \* the queue pairs that exist, a subset of {"egress", "ingress"}
  QLen,         \* length of the data rings of both ends
  BpLen,        \* length of the buffer pool rings and of the shadow
  Batch,        \* GIE_MAX_QES_IN_BATCH
  FillSize,     \* GIE_SHADOW_FILL_SIZE
  FillThresh,   \* GIE_SHADOW_FILL_THRESH
  DmaLen,       \* GIE_DMAX2_Q_SIZE
  CopyPayload,  \* the pairs with GIE_QPAIR_CP_PAYLOAD: buffers are copied as well as QEs
  SgEn,         \* GIE_QPAIR_SG: packets of two elements exist
  Tags,         \* payloads are numbered modulo Tags
  NBufs,        \* buffers of each pool
  Hold          \* bound: most buffers a consumer holds when it reads another

ASSUME GieAssumption ==
  /\ Pairs \subseteq {"egress", "ingress"}
  /\ {QLen, BpLen, Batch, FillSize, FillThresh, DmaLen, NBufs, Hold} \subseteq Nat \ {0}
  /\ CopyPayload \subseteq Pairs /\ SgEn \in BOOLEAN
  /\ Tags \in Nat /\ Tags >= 2 * QLen  \* more payloads than elements in flight

VARIABLES
  q,      \* struct gie_queue of every queue: the GIE's private indices
  msg,    \* the notification area: published producer and consumer indices
  ring,   \* contents of the rings, in host or local memory
  mem,    \* contents of the packet buffers
  hw,     \* the DMA engine's queue: descriptors and how many are completed
  jobs,   \* dma_jobs between head and tail
  sub,    \* what the GIE thread has still to submit before it goes on
  left,   \* tmp_left of the submission under way (0: not begun)
  pc,     \* "idle", "phase2" (inside gie_process_remote_q) or "exit"
  nxt,    \* next payload of each producer
  rcvd,   \* payloads received so far (modulo Tags), for the refinement only
  got,    \* what the consumer of each pair read last
  owned   \* buffers the consumer of each pair holds

vars == <<q, msg, ring, mem, hw, jobs, sub, left, pc, nxt, rcvd, got, owned>>
gie == <<q, hw, jobs, sub, left, pc>>
users == <<nxt, rcvd, got, owned>>

Src == [egress |-> "host_tx", ingress |-> "lcl_tx"]
Dst == [egress |-> "lcl_rx", ingress |-> "host_rx"]
Pool == [egress |-> "lcl_bp", ingress |-> "host_bp"]

DataQs == {Src[p] : p \in Pairs} \cup {Dst[p] : p \in Pairs}
PoolQs == {Pool[p] : p \in Pairs}
Queues == DataQs \cup PoolQs \cup {"shadow"}
Len_(n) == IF n \in DataQs THEN QLen ELSE BpLen

SrcBufs == {Src[p] : p \in Pairs} \X (0 .. QLen - 1)  \* one per source slot
PoolBufs(p) == {Pool[p]} \X (1 .. NBufs)
AllPoolBufs == UNION {PoolBufs(p) : p \in Pairs}
NoBuf == <<"none", 0>>
NoData == Tags
Tag == 0 .. Tags - 1
Elements == [tag: Tag \cup {NoData}, sg: {1, 2},
             buf: SrcBufs \cup AllPoolBufs \cup {NoBuf}]
NoElement == [tag |-> NoData, sg |-> 1, buf |-> NoBuf]

Flags == {"none", "update", "produce", "buffer"}
Job == [flag: Flags, src: Queues, dst: Queues, head: Nat, tail: Nat, epd: Nat, descs: Nat]

-----------------------------------------------------------------------------
(* Slots of a ring the parties still have something to do with *)
PoolFill == Lesser(NBufs, BpLen - 1)  \* how many buffers a pool starts with
Posted(n) == Slots(msg[n].cons, msg[n].prod, Len_(n))
Ahead(i, k, n) == q_idx_add(i, k, Len_(n))

Init ==
  /\ q = [n \in Queues |-> ResetQueue]
  /\ msg = [n \in Queues |->
              [cons |-> 0, prod |-> IF n \in PoolQs THEN PoolFill ELSE 0]]
  /\ ring = [n \in Queues |->
              [i \in 0 .. Len_(n) - 1 |->
                 IF n \in DataQs THEN NoElement
                 ELSE IF n \in PoolQs /\ i < PoolFill THEN <<n, i + 1>> ELSE NoBuf]]
  /\ mem = [b \in SrcBufs \cup AllPoolBufs |-> NoData]
  /\ hw = [descs |-> <<>>, done |-> 0]
  /\ jobs = <<>> /\ sub = <<>> /\ left = 0 /\ pc = "idle"
  /\ nxt = [p \in Pairs |-> 0] /\ rcvd = [p \in Pairs |-> 0]
  /\ got = [p \in Pairs |-> [meta |-> Tags - 1, data |-> Tags - 1]]
  /\ owned = [p \in Pairs |-> {Pool[p]} \X (PoolFill + 1 .. NBufs)]

-----------------------------------------------------------------------------
(* Producers and consumers (giu_gpio.c, giu_bpool.c; the host does the same) *)

\* giu_gpio_send of one packet of n elements, when the ring has room for it; a sender
\* that offers more than fits, of which the head is entered alone, is in GiuInterim.
\* The buffer of a slot belongs to the producer while the slot is free.
Send(p, n) ==
  LET src == Src[p]
      prod == msg[src].prod
      k(i) == Occupancy(i, prod, QLen)      \* slot i is the k(i)-th of the packet
      tag(i) == (nxt[p] + k(i)) % Tags
  IN /\ Space(prod, msg[src].cons, QLen) >= n
     /\ ring' = [ring EXCEPT ![src] = [i \in 0 .. QLen - 1 |->
                   IF k(i) < n
                   THEN [tag |-> tag(i), buf |-> <<src, i>>, sg |-> IF k(i) = 0 THEN n ELSE 1]
                   ELSE @[i]]]
     /\ mem' = [b \in DOMAIN mem |->
                  IF b[1] = src /\ k(b[2]) < n THEN tag(b[2]) ELSE mem[b]]
     /\ msg' = [msg EXCEPT ![src].prod = Ahead(prod, n, src)]
     /\ nxt' = [nxt EXCEPT ![p] = (@ + n) % Tags]
     /\ UNCHANGED <<gie, rcvd, got, owned>>

\* giu_gpio_recv of one element: read it, then give its slot back.
Recv(p) ==
  LET dst == Dst[p]
      e == ring[dst][msg[dst].cons]
  IN /\ Posted(dst) # {} /\ Cardinality(owned[p]) < Hold
     /\ got' = [got EXCEPT ![p] =
                  [meta |-> e.tag,
                   data |-> IF p \in CopyPayload THEN mem[e.buf] ELSE e.tag]]
     /\ rcvd' = [rcvd EXCEPT ![p] = (@ + 1) % Tags]
     /\ owned' = IF p \in CopyPayload THEN [owned EXCEPT ![p] = @ \cup {e.buf}] ELSE owned
     /\ msg' = [msg EXCEPT ![dst].cons = Ahead(@, 1, dst)]
     /\ UNCHANGED <<gie, ring, mem, nxt>>

\* giu_bpool_put_buff: the consumer is done with a buffer and posts it again.
PutBuff(p) ==
  LET pool == Pool[p] IN
  \E b \in owned[p] :
     /\ Space(msg[pool].prod, msg[pool].cons, BpLen) >= 1
     /\ ring' = [ring EXCEPT ![pool][msg[pool].prod] = b]
     /\ msg' = [msg EXCEPT ![pool].prod = Ahead(@, 1, pool)]
     /\ mem' = [mem EXCEPT ![b] = NoData]
     /\ owned' = [owned EXCEPT ![p] = @ \ {b}]
     /\ UNCHANGED <<gie, nxt, rcvd, got>>

-----------------------------------------------------------------------------
(* The DMA engine: descriptors are executed one by one, in order *)

Execute(d) ==
  IF d.op = "qe"
  THEN /\ ring' = [ring EXCEPT ![d.dst] = [i \in DOMAIN @ |->
                     IF i \in d.first .. d.first + d.cnt - 1 THEN ring[d.src][i] ELSE @[i]]]
       /\ UNCHANGED mem
  ELSE /\ mem' = [mem EXCEPT ![d.dst] = mem[d.src]]
       /\ UNCHANGED ring

Dma ==
  /\ hw.done < Len(hw.descs)
  /\ Execute(hw.descs[hw.done + 1])
  /\ hw' = [hw EXCEPT !.done = @ + 1]
  /\ UNCHANGED <<q, msg, jobs, sub, left, pc, users>>

-----------------------------------------------------------------------------
(* gie_clean_dma_jobs *)

\* gie_clean_mem: publish the indices a job carries.
CleanMem(m, j) == [m EXCEPT ![j.src].cons = j.head, ![j.dst].prod = j.tail]

\* (mutant: a buffer job publishes with its first descriptor, not its last)
CleanOne_First(s) ==
  LET j == Head(s.jobs) IN
  [jobs |-> IF j.descs = 1 THEN Tail(s.jobs) ELSE [s.jobs EXCEPT ![1].descs = @ - 1],
   q |-> IF j.flag = "update"
         THEN [s.q EXCEPT ![j.src].qe_head = Ahead(@, j.epd, j.src)] ELSE s.q,
   msg |-> IF j.flag \in {"produce", "buffer"} THEN CleanMem(s.msg, j) ELSE s.msg]

\* One completed descriptor, accounted to the oldest job.
CleanOne(s) ==
  LET j == Head(s.jobs)
      last == j.descs = 1
  IN [jobs |-> IF last THEN Tail(s.jobs) ELSE [s.jobs EXCEPT ![1].descs = @ - 1],
      q |-> IF j.flag = "update"
            THEN [s.q EXCEPT ![j.src].qe_head = Ahead(@, j.epd, j.src)] ELSE s.q,
      msg |-> IF j.flag = "produce" \/ (j.flag = "buffer" /\ last)
              THEN CleanMem(s.msg, j) ELSE s.msg]

\* The state after n completed descriptors, for the jobs js.
Cleaned(js, n) ==
  LET s[i \in 0 .. n] == IF i = 0 THEN [jobs |-> js, q |-> q, msg |-> msg] ELSE CleanOne(s[i - 1])
  IN s[n]

gie_clean_dma_jobs(js) ==
  LET s == Cleaned(js, hw.done)
  IN /\ jobs' = s.jobs /\ q' = s.q /\ msg' = s.msg
     /\ hw' = [descs |-> SubSeq(hw.descs, hw.done + 1, Len(hw.descs)), done |-> 0]

\* The beginning of gie_schedule.
Clean ==
  /\ pc = "idle" /\ sub = <<>> /\ hw.done > 0
  /\ gie_clean_dma_jobs(jobs)
  /\ UNCHANGED <<ring, mem, sub, left, pc, users>>

-----------------------------------------------------------------------------
(* Submission: gie_dma_copy_single and the loops that end gie_copy_buffers_* *)

DmaSpace == DmaLen - 1 - Len(hw.descs)  \* DMAX2_Q_SPACE
Wanted == IF left = 0 THEN Len(Head(sub).descs) ELSE left
\* (mutant: every attempt logs the job)
Logged_Again == Append(jobs, Head(sub).job)
\* the job is logged before its descriptors are offered to dmax2_enq
Logged == IF left = 0 THEN Append(jobs, Head(sub).job) ELSE jobs

\* dmax2_enq takes as many descriptors as it has room for; the loop offers
\* the array from its beginning every time.
Enqueue ==
  /\ sub # <<>> /\ pc # "exit" /\ DmaSpace > 0
  /\ LET k == Lesser(Wanted, DmaSpace)
     IN /\ hw' = [hw EXCEPT !.descs = @ \o SubSeq(Head(sub).descs, 1, k)]
        /\ left' = Wanted - k
        /\ sub' = IF k = Wanted THEN Tail(sub) ELSE sub
  /\ jobs' = Logged
  /\ UNCHANGED <<q, msg, ring, mem, pc, users>>

\* The engine's queue is full: clean up and try again ...
Retry ==
  /\ sub # <<>> /\ pc # "exit" /\ DmaSpace = 0
  /\ gie_clean_dma_jobs(Logged)
  /\ left' = Wanted
  /\ UNCHANGED <<ring, mem, sub, pc, users>>

\* ... until the retries are exhausted: exit(1).
GiveUp ==
  /\ sub # <<>> /\ pc # "exit" /\ DmaSpace = 0 /\ hw.done = 0
  /\ pc' = "exit"
  /\ UNCHANGED <<q, msg, ring, mem, hw, jobs, sub, left, users>>

-----------------------------------------------------------------------------
(* Building submissions *)

NewJob(flag, src, dst, head, tail, epd, n) ==
  [flag |-> flag, src |-> src, dst |-> dst, head |-> head, tail |-> tail,
   epd |-> epd, descs |-> n]

QeCopy(src, dst, first, n, flag, head, tail) ==
  [job |-> NewJob(flag, src, dst, head, tail, n, 1),
   descs |-> <<[op |-> "qe", src |-> src, dst |-> dst, first |-> first, cnt |-> n]>>]

\* (mutants: both jobs of a copy that wraps publish; such a copy is not split)
gie_copy_qes_Both(src, dst, n, first, flag, head, tail) ==
  LET toEnd == Len_(src) - first
  IN IF first + n > Len_(src)
     THEN << QeCopy(src, dst, first, toEnd, flag, head, tail),
             QeCopy(src, dst, 0, n - toEnd, flag, head, tail) >>
     ELSE << QeCopy(src, dst, first, n, flag, head, tail) >>
gie_copy_qes_Whole(src, dst, n, first, flag, head, tail) ==
  << QeCopy(src, dst, first, n, flag, head, tail) >>

\* gie_copy_qes: two jobs if the copy goes round the ring; only the last one
\* carries DMA_FLAGS_PRODUCE_IDX.
gie_copy_qes(src, dst, n, first, flag, head, tail) ==
  LET toEnd == Len_(src) - first
      quiet == IF flag = "produce" THEN "none" ELSE flag
  IN IF first + n > Len_(src)
     THEN << QeCopy(src, dst, first, toEnd, quiet, head, tail),
             QeCopy(src, dst, 0, n - toEnd, flag, head, tail) >>
     ELSE << QeCopy(src, dst, first, n, flag, head, tail) >>

\* One descriptor per buffer: from the address in the QE to the pool buffer.
BufCopy(flag, src, dst, head, tail, from, to, n) ==
  [job |-> NewJob(flag, src, dst, head, tail, 1, n),
   descs |-> [k \in 1 .. n |-> [op |-> "buf", src |-> from[k - 1], dst |-> to[k - 1]]]]

gie_clip_batch(d, n) == Lesser(Lesser(n, Batch), q_space(d, QLen))

\* (mutants: one buffer too many is taken; packets are split over batches)
Accepted_OneMore(r, head, limit, avail) == Lesser(limit, avail + 1)
Accepted_Split(r, head, limit, avail) == Lesser(limit, avail)

\* How many of the next "limit" elements of ring r, from index "head" on, get
\* a buffer when "avail" of them are free: an S/G packet gets all or none.
Accepted(r, head, limit, avail) ==
  LET e(k) == r[q_idx_add(head, k, QLen)]
      ok(k) == /\ avail - k >= 1
               /\ (SgEn /\ e(k).sg > 1) =>
                    /\ e(k).sg - 1 <= limit - k - 1
                    /\ avail - k >= e(k).sg
      good == {n \in 0 .. limit : \A k \in 0 .. n - 1 : ok(k)}
  IN CHOOSE n \in good : \A m \in good : m <= n

\* The elements of ring r that got a buffer now point to it.
Rebuffered(r, head, n, buf) ==
  [i \in DOMAIN r |-> LET k == Occupancy(i, head, QLen)
                      IN IF k < n THEN [r[i] EXCEPT !.buf = buf[k]] ELSE r[i]]

-----------------------------------------------------------------------------
(* gie_process_remote_q: egress *)

\* Phase one: read the published indices and copy QEs, ahead of the buffers.
ProcessRemoteQ(p) ==
  LET src == Src[p]
      dst == Dst[p]
      s == [q[src] EXCEPT !.tail = msg[src].prod]
      d == [q[dst] EXCEPT !.head = msg[dst].cons]
      want == Lesser(qes_to_copy(s, QLen), qes_copy_space(d, QLen))
      n == IF want > 0 THEN gie_clip_batch(d, want) ELSE 0
  IN /\ p = "egress" /\ pc = "idle" /\ sub = <<>>
     /\ IF q_empty(s)
        THEN /\ q' = [q EXCEPT ![src] = s, ![dst] = d]
             /\ UNCHANGED <<sub, pc>>
        ELSE /\ q' = [q EXCEPT ![src] = [s EXCEPT !.qe_tail = Ahead(@, n, src)],
                               ![dst] = [d EXCEPT !.qe_tail = Ahead(@, n, dst)]]
             /\ sub' = IF n > 0
                       THEN gie_copy_qes(src, dst, n, s.qe_tail, "update", 0, 0)
                       ELSE <<>>
             /\ pc' = "phase2"
     /\ UNCHANGED <<msg, ring, mem, hw, jobs, left, users>>

\* Phase two: the QEs that have arrived get local buffers (gie_copy_buffers_r2l),
\* or are produced at once when the pair copies no payload (gie_produce_q).  The head
\* of the pool is told before its entry is used, one at a time; that entry is not
\* written meanwhile, since giu_bpool_put_buffs leaves the slot before the head free.
ProcessBuffers(p) ==
  LET src == Src[p]
      dst == Dst[p]
      pool == Pool[p]
      head == q[src].head
      b == [q[pool] EXCEPT !.tail = msg[pool].prod]
      arrived == qes_copied(q[src], QLen)
      limit == gie_clip_batch(q[dst], arrived)
      n == IF p \in CopyPayload
           THEN Accepted(ring[dst], head, limit, q_occupancy(b, BpLen)) ELSE limit
      from == [k \in 0 .. n - 1 |-> ring[dst][Ahead(head, k, dst)].buf]
      to == [k \in 0 .. n - 1 |-> ring[pool][Ahead(b.head, k, pool)]]
      srcHead == Ahead(head, n, src)
      dstTail == Ahead(q[dst].tail, n, dst)
  IN /\ p = "egress" /\ pc = "phase2" /\ sub = <<>>
     /\ pc' = "idle"
     /\ q' = [q EXCEPT ![src].head = srcHead, ![dst].tail = dstTail,
                       ![pool] = IF p \in CopyPayload /\ limit > 0
                                 THEN [b EXCEPT !.head = Ahead(@, n, pool)] ELSE @]
     /\ IF p \in CopyPayload
        THEN /\ msg' = [msg EXCEPT ![pool].cons = Ahead(b.head, n, pool)]
             /\ ring' = [ring EXCEPT ![dst] = Rebuffered(@, head, n, to)]
             /\ sub' = IF n = 0 THEN <<>>
                       ELSE << BufCopy("buffer", src, dst, srcHead, dstTail, from, to, n) >>
        ELSE /\ msg' = [msg EXCEPT ![src].cons = srcHead, ![dst].prod = dstTail]
             /\ UNCHANGED <<ring, sub>>
     /\ UNCHANGED <<mem, hw, jobs, left, users>>

-----------------------------------------------------------------------------
(* gie_process_local_q: ingress *)

\* (mutant: a copy under way is not waited for)
gie_bpool_fill_shadow_NoWait(pool, b, sh) ==
  LET fresh == [b EXCEPT !.tail = msg[pool].prod]
      fill == Lesser(FillSize, q_occupancy(fresh, BpLen))
      copied == qes_copied(b, BpLen)
  IN IF copied > 0
     THEN [b |-> [b EXCEPT !.head = Ahead(@, copied, pool)],
           sh |-> [sh EXCEPT !.tail = Ahead(@, copied, "shadow")],
           cons |-> Ahead(b.head, copied, pool), sub |-> <<>>]
     ELSE [b |-> [fresh EXCEPT !.qe_tail = Ahead(@, fill, pool)],
           sh |-> sh, cons |-> msg[pool].cons,
           sub |-> IF fill = 0 THEN <<>>
                   ELSE gie_copy_qes(pool, "shadow", fill, b.qe_tail, "update", 0, 0)]

\* (mutant: the pool's producer index is not read)
gie_bpool_fill_shadow_Stale(pool, b, sh) ==
  LET copied == qes_copied(b, BpLen)
      fill == Lesser(FillSize, q_occupancy(b, BpLen))
  IN IF copied > 0
     THEN [b |-> [b EXCEPT !.head = Ahead(@, copied, pool)],
           sh |-> [sh EXCEPT !.tail = Ahead(@, copied, "shadow")],
           cons |-> Ahead(b.head, copied, pool), sub |-> <<>>]
     ELSE [b |-> [b EXCEPT !.qe_tail = Ahead(@, fill, pool)],
           sh |-> sh, cons |-> msg[pool].cons,
           sub |-> IF fill = 0 THEN <<>>
                   ELSE gie_copy_qes(pool, "shadow", fill, b.qe_tail, "update", 0, 0)]

\* gie_bpool_fill_shadow: what it does to the pool's queue b and its shadow sh,
\* and the index of the pool it publishes.  A copy under way is left alone; a
\* finished one is taken into account; otherwise a new one is submitted.
gie_bpool_fill_shadow(pool, b, sh) ==
  LET copied == qes_copied(b, BpLen)
      fresh == [b EXCEPT !.tail = msg[pool].prod]
      fill == Lesser(FillSize, q_occupancy(fresh, BpLen))
  IN CASE qes_in_copy(b, BpLen) > 0 ->
            [b |-> b, sh |-> sh, cons |-> msg[pool].cons, sub |-> <<>>]
       [] qes_in_copy(b, BpLen) = 0 /\ copied > 0 ->
            [b |-> [b EXCEPT !.head = Ahead(@, copied, pool)],
             sh |-> [sh EXCEPT !.tail = Ahead(@, copied, "shadow")],
             cons |-> Ahead(b.head, copied, pool), sub |-> <<>>]
       [] OTHER ->
            [b |-> [fresh EXCEPT !.qe_tail = Ahead(@, fill, pool)],
             sh |-> sh, cons |-> msg[pool].cons,
             sub |-> IF fill = 0 THEN <<>>
                     ELSE gie_copy_qes(pool, "shadow", fill, b.qe_tail, "update", 0, 0)]

\* The buffers are copied first (gie_copy_buffers_l2r), then the QEs, and the
\* last QE job publishes both.
ProcessLocalQ(p) ==
  LET src == Src[p]
      dst == Dst[p]
      pool == Pool[p]
      s == [q[src] EXCEPT !.tail = msg[src].prod]
      d == [q[dst] EXCEPT !.head = msg[dst].cons]
      qes == gie_clip_batch(d, q_occupancy(s, QLen))
      avail == q_occupancy(q["shadow"], BpLen)
      f == IF p \in CopyPayload /\ (avail < FillThresh \/ avail < qes)
           THEN gie_bpool_fill_shadow(pool, q[pool], q["shadow"])
           ELSE [b |-> q[pool], sh |-> q["shadow"], cons |-> msg[pool].cons, sub |-> <<>>]
      n == IF p \in CopyPayload
           THEN Accepted(ring[src], s.head, Lesser(qes, avail), q_occupancy(f.sh, BpLen))
           ELSE qes
      from == [k \in 0 .. n - 1 |-> ring[src][Ahead(s.head, k, src)].buf]
      to == [k \in 0 .. n - 1 |-> ring["shadow"][Ahead(f.sh.head, k, "shadow")]]
      srcHead == Ahead(s.head, n, src)
      dstTail == Ahead(d.tail, n, dst)
  IN /\ p = "ingress" /\ pc = "idle" /\ sub = <<>>
     /\ IF q_empty(s)
        THEN /\ q' = [q EXCEPT ![src] = s, ![dst] = d]
             /\ UNCHANGED <<msg, ring, sub>>
        ELSE /\ q' = [q EXCEPT ![src] = [s EXCEPT !.head = srcHead],
                               ![dst] = [d EXCEPT !.tail = dstTail],
                               ![pool] = f.b,
                               !["shadow"] = [f.sh EXCEPT !.head =
                                               IF p \in CopyPayload THEN Ahead(@, n, "shadow") ELSE @]]
             /\ msg' = [msg EXCEPT ![pool].cons = f.cons]
             /\ ring' = IF p \in CopyPayload
                        THEN [ring EXCEPT ![src] = Rebuffered(@, s.head, n, to)] ELSE ring
             /\ sub' = f.sub \o
                  IF n = 0 THEN <<>>
                  ELSE (IF p \in CopyPayload THEN << BufCopy("none", src, dst, 0, 0, from, to, n) >>
                        ELSE <<>>)
                       \o gie_copy_qes(src, dst, n, s.head, "produce", srcHead, dstTail)
     /\ UNCHANGED <<mem, hw, jobs, left, pc, users>>

-----------------------------------------------------------------------------
Packets == IF SgEn THEN {1, 2} ELSE {1}

Next ==
  \/ \E p \in Pairs : \/ \E n \in Packets : Send(p, n)
                      \/ Recv(p)
                      \/ PutBuff(p)
                      \/ ProcessRemoteQ(p)
                      \/ ProcessBuffers(p)
                      \/ ProcessLocalQ(p)
  \/ Dma
  \/ Clean
  \/ Enqueue
  \/ Retry
  \/ GiveUp

Spec == Init /\ [][Next]_vars

\* gie_schedule is called for ever and serves every queue pair in turn, the DMA
\* engine makes progress, the consumers keep reading and refill their pools.
\* Nothing is assumed of the producers.  Clean and the two Process actions
\* alternate with each other, hence strong fairness.
Fairness ==
  /\ WF_vars(Dma) /\ WF_vars(Enqueue) /\ WF_vars(Retry) /\ SF_vars(Clean)
  /\ \A p \in Pairs : /\ SF_vars(ProcessRemoteQ(p)) /\ SF_vars(ProcessLocalQ(p))
                      /\ WF_vars(ProcessBuffers(p))
                      /\ WF_vars(Recv(p)) /\ WF_vars(PutBuff(p))

FairSpec == Spec /\ Fairness

-----------------------------------------------------------------------------
(* Properties *)

Unread(p) == Posted(Dst[p])
PendingDescs == {hw.descs[i] : i \in hw.done + 1 .. Len(hw.descs)}
Covered(d) == d.first .. d.first + d.cnt - 1

TypeOK ==
  /\ q \in [Queues -> UNION {Indices(QLen), Indices(BpLen)}]
  /\ \A n \in Queues : q[n] \in Indices(Len_(n))
  /\ \A n \in Queues : msg[n].prod \in 0 .. Len_(n) - 1 /\ msg[n].cons \in 0 .. Len_(n) - 1
  /\ \A n \in DataQs : ring[n] \in [0 .. QLen - 1 -> Elements]
  /\ mem \in [SrcBufs \cup AllPoolBufs -> Tag \cup {NoData}]
  /\ hw.done \in 0 .. Len(hw.descs) /\ Len(hw.descs) < DmaLen
  /\ \A i \in DOMAIN jobs : jobs[i] \in Job
  /\ left \in Nat /\ pc \in {"idle", "phase2", "exit"}
  /\ nxt \in [Pairs -> Tag] /\ rcvd \in [Pairs -> Tag]
  /\ got \in [Pairs -> [meta: Tag \cup {NoData}, data: Tag \cup {NoData}]]
  /\ owned \in [Pairs -> SUBSET AllPoolBufs]

\* A producer index is published only once the elements below it are complete:
\* each unread element of a destination ring points to a buffer that holds its
\* packet (gie.c:1048, "only once both the buffers as well as the QEs were copied").
PublishedComplete ==
  \A p \in CopyPayload : \A i \in Unread(p) :
    LET e == ring[Dst[p]][i] IN e.tag # NoData /\ mem[e.buf] = e.tag

\* A source slot, and the buffer it points to, stay the producer's to keep
\* unchanged while the DMA engine has still to read them: the consumer index of
\* a source ring never passes an element that is being copied.
SourceStable ==
  \A d \in PendingDescs :
    /\ d.op = "qe" /\ d.src \in DataQs => Covered(d) \subseteq Posted(d.src)
    /\ d.op = "buf" => d.src[2] \in Posted(d.src[1])

\* The DMA engine never writes a slot its consumer has still to read: neither an
\* unread element of a destination ring nor a pool entry waiting in the shadow.
DestinationFree ==
  \A d \in PendingDescs : d.op = "qe" =>
    IF d.dst = "shadow"
    THEN Covered(d) \cap Slots(q["shadow"].head, q["shadow"].tail, BpLen) = {}
    ELSE Covered(d) \cap Posted(d.dst) = {}

\* Where the buffers of a pool are, place by place: in its ring, in the shadow,
\* in elements that have a buffer but are not received yet, with the consumer.
\* An ingress element is in the source ring until its QE copy is published.
InRing(p) == LET n == Pool[p] IN
  [i \in Slots(q[n].head, msg[n].prod, BpLen) |-> ring[n][i]]
InShadow(p) ==
  [i \in (IF p = "ingress" THEN Slots(q["shadow"].head, q["shadow"].tail, BpLen) ELSE {})
     |-> ring["shadow"][i]]
InElements(p) ==
  [i \in Slots(msg[Dst[p]].cons, q[Dst[p]].tail, QLen) |->
     ring[IF p = "ingress" /\ i \notin Unread(p) THEN Src[p] ELSE Dst[p]][i].buf]

\* Every buffer of a pool is in exactly one place, once: none is handed out
\* twice, none is lost.
BuffersConserved ==
  \A p \in CopyPayload :
    /\ Range(InRing(p)) \cup Range(InShadow(p)) \cup Range(InElements(p)) \cup owned[p]
         = PoolBufs(p)
    /\ Cardinality(DOMAIN InRing(p)) + Cardinality(DOMAIN InShadow(p))
       + Cardinality(DOMAIN InElements(p)) + Cardinality(owned[p]) = NBufs

\* An S/G packet is published as a whole: the first element of one is never the
\* last a consumer can see.
SgWhole ==
  \A p \in CopyPayload :
    LET m == msg[Dst[p]] IN
    Unread(p) # {} => ring[Dst[p]][(m.prod - 1 + QLen) % QLen].sg = 1

\* dma_jobs and the engine's queue agree: the descriptors of the logged jobs are
\* the ones in flight and, while a submission is under way, the ones to come.
DescsOf(s) ==
  LET d[i \in 0 .. Len(s)] == IF i = 0 THEN 0 ELSE d[i - 1] + s[i].descs IN d[Len(s)]
JobsMatchDescs == DescsOf(jobs) = Len(hw.descs) + left

\* Each queue pair is a FIFO channel: elements arrive in the order they were
\* sent, none is lost or duplicated, each with its own payload.
InFlight(p) == (nxt[p] - rcvd[p] + Tags) % Tags
Contents(p) == [k \in 1 .. InFlight(p) |-> (rcvd[p] + k - 1) % Tags]
Capacity == 2 * (QLen - 1)  \* both rings full
EgressChannel ==
  INSTANCE FifoChannel WITH Cap <- Capacity, Sizes <- Packets,
    chan <- Contents("egress"), nxt <- nxt["egress"], got <- got["egress"]
IngressChannel ==
  INSTANCE FifoChannel WITH Cap <- Capacity, Sizes <- Packets,
    chan <- Contents("ingress"), nxt <- nxt["ingress"], got <- got["ingress"]

EgressIsChannel == EgressChannel!Spec
IngressIsChannel == IngressChannel!Spec

\* The buffers of the host's pool are prefetched as GieShadow says.
Shadow ==
  INSTANCE GieShadow WITH pool <- q["host_bp"], shadow <- q["shadow"],
    prod <- msg["host_bp"].prod, cons <- msg["host_bp"].cons
ShadowIsPrefetch == Shadow!Spec

\* What was sent is received, unless the GIE gave up on a stuck DMA engine.
Delivered(p) == \A t \in Tag :
  (InFlight(p) > 0 /\ rcvd[p] = t) ~> (rcvd[p] # t \/ pc = "exit")
AllDelivered == \A p \in Pairs : Delivered(p)
=============================================================================
