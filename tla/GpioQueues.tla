----------------------------- MODULE GpioQueues -----------------------------
(***************************************************************************)
(* The queues of the remote side of the data interfaces of a card's        *)
(* virtual functions (drivers/giu/giu_gpio.c), opened when the host has    *)
(* described them and closed when it closes or resets.  One call makes     *)
(* them one by one: an id out of the table all interfaces share            *)
(* (drivers/mqa), an object, the memory of a local ring, and at last the   *)
(* pool or the pair in the engine that copies (drivers/giu/gie/gie.c).     *)
(* A failure jumps to the labels that take back what was made.  Engines    *)
(* look at their pairs and pools between any two steps of a call.          *)
(* An interface keeps its records, with what was in them, from one opening *)
(* to the next.  One traffic class, one engine in each direction.          *)
(***************************************************************************)
EXTENDS Integers, FiniteSets, SequencesExt

CONSTANTS
  G,         \* the interfaces
  Top,       \* ids 1 .. Top of the region (MQA_GIU_REGION_SIZE)
  MaxQs,     \* queues in one direction, at most
  Sizes,     \* the <<queues out, queues in>> that hosts ask for
  MaxPairs,  \* pairs of one engine (GIE_MAX_Q_PER_PRIO)
  MaxPools,  \* pools of one engine (GIE_MAX_BPOOLS)
  MaxOpens,  \* openings in all: a bound of the model
  Fails,     \* what may fail: "object", "ring", "shadow", "length"
  Retries,   \* openings may fail also where an earlier one left its records
  Quiet      \* an interface is closed only once its copies have ended

ASSUME GpioQueuesAssumption ==
  /\ IsFiniteSet(G) /\ {Top, MaxQs, MaxPairs, MaxPools, MaxOpens} \subseteq Nat \ {0}
  /\ Sizes \subseteq (1 .. MaxQs) \X (1 .. MaxQs)
  /\ Fails \subseteq {"object", "ring", "shadow", "length"}
  /\ {Retries, Quiet} \subseteq BOOLEAN

VARIABLES
  taken,  \* the ids that are not MQA_FREE_QUEUE in mqa_queue_state
  next,   \* queue_free_index
  mem,    \* of every block of DMA memory, how often it was allocated less freed
  slot,   \* of every interface, the record of every queue
  pairs,  \* qpairs of both engines
  pools,  \* bpools of the engine out of the card
  jobs,   \* copies in flight: the engine, the place of the pair, the pair
  size,   \* of every interface, how many queues it has open out and in
  opens,  \* openings so far
  call    \* the call in progress: what it does, for whom, the queues to go

table == <<taken, next>>
engines == <<pairs, pools>>
vars == <<table, mem, slot, engines, jobs, size, opens, call>>

Ids == 1 .. Top
Blocks == 1 .. 3 * MaxQs * Cardinality(G)
Engines == {"out", "in"}

\* outqs, rem_inqs.q and rem_inqs.poolq; inqs and rem_outqs.
Local == {"outq", "inq"}
Kinds == Local \cup {"rem_inq", "poolq", "rem_outq"}
Queues == Kinds \X (1 .. MaxQs)

NoPool == [id |-> 0, ring |-> 0]
NoPair == [src |-> 0, dst |-> 0, ring |-> 0, pool |-> 0]
NoObj == [id |-> -1, ring |-> 0]        \* a NULL mqa_q
NoRecord == [id |-> 0, obj |-> NoObj, gie |-> FALSE]
Idle == [op |-> "idle"]
Shut == <<0, 0>>

Init ==
  /\ taken = {} /\ next = 1
  /\ mem = [b \in Blocks |-> 0]
  /\ slot = [g \in G |-> [q \in Queues |-> NoRecord]]
  /\ pairs = [e \in Engines |-> [p \in 1 .. MaxPairs |-> NoPair]]
  /\ pools = [p \in 1 .. MaxPools |-> NoPool]
  /\ jobs = {} /\ size = [g \in G |-> Shut] /\ opens = 0 /\ call = Idle

-----------------------------------------------------------------------------
(* The order of the visits. *)

\* How many queues of kind k there are if n = <<out, in>> are asked for.
Count(k, n) == IF k \in {"inq", "rem_outq"} THEN n[2] ELSE n[1]
Visits(kinds, n) ==
  FlattenSeq([j \in DOMAIN kinds |-> [i \in 1 .. Count(kinds[j], n) |-> <<kinds[j], i>>]])

Opening == <<"outq", "poolq", "rem_inq", "inq", "rem_outq">>
Clearing_Local == <<"inq", "rem_outq", "outq", "rem_inq", "poolq">> \* (mutant)
Clearing == <<"rem_outq", "inq", "rem_inq", "outq", "poolq">>
Unwinding_NoPool(k) == SelectSeq(Reverse(SubSeq(Opening, 1, SelectInSeq(Opening, LAMBDA x : x = k))), LAMBDA x : x # "poolq") \* (mutant)
\* The labels at the end of giu_gpio_set_remote, from the one of kind k on.
Unwinding(k) == Reverse(SubSeq(Opening, 1, SelectInSeq(Opening, LAMBDA x : x = k)))

Visit == Head(call.todo)
Record(q) == slot[call.g][q]
Beside_First(q, k) == <<k, 1>> \* (mutant)
\* The queue of kind k with the index of q.
Beside(q, k) == <<k, q[2]>>

-----------------------------------------------------------------------------
(* Ids, memory, pools and pairs. *)

\* queue_alloc: the next free id from queue_free_index on, and round.
Succ(i) == IF i = Top THEN 1 ELSE i + 1
From(i) == [d \in 1 .. Top |-> 1 + ((i + d - 2) % Top)]
NextId == LET s == From(next) IN s[SelectInSeq(s, LAMBDA i : i \notin taken)]
TakeId == taken # Ids /\ taken' = taken \cup {NextId} /\ next' = Succ(NextId)

\* mv_sys_dma_mem_alloc and mv_sys_dma_mem_free; no block is block 0.
FreeBlock == CHOOSE b \in Blocks : mem[b] = 0
Taken(b) == [mem EXCEPT ![b] = @ + 1]
Freed(b) == IF b = 0 THEN mem ELSE [mem EXCEPT ![b] = @ - 1]

\* gie_find_bpool and gie_find_q_pair: 0 if there is none.
FindPool(i) == SelectInSeq(pools, LAMBDA p : p.id = i)
FindPair(e, i) == SelectInSeq(pairs[e], LAMBDA p : p # NoPair /\ i \in {p.src, p.dst})
FreePool == SelectInSeq(pools, LAMBDA p : p = NoPool)
FreePair_First(e) == 1 \* (mutant)
FreePair(e) == SelectInSeq(pairs[e], LAMBDA p : p = NoPair)
AddPair(e, p) == pairs' = [pairs EXCEPT ![e][FreePair(e)] = p]

-----------------------------------------------------------------------------
(* giu_gpio_set_remote. *)

Unused(g) == \A q \in Queues : slot[g][q] = NoRecord
Needed(n) == 3 * n[1] + 2 * n[2]
Fits(n) == /\ Needed(n) <= Top - Cardinality(taken)
           /\ n[1] <= Cardinality({p \in 1 .. MaxPools : pools[p] = NoPool})
           /\ n[1] <= Cardinality({p \in 1 .. MaxPairs : pairs["out"][p] = NoPair})
           /\ n[2] <= Cardinality({p \in 1 .. MaxPairs : pairs["in"][p] = NoPair})

\* INIT_DONE of a host that has described its queues.
SetRemote(g) ==
  /\ call = Idle /\ size[g] = Shut /\ opens < MaxOpens
  /\ \E n \in Sizes :
       /\ Retries \/ Unused(g) \/ Fits(n)
       /\ call' = [op |-> "open", g |-> g, n |-> n, todo |-> Visits(Opening, n),
                   may |-> Retries \/ Unused(g)]
  /\ opens' = opens + 1
  /\ UNCHANGED <<table, mem, slot, engines, jobs, size>>

\* The next iteration, the end of the call, the jump to a label.
Onward ==
  /\ UNCHANGED opens
  /\ IF Len(call.todo) > 1
     THEN call' = [call EXCEPT !.todo = Tail(@)] /\ UNCHANGED size
     ELSE /\ call' = Idle
          /\ size' = [size EXCEPT ![call.g] = IF call.op = "open" THEN call.n ELSE Shut]
Jump == /\ call' = [call EXCEPT !.op = "undo", !.todo = Visits(Unwinding(Visit[1]), call.n)]
        /\ UNCHANGED <<size, opens>>

MayFail(what) == call.may /\ what \in Fails
Put(q, id, obj) == [slot EXCEPT ![call.g][q].id = id, ![call.g][q].obj = obj]
Hold(s, q) == [s EXCEPT ![call.g][q].gie = TRUE]

\* No id is left: the record keeps the one of before.
NoId ==
  /\ call.op = "open" /\ taken = Ids
  /\ Jump /\ UNCHANGED <<table, mem, slot, engines, jobs>>

\* mqa_queue_create fails: without an object, or with one that has no id yet.
NoQueue ==
  /\ call.op = "open" /\ TakeId
  /\ \/ MayFail("object") /\ slot' = Put(Visit, NextId, NoObj)
     \/ MayFail("ring") /\ Visit[1] \in Local
        /\ slot' = Put(Visit, NextId, [id |-> 0, ring |-> 0])
  /\ Jump /\ UNCHANGED <<mem, engines, jobs>>

MakeLocal ==
  /\ call.op = "open" /\ Visit[1] \in Local /\ TakeId
  /\ slot' = Put(Visit, NextId, [id |-> NextId, ring |-> FreeBlock])
  /\ mem' = Taken(FreeBlock)
  /\ Onward /\ UNCHANGED <<engines, jobs>>

\* A pool without its shadow keeps its place; one without a place has none.
MakePool ==
  /\ call.op = "open" /\ Visit[1] = "poolq" /\ TakeId
  /\ slot' = Hold(Put(Visit, NextId, [id |-> NextId, ring |-> 0]), Visit)
  /\ \/ /\ FreePool # 0
        /\ pools' = [pools EXCEPT ![FreePool] = [id |-> NextId, ring |-> FreeBlock]]
        /\ mem' = Taken(FreeBlock) /\ Onward
     \/ /\ FreePool # 0 /\ MayFail("shadow")
        /\ pools' = [pools EXCEPT ![FreePool] = [id |-> NextId, ring |-> 0]]
        /\ Jump /\ UNCHANGED mem
     \/ /\ FreePool = 0 \/ MayFail("length")
        /\ Jump /\ UNCHANGED <<pools, mem>>
  /\ UNCHANGED <<pairs, jobs>>

MakeRemoteIn ==
  LET q == Beside(Visit, "outq") IN
  /\ call.op = "open" /\ Visit[1] = "rem_inq" /\ TakeId
  /\ slot' = Hold(Put(Visit, NextId, [id |-> NextId, ring |-> 0]), q)
  /\ IF FreePair("out") # 0
     THEN /\ AddPair("out", [src |-> Record(q).id, dst |-> NextId, ring |-> Record(q).obj.ring,
                             pool |-> FindPool(Record(Beside(Visit, "poolq")).id)])
          /\ Onward
     ELSE Jump /\ UNCHANGED pairs
  /\ UNCHANGED <<mem, pools, jobs>>

MakeRemoteOut ==
  LET q == Beside(Visit, "inq") IN
  /\ call.op = "open" /\ Visit[1] = "rem_outq" /\ TakeId
  /\ slot' = Hold(Put(Visit, NextId, [id |-> NextId, ring |-> 0]), Visit)
  /\ IF FreePair("in") # 0
     THEN /\ AddPair("in", [src |-> NextId, dst |-> Record(q).id, ring |-> Record(q).obj.ring,
                            pool |-> 0])
          /\ Onward
     ELSE Jump /\ UNCHANGED pairs
  /\ UNCHANGED <<mem, pools, jobs>>

-----------------------------------------------------------------------------
(* giu_gpio_clear_remote, and the labels: destroy_q for one queue after the other. *)

Held(g) == {q \in Queues : q[2] <= Count(q[1], size[g])}
Sends(g, p) == \E q \in Held(g) : slot[g][q].id = p.src
Copying(g) == \E j \in jobs : Sends(g, j.pair)

\* CC_CLOSE or a reset.
ClearRemote(g) ==
  /\ call = Idle /\ size[g] # Shut /\ (Quiet => ~Copying(g))
  /\ call' = [op |-> "clear", g |-> g, todo |-> Visits(Clearing, size[g])]
  /\ UNCHANGED <<table, mem, slot, engines, jobs, size, opens>>

Removing == call.op \in {"undo", "clear"}

\* mqa_queue_destroy and queue_free.  The record is left as it is, and so is the struct
\* mqa_q of mqa_queue_create, which nothing frees: ids and DMA memory are all that counts.
Release(q) == /\ mem' = Freed(Record(q).obj.ring)
              /\ taken' = taken \ {Record(q).id} /\ UNCHANGED next

Mismatch(q) == Record(q).obj # NoObj /\ Record(q).obj.id # Record(q).id
Source(q) == Record(IF q[1] = "rem_inq" THEN Beside(q, "outq") ELSE q)
InEngine(q) == q[1] \notin Local /\ Source(q).gie /\ Record(q).obj # NoObj

DestroyUnpaired ==
  /\ Removing /\ ~InEngine(Visit)
  /\ IF Mismatch(Visit) THEN UNCHANGED <<table, mem>> ELSE Release(Visit)
  /\ Onward /\ UNCHANGED <<slot, engines, jobs>>

DestroyPool ==
  LET p == FindPool(Record(Visit).id) IN
  /\ Removing /\ InEngine(Visit) /\ Visit[1] = "poolq"
  /\ IF Mismatch(Visit) \/ p = 0 THEN UNCHANGED <<table, mem, pools>>
     ELSE /\ mem' = Freed(pools[p].ring)
          /\ pools' = [pools EXCEPT ![p] = NoPool]
          /\ taken' = taken \ {Record(Visit).id} /\ UNCHANGED next
  /\ Onward /\ UNCHANGED <<slot, pairs, jobs>>

\* A pair goes by the id of its source only.
DestroyPaired ==
  LET e == IF Visit[1] = "rem_inq" THEN "out" ELSE "in"
      i == Source(Visit).obj.id
      p == FindPair(e, i) IN
  /\ Removing /\ InEngine(Visit) /\ Visit[1] # "poolq"
  /\ IF Mismatch(Visit) \/ p = 0 THEN UNCHANGED <<table, mem, pairs>>
     ELSE IF pairs[e][p].src # i THEN UNCHANGED <<table, mem, pairs>>
     ELSE pairs' = [pairs EXCEPT ![e][p] = NoPair] /\ Release(Visit)
  /\ Onward /\ UNCHANGED <<slot, pools, jobs>>

-----------------------------------------------------------------------------
(* The engines. *)

\* gie_process_remote_q and gie_process_local_q of an interface in use.  The engines
\* ask for no such thing: that they leave an interface alone while its queues change is
\* what Quiet assumes.
Copy(e, p) ==
  /\ pairs[e][p] # NoPair
  /\ ~ \E j \in jobs : j.e = e /\ j.p = p
  /\ \E g \in G : Sends(g, pairs[e][p]) /\ (Quiet /\ call # Idle => call.g # g)
  /\ jobs' = jobs \cup {[e |-> e, p |-> p, pair |-> pairs[e][p]]}
  /\ UNCHANGED <<table, mem, slot, engines, size, opens, call>>

Complete ==
  /\ \E j \in jobs : jobs' = jobs \ {j}
  /\ UNCHANGED <<table, mem, slot, engines, size, opens, call>>

Next ==
  \/ \E g \in G : SetRemote(g) \/ ClearRemote(g)
  \/ NoId \/ NoQueue \/ MakeLocal \/ MakePool \/ MakeRemoteIn \/ MakeRemoteOut
  \/ DestroyUnpaired \/ DestroyPool \/ DestroyPaired
  \/ \E e \in Engines, p \in 1 .. MaxPairs : Copy(e, p)
  \/ Complete

Spec == Init /\ [][Next]_vars

-----------------------------------------------------------------------------
(* Properties. *)

HeldRecords == UNION {{<<g, q, slot[g][q]>> : q \in Held(g)} : g \in G}
HeldIds == {h[3].id : h \in HeldRecords}
HeldRings == {h[3].obj.ring : h \in HeldRecords} \cup {pools[p].ring : p \in DOMAIN pools}

\* After every call, failed ones included, the table has exactly the ids of the
\* queues of open interfaces, no two queues have the same, and just their rings and
\* the shadows of the pools are allocated, once: no id and no DMA memory leaks, none is
\* freed twice or from under another (the labels of giu_gpio_set_remote, destroy_q).
ResourcesOwned ==
  /\ \A b \in Blocks : mem[b] \in {0, 1}
  /\ call = Idle =>
       /\ taken = HeldIds /\ Cardinality(taken) = Cardinality(HeldRecords)
       /\ {b \in Blocks : mem[b] = 1} = HeldRings \ {0}

\* After every call the engines connect the i-th local queue of an open interface to
\* the i-th queue of its own host, and take buffers from the i-th pool of that host.
RoutesOwn ==
  call = Idle =>
    /\ {pairs["out"][p] : p \in 1 .. MaxPairs} \ {NoPair} =
         UNION {{[src |-> slot[g][<<"outq", i>>].id, dst |-> slot[g][<<"rem_inq", i>>].id,
                  ring |-> slot[g][<<"outq", i>>].obj.ring,
                  pool |-> FindPool(slot[g][<<"poolq", i>>].id)] : i \in 1 .. size[g][1]} : g \in G}
    /\ {pairs["in"][p] : p \in 1 .. MaxPairs} \ {NoPair} =
         UNION {{[src |-> slot[g][<<"rem_outq", i>>].id, dst |-> slot[g][<<"inq", i>>].id,
                  ring |-> slot[g][<<"inq", i>>].obj.ring, pool |-> 0] : i \in 1 .. size[g][2]} : g \in G}

\* At every step of a call a pair that an engine may visit has both its ids, the
\* memory of its local ring and, out of the card, a pool with its shadow.
PairsLive ==
  \A e \in Engines : \A p \in 1 .. MaxPairs : LET x == pairs[e][p] IN
    x # NoPair => /\ {x.src, x.dst} \subseteq taken /\ mem[x.ring] = 1
                  /\ e = "out" => x.pool # 0 /\ pools[x.pool].ring # 0

\* A copy in flight ends in the pair it began in: the job's cookies point into it.
CopiesOwn == \A j \in jobs : pairs[j.e][j.p] = j.pair
=============================================================================
