# A TLA+ verification project for MUSDK (Marvell user-space SDK)

This directory holds TLA+ specifications of the concurrent core of the SDK, the
TLC configurations that check them on small instances, and theorems proved with
TLAPS. Every definition is translated from the C source; `PROJECT.json` maps each
one to the lines it stands for. Paths below are relative to the repository, whose
library is under `src/` (so `drivers/giu/gie/gie.c` is `src/drivers/giu/gie/gie.c`).

## 1. The system

MUSDK drives the packet, crypto and DMA engines of Marvell SoCs from user space.
Most of it programs registers. The part with an interesting *behaviour* is the
SmartNIC stack: a card presents a network interface to a host over PCIe, and
software on the card emulates the interface hardware.

    host                         |  card
    application                  |   NMP (management process)       data path threads
      | agnic_pfio (PF driver)   |    | dispatcher, PF/VF/custom LFs   | giu_gpio, giu_bpool
      v                          |    v                                v
    rings in host memory  <======= GIE: GIU emulator =======>  rings in local memory
    + notification area          |    one thread per DMA engine
      (producer/consumer words)  |    | dmax2 queue
                                 |    v  DMA engine

Every queue is a ring with a producer word and a consumer word. A *queue pair* of
the GIE joins a source ring to a destination ring, one of them in host memory.
The GIE copies queue elements (QEs) and, for data queues, the packet buffers they
point to. Buffers for the copies come from *buffer pools*, which are rings too,
filled by the consumers.

### Components

| component | state | operations | talks to |
|---|---|---|---|
| GIE data path, `drivers/giu/gie/gie.c` | private indices of each queue (`head`, `tail`, `qe_head`, `qe_tail`), `dma_jobs`, shadow pools | `gie_schedule`, `gie_process_remote_q`, `gie_process_local_q`, `gie_clean_dma_jobs`, add/remove/suspend/resume of pairs and pools | rings and words shared with host and local users; dmax2 |
| GIE/GIU scheduling, `gie.c`, `drivers/giu/giu.c` | current priority and queue, `q_cnt`, flags | `giu_schedule`, `gie_get_next_q` | called for ever by the application's loop |
| dmax2, `drivers/dmax2` | descriptor ring, head/tail | enqueue, completion count, dequeue | the DMA engine |
| GIU GPIO, `drivers/giu/giu_gpio.c` | shadow indices of data rings, interim queues of RSS, enable state | init, set/clear remote, enable, disable, send, recv, completions, reset | GIE (pairs), MQA (queues) |
| GIU BPOOL, `drivers/giu/giu_bpool.c` | shadow index of the pool ring | init, probe, put, deinit | GIE, MQA |
| GIU container, `drivers/giu/giu.c` | engines, tables, management channels | init, channel init/deinit, schedule | GIE, MQA |
| MQA, `drivers/mqa` | allocation bitmap, queue table, peers | alloc, free, config, associate | everything that owns a queue |
| AGNIC PF driver, `drivers/agnic` (host) | rings, command cookies | management commands, poll, send, recv, put buffers | NMP through the command and notification rings |
| NMP dispatcher, `mng/dispatch.c` | clients and their queue pairs | dispatch, receive, transmit | logical functions |
| PF / VF / custom logical functions, `mng/lf` | topology, link state, enable state | command handlers, maintenance | GIU GPIO, BPOOL |
| NMP, device management, guest library | configuration, maps, BAR | init, schedule | all of the above |
| memory manager, `lib/mem_mng.c` | free and busy lists | get, put | DMA memory users |
| SAM, `drivers/sam` | sessions, request rings | session create/destroy, enqueue, dequeue | crypto engine |
| PPv2, NETA | register images, pool accounting, classifier tables | port, queue and classifier configuration, send, recv | hardware |
| environment, kernel modules, applications | | | |

### What is hard

* **Four unsynchronised parties per ring pair**: producer, consumer, GIE thread, DMA
  engine. They share only index words, and the GIE's private indices run ahead of
  the published ones by up to two stages (QEs copied, buffers copied).
* **Asynchronous completion**: a batch is submitted in one pass and completed in
  another; one batch may be several jobs and one job several descriptors; only the
  right one may publish.
* **Wrap and limits**: a copy that goes round the ring, a full DMA queue in the
  middle of a batch, a pool that runs dry inside a scatter/gather packet.
* **Prefetch**: pool entries of the host are copied to a shadow in the background.
* **Scheduling**: starvation among queues, priorities and engines, while the
  management thread changes the tables without a lock.
* **The management protocol**: commands, answers, timeouts, late answers, dropped
  notifications, command indices that are reused.
* **Life cycle**: partial failures in long sequences of allocations; removing a pair
  whose copies are in flight; a host that resets.

`PROJECT.json` lists each hazard at its line, with the properties that cover it.

### What makes each component correct

* GIE pair: a FIFO channel that loses, duplicates and corrupts nothing, never reads
  a slot its producer may reuse, never writes a slot its consumer still reads.
* Pools: every buffer in one place; no buffer handed out twice.
* Shadow: a fill overwrites no waiting buffer and copies posted entries only.
* Scheduling: no overtaking within an engine; no pair starves.
* Management: a caller gets the answer to its own command or an error; the host
  learns of the last link state.
* Tables and allocators: no double allocation, nothing lost on failure paths.

## 2. The modules

| module | models | kind |
|---|---|---|
| `GieRing` | the index macros of `gie_int.h` | operators |
| `FifoChannel` | what a queue pair promises | abstract specification |
| `Gie` | the data path: users, GIE thread, DMA engine | detailed specification, refines `FifoChannel` and `GieShadow` |
| `GieShadow` | the prefetch of a host pool, indices only | middle specification |
| `GiuSched`, `MCGiuSched` | the scheduler and changes of its tables | specification |
| `GiuInterim`, `MCGiuInterim` | the interim queues between the queues of the guest and those of the host | specification |
| `GpioQueues`, `MCGpioQueues` | opening and closing the remote side of data interfaces: ids, memory, pools, pairs | specification |
| `NicVf` | virtual functions on the management thread, and their hosts | specification |
| `AgnicMgmt` | commands, answers and notifications between host and card | specification |
| `MemMng`, `MCMemMng` | the allocator of DMA memory | specification |
| `SamCio` | the request rings of the crypto driver and the sessions that use them | specification |
| `GieShadow_proofs`, `GiuInterim_proofs`, `NicVf_proofs`, `SamCio_proofs`, `MemMng_proofs`, `AgnicMgmt_proofs` | theorems about the module they are named for | proofs |
| `Gie_proofs` | the invariant of the data path; theorems about its indices and copies, and the refinement of `GieShadow` | proofs |
| `GieData_proofs` | theorems about what the copies do to the data: complete elements, conserved buffers, whole packets | proofs |

How they fit together. `GpioQueues` makes the pairs and pools that `GiuSched` visits; what
one visit does is `Gie`, of whose pools `GieShadow` describes the prefetch; `GiuInterim` is what
`giu_schedule` does before and after the engines, and takes the pairs behind it as `FifoChannel`
has them. `AgnicMgmt` likewise takes its rings as channels, and `NicVf` the commands that come
out of them; its `remote` is "none" or not where `GpioQueues` has the queues one by one.
`MemMng` and `SamCio` stand alone.

### Gie and the code

* `q[n]` is the `struct gie_queue` of ring `n`: the GIE's private indices. `msg[n]`
  is the pair of words in the notification area. `ring` and `mem` are contents.
* `hw` is the dmax2 queue: descriptors and how many of them are completed. `jobs`
  are the entries of `dma_jobs` between head and tail.
* `Send`, `Recv`, `PutBuff` are the users of the rings (`giu_gpio_send`,
  `giu_gpio_recv`, `giu_bpool_put_buffs`; the host driver does the same).
* `Dma` executes the next descriptor. What it copies is what is in memory at
  that moment, so a slot reused too early is seen as a wrong element.
* `Clean` is `gie_clean_dma_jobs`: it reads the number of completions, walks the
  jobs and publishes indices through `CleanMem`.
* `ProcessRemoteQ` and `ProcessBuffers` are the two phases of
  `gie_process_remote_q`; `ProcessLocalQ` is `gie_process_local_q`. What a phase
  gives to the DMA engine is put in `sub` and submitted by `Enqueue`, `Retry` and
  `GiveUp`, the loops around `dmax2_enq`; the GIE thread does nothing else until
  `sub` is empty. The step is atomic up to there because the words it reads are read
  once, at its beginning, and the parties that change them meanwhile only add
  elements, space or buffers; the words it writes are written at its end.
* Wrapped copies, the batch limit, the choice of how many elements get buffers
  (`Accepted`), and the publication of pool consumers are as in the code.
* Payloads are numbers modulo `Tags`, more than can be in flight. A producer
  writes a new number in the buffer of the slot it uses, so corruption, loss,
  duplication and reordering all show as a wrong number.

Two simplifications. `Send` enters whole packets; `giu_gpio_send` takes as many descriptors as fit, so a sender that offers more than that
enters the head of a packet alone (`giu_gpio.c:1696-1700`), which `GiuInterim` has. And `ProcessBuffers` takes the entries of a local
pool in one step, where the code tells the pool's head before it reads the entry, one at a time (`gie.c:798-800`). That is right because
`giu_bpool_put_buffs` keeps one slot free (`QUEUE_SPACE`, `giu_bpool.c:473`), and the slot it keeps is the one before the head that was told, the one being read;
the model, with both in a step, would not notice if that rule changed.

Left out of `Gie`: interrupts (MSI-X events and masks), choosing among several pools by
buffer size, tracing and statistics, and pairs that come and go.

### GieShadow and the code

`pool` is `src_q` of a `struct gie_bpool`, `shadow` its `shadow`, `prod` and `cons` the
words shared with the host. `Wait`, `Account` and `Submit` are the three outcomes of
`gie_bpool_fill_shadow`; `Process` is one batch. `Gie` is shown to implement it
(`ShadowIsPrefetch`: by TLC, and for every size by TLAPS), so what is proved of it applies to the data path.

### GiuSched and the code

`prio[e][p]` is `struct gie_prio` of engine `e`: `q_cnt`, `curr_q`, `active` and the
slots. One action per turn of the loops in `gie_get_next_q` and `gie_schedule`; `VisitQ` ends with the slot
`found`, and `Serve`, a step of its own, serves what that slot holds by then, though the pair were removed or another had taken its place.
Management (`Add`, `Remove`, `SetActive`) may act between any two of these, as it
does in the code, where no lock is taken, and in two steps where the code writes a count and a flag:
`gie_remove_queue` lowers `q_cnt` (`Remove`) before it clears the flags of the pair (`RemoveEnd`), `gie_add_queue` makes the pair
active (`Add`) before it counts (`AddEnd`); `mgmt` is the operation under way. Serving a pair may move a
batch. `qes` counts batches, `QeLimit` = 15 stands for
`SCHED_MAX_DATA_ELEMENTS` = 1000 with batches of 64. `served` and `since` are history.

### AgnicMgmt and the code

Each direction of the management channel is two rings, one in host memory and one in
local memory, joined by a queue pair. `cmdq` and `notq` are their contents in order
(what `Gie` shows of a pair allows this), and `CopyCommands` and `CopyAnswers` move a
part of them, which may end inside an answer.

* `cookie` is `cookie_list`: the buffer (whose call it belongs to), the condition the
  caller waits for, the result. `cmd_idx` is the static counter of the send.
* `Send` and `SendRefused` are `agnic_mgmt_command_send_process`, atomic under
  `mgmt_lock`; `Return` and `Timeout` are the end of the wait. A timeout may come at
  any time before the answer does: the time itself (5 s) is not modelled.
* `agnic_pfio_poll_mgmt` is called by waiting threads and by the application's loop,
  without a lock. `PollBegin` looks at the head of the ring, `PollEnd` walks the ring
  from its head, copies, dispatches and frees the cookie; `PollSkip` is the poll of an answer that has
  no buffer. `Overlap` says whether one thread's poll may begin before another's has ended.
  Finer interleavings inside the walk are not modelled.
* A cookie keeps the buffer of its call after the caller has timed out, and that buffer is on the caller's stack
  (`agnic_pfio_mng.c:428`). `Written` says whom a copy to it reaches: the caller if it still waits; else nobody, or a later call whose buffer lies
  there now. What else the stack may hold is not modelled.
* `Dispatch` is one command received, executed and answered on the card. Every
  command with an answer sets a value of its thread (as the MAC address and the MTU
  do): `conf` keeps it on both sides. `MayFail` lets commands fail.
* `LinkFlips` and `Maintenance` are the link and the periodic maintenance of the PF.
* A command is one descriptor and an answer two, which are the sizes of a PF's:
  `struct mgmt_cmd_resp` is longer than the 56 bytes of one descriptor.

Custom messages, commands of several descriptors and extended data are left out.

### GiuInterim and the code

`src` are the rings a pass empties, `dst` those it fills: from guest to GIE in the direction
"out" (`giu_gpio_pre_gie`), from GIE to guest in "in" (`giu_gpio_post_gie`). A behaviour is about
one direction (`dir`) because the two share no state.

* `PassBegin` is the head of the function, which reads the producer and consumer words of all
  destinations once; one `Visit` is a turn of its outer loop; `PassEnd` writes the words. Producers and
  consumers act between any two of these, so what a pass has read may be old.
* `shadow` remembers for every descriptor in "out" where its copy went; `Retired` is the test
  of line 401 on the oldest of them.
* `hash` says whose the hashes are. The code hashes every descriptor by itself (`giu_gpio_update_rss`; `giu_gpio.c:424`, `537`): those of a packet agree when
  the sender wrote the hash (`GIU_TXD_HK_MODE`), "packet"; otherwise each is computed from what lies in its own buffer, and a packet may be split over
  two destinations, "descriptor". `Send(q, d, e, size)` sends a packet whose head is for `d` and whose second descriptor for `e`. What is said of
  whole packets (`PacketsWhole`) and of their end (`EventuallyDone`) is said of the first kind only, for the GIE waits for ever for the rest of a packet that was
  split; `PacketsJoined` is the same of both kinds, and false of the second.
* In "in" the local arrays of `giu_gpio_post_gie` have an entry per traffic class (`NumIntcs`) and are indexed by the guest's queues. The assumption `ArraysFit`
  says that these are not more than the classes; else the code writes behind its arrays, and no behaviour can be given.
* A descriptor is `[q, d, n, size]`: its flow (queue and the destination its hash gives), its number
  in the flow, how many of its packet are still to come. Numbers count from the oldest descriptor of the
  flow that has not been taken, which keeps the states finite and says the same.
* `Send` puts a packet or its beginning, `SendRest` the rest: `giu_gpio_send` may be given
  either. `Take` is the GIE or the guest at the other end. `Restart` is `giu_gpio_reset`; `Drained`
  says whether the GIE's queues are empty by then.

Passes run in the thread of the data path and `Restart` and `Enable` are not taken in the middle of
one: that thread's own restart cannot be, and another thread's is a race of all of the data.

### GpioQueues and the code

`slot[g][<<kind, i>>]` is the record an interface keeps of its `i`-th queue of a kind: id, object,
and whether it is in the engine. The records survive a closing, as the structure does. `taken` and
`next` are the table of `drivers/mqa`, `mem` counts every block's allocations, `pairs` and `pools` are
the arrays of the engines.

* `SetRemote` and `ClearRemote` begin a call; `call.todo` is the list of queues it is going to
  visit, so the loops and the labels of `giu_gpio_set_remote` are lists: `Opening`, and
  `Unwinding(k)`, the labels from the one jumped to on. One step is one queue:
  `MakeLocal`, `MakePool`, `MakeRemoteIn`, `MakeRemoteOut`, and the three `Destroy` steps for `destroy_q`.
* What may fail is a constant: ids run out by themselves (`NoId`), `Fails` adds the
  object, the memory of a ring, the shadow of a pool, a length of 0 from the host. `Retries` and `Quiet`
  are the two assumptions on the users the code needs and does not state.
* The management thread is alone in making and destroying queues; the engines look at their arrays between
  any two of its steps (`Copy`, `Complete`). That they do not copy for an interface whose call is in progress is part of `Quiet`; they do
  not look, and `MCGpioQueuesBusy.cfg` has them copy.
* Ids and DMA memory are counted. The small objects of `mqa_queue_create` (`mqa_queue.c:231`) are not: `mqa_queue_destroy` never frees them.

Left out: several traffic classes, more than one engine per direction, the pools of the direction
"in", whose buffers stay in local memory, and the interim queues of `giu_gpio_init`.

### NicVf and the code

`at` is where the management thread is: it dispatches one command of the guest and one of each host and then runs
the maintenance of each function (`nmp_schedule`, `nmdisp_dispatch`, `lf_mng_run_maintenance`). `status` is the
word of the PCI configuration space that card and host both write, with no lock; reading and
writing it are separate steps (`seen`) where the code has them apart.

* Host actions are the states a driver goes through: reset, ready, up, configure, init done,
  enable, disable, link status, close. `HostCrash` is a host that goes away; where, is a constant
  (`CrashAnywhere`). What it sends is what `drivers/agnic` sends, and in that order, the part of
  the model that is not from `mng/`.
* What may fail in a command is `init_done`, when `giu_gpio_set_remote` finds no id, table or slot (`vf.c:1108`; what it takes back is `GpioQueues`): its
  host is "denied" and can only start again. The channel of a host that is ready may fail too (`ChannelFails`, `vf.c:409`): the callback stays, the
  error ends the round, and the next round tries again.
* `chan` is `giu_mng_ch`, and distinguishes a null pointer from a dangling one.
* `mask`, `last`, `enable` are the two flags of the link, `last_link_state` and the GPIO's
  `is_enable`; `LinkCheck` is `nmnicvf_link_state_check_n_notif`.
* `GuestCommand` is the guest's command that enables or disables a function (its own link flag); its
  others do not touch the life cycle.

The queues a host describes are two values, there and not there; `added` tells whether their
entries got a length. The sizes, the RSS tables, MAC addresses and statistics are left out.

### MemMng and the code

`free[a]` is the list of an alignment; all lists are views of one memory, which is what can go wrong.
`Get` is `mem_mng_get` with `get_greater_align`, `Put` is `mem_mng_put`; `Cut` is
`cut_free_blk`, `AddTo` is `add_free_blk` with the joins of neighbours (`Merge`). Each is one step, for the
calls hold the manager's lock, but for `get_greater_align`, which takes none: two threads
there are not modelled. Blocks carry base and end; the names of the blocks and failures of `kmalloc` are left out.

`Clients` says who uses the memory, because what the code does right depends on it:
`KeepOrWhole` of `MCMemMng` has a client of any sizes and alignments that releases nothing, and one that
releases but whose alignments are at least the greatest list's.

### SamCio and the code

`cio[c]` is the software's side of a ring (`next_request`, `next_result`, `next_cdr`, `free_cdr`, the
operations, the contents of both rings), `hw[c]` the engine's. `EnqOne` is one turn of the loop in
`sam_cio_enq` and `Submit` its end, `DeqBegin`, `DeqOne` and `DeqEnd` are `sam_cio_deq`, `Process` is one packet of the engine.
The three interleave freely. `Create`, `Destroy` and the `Close` and
`Flush` steps are `sam_session_create`, `sam_session_destroy` and `sam_cio_deinit`, whose `sam_cio_flush` waits for the
invalidations the engine still owes. A session on an EIP197 is freed only when the descriptor that
invalidates it comes back.

Left out: tokens and security associations (data), registers, the time-out of a flush, and errors of
a read for debugging. The count of free command descriptors reads `free_cdr` twice (`sam_hw.h:729-733`), which a
dequeue in another thread may advance in between; the model reads it once. Likewise `Destroy` gives back a descriptor (`sam.c:972`) with the same plain addition as
`DeqOne` (`sam.c:1168`), which in two threads may lose one of the two; in the model both are atomic.

## 3. The runs

| run | asks | bounds |
|---|---|---|
| `gie_egress` | safety of the host-to-card pair, refinement of `FifoChannel` | rings of 4, batch 2, packets of 1 and 2 elements, pool of 3 buffers |
| `gie_ingress` | the same of the card-to-host pair, with shadow and refinement of `GieShadow` | pool ring of 8, 4 buffers, fills of 2 |
| `gie_shared` | both pairs on one engine with a DMA queue of one free descriptor: delivery under fairness | rings of 2, batch 1 |
| `gie_shadow` | the prefetch at the limit `FillThresh + FillSize = BpLen` | ring of 8 |
| `giu_sched` | fairness and order within a priority, two pairs managed concurrently, write by write | 3 pairs, limit of 2 batches |
| `giu_interim` | order, completion and progress through the interim queues | one source for two destinations (out), two for one (in), rings of 4, packets of 1 and 2, hashed as packets and by descriptor |
| `gpio_queues` | what is made, taken back and routed when openings fail half way | 2 interfaces, 1 or 2 queues each way, 4 openings |
| `nic_vf` | the life of virtual functions with hosts that restart and go away, and set-ups that fail; every one is served | 2 functions |
| `agnic_reuse` | whose answer a call gets, when indices are used again | 2 threads, 5 commands, 3 indices, rings of 4 on the card |
| `agnic_torn` | the same when a copy ends inside an answer and commands fail | 1 thread, 4 commands, rings of 6, batch 2 |
| `mem_mng` | no memory handed out twice, lists true to the gaps, requests that fit granted | 16 bytes, alignments to 4 in lists, to 8 in requests |
| `sam_cio` | results meet their requests, sessions outlive them and are freed in the end | 2 rings of 3, 2 requests of up to 2 buffers, 1 session |

### Why the bounds are enough

*Data path.* A ring of 4 holds 3 elements: copies wrap at every
position, both rings fill and empty, a batch of 2 is clipped by space, by the
batch limit and by the pool, and a packet of 2 meets the end of a batch, of the
ring and of the pool. The pool of 3 (egress) fills its ring exactly; the pool of
4 in a ring of 8 (ingress) goes round while the shadow is refilled, below and above its
threshold. `Hold` bounds how many buffers a consumer keeps before it reads on;
one is enough for every order of return. `DmaLen` = 16 never blocks a submission,
which separates the questions: the blocked engine is the subject of `gie_shared`.
`gie_shared` has no deadlock check because `exit(1)` (`GiveUp`) is a legal end of the process.

*Interim queues.* With two destinations behind one source the two flows of a source are consumed out of step, which is
what the shadow is for, and a packet hashed by descriptor can be split; with two sources before one destination the space is divided. A ring of 4 takes a
packet of 2 at every offset and lets the word read at the start of a pass grow old. Rotations are told apart from three
queues on (`MCGiuInterimRotate.cfg`).

*Opening.* Two interfaces let one meet what another left, two queues in a direction make the order of
the labels matter, and four openings let each open, close, and open again after a failure. The table has 16
ids, enough for either interface and not for both at their largest, so ids run out half way; the places of
pairs and pools are used again. The interfaces are alike, hence the symmetry. There is no deadlock check as nothing opens
after the last opening.

*Virtual functions.* Two functions are the least with which one's handshake or reset can keep the
maintenance of another from being run, before and behind it in the order. Deadlock is checked.

*Management.* In `agnic_reuse` five commands go round three indices, a card ring of 4 drops
the second answer of two, and a host ring of 12 takes all there can be, so that no answer is
torn. In `agnic_torn` there are more indices than commands (a batch of 2 and a notification ahead
of an answer tear it) and the property is about what a torn answer does. The two are separate
because with both the code gives a wrong result: the rest of a torn answer, whose first word is
not a status, finds the cookie of another call. That needs 511 commands between two copies of the
GIE, with the real number of indices (512), and is left out for that. For the same reason commands do not fail in
`agnic_reuse`: a failed command's cookie is free while its caller still waits, and 511 commands
later in the same 5 s it would take another's success for its own. Both have one poll at a time, for
`MCAgnicOverlap.cfg` shows what two at once lead to. They have no deadlock check, for a host that sends no
commands is at rest.

*Memory.* 16 bytes from an unaligned base (4, where the lists go to 4 and requests to 8) hold blocks before, between and behind free ones; a
release joins none, one or two neighbours in every list. A client that releases nothing may stop, hence no deadlock check. `Drift`
bounds how far the sum of free memory may be off (a finding), not the lists.

*Crypto rings.* A ring of 3 holds two operations in flight: both rings wrap at every position, a request of two buffers fills
the command ring before the array, an invalidation meets a full one, and one session is destroyed with requests before and
behind the invalidation.

### Configurations that show findings

Each of these checks one property that the code violates where the runs above keep to the assumptions under
which it holds; none is in `PROJECT.json`'s runs. TLC's counterexample is the finding, quoted there with the lines it
contradicts.

| configuration | violates | what is different from the run |
|---|---|---|
| `MCGiePartialEnqueue` | `PublishedComplete` | a DMA queue shorter than a batch: a buffer never copied is published |
| `MCGieShadowShort` | `ShadowRoom` | a fill of 8 into a ring of 8: waiting buffers are overwritten |
| `MCGiuSchedPrios`, `MCGiuSchedEngines` | `AllServed` | two priorities, two engines: one starves |
| `MCAgnicOverlap` | `OwnAnswer` | two threads poll at once: a call succeeds with nothing in its buffer |
| `MCGiuInterimEarly` | `DoneIsTaken` | two sources before one destination: a descriptor is given back before it is taken |
| `MCGiuInterimRotate` | `EventuallyDone` | three sources: the rotation never visits one |
| `MCGiuInterimMixed` | `PacketsWhole` | a packet sent in two calls, with another queue's in between |
| `MCGiuInterimRestart` | `DoneIsTaken` | the guest restarts while the GIE has descriptors of its last life |
| `MCGpioQueuesRetry` | `RoutesOwn` | a second opening fails: its stale records remove the pair of a neighbour |
| `MCGpioQueuesBusy` | `CopiesOwn` | a reset with copies in flight: they end in another's pair |
| `MCGpioQueuesRing` (and with `MaxPools = 2`) | `ResourcesOwned` | no memory for a ring, no place for a pool: an id is lost |
| `MCNicVfCrash`, `MCNicVfGone` | `HostsServed` | a host restarts in a handshake, or never returns: it, or all, wait for ever |
| `MCNicVfClose` | `EnabledHasQueues` | a host closes without having been told the link is down |
| `MCNicVfReopen` | `QueuesAdded` | close and open without a reset: no queue gets a length |
| `MCNicVfScheduled` | `DownIsSuspended` | queues of a function never enabled are copied |
| `MCMemMngAvail` | `AvailIsFree` | the sum of free memory is not that of the free blocks |
| `MCMemMngTwice` | `BusyDisjoint` | small aligned blocks are released: memory is handed out twice |
| `MCSamCioShort`, `MCSamCioFull` | `RingHoldsPending` | a request whose data ends early; an invalidation in a full command ring (which also violates `InvalidationsFit`) |
| `MCSamCioLeak` | `AllGivenBack` | requests on a control ring: its descriptors run out |
| `MCSamCioClose` | `SessionAlive` | a session is created while its ring is closed |

Two findings have no configuration: that an error answer does not wake its caller is plain from the code
(`Answered` of `AgnicMgmt`), and so is the link flag of a PF's port that is never cleared (`pf.c:1203`).

## 4. Fairness

* The application calls `nmp_schedule` and `giu_schedule` in an endless loop
  (`apps/examples/nmp/nmp_standalone`), so the scheduler keeps stepping
  (`WF_vars(Schedule)`) and the GIE thread keeps submitting (`Enqueue`, `Retry`).
* A pass cleans completed jobs and serves each pair in turn. `Clean` and the
  `Process` actions disable one another for a moment, hence strong fairness for them.
  This supposes pairs the scheduler serves: `gie_shared` is about pairs of one priority of one
  engine, for which `giu_sched` shows `ReachServed`.
* The DMA engine completes what it was given (`WF_vars(Dma)`).
* Consumers keep reading and return buffers. Nothing is assumed of producers.
* `GiuInterim`: `giu_schedule` is called for ever, so passes begin, go on and end; consumers keep taking. The
  guest need not send, complete its packets or restart. `EventuallyDone` is about packets hashed as a whole.
* `NicVf`: `nmp_schedule` is called for ever (`WF_vars(Manage)`). A host in `Returns` that is in a handshake goes on with it;
  no host has to send, close or restart. A channel that cannot be made for want of memory or of an id can be made in some later round
  (`SF_vars(HostIsReady(v))`): it may fail any number of times, but not for ever. `HostsServed` and `LinkFollows` hold under no more than this.
* `SamCio`: the engine works on its own, calls of the application end, and it keeps calling `sam_cio_deq`, as
  the loops of the applications under `apps` do. Requests, destroying and closing are never forced.

## 5. Proofs

`GieShadow_proofs` proves, for every ring length, batch, fill size and threshold with
`Parameters` (positive integers) and `FillFits` (`Batch <= FillThresh` and
`FillThresh + FillSize <= BpLen`):

* `ShadowTypeOK`: all indices stay inside their rings;
* `ShadowNeverOverrun`: `ShadowRoom`, a fill overwrites no buffer that waits;
* `PrefetchPosted`: `FillPosted`, only entries the host posted are copied.

None of the three is inductive. The argument is over distances on the ring:
the shadow's tail, the pool's head and the published consumer are always equal
(the shadow mirrors the pool slot by slot); the copies that arrived are at most those
submitted, and those at most the entries posted; and what the shadow holds plus
what is submitted is less than the ring. `IInv` states this. The last part is
preserved by a new fill only because a fill starts when the shadow is low, which
is where `FillFits` is needed; `MCGieShadowShort.cfg` shows that without it the theorem is
false. It rests on lemmas on index arithmetic modulo the length
(range, distance after an advance, when two arcs of a ring are disjoint), by integer
reasoning from the definition of `%`. The other modules of proofs have such lemmas too, and induction in the form of sets of numbers;
each has those it needs, so that it can be read by itself.

`NicVf_proofs` proves, for every number of functions, every set `Returns` and wherever hosts stop
(`CrashAnywhere`, `Reopens` of any value):

* `NicVfTypeOK`: the states of hosts, commands, callbacks and channels are the ones named;
* `OneDeinit`: `ChannelFreedOnce`, the management channel is freed once;
* `ResetIsClean`: `ReadyIsClean`, a host told to go on after a reset finds nothing of the one before;
* `PathHasQueues`: with `Polls`, `EnabledHasQueues`. `MCNicVfClose.cfg` shows it false without.

`ChannelFreedOnce` is not inductive: that the pointer is not dangling when it is freed depends on where the thread
is, what callback is set and which bits the two sides have left in the status word. `IInv` ties these together
(`ChannelInv`, `StatusInv`), and `CleanInv` says what has been undone between the work of a reset and
the change of the callback. It needs `Polls` nowhere. `PathHasQueues` adds `QueueInv`: what a host in each state has
asked for and may rely on (`HostInv`), and what holds of a command whose host has gone meanwhile (`CommandInv`), which
the card executes all the same.

### The data path

`Gie_proofs` proves, for every length of the rings, batch, fill size, threshold and length of the DMA engine's queue
(`GieAssumption`), for either pair or both, with packets copied or not:

* `SourcesStable`: `SourceStable`, the consumer index a source's producer sees never passes an element, or the
  element of a buffer, that the engine has still to read;
* `DestinationsFree`: `DestinationFree`, the engine never writes an element its consumer has still to read, nor a
  slot of the shadow whose buffer waits. It assumes `FillFits`, as above (64, 128 and 256 in the code);
* `JobsMatch`: `JobsMatchDescs`, `dma_jobs` and the engine's queue agree on what is in flight, in the middle of a
  submission too;
* `PrefetchImplemented`: `ShadowIsPrefetch`, the data path implements `GieShadow` if the card's packets are
  copied. With `GieShadow_proofs`, what the GIE does to a host's pool overruns nothing.

The invariant (`IInv`) replaces every index by a *position*, a number that only grows; the
index is the position modulo the length. Its witnesses are the log `L` of all jobs submitted, to be submitted or being
submitted, and after each of them: `E`, the descriptors so far; `U`, the position of every queue's `qe_head`; `P`, what
the pair has published. `H` is the GIE's own position of the pair, `X` five more (what the consumer has read `rd` and the GIE
knows of it `sd`, the elements copied `qt`, those the GIE knows of `tl`, those sent `sp`), `y` the head
and tail of the shadow. `IInv` says that these are in order and less than a ring apart, and that every descriptor copies
elements that lie behind what was published before its job and not beyond what is published after it. So an element in
flight lies between what is published and what was produced, which is both theorems at once; neither could be proved by
itself, since what a clean-up publishes was decided when the job was submitted, several passes before.
Completing n descriptors cuts the log at the last job they complete (`CleanedIs`, by induction over n through
`CleanStep`), adding a batch extends it (`Built`, `BuffersBuilt`, `LocalBuilt`), and the two attempts at a submission
(`Enqueue`, `Retry`) move a boundary inside it. Only the shadow's part needs `FillFits`, and is stated under it.

For the refinement, each action that touches the host's pool is matched with the step of `GieShadow` it
makes: `PutBuff` of the card-to-host pair with `HostPut`, both clean-ups with `CopyDone(k)` (`CleanPool`: k is how far the log moves
`qe_head`, and cannot exceed what is being copied), `ProcessLocalQ` with `Process` (`FillCases`, `ServedIs`); all
others leave the pool, its shadow and its words alone.

### The data

`GieData_proofs` proves on top of it, for every length as above, either pair or both, packets of one and two elements:

* `PublishedIsComplete`: `PublishedComplete`, an element a consumer can see has its packet's tag, and its buffer the packet;
* `BuffersAreConserved`: `BuffersConserved`, each buffer of a pool is in one place (ring, shadow, an element, its
  consumer), and in it once;
* `PacketsAreWhole`: `SgWhole`, what a consumer can see ends with the last element of a packet.

They assume `FillFits`, and `[]NoSplit`: whenever a submission is under way, nothing of its array has been accepted yet, that is, `dmax2_enq`
takes all of it or nothing. That is needed: `gie_dma_copy_single` offers the array from its start again after a part of it was
accepted, and `MCGiePartialEnqueue.cfg` shows an incomplete element published as a result. The engine's
queue of the three `gie_` runs is long enough for it to hold in every state.

`IInv` speaks of positions, these of slots and what is in them. So the first step (`RegionsIs`) draws from `IInv` how the indices of a ring
follow one another, and puts what lies between two of them as a set of slots: of a pair, the elements that are unread (`UnreadIn`),
that have a buffer and are not published (`MovingIn`), that are posted and that are being copied; of its pool, the entries in the
ring, in the shadow and in a fill. `DataOf` then says of these sets:

* what is in them: an element of a source names its packet, and its buffer has it; one that has a buffer of the pool is complete, or
  a descriptor that copies its packet to that buffer is still to be executed (`ElemOk`); a descriptor that copies a buffer copies it to the
  buffer of its element (`AimedOk`); a slot that is being copied is like its source, or a descriptor for it is still to come (`CopiedOk`);
* that the last element published, or about to be with a job, ends a packet (`CutOk`);
* that each buffer is in one place (`Spread`): the maps from slots to buffers are one to one, their ranges and `owned` are
  disjoint, and together they are the pool.

`Dma` makes elements complete, and must not undo others: it writes only what a descriptor names, and no set above that counts as
done has such a slot or buffer. A clean-up makes moving elements unread; by the log of `IInv` no descriptor that is left names
them (`Kinds`), so what remained to be copied of them is done. `ProcessBuffers` and `ProcessLocalQ` take buffers from the
pool's ring or shadow for elements, those of a packet all or none. `BuffersConserved` counts slots, and one to one maps onto disjoint sets that
cover the pool make the numbers add up.

### The interim queues

`GiuInterim_proofs` proves, for every number of queues of the guest and of the GIE, rings of every length and packets of one and two descriptors:

* `InOrder`: `FlowsFifo`, in both directions what one queue sends to another is in its destination's ring, on its way or not copied yet, in order, with none
  lost and none twice, whoever the hashes belong to. It assumes `Drained` where "out" is among the directions, and `ArraysFit` where "in" is: at most as many queues of
  the guest as traffic classes;
* `TakenFirst`: `DoneIsTaken`, a descriptor is given back only when the GIE has consumed its copy;
* `WholePackets`: `PacketsWhole`, the descriptors of a packet that have one hash follow one another in a destination's ring, and the guest sees no part of such a packet.
  Of packets hashed descriptor by descriptor it says nothing, and they may be split.

The last two assume `OneSource` as well: in "out" the guest has one queue per traffic class, over any number of queues of the GIE; in "in" there is no such
condition. With two queues of the guest both are false (`MCGiuInterimEarly.cfg`, `MCGiuInterimMixed.cfg`), and without `Drained` so is
`DoneIsTaken` (`MCGiuInterimRestart.cfg`).

`FlowInv` is about the *flow* of a source and a destination: what is in the destination's ring of this source, then what the pass has copied and not published,
then what the source has for this destination and has not been copied. A `Visit` moves elements over the middle of this sequence and gives back only
what has been copied before (`ShadowFits`), so the sequence of the numbers does not change (`VisitFlow`); sending adds at its end, and
taking takes off its first element and numbers the others anew (`TakeFlow`). That is all there is to `FlowsFifo`, but that the choice of a source's or destination's
elements goes with concatenation and with the loss of a first element is a fact about a recursive function (`ThoseJoin`,
`ThoseFirst`, by induction over sets of sequences, `SeqInduct`).

`DoneIsTaken` compares the ring of the GIE with the shadow, and is not inductive: nothing in it prevents the test of line 401, which is for
equality with one index, from passing for a copy that waits. `Placed` says where the copies are: those in the shadow for a destination end with those the GIE has not consumed when the
pass looked, and these lie at the indices from the consumer index of then on, less than a ring of them. So the oldest of them is
at that very index, and `Retired` stops there (`NotRetired`). With two sources it would not be in this shadow.

For `PacketsWhole` the invariant is, in "in", that packets are whole wherever they are (`HeadsIn`). A visit keeps this because it copies a head only if there is room
for the rest, and then it copies that as well (`CopiedWhole`). In "out" the guest may have sent a head alone: then it is the last descriptor in
the source ring (`HeadsOut`), and a visit that gave everything back would have had nothing in flight (`AllDone`, by `Placed` again).

### The memory manager

`MemMng_proofs` proves, for every memory, every list of alignments and every client:

* `HandedOutOnce`: `BusyDisjoint`, no memory is in two blocks in use;
* `NothingLost`: `GapsAreFree`, each list is the gaps between the blocks in use;
* `FitsAreGranted`: `GrantsWhatFits`, a request fails only when nothing free would do.

Assumed are `HoldsOne` (the memory holds an aligned block of the greatest alignment) and `ReleasesAreWhole` (who releases
uses blocks of whole units of the greatest alignment, in memory made of such units; who releases nothing may ask
for anything). Without the second all three are false: `MCMemMngTwice.cfg`. `FitsAreGranted` also assumes `AsksForUnits`,
that no request is smaller than both its alignment and the greatest one; for the others TLC checks the property.
`IInv` adds to these properties that the blocks in use are in order and apart, each list likewise, and that a client that releases has whole units. The argument is about the
gaps: taking a block splits one gap, giving one back joins those it touches, and every list holds of each
gap the part from its aligned base on, if there is any. `cut_free_blk` and `add_free_blk` know nothing of gaps; `TakeEntries`,
`WholeGaps` and `AddAgain` show that what they do to each list is what happened to the gaps.

### The crypto rings

`SamCio_proofs` proves, for every number and size of rings, sessions and requests:

* `SessionsAlive`: `SessionAlive`, no session is given away while a request that uses it is in flight or its owner has it. It assumes `Alone`, that
  no session is created while a cio is being closed (`MCSamCioClose.cfg` shows it false without);
* `DescriptorsGivenBack`: `AllGivenBack`, when all results are taken all descriptors are free. It assumes `Dedicated`, that
  control rings carry no requests, and `~Short`, that no request has empty buffers at its end (`MCSamCioLeak.cfg`,
  `MCSamCioShort.cfg`);
* `ResultsPaired`: `Paired`, each result that `sam_cio_deq` reads is the one of the operation it is given back for, and `RingsHoldPending`:
  `RingHoldsPending`, the engine has each operation in flight that has no result before it, once and with its own descriptors.
  Besides `Dedicated` and `~Short` they assume `[]InvalidationsFit`: that in every state the command ring has a descriptor for
  each invalidation in flight. `sam_cio_sa_invalidate` does not look, so this is a condition on what the application does: `MCSamCioFull.cfg` is a
  run where it fails, while TLC, asked for it as an invariant, finds it always true with the constants of `sam_cio`, whose requests have up to two buffers;
* `OneBufferEach`: where no request has more than one buffer, `InvalidationsFit` and with it `Paired` and `RingHoldsPending` hold
  in every state, however many sessions are destroyed at once, as there are less operations in flight than entries.

The invariant says that there is an operation in flight for every result that is or will be written (`Counts`), that an
invalidation comes behind every request that uses its session, in the ring it is invalidated through (`EndsUse`), that a session with more
invalidations than it takes to free it belongs to a cio being closed (`Surplus`), what a closing has made sure of stays true
(`Closing`), and that a session its owner has, or a request uses, is valid (`Held`). For the descriptors it has a witness, `Taken`: at each operation in flight, how many
descriptors the operations from there on have taken, so that completing one takes off the first.

What relates the three arrays of a ring is `Line`, with a witness again: `rest[j]`, how many descriptors the operations from the
`j`-th on have, invalidations included, which `Taken` does not count. The engine is at the first operation without a result, so its place in the command ring is
`rest` of that operation before `next_cdr`, its place in the result ring as many results after `next_result` as are unread, and what it has been told of, and
what `sam_cio_enq` has still to tell it of, are differences of `rest` (`Placed`). `Commands` and `Results` say what is at these places. An operation that
is added (`PushLine`) puts its descriptors behind all others and adds its number to each `rest`; it overwrites none exactly because all of them fit in the ring (`Fits`): this is
where the invariant needs `InvalidationsFit`, as the check in `sam_cio_enq` counts the descriptors of requests only. The engine (`ProcessLine`) takes
the packet up to the first descriptor that is a last one, which is that of the next operation (`FirstPacket`), and a result that is read takes off the
first `rest` (`PopLine`). From `Line` to `RingHoldsPending`, whose `FlattenSeq` is recursive, leads an induction along the operations (`LineDescs`).

### The management protocol

`AgnicMgmt_proofs` proves, for every number of threads, commands, indices and descriptors and every length of the rings:

* `AnswersOwn`: `OwnAnswer`, a call that succeeds has the answer to its own command in its buffer, also when late answers are copied over it;
* `CookiesAccounted`: `CookieAccounting`, what is on its way finds its cookie, and a cookie in use waits for an answer;
* `SettingsAgree`: `ConfAgrees`, the host and the card agree on a setting that was made, when commands do not fail on the
  card (§3 says what a failed one can lead to).

Each assumes `~Overlap`, one poll at a time (`MCAgnicOverlap.cfg`), and `[]Untorn`, that no copy of the GIE has ended inside
an answer. `CopiesWhole` proves the latter of every behaviour in which a batch and the room in the host's ring are never
less than what waits on the card. What is torn is model-checked only: `agnic_torn`.

Copying does not change the *stream* of a direction, its two rings one after the other, and the invariant is about the streams.
Numbers of calls go up from the oldest answer to the newest command, so no call is in them twice (`InOrder`); an answer is
two descriptors with one index (`Joined`); each answer and each command that wants one is what the cookie of its index
waits for (`Finds`); and a cookie in use has its call in a stream, or its answer was dropped (`Awaits`). That a cookie in use is never marked
as answered is what makes a late answer harmless: a caller that is woken by its cookie finds it free, and then the answer in
its buffer is its own (`Calling`): a late copy to the memory of an earlier call may have come before it, never after (`AnswersKept`), as older
answers are ahead of it in the ring. For `SettingsAgree`, once a command was executed no other of its thread is still to be (`Owned`).

### Only model-checked

* Of `Gie`: `TypeOK`, and both refinements of `FifoChannel`, which are about the order of tags and what a consumer got: a history the
  proofs have no witness for.
* `GiuSched`, `GpioQueues`, and `AgnicMgmt` with torn answers.
* Of `SamCio`: `Paired` and `RingHoldsPending` of runs without `InvalidationsFit`, which depends on the application when requests have several buffers
  (there `RingHoldsPending` is false, `MCSamCioFull.cfg`), and what is with `Dedicated`, `~Short` or `Alone` false.
* Of `MemMng`: `GrantsWhatFits` for requests smaller than their alignment.
* Liveness and ENABLED, which are outside TLAPS's reach. Induction over data is available here over sets of numbers (`NatInduct`) and through the
  equation of a recursive function, as for `CleanRec`; schematic induction over a formula is not.

## 6. Plan

Done: the data path and the prefetch, with their proofs and the refinement between them; the scheduler; the management protocol in its main part, with its proof; the
interim queues, with their proof; opening and closing of data interfaces with their tables and with copies in
flight; virtual functions with their proof; the allocator and the crypto rings with theirs.

Next, in order of importance:

1. Proofs: the refinements of `FifoChannel` by `Gie`, on top of `Data`; `CopiesOwn` and `PairsLive` of `GpioQueues`
   for every number of interfaces; `OwnAnswer` of `AgnicMgmt` with torn answers; the round robin of `GiuSched`.
2. `PfLifecycle`: what a PF has beyond a VF: its port and pools of PPv2, the link with three
   flags, closing with data paths of both kinds (`pf.c:1241`, `1287`, `1427`).
3. A pool removed while a fill of its shadow is in flight, and pairs of other engines that name it (`gie.c:1358`), as an
   extension of `Gie`'s jobs.
4. Interrupts: the mask and the pending mark (`gie.c:313`), with the host's driver that re-arms.
5. `giu_gpio_disable` that fails half way (`giu_gpio.c:1598`), the interim queues of `giu_gpio_init`, several traffic classes in
   `GpioQueues`.
6. The guest library's keep-alive, and a link notification that is dropped and not told again, in `AgnicMgmt`.
7. The accounting of pools and transmit completions in PPv2 and NETA.

Abstract specifications worth stating: a request/response register for the management protocol, a set of free
intervals for `MemMng`, an atomic open and close for `GpioQueues`.

## 7. Not modelled, and why

The modules cover a small part of the repository's lines, and most of the rest has no state a model could
say anything about:

* PPv2, NETA and above all the classifier program registers and tables from configuration; what they compute is
  a layout of bits, and their sequences have one actor. Their accounting is in the plan.
* The token builder, security associations and register access of the crypto engine (`drivers/sam/safexcel`, vendored) and
  the software digests under `drivers/sam/crypto` compute data.
* The kernel modules (`modules/`, the GNIC driver among them) are the host's side in the kernel: a second,
  much longer implementation of what `drivers/agnic` does in user space, with the kernel's network stack around it.
* The environment layer, UIO and device management wrap the operating system.
* Applications and tests are users of the library, read for how their threads call it.
* Statistics, tracing and serialisation have no effect on behaviour.

Within the modelled components, what each module leaves out is said with it above. `PROJECT.json` lists every component with its
status.

## 8. Running

In this directory: `tlc -config MCGieEgress.cfg Gie.tla`, and so on (`PROJECT.json` names module and
configuration of every run). A configuration belongs to the module its name begins with: `MCGie...` to `Gie` but
for `MCGieShadow` and `MCGieShadowShort` (`GieShadow`), `MCAgnic...` to `AgnicMgmt`, `MCNicVf...` to `NicVf`,
`MCSamCio...` to `SamCio`, and `MCGiuSched...`, `MCGiuInterim...`, `MCGpioQueues...` and `MCMemMng...` to the MC module of that name.
The longest runs are `agnic_reuse` (6 million states), `sam_cio` (1.4 million) and `gpio_queues` and `giu_interim` (0.6 million each). For the proofs:
`tlapm GieShadow_proofs.tla` and likewise `NicVf_proofs` (seconds each), `AgnicMgmt_proofs`, `MemMng_proofs`
(2 to 3 minutes each), `GiuInterim_proofs`, `SamCio_proofs` (about 5 minutes each), `Gie_proofs` (about 10 minutes) and `GieData_proofs` (about 13 minutes).
