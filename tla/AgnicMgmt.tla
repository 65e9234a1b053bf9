----------------------------- MODULE AgnicMgmt -----------------------------
(***************************************************************************)
(* The management protocol of a PF.  Host threads send commands and wait   *)
(* for the answers (drivers/agnic/agnic_pfio_mng.c); the card executes     *)
(* them one by one and answers, and tells the host about its link          *)
(* (mng/dispatch.c, mng/lf/pf/pf.c).  Each direction is two rings, one in  *)
(* host and one in local memory, joined by a queue pair of the GIE (Gie    *)
(* says how).  A command of a PF is one descriptor, an answer is two.      *)
(***************************************************************************)
EXTENDS Integers, Sequences, SequencesExt

CONSTANTS
  Threads,    \* the host's threads that configure the interface
  Cookies,    \* cookie_count: command indices
  HostLen,    \* AGNIC_CMD_Q_LEN, AGNIC_NOTIF_Q_LEN
  LocalLen,   \* LOCAL_CMD_QUEUE_SIZE, LOCAL_NOTIFY_QUEUE_SIZE
  Batch,      \* GIE_MAX_QES_IN_BATCH
  MaxCalls,   \* bound: commands ever sent
  MaxNotes,   \* bound: maintenance passes that have something to tell the host
  MayFail,    \* whether the card may fail to execute a command
  Overlap     \* whether several threads may poll at once

ASSUME MgmtAssumption ==
  /\ {Cookies, HostLen, LocalLen, Batch} \subseteq Nat \ {0, 1}
  /\ {MaxCalls, MaxNotes} \subseteq Nat /\ {MayFail, Overlap} \subseteq BOOLEAN

NOTIFICATION == 0        \* CMD_ID_NOTIFICATION: an index no command has
Calls == 1 .. MaxCalls   \* commands are numbered in the order they are sent
NoCall == 0              \* no buffer, no answer

VARIABLES
  cmdq,     \* the command rings: "host" (written by the host) and "card"
  notq,     \* the notification rings: "card" (written by the card) and "host"
  cookie,   \* cookie_list: whose buffer, the condition and the result
  cmd_idx,  \* the command index used last
  thread,   \* each thread's call, its index, the answer in its buffer, its return
  poll,     \* what a thread in agnic_pfio_poll_mgmt has read
  calls, notes,  \* how many there were, for the bounds
  lost,     \* calls whose answer found no room: history
  conf,     \* what each thread has set (MAC address, MTU ...), on both sides
  link      \* the link itself, the card's last_link_state, the host's copy

vars == <<cmdq, notq, cookie, cmd_idx, thread, poll, calls, notes, lost, conf, link>>

CmdDesc == [idx: 1 .. Cookies - 1, call: Calls, by: Threads, resp: BOOLEAN]
\* The index of the message found, whether it is of several descriptors, the buffer.
Found == [idx: 0 .. Cookies - 1, sg: BOOLEAN, buf: Calls \cup {NoCall}]
NotFound == [idx |-> -1, sg |-> FALSE, buf |-> NoCall]
NotDesc == [idx: 0 .. Cookies - 1, pos: {"single", "mid", "last"},
            code: {"answer", "link", "alive"}, call: Calls \cup {NoCall}, ok: BOOLEAN]

Init ==
  /\ cmdq = [host |-> <<>>, card |-> <<>>] /\ notq = [host |-> <<>>, card |-> <<>>]
  /\ cookie = [i \in 0 .. Cookies - 1 |-> [buf |-> NoCall, cond |-> "sent", ok |-> TRUE]]
  /\ cmd_idx = 0
  /\ thread = [t \in Threads |-> [pc |-> "idle", call |-> NoCall, idx |-> 0,
                                  answer |-> NoCall, ret |-> "none"]]
  /\ poll = [t \in Threads |-> NotFound]
  /\ calls = 0 /\ notes = 0 /\ lost = {}
  /\ conf = [host |-> [t \in Threads |-> NoCall], card |-> [t \in Threads |-> NoCall]]
  /\ link = [up |-> FALSE, last |-> FALSE, host |-> FALSE]

Room(q, len) == len - 1 - Len(q)
Free(t) == poll[t] = NotFound   \* a thread in a poll does nothing else
Least(S) == CHOOSE x \in S : \A y \in S : x <= y

-----------------------------------------------------------------------------
(* The host: agnic_mgmt_command_send, under mgmt_lock until the wait *)

\* agnic_mgmt_cmd_idx_gen skips CMD_ID_ILLEGAL (0); CMD_ID_NOTIFICATION is far
\* beyond cookie_count.
NextIdx_Same == 1   \* (mutant: the index stays)
NextIdx == IF cmd_idx + 1 = Cookies THEN 1 ELSE cmd_idx + 1

\* (mutant: the cookie is taken without looking whether it is in use)
Available_Any(i) == TRUE
Available(i) == cookie[i].buf = NoCall

\* Refused with -EBUSY (no descriptor) or -ENOBUFS (no cookie; the index moved on).
SendRefused(t) ==
  /\ thread[t].pc = "idle" /\ Free(t) /\ calls < MaxCalls
  /\ \/ Room(cmdq.host, HostLen) < 1 /\ UNCHANGED cmd_idx
     \/ Room(cmdq.host, HostLen) >= 1 /\ ~Available(NextIdx) /\ cmd_idx' = NextIdx
  /\ calls' = calls + 1
  /\ thread' = [thread EXCEPT ![t].ret = "refused"]
  /\ UNCHANGED <<cmdq, notq, cookie, poll, notes, lost, conf, link>>

\* A command without answer (PF_DISABLE) returns at once.
Send(t, resp) ==
  LET i == NextIdx
      c == calls + 1
  IN /\ thread[t].pc = "idle" /\ Free(t) /\ calls < MaxCalls
     /\ Room(cmdq.host, HostLen) >= 1 /\ Available(i)
     /\ cmd_idx' = i /\ calls' = c
     /\ cmdq' = [cmdq EXCEPT !.host =
                   Append(@, [idx |-> i, call |-> c, by |-> t, resp |-> resp])]
     /\ cookie' = [cookie EXCEPT ![i].buf = IF resp THEN c ELSE NoCall, ![i].cond = "sent"]
     /\ thread' = [thread EXCEPT ![t] =
          [pc |-> IF resp THEN "waiting" ELSE "idle", call |-> c, idx |-> i,
           answer |-> NoCall, ret |-> IF resp THEN "none" ELSE "unanswered"]]
     /\ UNCHANGED <<notq, poll, notes, lost, conf, link>>

\* agnic_mgmt_command_resp_handle: woken; the caller keeps the value it has set.
Return(t) ==
  LET k == cookie[thread[t].idx] IN
  /\ thread[t].pc = "waiting" /\ Free(t) /\ k.cond = "rcv"
  /\ thread' = [thread EXCEPT ![t].pc = "idle", ![t].ret = IF k.ok THEN "ok" ELSE "error"]
  /\ conf' = [conf EXCEPT !.host[t] = IF k.ok THEN thread[t].call ELSE @]
  /\ UNCHANGED <<cmdq, notq, cookie, cmd_idx, poll, calls, notes, lost, link>>

\* (mutant: the cookie is freed)
Timeout_Frees(t) ==
  /\ thread[t].pc = "waiting" /\ Free(t) /\ cookie[thread[t].idx].cond = "sent"
  /\ thread' = [thread EXCEPT ![t].pc = "idle", ![t].ret = "timeout"]
  /\ cookie' = [cookie EXCEPT ![thread[t].idx].buf = NoCall]
  /\ UNCHANGED <<cmdq, notq, cmd_idx, poll, calls, notes, lost, conf, link>>

\* The wait is over before the answer came; the cookie keeps the caller's buffer.
Timeout(t) ==
  /\ thread[t].pc = "waiting" /\ Free(t) /\ cookie[thread[t].idx].cond = "sent"
  /\ thread' = [thread EXCEPT ![t].pc = "idle", ![t].ret = "timeout"]
  /\ UNCHANGED <<cmdq, notq, cookie, cmd_idx, poll, calls, notes, lost, conf, link>>

-----------------------------------------------------------------------------
(* The host: agnic_pfio_poll_mgmt, by a thread that waits or by the            *)
(* application's loop.  No lock is taken: a poll looks at the head of the ring *)
(* and then walks the ring from its head, which need not be the same any more. *)

MayPoll(t) == Free(t) /\ (Overlap \/ \A u \in Threads : Free(u))

\* Found is what the walk goes by.
PollBegin(t) ==
  LET d == Head(notq.host)
      buf == IF d.idx = NOTIFICATION THEN NoCall ELSE cookie[d.idx].buf
  IN /\ MayPoll(t)
     /\ notq.host # <<>> /\ (d.idx = NOTIFICATION \/ buf # NoCall)
     /\ poll' = [poll EXCEPT ![t] = [idx |-> d.idx, sg |-> d.pos = "mid", buf |-> buf]]
     /\ UNCHANGED <<cmdq, notq, cookie, cmd_idx, thread, calls, notes, lost, conf, link>>

\* An answer without a buffer is skipped, one descriptor at a time.
PollSkip ==
  /\ \E t \in Threads : MayPoll(t)
  /\ notq.host # <<>> /\ notq.host[1].idx # NOTIFICATION
  /\ cookie[notq.host[1].idx].buf = NoCall
  /\ notq' = [notq EXCEPT !.host = Tail(@)]
  /\ UNCHANGED <<cmdq, cookie, cmd_idx, thread, poll, calls, notes, lost, conf, link>>

\* The i-th descriptor of the ring may be part of the message p.
Fits(p, r, i) == Len(r) >= i /\ (p.sg => r[i].idx = p.idx /\ r[i].pos # "single")
\* How many descriptors the walk takes, and whether it came to the end of a message.
Taken(p, r) ==
  IF ~Fits(p, r, 1) THEN 0 ELSE IF r[1].pos = "mid" /\ Fits(p, r, 2) THEN 2 ELSE 1
Whole(p, r) == Taken(p, r) > 0 /\ r[Taken(p, r)].pos # "mid"
Drop(r, n) == SubSeq(r, n + 1, Len(r))

\* agnic_mgmt_resp_process: the cookie k after an answer with this status.
Answered(k, ok) == [k EXCEPT !.cond = IF ok THEN "rcv" ELSE @, !.ok = ok]

\* agnic_mgmt_notif_process; a keep-alive changes nothing.
Notified(e) == IF e.code = "link" THEN [link EXCEPT !.host = e.ok] ELSE link

\* Who finds a message copied to the buffer of call c: its caller while it waits.  After
\* that the buffer is stack memory, by now perhaps the buffer of a call made later.
Written(c) ==
  LET waits(u) == thread[u].pc = "waiting"
      own == {u \in Threads : waits(u) /\ thread[u].call = c}
      later == {u \in Threads : waits(u) /\ thread[u].call > c}
  IN IF c = NoCall THEN {{}} ELSE IF own # {} THEN {own} ELSE {{}} \cup {{u} : u \in later}

\* Without the end of a message nothing is dispatched.  The message is copied to the
\* buffer found, dispatched by the index of its last descriptor, and the cookie found
\* is free again.  The rest of a message given up before is a message too, with
\* whatever it has in the place of the status.
PollEnd(t) ==
  LET p == poll[t]
      r == notq.host
      n == Taken(p, r)
      whole == Whole(p, r)
      e == r[n]
      freed(c) == IF p.idx = NOTIFICATION THEN c ELSE [c EXCEPT ![p.idx].buf = NoCall]
  IN /\ ~Free(t)
     /\ poll' = [poll EXCEPT ![t] = NotFound]
     /\ notq' = [notq EXCEPT !.host = Drop(@, n)]
     /\ \E hit \in IF n = 0 THEN {{}} ELSE Written(p.buf) :
          thread' = [u \in Threads |-> IF u \in hit THEN [thread[u] EXCEPT !.answer = r[1].call]
                                      ELSE thread[u]]
     /\ link' = IF whole /\ e.idx = NOTIFICATION THEN Notified(e) ELSE link
     /\ IF whole /\ e.idx # NOTIFICATION
        THEN \E ok \in IF r[1].pos = "last" THEN BOOLEAN ELSE {r[1].ok} :
               cookie' = freed([cookie EXCEPT ![e.idx] = Answered(@, ok)])
        ELSE cookie' = freed(cookie)
     /\ UNCHANGED <<cmdq, cmd_idx, calls, notes, lost, conf>>

-----------------------------------------------------------------------------
(* The GIE: gie_process_remote_q and gie_process_local_q, without payload *)

CopyCommands ==
  \E n \in 1 .. Least({Len(cmdq.host), Batch, Room(cmdq.card, LocalLen)}) :
    /\ cmdq' = [host |-> Drop(cmdq.host, n), card |-> cmdq.card \o SubSeq(cmdq.host, 1, n)]
    /\ UNCHANGED <<notq, cookie, cmd_idx, thread, poll, calls, notes, lost, conf, link>>

\* What the card had written when the copy began, which is whole messages, or as
\* much of it as a batch and the host's ring can take.
CopyAnswers ==
  LET most == Least({Len(notq.card), Batch, Room(notq.host, HostLen)}) IN
  \E n \in 1 .. most :
    /\ n = most \/ notq.card[n].pos # "mid"
    /\ notq' = [host |-> notq.host \o SubSeq(notq.card, 1, n), card |-> Drop(notq.card, n)]
    /\ UNCHANGED <<cmdq, cookie, cmd_idx, thread, poll, calls, notes, lost, conf, link>>

-----------------------------------------------------------------------------
(* The card: nmdisp_dispatch and the maintenance of the PF *)

\* nmdisp_msg_transmit of an answer (its S/G form): all of it or nothing, and a
\* full ring is reported as success.
Answer(d, ok) ==
  LET a(pos) == [idx |-> d.idx, pos |-> pos, code |-> "answer", call |-> d.call, ok |-> ok]
  IN << a("mid"), a("last") >>

\* nmdisp_msg_recv of a message of one descriptor.
Received == Head(cmdq.card)

\* nmdisp_dispatch, nmnicpf_process_command and nmdisp_send_msg of one command.
Dispatch ==
  \E ok \in IF MayFail THEN BOOLEAN ELSE {TRUE} :
    LET d == Received
        fits == Room(notq.card, LocalLen) >= 2
    IN /\ cmdq.card # <<>>
       /\ cmdq' = [cmdq EXCEPT !.card = Tail(@)]
       /\ conf' = [conf EXCEPT !.card[d.by] = IF d.resp /\ ok THEN d.call ELSE @]
       /\ notq' = IF d.resp /\ fits THEN [notq EXCEPT !.card = @ \o Answer(d, ok)] ELSE notq
       /\ lost' = IF d.resp /\ ~fits THEN lost \cup {d.call} ELSE lost
       /\ UNCHANGED <<cookie, cmd_idx, thread, poll, calls, notes, link>>

\* The link, as nmnicpf_link_state_get finds it.
LinkFlips ==
  /\ link.up = link.last /\ notes < MaxNotes
  /\ link' = [link EXCEPT !.up = ~@]
  /\ UNCHANGED <<cmdq, notq, cookie, cmd_idx, thread, poll, calls, notes, lost, conf>>

Note(code, ok) == [idx |-> NOTIFICATION, pos |-> "single", code |-> code, call |-> NoCall, ok |-> ok]
Put(r, d) == IF Room(r, LocalLen) >= 1 THEN Append(r, d) ELSE r

\* nmnicpf_maintenance: tell of a changed link, and now and then of being alive.
Maintenance ==
  \E alive \in BOOLEAN :
    LET changed == link.up # link.last
        told == IF changed THEN Put(notq.card, Note("link", link.up)) ELSE notq.card
    IN /\ notes < MaxNotes /\ (changed \/ alive)
       /\ notes' = notes + 1
       /\ link' = [link EXCEPT !.last = link.up]
       /\ notq' = [notq EXCEPT !.card = IF alive THEN Put(told, Note("alive", TRUE)) ELSE told]
       /\ UNCHANGED <<cmdq, cookie, cmd_idx, thread, poll, calls, lost, conf>>

-----------------------------------------------------------------------------
Next ==
  \/ \E t \in Threads : \/ \E resp \in BOOLEAN : Send(t, resp)
                        \/ SendRefused(t) \/ Return(t) \/ Timeout(t)
                        \/ PollBegin(t) \/ PollEnd(t)
  \/ PollSkip
  \/ CopyCommands \/ CopyAnswers
  \/ Dispatch \/ LinkFlips \/ Maintenance

Spec == Init /\ [][Next]_vars

-----------------------------------------------------------------------------
Cookie == [buf: Calls \cup {NoCall}, cond: {"sent", "rcv"}, ok: BOOLEAN]

TypeOK ==
  /\ \A s \in {"host", "card"} :
       /\ cmdq[s] \in Seq(CmdDesc) /\ notq[s] \in Seq(NotDesc)
  /\ Len(cmdq.host) < HostLen /\ Len(cmdq.card) < LocalLen
  /\ Len(notq.host) < HostLen /\ Len(notq.card) < LocalLen
  /\ cookie \in [0 .. Cookies - 1 -> Cookie] /\ cmd_idx \in 0 .. Cookies - 1
  /\ thread \in [Threads -> [pc: {"idle", "waiting"}, call: Calls \cup {NoCall},
                   idx: 0 .. Cookies - 1, answer: Calls \cup {NoCall},
                   ret: {"none", "ok", "error", "timeout", "refused", "unanswered"}]]
  /\ poll \in [Threads -> Found \cup {NotFound}] /\ lost \subseteq Calls
  /\ conf \in [{"host", "card"} -> [Threads -> Calls \cup {NoCall}]]
  /\ link \in [up: BOOLEAN, last: BOOLEAN, host: BOOLEAN]

\* A call that succeeds has the answer to its own command in its buffer, whatever
\* timed out before it, however late answers come, and though indices are used
\* again (agnic_pfio_mng.c:269, "the data was copied to the buffer by
\* notification handler").
OwnAnswer == \A t \in Threads : thread[t].ret = "ok" => thread[t].answer = thread[t].call

\* A command or an answer on its way finds the cookie of its index to be its
\* own, and a cookie in use waits for an answer that is on its way or was dropped
\* (agnic_pfio_mng.c:843-844, "to indicate that this cookie entry is free").
OnTheWay ==
  {<<d.idx, d.call>> : d \in {e \in Range(cmdq.host) \cup Range(cmdq.card) : e.resp}}
    \cup {<<d.idx, d.call>> : d \in {e \in Range(notq.card) \cup Range(notq.host) : e.pos = "mid"}}
CookieAccounting ==
  /\ \A x \in OnTheWay : cookie[x[1]].buf = x[2]
  /\ \A i \in DOMAIN cookie :
       cookie[i].buf # NoCall => <<i, cookie[i].buf>> \in OnTheWay \/ cookie[i].buf \in lost

\* After a call that succeeded, the host and the card agree on what its thread
\* has set (agnic_pfio_mng.c:952, 983), whatever became of its earlier calls.
ConfAgrees ==
  \A t \in Threads :
    thread[t].pc = "idle" /\ thread[t].ret = "ok" => conf.host[t] = conf.card[t]
=============================================================================
