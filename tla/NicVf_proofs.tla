---------------------------- MODULE NicVf_proofs ----------------------------
(***************************************************************************)
(* For every number of functions, every choice of hosts that may not       *)
(* return and wherever hosts go away: a reset leaves nothing of the host   *)
(* before, the management channel is freed once, and, for hosts that ask   *)
(* for the link status before they close, an enabled data path has its     *)
(* queues.                                                                 *)
(***************************************************************************)
EXTENDS NicVf, TLAPS

\* Nothing is left of a host.
Clean(v) ==
  /\ cmd[v] = "none" /\ remote[v] = "none" /\ ~enable[v] /\ ~added[v]
  /\ "remote" \notin mask[v]

\* The thread waits for the host of v, or has seen it ready.
Meeting(v) == at = <<"ready", v>> \/ at = <<"mark", v>>

\* Where the thread is, against the callback and the channel.
ChannelInv(v) ==
  /\ at \in {"reset", "close", "closed"} \X {v} => cb[v] = "maintenance"
  /\ Meeting(v) => cb[v] = "host_ready" /\ chan[v] = "live"
  /\ cb[v] = "host_ready" /\ chan[v] = "live" => Meeting(v)
  /\ at = <<"reset", v>> => chan[v] # "live"
  /\ chan[v] = "freed" => cb[v] = "host_ready" \/ at = <<"reset", v>>
  /\ chan[v] # "twice"

\* The status word, whose bits tell how far the host can be.
StatusInv(v) ==
  /\ at = <<"reset", v>> => "reset" \in status[v]
  /\ at = <<"mark", v>> /\ "reset" \in seen => "reset" \in status[v] /\ "dev_ready" \notin seen
  /\ "reset" \in status[v] => "dev_ready" \notin status[v] /\ host[v] \in {"off", "reset"}
  /\ status[v] = {"dev_ready"} => cb[v] = "host_ready" /\ ~Meeting(v)
  /\ cb[v] = "host_ready" => "dev_mgmt" \notin status[v] /\ host[v] \in {"off", "reset", "ready"}

\* Between the work of a reset and the call-back's change the function is clean.
CleanInv(v) ==
  /\ last[v] = enable[v]
  /\ at = <<"reset", v>> \/ cb[v] = "host_ready" => Clean(v)

IInv == TypeOK /\ \A v \in Lfs : ChannelInv(v) /\ StatusInv(v) /\ CleanInv(v)

\* What a host that goes on has asked for, and what it may rely on.
HostInv(v) ==
  /\ host[v] \notin {"off", "reset"} => cmd[v] \in Wants(host[v]) \cup {"none"}
  /\ host[v] = "ready" \/ (host[v] = "reset" /\ "dev_ready" \in status[v]) => Clean(v)
  /\ host[v] \in {"up", "added", "closed"} => remote[v] = "none"
  /\ host[v] \in {"open", "enabled", "disabled"} => remote[v] # "none"
  /\ host[v] \in {"up", "added", "closed", "disabled", "down"} => "remote" \notin mask[v]
  /\ host[v] \in {"up", "added", "closed", "down"} => ~last[v]

\* What holds of a command that waits, also when its host has gone.
CommandInv(v) ==
  /\ cmd[v] = "close" => "remote" \notin mask[v] /\ ~last[v]
  /\ cmd[v] = "enable" => remote[v] # "none"
  /\ "remote" \in mask[v] => remote[v] # "none"

PathInv(v) ==
  /\ enable[v] => remote[v] = "scheduled"
  /\ HostInv(v) /\ CommandInv(v)

QueueInv == \A v \in Lfs : PathInv(v)
-----------------------------------------------------------------------------
\* A check of the link keeps the state of the data path typed.
LEMMA LinkCheckTyped ==
  ASSUME TypeOK, NEW v \in Lfs, LinkCheck(v, mask[v])
  PROVE  /\ last' \in [Lfs -> BOOLEAN] /\ enable' \in [Lfs -> BOOLEAN]
         /\ remote' \in [Lfs -> {"none", "scheduled", "suspended"}]
<1> DEFINE up == mask[v] = LinkUp
<1>1. up \in BOOLEAN
  OBVIOUS
<1>2. /\ last' = [last EXCEPT ![v] = up]
      /\ enable' = [enable EXCEPT ![v] = IF up # last[v] THEN up ELSE @]
      /\ remote' = [remote EXCEPT ![v] = IF up # last[v] THEN Scheduled(@, up) ELSE @]
  BY DEF LinkCheck
<1>3. Scheduled(remote[v], up) \in {"none", "scheduled", "suspended"}
  BY DEF Scheduled, TypeOK
<1> HIDE DEF up
<1> QED
  BY <1>1, <1>2, <1>3 DEF TypeOK

\* So does the end of a channel, whatever becomes of its pointer,
LEMMA DeinitTyped ==
  ASSUME TypeOK, NEW v \in Lfs, NEW pointer \in {"null", "freed"}, Deinit(v, pointer)
  PROVE  /\ chan' \in [Lfs -> {"null", "live", "freed", "twice"}]
         /\ cmd' \in [Lfs -> Commands]
BY DEF TypeOK, Deinit, Commands

\* and the work of a reset.
LEMMA ResetWorkTyped ==
  ASSUME TypeOK, NEW v \in Lfs, ResetWork(v)
  PROVE  /\ mask' \in [Lfs -> SUBSET LinkUp] /\ last' \in [Lfs -> BOOLEAN]
         /\ enable' \in [Lfs -> BOOLEAN] /\ added' \in [Lfs -> BOOLEAN]
         /\ remote' \in [Lfs -> {"none", "scheduled", "suspended"}]
BY DEF TypeOK, ResetWork, ClearRemote

-----------------------------------------------------------------------------
\* Every step keeps the types; the long ones by the lemmas above.
\* A command is one of those the card knows.
LEMMA WhichCommand ==
  ASSUME TypeOK, NEW v \in Lfs, HostCommand(v)
  PROVE  \/ cmd[v] = "none" /\ UNCHANGED <<host, path>>
         \/ cmd[v] = "configure" /\ Configure(v)
         \/ cmd[v] = "init_done" /\ InitDone(v)
         \/ cmd[v] = "enable" /\ Enable(v)
         \/ cmd[v] = "disable" /\ Disable(v)
         \/ cmd[v] = "link_status" /\ LinkStatus(v)
         \/ cmd[v] = "close" /\ VfClose(v)
BY DEF HostCommand, TypeOK, Commands

\* Whatever a command answers, its host is in one of its states.
LEMMA AnsweredTyped ==
  ASSUME TypeOK, NEW v \in Lfs, NEW h \in Hosts, Answered(v, h)
  PROVE  host' \in [Lfs -> Hosts]
BY DEF TypeOK, Answered

\* Every command keeps the types.
LEMMA HostCommandTyped ==
  ASSUME NicVfAssumption, TypeOK, NEW v \in Lfs, HostCommand(v) PROVE TypeOK'
<1>1. /\ at' \in Steps \X Lfs /\ cmd' \in [Lfs -> Commands]
      /\ UNCHANGED <<status, seen, cb, chan>>
  BY NicVfAssumption DEF HostCommand, Following, TypeOK, Steps, Commands, Lfs
<1>2. ASSUME Configure(v) \/ InitDone(v) \/ Enable(v) \/ Disable(v) \/ LinkStatus(v) \/ VfClose(v)
      PROVE  /\ mask' \in [Lfs -> SUBSET LinkUp] /\ last' \in [Lfs -> BOOLEAN]
             /\ enable' \in [Lfs -> BOOLEAN] /\ added' \in [Lfs -> BOOLEAN]
             /\ remote' \in [Lfs -> {"none", "scheduled", "suspended"}]
  <2> USE DEF TypeOK
  <2>1. CASE Configure(v)
    BY <2>1 DEF Configure
  <2>2. CASE InitDone(v)
    BY <2>2 DEF InitDone
  <2>3. CASE Enable(v)
    <3>1. mask[v] \cup {"remote"} \in SUBSET LinkUp
      BY DEF LinkUp
    <3> QED
      BY <2>3, <3>1 DEF Enable
  <2>4. CASE Disable(v)
    <3>1. mask[v] \ {"remote"} \in SUBSET LinkUp
      BY DEF LinkUp
    <3> QED
      BY <2>4, <3>1 DEF Disable
  <2>5. CASE LinkStatus(v)
    BY <2>5 DEF LinkStatus, path
  <2>6. CASE VfClose(v)
    BY <2>6 DEF VfClose, ClearRemote
  <2> QED
    BY <1>2, <2>1, <2>2, <2>3, <2>4, <2>5, <2>6
<1>3. ASSUME Configure(v) \/ InitDone(v) \/ Enable(v) \/ Disable(v) \/ LinkStatus(v) \/ VfClose(v)
      PROVE  \E h \in Hosts : Answered(v, h)
  BY <1>3
  DEF Configure, InitDone, Enable, Disable, LinkStatus, VfClose, TypeOK, Hosts
<1>4. CASE UNCHANGED <<host, path>>
  BY <1>1, <1>4 DEF TypeOK, path
<1>5. CASE ~UNCHANGED <<host, path>>
  BY <1>1, <1>2, <1>3, <1>5, WhichCommand, AnsweredTyped DEF TypeOK
<1> QED
  BY <1>4, <1>5

\* The first step of a reset keeps the types,
LEMMA ResetCheckTyped ==
  ASSUME TypeOK, NEW v \in Lfs, ResetCheck(v) PROVE TypeOK'
<1>1. /\ at' \in Steps \X Lfs
      /\ UNCHANGED <<status, host, seen, cb>>
  BY DEF ResetCheck, TypeOK, Steps
<1>2. CASE "reset" \in status[v]
  BY <1>1, <1>2, DeinitTyped, ResetWorkTyped DEF ResetCheck, TypeOK
<1>3. CASE "reset" \notin status[v]
  BY <1>1, <1>3 DEF ResetCheck, TypeOK, path
<1> QED
  BY <1>2, <1>3

\* so does that of a close or, without a request, the check of the link,
LEMMA CloseCheckTyped ==
  ASSUME NicVfAssumption, TypeOK, NEW v \in Lfs, CloseCheck(v) PROVE TypeOK'
<1>1. /\ at' \in Steps \X Lfs
      /\ UNCHANGED <<status, host, seen, cb, mask, added>>
  BY NicVfAssumption DEF CloseCheck, Following, TypeOK, Steps, Lfs
<1>2. CASE "close_req" \in status[v]
  BY <1>1, <1>2, DeinitTyped DEF CloseCheck, TypeOK
<1>3. CASE "close_req" \notin status[v]
  BY <1>1, <1>3, LinkCheckTyped DEF CloseCheck, TypeOK
<1> QED
  BY <1>2, <1>3

\* and the last one of a close.
LEMMA CloseDoneTyped ==
  ASSUME NicVfAssumption, TypeOK, NEW v \in Lfs, CloseDone(v) PROVE TypeOK'
<1>1. /\ at' \in Steps \X Lfs /\ status' \in [Lfs -> SUBSET Bits]
      /\ UNCHANGED <<host, cmd, seen, cb, chan, mask, added>>
  BY NicVfAssumption DEF CloseDone, Following, TypeOK, Steps, Lfs, Bits
<1> QED
  BY <1>1, LinkCheckTyped DEF CloseDone, TypeOK

\* Every step keeps the types.
LEMMA TypeStep ==
  ASSUME NicVfAssumption, TypeOK, [Next]_vars PROVE TypeOK'
<1> USE DEF TypeOK, Lfs, Bits, LinkUp, Hosts, Handshake, Commands, Steps, thread, path
<1>1. ASSUME GuestCommand PROVE TypeOK'
  BY <1>1, NicVfAssumption DEF GuestCommand
<1>2. ASSUME NEW v \in Lfs, HostReset(v) PROVE TypeOK'
  BY <1>2, NicVfAssumption DEF HostReset
<1>3. ASSUME NEW v \in Lfs, HostReady(v) PROVE TypeOK'
  BY <1>3, NicVfAssumption DEF HostReady
<1>4. ASSUME NEW v \in Lfs, HostUp(v) PROVE TypeOK'
  BY <1>4, NicVfAssumption DEF HostUp
<1>5. ASSUME NEW v \in Lfs, HostSend(v) PROVE TypeOK'
  BY <1>5, NicVfAssumption DEF HostSend, Wants
<1>6. ASSUME NEW v \in Lfs, HostClose(v) PROVE TypeOK'
  BY <1>6, NicVfAssumption DEF HostClose
<1>7. ASSUME NEW v \in Lfs, HostClosed(v) PROVE TypeOK'
  BY <1>7, NicVfAssumption DEF HostClosed
<1>8. ASSUME NEW v \in Lfs, HostCrash(v) PROVE TypeOK'
  BY <1>8, NicVfAssumption DEF HostCrash
<1>9. ASSUME NEW v \in Lfs, HostCommand(v) PROVE TypeOK'
  BY <1>9, NicVfAssumption, HostCommandTyped
<1>10. ASSUME NEW v \in Lfs, ResetCheck(v) PROVE TypeOK'
  BY <1>10, NicVfAssumption, ResetCheckTyped
<1>11. ASSUME NEW v \in Lfs, ResetDone(v) PROVE TypeOK'
  BY <1>11, NicVfAssumption DEF ResetDone
<1>12. ASSUME NEW v \in Lfs, CloseCheck(v) PROVE TypeOK'
  BY <1>12, NicVfAssumption, CloseCheckTyped
<1>13. ASSUME NEW v \in Lfs, CloseDone(v) PROVE TypeOK'
  BY <1>13, NicVfAssumption, CloseDoneTyped
<1>14. ASSUME NEW v \in Lfs, HostIsReady(v) PROVE TypeOK'
  BY <1>14, NicVfAssumption DEF HostIsReady
<1>15. ASSUME NEW v \in Lfs, ReadStatus(v) PROVE TypeOK'
  BY <1>15, NicVfAssumption DEF ReadStatus
<1>16. ASSUME NEW v \in Lfs, MarkReady(v) PROVE TypeOK'
  BY <1>16, NicVfAssumption DEF MarkReady, Following
<1>17. ASSUME NEW v \in Lfs, ChannelFails(v) PROVE TypeOK'
  BY <1>17, NicVfAssumption DEF ChannelFails
<1>18. CASE UNCHANGED vars
  BY <1>18 DEF vars
<1> QED
  BY <1>1, <1>2, <1>3, <1>4, <1>5, <1>6, <1>7, <1>8, <1>9, <1>10,
     <1>11, <1>12, <1>13, <1>14, <1>15, <1>16, <1>17, <1>18 DEF Next, Manage

-----------------------------------------------------------------------------
\* What every step does to the three invariants of a function w, whichever
\* function v it is about.
FnInv(w) == ChannelInv(w) /\ StatusInv(w) /\ CleanInv(w)

\* Nothing is under way at the start.
LEMMA InitInv == ASSUME NicVfAssumption PROVE Init => IInv
BY DEF NicVfAssumption, Init, IInv, TypeOK, ChannelInv, StatusInv, CleanInv,
       Meeting, Clean, Lfs, Hosts, Handshake, Commands, Steps

\* A guest moves only its own bit of the mask.
LEMMA GuestInv ==
  ASSUME IInv, GuestCommand, NEW w \in Lfs PROVE FnInv(w)'
BY DEF IInv, TypeOK, FnInv, ChannelInv, StatusInv, CleanInv, Clean, Meeting,
       GuestCommand, LinkUp

\* A host changes the status word as far as its own state allows.
LEMMA HostInvs ==
  ASSUME IInv, NEW v \in Lfs, NEW w \in Lfs,
         \/ HostReset(v) \/ HostReady(v) \/ HostUp(v) \/ HostSend(v)
         \/ HostClose(v) \/ HostClosed(v) \/ HostCrash(v)
  PROVE  FnInv(w)'
<1> USE DEF IInv, TypeOK, FnInv, ChannelInv, StatusInv, CleanInv, Clean, Meeting,
            thread, path
<1>1. CASE HostReset(v)
  BY <1>1, SMTT(30) DEF HostReset
<1>2. CASE HostReady(v)
  BY <1>2, SMTT(30) DEF HostReady
<1>3. CASE HostUp(v)
  BY <1>3, SMTT(30) DEF HostUp
<1>4. CASE HostSend(v)
  BY <1>4, SMTT(30) DEF HostSend, Wants
<1>5. CASE HostClose(v)
  BY <1>5, SMTT(30) DEF HostClose
<1>6. CASE HostClosed(v)
  BY <1>6, SMTT(30) DEF HostClosed
<1>7. CASE HostCrash(v)
  BY <1>7, SMTT(30) DEF HostCrash
<1> QED
  BY <1>1, <1>2, <1>3, <1>4, <1>5, <1>6, <1>7

\* A command leaves alone a host that is about to meet the card.
LEMMA CommandInvs ==
  ASSUME IInv, NEW v \in Lfs, NEW w \in Lfs, HostCommand(v)
  PROVE  FnInv(w)'
<1>1. /\ at = <<"cmd", v>> /\ at' \in {<<"cmd", v + 1>>, <<"lf", 1>>}
      /\ UNCHANGED <<status, seen, cb, chan>>
  BY DEF HostCommand, Following
<1>2. ChannelInv(w)'
  BY <1>1 DEF IInv, TypeOK, ChannelInv, Meeting
<1>3. /\ host[w] \in {"off", "reset", "ready"} => host'[w] = host[w]
  BY WhichCommand
  DEF Configure, InitDone, Enable, Disable, LinkStatus, VfClose, Answered, Wants,
      IInv, TypeOK
<1>4. StatusInv(w)'
  BY <1>1, <1>3 DEF IInv, StatusInv, Meeting
<1>5. cmd' = [cmd EXCEPT ![v] = "none"]
  BY DEF HostCommand
<1>6. CleanInv(w)'
  BY <1>1, <1>5, WhichCommand, SMTT(30)
  DEF Configure, InitDone, Enable, Disable, LinkStatus, VfClose, ClearRemote,
      IInv, TypeOK, CleanInv, Clean, path
<1> QED
  BY <1>2, <1>4, <1>6 DEF FnInv

\* The work of a reset, between its first step and the last.
LEMMA ResetInvs ==
  ASSUME IInv, NEW v \in Lfs, NEW w \in Lfs, ResetCheck(v)
  PROVE  FnInv(w)'
<1> USE DEF IInv, TypeOK
<1>1. /\ at = <<"lf", v>> /\ cb[v] = "maintenance"
      /\ UNCHANGED <<status, host, seen, cb>>
  BY DEF ResetCheck
<1>2. CASE "reset" \notin status[v]
  <2>1. at' = <<"close", v>> /\ UNCHANGED <<cmd, chan, path>>
    BY <1>2 DEF ResetCheck
  <2> QED
    BY <1>1, <2>1 DEF FnInv, ChannelInv, StatusInv, CleanInv, Clean, Meeting, path
<1>3. CASE "reset" \in status[v]
  <2>1. at' = <<"reset", v>> /\ Deinit(v, "freed") /\ ResetWork(v)
    BY <1>3 DEF ResetCheck
  <2>2. ChannelInv(w)'
    BY <1>1, <2>1 DEF ChannelInv, Meeting, Deinit
  <2>3. StatusInv(w)'
    BY <1>1, <1>3, <2>1 DEF StatusInv, Meeting
  <2>4. CleanInv(w)'
    BY <1>1, <2>1 DEF CleanInv, Clean, Deinit, ResetWork, ClearRemote
  <2> QED
    BY <2>2, <2>3, <2>4 DEF FnInv
<1> QED
  BY <1>2, <1>3

\* The other steps of maintenance: the end of a reset, a close, the hand-shake.
LEMMA MaintenanceInvs ==
  ASSUME IInv, NEW v \in Lfs, NEW w \in Lfs,
         \/ ResetDone(v) \/ CloseCheck(v) \/ CloseDone(v)
         \/ HostIsReady(v) \/ ChannelFails(v) \/ ReadStatus(v) \/ MarkReady(v)
  PROVE  FnInv(w)'
<1> USE DEF IInv, TypeOK, FnInv, ChannelInv, StatusInv, CleanInv, Clean, Meeting,
            path
<1>1. CASE ResetDone(v)
  BY <1>1, SMTT(30) DEF ResetDone
<1>2. CASE CloseCheck(v)
  BY <1>2, SMTT(30) DEF CloseCheck, Deinit, LinkCheck, Scheduled, Following
<1>3. CASE CloseDone(v)
  BY <1>3, SMTT(30) DEF CloseDone, LinkCheck, Scheduled, Following
<1>4. CASE HostIsReady(v)
  BY <1>4, SMTT(30) DEF HostIsReady
<1>5. CASE ReadStatus(v)
  BY <1>5, SMTT(30) DEF ReadStatus
<1>6. CASE MarkReady(v)
  BY <1>6, SMTT(30) DEF MarkReady, Following
<1>7. CASE ChannelFails(v)
  BY <1>7, SMTT(30) DEF ChannelFails
<1> QED
  BY <1>1, <1>2, <1>3, <1>4, <1>5, <1>6, <1>7

\* The three invariants of every function are inductive.
LEMMA IInvStep == ASSUME NicVfAssumption, IInv, [Next]_vars PROVE IInv'
<1>1. TypeOK'
  BY TypeStep DEF IInv
<1>2. ASSUME NEW w \in Lfs, Next PROVE FnInv(w)'
  BY <1>2, GuestInv, HostInvs, CommandInvs, ResetInvs, MaintenanceInvs
  DEF Next, Manage
<1>3. ASSUME NEW w \in Lfs, UNCHANGED vars PROVE FnInv(w)'
  BY <1>3 DEF IInv, FnInv, vars, thread, path, ChannelInv, StatusInv, CleanInv,
              Clean, Meeting
<1> QED
  BY <1>1, <1>2, <1>3 DEF IInv, FnInv, Lfs

-----------------------------------------------------------------------------
\* The queues of the data path, for hosts that ask before they close.
LEMMA InitQueue == ASSUME NicVfAssumption PROVE Init => QueueInv
BY DEF Init, QueueInv, PathInv, HostInv, CommandInv, Wants

\* A host sends only what its function's queues and link allow.
LEMMA HostQueue ==
  ASSUME Polls, IInv, QueueInv, NEW v \in Lfs, NEW w \in Lfs,
         \/ HostReset(v) \/ HostReady(v) \/ HostUp(v) \/ HostSend(v)
         \/ HostClose(v) \/ HostClosed(v) \/ HostCrash(v)
  PROVE  PathInv(w)'
<1> USE DEF IInv, TypeOK, StatusInv, CleanInv, Clean, QueueInv, PathInv, HostInv,
            CommandInv, Wants, thread, path
<1>1. CASE HostReset(v)
  BY <1>1, SMTT(30) DEF HostReset
<1>2. CASE HostReady(v)
  BY <1>2, SMTT(30) DEF HostReady
<1>3. CASE HostUp(v)
  BY <1>3, SMTT(30) DEF HostUp
<1>4. CASE HostSend(v)
  BY <1>4, SMTT(30) DEF HostSend
<1>5. CASE HostClose(v)
  BY <1>5, SMTT(30) DEF HostClose
<1>6. CASE HostClosed(v)
  BY <1>6, SMTT(30) DEF HostClosed
<1>7. CASE HostCrash(v)
  BY <1>7, SMTT(30) DEF HostCrash
<1> QED
  BY <1>1, <1>2, <1>3, <1>4, <1>5, <1>6, <1>7

\* A command was sent by a host that knew its function's queues and link, and
\* they are as it knew them, whether it is still there or not.
LEMMA CommandQueue ==
  ASSUME Polls, IInv, QueueInv, NEW v \in Lfs, NEW w \in Lfs, HostCommand(v)
  PROVE  PathInv(w)'
<1> USE DEF IInv, TypeOK, StatusInv, CleanInv, Clean, QueueInv, PathInv, HostInv,
            CommandInv, Wants
<1>1. cmd' = [cmd EXCEPT ![v] = "none"] /\ UNCHANGED status
  BY DEF HostCommand
<1>2. CASE cmd[v] = "configure" /\ Configure(v)
  BY <1>1, <1>2, SMTT(30) DEF Configure, Answered
<1>3. CASE cmd[v] = "init_done" /\ InitDone(v)
  BY <1>1, <1>3, SMTT(30) DEF InitDone, Answered
<1>4. CASE cmd[v] = "enable" /\ Enable(v)
  BY <1>1, <1>4, SMTT(30) DEF Enable, Answered
<1>5. CASE cmd[v] = "disable" /\ Disable(v)
  BY <1>1, <1>5, SMTT(30) DEF Disable, Answered
<1>6. CASE cmd[v] = "link_status" /\ LinkStatus(v)
  BY <1>1, <1>6, SMTT(30) DEF LinkStatus, Answered, path
<1>7. CASE cmd[v] = "close" /\ VfClose(v)
  BY <1>1, <1>7, SMTT(30) DEF VfClose, Answered, ClearRemote
<1>8. CASE UNCHANGED <<host, path>>
  BY <1>1, <1>8, SMTT(30) DEF path
<1> QED
  BY WhichCommand, <1>2, <1>3, <1>4, <1>5, <1>6, <1>7, <1>8

\* A reset takes the queues from a function that is down.
LEMMA ResetQueue ==
  ASSUME Polls, IInv, QueueInv, NEW v \in Lfs, NEW w \in Lfs, ResetCheck(v)
  PROVE  PathInv(w)'
<1> USE DEF IInv, TypeOK, StatusInv, CleanInv, Clean, QueueInv, PathInv, HostInv,
            CommandInv, Wants
<1>1. UNCHANGED <<status, host, seen, cb>>
  BY DEF ResetCheck
<1>2. CASE "reset" \notin status[v]
  <2>1. UNCHANGED <<cmd, chan, path>>
    BY <1>2 DEF ResetCheck
  <2> QED
    BY <1>1, <2>1 DEF path
<1>3. CASE "reset" \in status[v]
  <2>1. Deinit(v, "freed") /\ ResetWork(v)
    BY <1>3 DEF ResetCheck
  <2> QED
    BY <1>1, <1>3, <2>1, SMTT(30) DEF Deinit, ResetWork, ClearRemote
<1> QED
  BY <1>2, <1>3

\* A check of the link takes no queue away, brings up no link that its host has
\* not asked for, and schedules what it enables.
LEMMA LinkQueue ==
  ASSUME IInv, QueueInv, NEW v \in Lfs, NEW w \in Lfs, LinkCheck(v, mask[v])
  PROVE  /\ remote'[w] = "none" <=> remote[w] = "none"
         /\ "remote" \notin mask[w] /\ ~last[w] => ~last'[w] /\ ~enable'[w]
         /\ enable'[w] => remote'[w] = "scheduled"
<1> USE DEF IInv, TypeOK, CleanInv, QueueInv, PathInv, CommandInv, LinkUp,
            LinkCheck, Scheduled
<1>1. remote'[w] = "none" <=> remote[w] = "none"
  BY SMTT(30)
<1>2. "remote" \notin mask[w] /\ ~last[w] => ~last'[w] /\ ~enable'[w]
  BY SMTT(30)
<1>3. enable'[w] => remote'[w] = "scheduled"
  <2>1. CASE w # v
    BY <2>1
  <2>2. CASE w = v /\ mask[v] = LinkUp
    <3>1. remote[v] # "none"
      BY <2>2
    <3>2. /\ enable' = [enable EXCEPT ![v] = IF ~last[v] THEN TRUE ELSE @]
          /\ remote' = [remote EXCEPT ![v] = IF ~last[v] THEN "scheduled" ELSE @]
      BY <2>2, <3>1
    <3> QED
      BY <2>2, <3>2
  <2>3. CASE w = v /\ mask[v] # LinkUp
    <3>1. enable' = [enable EXCEPT ![v] = IF last[v] THEN FALSE ELSE @]
      BY <2>3
    <3> QED
      BY <2>3, <3>1
  <2> QED
    BY <2>1, <2>2, <2>3
<1> QED
  BY <1>1, <1>2, <1>3

\* Of the other steps only the checks of the link touch the data path.
LEMMA MaintenanceQueue ==
  ASSUME Polls, IInv, QueueInv, NEW v \in Lfs, NEW w \in Lfs,
         \/ ResetDone(v) \/ CloseCheck(v) \/ CloseDone(v)
         \/ HostIsReady(v) \/ ChannelFails(v) \/ ReadStatus(v) \/ MarkReady(v)
  PROVE  PathInv(w)'
<1> USE DEF IInv, TypeOK, StatusInv, CleanInv, Clean, QueueInv, PathInv, HostInv,
            CommandInv, Wants, path
<1>1. CASE ResetDone(v)
  BY <1>1, SMTT(30) DEF ResetDone
<1>2. CASE CloseCheck(v)
  BY <1>2, LinkQueue, SMTT(30) DEF CloseCheck, Deinit
<1>3. CASE CloseDone(v)
  BY <1>3, LinkQueue, SMTT(30) DEF CloseDone
<1>4. CASE HostIsReady(v)
  BY <1>4, SMTT(30) DEF HostIsReady
<1>5. CASE ReadStatus(v)
  BY <1>5, SMTT(30) DEF ReadStatus
<1>6. CASE MarkReady(v)
  BY <1>6, SMTT(30) DEF MarkReady, Following, ChannelInv, Meeting
<1>7. CASE ChannelFails(v)
  BY <1>7, SMTT(30) DEF ChannelFails
<1> QED
  BY <1>1, <1>2, <1>3, <1>4, <1>5, <1>6, <1>7

\* The invariant of the queues is inductive on top of the first three.
LEMMA QueueStep ==
  ASSUME NicVfAssumption, Polls, IInv, QueueInv, [Next]_vars PROVE QueueInv'
<1>1. ASSUME NEW w \in Lfs, GuestCommand PROVE PathInv(w)'
  BY <1>1 DEF GuestCommand, IInv, TypeOK, LinkUp, QueueInv, PathInv, HostInv,
              CommandInv, Wants, Clean
<1>2. ASSUME NEW w \in Lfs, Next PROVE PathInv(w)'
  BY <1>1, <1>2, HostQueue, CommandQueue, ResetQueue, MaintenanceQueue
  DEF Next, Manage
<1>3. ASSUME NEW w \in Lfs, UNCHANGED vars PROVE PathInv(w)'
  BY <1>3 DEF QueueInv, PathInv, HostInv, CommandInv, Wants, Clean,
              vars, thread, path
<1> QED
  BY <1>2, <1>3 DEF QueueInv, Lfs

-----------------------------------------------------------------------------
\* The state of every function stays typed (the variables of struct nmnicvf).
THEOREM NicVfTypeOK == Spec => []TypeOK
<1>1. Init => TypeOK
  BY NicVfAssumption, InitInv DEF IInv
<1>2. TypeOK /\ [Next]_vars => TypeOK'
  BY NicVfAssumption, TypeStep
<1> QED
  BY <1>1, <1>2, PTL DEF Spec

\* The three invariants always hold.
LEMMA Invariance == Spec => []IInv
<1>1. Init => IInv
  BY NicVfAssumption, InitInv
<1>2. IInv /\ [Next]_vars => IInv'
  BY NicVfAssumption, IInvStep
<1> QED
  BY <1>1, <1>2, PTL DEF Spec

\* Whatever hosts do and wherever they stop, giu_mng_ch_deinit is never called
\* twice on one channel.
THEOREM OneDeinit == Spec => []ChannelFreedOnce
<1>1. IInv => ChannelFreedOnce
  BY DEF IInv, ChannelInv, ChannelFreedOnce
<1> QED
  BY <1>1, Invariance, PTL

\* Where a host finds the card ready after a reset, no channel, command, queue,
\* entry or link of the host before it is left.
THEOREM ResetIsClean == Spec => []ReadyIsClean
<1>1. IInv => ReadyIsClean
  BY DEF IInv, ChannelInv, StatusInv, CleanInv, Clean, ReadyIsClean
<1> QED
  BY <1>1, Invariance, PTL

\* If hosts close only when the link status told them "down", the data path is
\* enabled only over queues that exist and are scheduled.
THEOREM PathHasQueues == Polls => (Spec => []EnabledHasQueues)
<1> SUFFICES ASSUME Polls PROVE Spec => []EnabledHasQueues
  OBVIOUS
<1>1. Init => IInv /\ QueueInv
  BY NicVfAssumption, InitInv, InitQueue
<1>2. IInv /\ QueueInv /\ [Next]_vars => (IInv /\ QueueInv)'
  BY NicVfAssumption, IInvStep, QueueStep
<1>3. QueueInv => EnabledHasQueues
  BY DEF QueueInv, PathInv, EnabledHasQueues
<1> QED
  BY <1>1, <1>2, <1>3, PTL DEF Spec
=============================================================================
