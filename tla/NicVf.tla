------------------------------- MODULE NicVf -------------------------------
(***************************************************************************)
(* The life cycle of the virtual functions of a card (mng/lf/vf/vf.c).     *)
(* One thread, that of nmp_schedule(NMP_SCHED_MNG), dispatches one command *)
(* of the guest and one of every host, and then runs the maintenance       *)
(* callback of every function in turn.  Host and card also meet in the     *)
(* status word of the function's configuration space, which both write:    *)
(* a host asks there for a reset or for the end of the management channel  *)
(* and both announce there that the channel is ready.  A host may go away  *)
(* at any point and come back with a reset.                                *)
(***************************************************************************)
EXTENDS Integers

CONSTANTS
  N,              \* virtual functions of the container, 1 .. N in its order
  Polls,          \* hosts send CC_CLOSE only when CC_LINK_STATUS told "down"
  Reopens,        \* hosts send the configuration again after CC_CLOSE, without a reset
  CrashAnywhere,  \* hosts may go away also in the middle of a handshake
  Returns         \* the functions whose host, once it asked for a reset, goes on

Lfs == 1 .. N

ASSUME NicVfAssumption ==
  /\ N \in Nat \ {0} /\ Returns \subseteq Lfs
  /\ {Polls, Reopens, CrashAnywhere} \subseteq BOOLEAN

VARIABLES
  status,  \* the bits of pcie_cfg->status
  host,    \* how far the host is
  cmd,     \* the command in the function's command queue, or "none"
  at,      \* the management thread: its step and the function it is at
  seen,    \* the local of nmnicvf_mng_chn_host_ready: status as it was read
  cb,      \* f_maintenance_cb: "maintenance" or "host_ready"
  chan,    \* giu_mng_ch: "null", "live", "freed" (a dangling pointer), "twice"
  mask,    \* link_up_mask
  last,    \* last_link_state
  enable,  \* is_enable of the giu_gpio
  remote,  \* the remote queues: "none", or their pairs "scheduled", "suspended"
  added    \* whether the entries of gpio_rem_params have a length

thread == <<at, seen>>
path == <<mask, last, enable, remote, added>>
vars == <<status, host, cmd, thread, cb, chan, path>>

Bits == {"reset", "dev_ready", "host_ready", "dev_mgmt", "close_req", "close_done"}
LinkUp == {"remote", "local"}   \* LINK_UP_MASK

\* The commands a host sends next, by how far it is.
Wants(h) ==
  CASE h = "up"       -> {"configure"}
    [] h = "added"    -> {"init_done"}
    [] h = "open"     -> {"enable"}
    [] h = "enabled"  -> {"disable"}
    [] h = "disabled" -> {"enable", IF Polls THEN "link_status" ELSE "close"}
    [] h = "down"     -> {"close"}
    [] h = "closed"   -> IF Reopens THEN {"configure"} ELSE {}
    [] OTHER          -> {}

Handshake == {"reset", "ready", "closing"}
Hosts == {"off", "up", "added", "open", "enabled", "disabled", "down",
          "closed", "failed", "denied"} \cup Handshake
Commands == {"none", "configure", "init_done", "enable", "disable", "link_status", "close"}
Steps == {"guest", "cmd", "lf", "reset", "close", "closed", "ready", "mark"}

Init ==
  /\ status = [v \in Lfs |-> {}] /\ host = [v \in Lfs |-> "off"]
  /\ cmd = [v \in Lfs |-> "none"]
  /\ at = <<"guest", 1>> /\ seen = {}
  /\ cb = [v \in Lfs |-> "maintenance"] /\ chan = [v \in Lfs |-> "null"]
  /\ mask = [v \in Lfs |-> {}] /\ last = [v \in Lfs |-> FALSE]
  /\ enable = [v \in Lfs |-> FALSE]
  /\ remote = [v \in Lfs |-> "none"] /\ added = [v \in Lfs |-> FALSE]

-----------------------------------------------------------------------------
(* The hosts. *)

\* A host (re)starts: it overwrites the status word with its request.
HostReset(v) ==
  /\ host[v] = "off"
  /\ host' = [host EXCEPT ![v] = "reset"]
  /\ status' = [status EXCEPT ![v] = {"reset"}]
  /\ UNCHANGED <<cmd, thread, cb, chan, path>>

\* It sees the card ready, sets up its queues and says so.
HostReady(v) ==
  /\ host[v] = "reset" /\ "dev_ready" \in status[v]
  /\ host' = [host EXCEPT ![v] = "ready"]
  /\ status' = [status EXCEPT ![v] = @ \cup {"host_ready"}]
  /\ UNCHANGED <<cmd, thread, cb, chan, path>>

HostUp(v) ==
  /\ host[v] = "ready" /\ "dev_mgmt" \in status[v]
  /\ host' = [host EXCEPT ![v] = "up"]
  /\ UNCHANGED <<status, cmd, thread, cb, chan, path>>

HostSend(v) ==
  /\ cmd[v] = "none"
  /\ \E c \in Wants(host[v]) : cmd' = [cmd EXCEPT ![v] = c]
  /\ UNCHANGED <<status, host, thread, cb, chan, path>>

HostClose(v) ==
  /\ host[v] = "closed" /\ cmd[v] = "none"
  /\ host' = [host EXCEPT ![v] = "closing"]
  /\ status' = [status EXCEPT ![v] = @ \cup {"close_req"}]
  /\ UNCHANGED <<cmd, thread, cb, chan, path>>

HostClosed(v) ==
  /\ host[v] = "closing" /\ "close_done" \in status[v]
  /\ host' = [host EXCEPT ![v] = "off"]
  /\ UNCHANGED <<status, cmd, thread, cb, chan, path>>

HostCrash(v) ==
  /\ host[v] # "off" /\ (host[v] \in Handshake => CrashAnywhere)
  /\ host' = [host EXCEPT ![v] = "off"]
  /\ UNCHANGED <<status, cmd, thread, cb, chan, path>>

-----------------------------------------------------------------------------
(* Dispatching. *)

\* The guest's queue holds a command to enable or to disable a function, or none.
GuestCommand ==
  /\ at[1] = "guest"
  /\ at' = <<"cmd", 1>>
  /\ \/ UNCHANGED mask
     \/ \E v \in Lfs : \E m \in {mask[v] \cup {"local"}, mask[v] \ {"local"}} :
          mask' = [mask EXCEPT ![v] = m]
  /\ UNCHANGED <<status, host, cmd, seen, cb, chan, last, enable, remote, added>>

\* The host takes an answer only if it is the one that asked.
Answered(v, h) ==
  host' = [host EXCEPT ![v] = IF cmd[v] \in Wants(@) THEN h ELSE @]

\* CC_INIT, the commands that add traffic classes and those that add queues, of
\* which the card keeps only gpio_rem_params.  CC_INIT sets numbers of queues and
\* leaves the entries; a queue goes to the first entry of length zero.
Configure(v) ==
  /\ Answered(v, IF added[v] THEN "failed" ELSE "added")
  /\ added' = [added EXCEPT ![v] = TRUE]
  /\ UNCHANGED <<mask, last, enable, remote>>

\* gie_add_queue adds a pair that is active.  When a queue, a table or a slot of
\* the GIE is missing, giu_gpio_set_remote undoes what it has done (module
\* GpioQueues), and the host is told of an error: it can only begin again.
InitDone(v) ==
  /\ \/ Answered(v, "open") /\ remote' = [remote EXCEPT ![v] = "scheduled"]
     \/ Answered(v, "denied") /\ UNCHANGED remote
  /\ UNCHANGED <<mask, last, enable, added>>

Enable(v) ==
  /\ Answered(v, "enabled")
  /\ mask' = [mask EXCEPT ![v] = @ \cup {"remote"}]
  /\ UNCHANGED <<last, enable, remote, added>>

Disable(v) ==
  /\ Answered(v, "disabled")
  /\ mask' = [mask EXCEPT ![v] = @ \ {"remote"}]
  /\ UNCHANGED <<last, enable, remote, added>>

LinkStatus(v) == Answered(v, IF last[v] THEN "disabled" ELSE "down") /\ UNCHANGED path

ClearRemote(v) == remote' = [remote EXCEPT ![v] = "none"]

VfClose(v) ==
  /\ Answered(v, "closed") /\ ClearRemote(v)
  /\ UNCHANGED <<mask, last, enable, added>>

\* The functions are served in order, by commands and by maintenance.
Following(v, step, round) == IF v < N THEN <<step, v + 1>> ELSE round

HostCommand(v) ==
  /\ at = <<"cmd", v>>
  /\ at' = Following(v, "cmd", <<"lf", 1>>)
  /\ cmd' = [cmd EXCEPT ![v] = "none"]
  /\ CASE cmd[v] = "none"        -> UNCHANGED <<host, path>>
       [] cmd[v] = "configure"   -> Configure(v)
       [] cmd[v] = "init_done"   -> InitDone(v)
       [] cmd[v] = "enable"      -> Enable(v)
       [] cmd[v] = "disable"     -> Disable(v)
       [] cmd[v] = "link_status" -> LinkStatus(v)
       [] cmd[v] = "close"       -> VfClose(v)
  /\ UNCHANGED <<status, seen, cb, chan>>

-----------------------------------------------------------------------------
(* Maintenance. *)

\* The channel goes, and what is in its queues with it.
Deinit_Dangling(v, pointer) ==  \* (mutant)
  /\ chan' = [chan EXCEPT ![v] = CASE @ = "null" -> "null"
                                   [] @ = "live" -> "freed"
                                   [] OTHER      -> "twice"]
  /\ cmd' = [cmd EXCEPT ![v] = "none"]
Deinit(v, pointer) ==
  /\ chan' = [chan EXCEPT ![v] = CASE @ = "null" -> "null"
                                   [] @ = "live" -> pointer
                                   [] OTHER      -> "twice"]
  /\ cmd' = [cmd EXCEPT ![v] = "none"]

Scheduled(r, up) == IF r = "none" THEN r ELSE IF up THEN "scheduled" ELSE "suspended"

\* The state of the link for a mask, taken over when it is another than before.
LinkCheck_Host(v, m) ==  \* (mutant)
  LET up == "remote" \in m IN
  /\ last' = [last EXCEPT ![v] = up]
  /\ enable' = [enable EXCEPT ![v] = IF up # last[v] THEN up ELSE @]
  /\ remote' = [remote EXCEPT ![v] = IF up # last[v] THEN Scheduled(@, up) ELSE @]
LinkCheck(v, m) ==
  LET up == m = LinkUp IN
  /\ last' = [last EXCEPT ![v] = up]
  /\ enable' = [enable EXCEPT ![v] = IF up # last[v] THEN up ELSE @]
  /\ remote' = [remote EXCEPT ![v] = IF up # last[v] THEN Scheduled(@, up) ELSE @]

\* Emulates a link that goes down before the queues go.
ResetWork_NoLink(v) ==  \* (mutant)
  /\ mask' = [mask EXCEPT ![v] = @ \ {"remote"}]
  /\ ClearRemote(v) /\ added' = [added EXCEPT ![v] = FALSE]
  /\ UNCHANGED <<last, enable>>
ResetWork_Params(v) ==  \* (mutant)
  /\ mask' = [mask EXCEPT ![v] = @ \ {"remote"}]
  /\ last' = [last EXCEPT ![v] = FALSE]
  /\ enable' = [enable EXCEPT ![v] = IF last[v] THEN FALSE ELSE @]
  /\ ClearRemote(v) /\ UNCHANGED added
ResetWork(v) ==
  /\ mask' = [mask EXCEPT ![v] = @ \ {"remote"}]
  /\ last' = [last EXCEPT ![v] = FALSE]
  /\ enable' = [enable EXCEPT ![v] = IF last[v] THEN FALSE ELSE @]
  /\ ClearRemote(v)
  /\ added' = [added EXCEPT ![v] = FALSE]

ResetCheck(v) ==
  /\ at = <<"lf", v>> /\ cb[v] = "maintenance"
  /\ IF "reset" \in status[v]
     THEN at' = <<"reset", v>> /\ Deinit(v, "freed") /\ ResetWork(v)
     ELSE at' = <<"close", v>> /\ UNCHANGED <<cmd, chan, path>>
  /\ UNCHANGED <<status, host, seen, cb>>

\* The callback returns -EAGAIN, and the round of maintenance ends with it.
ResetDone(v) ==
  /\ at = <<"reset", v>>
  /\ status' = [status EXCEPT ![v] = {"dev_ready"}]
  /\ cb' = [cb EXCEPT ![v] = "host_ready"]
  /\ at' = <<"guest", 1>>
  /\ UNCHANGED <<host, cmd, seen, chan, path>>

CloseCheck(v) ==
  /\ at = <<"close", v>>
  /\ IF "close_req" \in status[v]
     THEN at' = <<"closed", v>> /\ Deinit(v, "null") /\ UNCHANGED <<last, enable, remote>>
     ELSE /\ at' = Following(v, "lf", <<"guest", 1>>)
          /\ LinkCheck(v, mask[v]) /\ UNCHANGED <<cmd, chan>>
  /\ UNCHANGED <<status, host, seen, cb, mask, added>>

CloseDone(v) ==
  /\ at = <<"closed", v>>
  /\ status' = [status EXCEPT ![v] = {"close_done"}]
  /\ LinkCheck(v, mask[v])
  /\ at' = Following(v, "lf", <<"guest", 1>>)
  /\ UNCHANGED <<host, cmd, seen, cb, chan, mask, added>>

\* Waits for the host in a loop, and nothing else is served meanwhile.
HostIsReady(v) ==
  /\ at = <<"lf", v>> /\ cb[v] = "host_ready" /\ "host_ready" \in status[v]
  /\ chan' = [chan EXCEPT ![v] = "live"]
  /\ at' = <<"ready", v>>
  /\ UNCHANGED <<status, host, cmd, seen, cb, path>>

\* No memory or no queue is left for the channel: the callback stays, the pointer
\* is not written and the error ends the round, before the functions behind v.
ChannelFails(v) ==
  /\ at = <<"lf", v>> /\ cb[v] = "host_ready" /\ "host_ready" \in status[v]
  /\ at' = <<"guest", 1>>
  /\ UNCHANGED <<status, host, cmd, seen, cb, chan, path>>

ReadStatus(v) ==
  /\ at = <<"ready", v>>
  /\ seen' = status[v] /\ at' = <<"mark", v>>
  /\ UNCHANGED <<status, host, cmd, cb, chan, path>>

MarkReady_Again(v) ==  \* (mutant)
  /\ at = <<"mark", v>>
  /\ status' = [status EXCEPT ![v] = seen \cup {"dev_mgmt"}] /\ seen' = {}
  /\ at' = Following(v, "lf", <<"guest", 1>>)
  /\ UNCHANGED <<host, cmd, cb, chan, path>>
MarkReady(v) ==
  /\ at = <<"mark", v>>
  /\ status' = [status EXCEPT ![v] = seen \cup {"dev_mgmt"}] /\ seen' = {}
  /\ cb' = [cb EXCEPT ![v] = "maintenance"]
  /\ at' = Following(v, "lf", <<"guest", 1>>)
  /\ UNCHANGED <<host, cmd, chan, path>>

-----------------------------------------------------------------------------
Manage ==
  \/ GuestCommand
  \/ \E v \in Lfs :
       \/ HostCommand(v)
       \/ ResetCheck(v) \/ ResetDone(v)
       \/ CloseCheck(v) \/ CloseDone(v)
       \/ HostIsReady(v) \/ ChannelFails(v) \/ ReadStatus(v) \/ MarkReady(v)

Next ==
  \/ Manage
  \/ \E v \in Lfs :
       \/ HostReset(v) \/ HostReady(v) \/ HostUp(v)
       \/ HostSend(v) \/ HostCrash(v)
       \/ HostClose(v) \/ HostClosed(v)

\* The thread is called again and again, and the hosts of Returns finish a
\* handshake that they have begun; no host has to send or to restart.  A channel
\* that cannot be made now can be made in some later round.
Spec ==
  /\ Init /\ [][Next]_vars
  /\ WF_vars(Manage)
  /\ \A v \in Lfs : SF_vars(HostIsReady(v))
  /\ \A v \in Returns : WF_vars(HostReady(v) \/ HostUp(v) \/ HostClosed(v))

-----------------------------------------------------------------------------
TypeOK ==
  /\ status \in [Lfs -> SUBSET Bits] /\ host \in [Lfs -> Hosts]
  /\ cmd \in [Lfs -> Commands]
  /\ at \in Steps \X Lfs /\ seen \subseteq Bits
  /\ cb \in [Lfs -> {"maintenance", "host_ready"}]
  /\ chan \in [Lfs -> {"null", "live", "freed", "twice"}]
  /\ mask \in [Lfs -> SUBSET LinkUp] /\ last \in [Lfs -> BOOLEAN]
  /\ enable \in [Lfs -> BOOLEAN] /\ added \in [Lfs -> BOOLEAN]
  /\ remote \in [Lfs -> {"none", "scheduled", "suspended"}]

\* A GPIO that is enabled has remote queues, all scheduled: the passes before
\* and after the GIE take a hash modulo the number of those queues
\* (giu_gpio_pre_gie), and they ask for is_enable alone.
EnabledHasQueues == \A v \in Lfs : enable[v] => remote[v] = "scheduled"

\* A host that the card tells to go on after a reset finds nothing of the host
\* before it: no channel, no queue, no entry in use, no link.
ReadyIsClean ==
  \A v \in Lfs : status[v] = {"dev_ready"} =>
    /\ chan[v] # "live" /\ cmd[v] = "none"
    /\ remote[v] = "none" /\ ~enable[v] /\ ~added[v]
    /\ "remote" \notin mask[v]

\* The management channel is freed once, whatever the order in which resets and
\* requests to close it come.
ChannelFreedOnce == \A v \in Lfs : chan[v] # "twice"

\* Where a link is known to be down no pair is scheduled.
DownIsSuspended == \A v \in Lfs : ~last[v] => remote[v] # "scheduled"

\* The queues of a function can be added.
QueuesAdded == \A v \in Lfs : host[v] # "failed"

\* Whoever waits for the management thread gets an answer: a host for the end of
\* its reset or of its channel, a command for being executed or dropped; also when
\* the host of another function, outside Returns, never comes back.
HostsServed ==
  \A v \in Returns :
    /\ host[v] = "reset" ~> host[v] \in {"up", "off"}
    /\ host[v] = "closing" ~> host[v] = "off"
    /\ cmd[v] # "none" ~> cmd[v] = "none"

\* The data path follows the two sides: it comes up when both stay up and goes
\* down when one stays down.
LinkFollows ==
  \A v \in Lfs :
    /\ mask[v] = LinkUp ~> enable[v] \/ mask[v] # LinkUp
    /\ mask[v] # LinkUp ~> ~enable[v] \/ mask[v] = LinkUp
=============================================================================
