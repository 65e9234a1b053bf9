------------------------------ MODULE GiuSched ------------------------------
(***************************************************************************)
(* Which queue pair is served next: giu_schedule (giu.c) runs gie_schedule *)
(* on each DMA engine, which asks gie_get_next_q (gie.c) for queue pairs   *)
(* until a limit is reached or all priorities are scanned.  Queue pairs    *)
(* are added, removed, suspended and resumed by the management thread      *)
(* meanwhile, without a lock.  What serving a pair does is in Gie.         *)
(***************************************************************************)
EXTENDS Integers, FiniteSets, Sequences

CONSTANTS
  Qids,       \* the queue pairs, named by their source queue
  NumEng,     \* num_dma_engines
  NumPrios,   \* GIE_MAX_PRIOS
  MaxQ,       \* GIE_MAX_Q_PER_PRIO
  QeLimit,    \* qe_limit, in batches: SCHED_MAX_DATA_ELEMENTS
  EngOf,      \* the engine a queue pair is added to
  PrioOf,     \* its priority: the traffic class (giu_gpio.c:909, 1029)
  Managed     \* the pairs that come and go; the others are there from the start

Engines == 0 .. NumEng - 1
Prios == 0 .. NumPrios - 1
\* A slot; what it says of its pair stays when the pair is removed.
SlotOf == [qid: Qids \cup {"none"}, valid: BOOLEAN, active: BOOLEAN]
Empty == [qid |-> "none", valid |-> FALSE, active |-> FALSE]

ASSUME SchedAssumption ==
  /\ {NumEng, NumPrios, MaxQ, QeLimit} \subseteq Nat \ {0}
  /\ EngOf \in [Qids -> Engines] /\ PrioOf \in [Qids -> Prios]
  /\ Managed \subseteq Qids
  /\ \A e \in Engines, p \in Prios :
       Cardinality({a \in Qids : EngOf[a] = e /\ PrioOf[a] = p}) <= MaxQ

VARIABLES
  curr_prio,  \* of each engine
  prio,       \* struct gie_prio of each engine and priority
  work,       \* the pairs that have elements to copy
  eng,        \* giu_schedule is at this engine; NumEng: it has returned
  scanned,    \* scanned_prios and scanned_qs of gie_schedule
  found,      \* the slot gie_get_next_q has returned, until it is served
  mgmt,       \* the slot gie_add_queue or gie_remove_queue has not done with
  qes,        \* elements (batches) moved by this gie_schedule
  served,     \* the pair served last
  since       \* the pairs served since each one was last served: history

vars == <<curr_prio, prio, work, eng, scanned, found, mgmt, qes, served, since>>
pass == <<eng, scanned, found, qes>>

-----------------------------------------------------------------------------
Valid(e, p) == {s \in 0 .. MaxQ - 1 : prio[e][p].slot[s].valid}

\* The engine, priority and slot of a pair, as gie_find_q_pair finds them.
Places == Engines \X Prios \X (0 .. MaxQ - 1)
Nowhere == <<>>
Slot(x) == prio[x[1]][x[2]].slot[x[3]]
At(a) == {x \in Places : Slot(x).valid /\ Slot(x).qid = a}
Present(a) == At(a) # {}
Place(a) == CHOOSE x \in At(a) : TRUE
Active(a) == Present(a) /\ Slot(Place(a)).active
\* A slot from q_cnt on is not scanned.
InReach(a) == Active(a) /\ LET x == Place(a) IN x[3] < prio[x[1]][x[2]].q_cnt

\* The pairs that are there from the start have been added in some order.
Init ==
  /\ curr_prio = [e \in Engines |-> 0]
  /\ prio \in [Engines -> [Prios ->
       {[active |-> n > 0, q_cnt |-> n, curr_q |-> 0, slot |-> s] :
          n \in 0 .. MaxQ, s \in [0 .. MaxQ - 1 ->
                              {[qid |-> a, valid |-> TRUE, active |-> TRUE] : a \in Qids} \cup {Empty}]}]]
  /\ \A e \in Engines, p \in Prios :
       LET n == prio[e][p].q_cnt
           here == {a \in Qids \ Managed : EngOf[a] = e /\ PrioOf[a] = p}
       IN /\ Valid(e, p) = 0 .. n - 1 /\ n = Cardinality(here)
          /\ {prio[e][p].slot[s].qid : s \in 0 .. n - 1} = here
  /\ work = {} /\ eng = NumEng /\ scanned = [prios |-> 0, qs |-> 0] /\ qes = 0
  /\ found = Nowhere /\ mgmt = Nowhere /\ served = "none" /\ since = [a \in Qids |-> {}]

-----------------------------------------------------------------------------
(* Producers *)
Post(a) ==
  /\ a \notin work
  /\ work' = work \cup {a}
  /\ UNCHANGED <<curr_prio, prio, pass, mgmt, served, since>>

-----------------------------------------------------------------------------
(* Management: its writes fall between any two steps of the scan; one          *)
(* operation at a time, on the management thread                               *)
\* (history: a pair out of reach does not wait, a changed one counts as new)
Reconfigured(a) ==
  /\ since' = [b \in Qids |-> IF b # a /\ InReach(b)' THEN since[b] \ {a} ELSE {}]
  /\ UNCHANGED <<curr_prio, work, pass, served>>

\* gie_add_queue: the first free slot of the priority.  The pair is active before it
\* counts; the flags of the priority do not matter while its count is zero.
Add(a) ==
  LET e == EngOf[a]
      p == PrioOf[a]
      free == (0 .. MaxQ - 1) \ Valid(e, p)
      s == CHOOSE x \in free : \A y \in free : x <= y
  IN /\ a \in Managed /\ mgmt = Nowhere /\ ~Present(a) /\ free # {}
     /\ prio' = [prio EXCEPT ![e][p].slot[s] = [qid |-> a, valid |-> TRUE, active |-> TRUE],
                             ![e][p].active = TRUE]
     /\ mgmt' = <<e, p, s, "added">>
     /\ Reconfigured(a)
AddEnd ==
  /\ mgmt # Nowhere /\ mgmt[4] = "added"
  /\ prio' = [prio EXCEPT ![mgmt[1]][mgmt[2]].q_cnt = @ + 1]
  /\ mgmt' = Nowhere
  /\ Reconfigured(Slot(mgmt).qid)

\* gie_remove_queue: the count goes down while the pair is still active.
Remove(a) ==
  LET x == Place(a)
      n == prio[x[1]][x[2]].q_cnt - 1
  IN /\ a \in Managed /\ mgmt = Nowhere /\ Present(a)
     /\ prio' = [prio EXCEPT ![x[1]][x[2]].q_cnt = n,
                             ![x[1]][x[2]].active = IF n = 0 THEN FALSE ELSE @]
     /\ mgmt' = x \o <<"removed">>
     /\ Reconfigured(a)
RemoveEnd ==
  /\ mgmt # Nowhere /\ mgmt[4] = "removed"
  /\ prio' = [prio EXCEPT ![mgmt[1]][mgmt[2]].slot[mgmt[3]] =
                            [@ EXCEPT !.valid = FALSE, !.active = FALSE]]
  /\ mgmt' = Nowhere
  /\ Reconfigured(Slot(mgmt).qid)

\* gie_suspend_queue, gie_resume_queue
SetActive(a, on) ==
  LET x == Place(a) IN
  /\ a \in Managed /\ mgmt = Nowhere /\ Present(a) /\ Active(a) # on
  /\ prio' = [prio EXCEPT ![x[1]][x[2]].slot[x[3]].active = on]
  /\ UNCHANGED mgmt
  /\ Reconfigured(a)

-----------------------------------------------------------------------------
(* giu_schedule, gie_schedule and gie_get_next_q *)

Curr == prio[eng][curr_prio[eng]]
MoreQs == Curr.active /\ scanned.qs < Curr.q_cnt
Scanning == eng < NumEng /\ found = Nowhere /\ qes < QeLimit /\ scanned.prios < NumPrios
NextPrio == [curr_prio EXCEPT ![eng] = IF @ + 1 = NumPrios THEN 0 ELSE @ + 1]

Begin ==
  /\ eng = NumEng
  /\ eng' = 0 /\ scanned' = [prios |-> 0, qs |-> 0] /\ qes' = 0
  /\ UNCHANGED <<curr_prio, prio, work, found, mgmt, served, since>>

\* The queue after the one looked at, from the first one again at the end.
NextQ_First(q, n) == 0  \* (mutant)
NextQ(q, n) == IF q + 1 >= n THEN 0 ELSE q + 1

\* One turn of the inner loop.  An active pair ends gie_get_next_q: the priority
\* moves on, the counters of the scan stay.
VisitQ ==
  LET p == curr_prio[eng]
      qp == Curr.slot[Curr.curr_q]
  IN /\ Scanning /\ MoreQs
     /\ prio' = [prio EXCEPT ![eng][p].curr_q = NextQ(@, Curr.q_cnt)]
     /\ scanned' = [scanned EXCEPT !.qs = @ + 1]
     /\ IF qp.active
        THEN /\ curr_prio' = NextPrio /\ found' = <<eng, p, Curr.curr_q>>
             /\ since' = [a \in Qids |-> IF a = qp.qid \/ ~InReach(a) THEN {}
                                         ELSE since[a] \cup {qp.qid}]
        ELSE UNCHANGED <<curr_prio, found, since>>
     /\ UNCHANGED <<work, eng, mgmt, qes, served>>

\* What the slot found holds now is served, though it were removed or another pair
\* since.  It may have more elements than a batch.
Serve ==
  LET a == Slot(found).qid IN
  /\ found # Nowhere
  /\ work' \in {work, work \ {a}}
  /\ qes' = IF a \in work THEN qes + 1 ELSE qes
  /\ served' = a /\ found' = Nowhere
  /\ UNCHANGED <<curr_prio, prio, eng, scanned, mgmt, since>>

\* One turn of the outer loop.
VisitPrio ==
  /\ Scanning /\ ~MoreQs
  /\ scanned' = [prios |-> scanned.prios + 1, qs |-> 0]
  /\ curr_prio' = NextPrio
  /\ UNCHANGED <<prio, work, eng, found, mgmt, qes, served, since>>

\* gie_schedule returns qes, which giu_schedule takes for an error unless zero.
EndSchedule ==
  /\ eng < NumEng /\ found = Nowhere /\ (qes >= QeLimit \/ scanned.prios = NumPrios)
  /\ eng' = IF qes # 0 THEN NumEng ELSE eng + 1
  /\ scanned' = [prios |-> 0, qs |-> 0] /\ qes' = 0
  /\ UNCHANGED <<curr_prio, prio, work, found, mgmt, served, since>>

Schedule == Begin \/ VisitQ \/ Serve \/ VisitPrio \/ EndSchedule

Next ==
  \/ \E a \in Qids : \/ Post(a) \/ Add(a) \/ Remove(a)
                     \/ \E on \in BOOLEAN : SetActive(a, on)
  \/ AddEnd \/ RemoveEnd
  \/ Schedule

Spec == Init /\ [][Next]_vars

\* Applications call nmp_schedule in an endless loop.
FairSpec == Spec /\ WF_vars(Schedule)

-----------------------------------------------------------------------------
TypeOK ==
  /\ curr_prio \in [Engines -> Prios]
  /\ prio \in [Engines -> [Prios -> [active: BOOLEAN, q_cnt: 0 .. MaxQ,
                 curr_q: 0 .. MaxQ - 1, slot: [0 .. MaxQ - 1 -> SlotOf]]]]
  /\ found \in Places \cup {Nowhere}
  /\ mgmt \in {x \o <<op>> : x \in Places, op \in {"added", "removed"}} \cup {Nowhere}
  /\ work \subseteq Qids /\ eng \in 0 .. NumEng
  /\ scanned \in [prios: 0 .. NumPrios, qs: 0 .. MaxQ] /\ qes \in 0 .. QeLimit
  /\ served \in Qids \cup {"none"} /\ since \in [Qids -> SUBSET Qids]

\* Round robin (gie.c:252-255): no pair is served twice while another one of its
\* engine, active and within q_cnt, waits, whatever the management thread adds,
\* removes, suspends and resumes while the other one stays in reach.
NoOvertaking ==
  [][LET qp == Curr.slot[Curr.curr_q] IN
     VisitQ /\ qp.active =>
       \A a \in Qids \ {qp.qid} :
         InReach(a) /\ EngOf[a] = eng => qp.qid \notin since[a]]_vars

\* A pair that is active, within q_cnt and has elements is served.
ReachServed ==
  \A a \in Qids : (InReach(a) /\ a \in work) ~> (served = a \/ ~InReach(a))

\* An active pair that has elements is served (gie.c:252-255, "round robin on all
\* Qs of all Priorities").
AllServed ==
  \A a \in Qids : (Active(a) /\ a \in work) ~> (served = a \/ ~Active(a))
=============================================================================
