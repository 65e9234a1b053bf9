--------------------------- MODULE SamCio_proofs ---------------------------
(***************************************************************************)
(* For every size of the rings and every number of rings, sessions and     *)
(* requests: a session outlives the requests that use it, when no session  *)
(* is created while a cio is closed; and, when control rings carry no      *)
(* requests and requests have no empty buffers at their end, every         *)
(* descriptor of a ring that carries requests is given back, and results   *)
(* and descriptors go with the operations they are for as long as the      *)
(* invalidations find a descriptor free, as they do when no request has    *)
(* more than one buffer.                                                   *)
(***************************************************************************)
EXTENDS SamCio, FiniteSetTheorems, WellFoundedInduction, TLAPS

-----------------------------------------------------------------------------
(* Sets of natural numbers.  The library states induction for a predicate, *)
(* which no prover here can instantiate.                                   *)

Less == {x \in Nat \X Nat : x[1] < x[2]}

LEMMA LessWellFounded == IsWellFoundedOn(Less, Nat)
<1>1. IsWellFoundedOn(OpToRel(<, Nat), Nat)
  BY NatLessThanWellFounded, Zenon
<1>2. OpToRel(<, Nat) = {ss \in Nat \X Nat : ss[1] < ss[2]}
  BY DEF OpToRel
<1> QED
  BY <1>1, <1>2 DEF Less

\* A set of natural numbers that is not empty has a least element.
LEMMA NatMin ==
  ASSUME NEW S \in SUBSET Nat, S # {}
  PROVE  \E x \in S : \A y \in S : x <= y
<1>1. \E x \in S : \A y \in S : ~ (<<y, x>> \in Less)
  BY LessWellFounded, WFMin, Zenon
<1>2. ASSUME NEW x \in Nat, NEW y \in Nat, ~ (<<y, x>> \in Less)
      PROVE  x <= y
  BY <1>2 DEF Less
<1> QED
  BY <1>1, <1>2

\* Induction, for the set of the numbers something holds of.
LEMMA NatInduct ==
  ASSUME NEW S \in SUBSET Nat, 0 \in S, \A n \in S : n + 1 \in S
  PROVE  S = Nat
<1> DEFINE T == Nat \ S
<1>1. SUFFICES ASSUME T # {} PROVE FALSE
  OBVIOUS
<1>2. PICK x \in T : \A y \in T : x <= y
  <2> HIDE DEF T
  <2>1. T \in SUBSET Nat
    BY DEF T
  <2> QED BY <1>1, <2>1, NatMin
<1>3. x \in Nat /\ x # 0 /\ x - 1 \in Nat
  BY <1>2
<1>4. x - 1 \in S
  BY <1>2, <1>3
<1>5. (x - 1) + 1 \in S
  BY <1>4
<1> QED
  BY <1>3, <1>5, <1>2

\* One subtraction is enough for a number below twice the modulus.
LEMMA ModWrap ==
  ASSUME NEW n \in Nat \ {0}, NEW x \in 0 .. 2 * n - 1
  PROVE  x % n = IF x < n THEN x ELSE x - n
  OBVIOUS

-----------------------------------------------------------------------------

Ops == [sa: Pkts, cookie: Pkts, bufs_in: Nat, bufs_out: {0, 1}]
Rings == [next_request: Idx, next_result: Idx, next_cdr: Idx, next_rdr: Idx, free_cdr: Idx,
          ops: [Idx -> Ops], cdr: [Idx -> Desc], rdr: [Idx -> Pkts]]
Engines == [cdr: Idx, rdr: Idx, cmds: Nat, preps: Nat, done: Nat]
Sas == [is_valid: BOOLEAN, cio: Cios \cup {NoCio}, ctr_cio: CtrCios \cup {NoCio}]

TypeOK ==
  /\ cio \in [Cios -> Rings]
  /\ hw \in [Cios -> Engines]
  /\ enq \in [Cios -> [n: Nat, rdr: Nat, cdr: Nat]]
  /\ deq \in [Cios -> [done: Nat, i: Nat]]
  /\ session \in [Sessions -> Sas]
  /\ open \in SUBSET Sessions
  /\ mode \in [Cios -> {"open", "flush", "closing", "closed"}]
  /\ left \in [Cios -> SUBSET Sessions]

\* There is an operation in flight for every result that is written or will be:
\* sam_cio_deq never passes next_request.
Counts(c) ==
  /\ deq[c].i <= deq[c].done /\ deq[c].done <= hw[c].done
  /\ hw[c].preps + enq[c].rdr + hw[c].done - deq[c].i <= Pending(cio[c])
  /\ enq[c].n = 0 => enq[c].rdr = 0
  /\ mode[c] = "closed" => enq[c].n = 0 /\ deq[c].done = 0

\* The operations of a cio in flight that are for s: requests and invalidations.
UsesIn(x, s) == {i \in InFlight(x) : IsRequest(x.ops[i]) /\ x.ops[i].sa = s}
InvsIn(x, s) == {i \in InFlight(x) : ~IsRequest(x.ops[i]) /\ x.ops[i].sa = s}

\* An invalidation is behind every request that uses its session, in the ring the
\* session is invalidated through, which is flushed if it is a control ring.
EndsUse(c, s) ==
  \A i \in InvsIn(cio[c], s) :
    /\ s \notin open /\ session[s].cio \in Eip197
    /\ c = IF session[s].ctr_cio # NoCio THEN session[s].ctr_cio ELSE session[s].cio
    /\ session[s].ctr_cio # NoCio => mode[c] = "flush"
    /\ \A d \in Cios : \A u \in UsesIn(cio[d], s) :
         d = c /\ Sub(u, cio[c].next_result) < Sub(i, cio[c].next_result)

\* A session that has more invalidations in flight than it takes to free it is one
\* of a cio that is being closed.
Surplus(c, s) ==
  /\ InvsIn(cio[c], s) # {} /\ ~session[s].is_valid => mode[session[s].cio] = "closing"
  /\ \A i, j \in InvsIn(cio[c], s) : i # j => mode[session[s].cio] = "closing"

\* What CloseBegin waits for stays true of the sessions of the cio.
Closing(c, s) ==
  mode[c] = "closing" /\ session[s].cio = c =>
    /\ \A d \in Cios \ {c} : UsesIn(cio[d], s) = {}
    /\ UsesIn(cio[c], s) # {} => c \in Eip197 /\ session[s].ctr_cio = NoCio

Held(s) ==
  /\ s \in open => session[s].is_valid
  /\ \A c \in Cios : UsesIn(cio[c], s) # {} => session[s].is_valid

SessionInv(s) ==
  Held(s) /\ \A c \in Cios : EndsUse(c, s) /\ Surplus(c, s) /\ Closing(c, s)

IInv ==
  /\ TypeOK
  /\ \A c \in Cios : Counts(c)
  /\ Alone => \A s \in Sessions : SessionInv(s)

-----------------------------------------------------------------------------
(* One cio: the operations in flight when one is added or retired *)

LEMMA Ring == Size \in Nat \ {0} /\ Idx = 0 .. Size - 1 /\ 0 \in Idx /\ 1 \in Idx
  BY SamAssumption DEF Idx

\* The distances that the code computes with "%".
LEMMA SubCases ==
  ASSUME NEW i \in Idx, NEW j \in Idx
  PROVE  /\ Sub(i, j) = IF i >= j THEN i - j ELSE i - j + Size
         /\ Sub(i, j) \in Idx /\ Sub(i, j) \in Nat /\ Sub(i, j) < Size
<1> DEFINE x == i - j + Size
<1>1. x \in 0 .. 2 * Size - 1
  BY Ring
<1>2. x % Size = IF x < Size THEN x ELSE x - Size
  <2> HIDE DEF x
  <2> QED BY <1>1, Ring, ModWrap
<1> QED
  BY <1>1, <1>2, Ring DEF Sub

LEMMA NextCases ==
  ASSUME NEW i \in Idx, NEW j \in Idx
  PROVE  Add(i, j) \in Idx /\ Add(i, j) = IF i + j < Size THEN i + j ELSE i + j - Size
<1> DEFINE x == i + j
<1>1. x \in 0 .. 2 * Size - 1
  BY Ring
<1>2. x % Size = IF x < Size THEN x ELSE x - Size
  <2> HIDE DEF x
  <2> QED BY <1>1, Ring, ModWrap
<1> QED
  BY <1>1, <1>2, Ring DEF Add

\* The operation that is added is the last one.
LEMMA PushIdx ==
  ASSUME NEW x, NEW y, x.next_request \in Idx, x.next_result \in Idx, ~IsFull(x),
         y.next_request = Add(x.next_request, 1), y.next_result = x.next_result
  PROVE  /\ y.next_request \in Idx
         /\ Pending(x) \in Nat /\ Pending(x) + 1 < Size /\ Pending(y) = Pending(x) + 1
         /\ InFlight(y) = InFlight(x) \cup {x.next_request}
         /\ x.next_request \notin InFlight(x)
<1> DEFINE a == x.next_request
           b == x.next_result
           e == Add(a, 1)
<1>1. a \in Idx /\ b \in Idx /\ e \in Idx /\ e # b
      /\ e = IF a + 1 < Size THEN a + 1 ELSE a + 1 - Size
  BY Ring, NextCases DEF IsFull
<1>2. Sub(a, b) = IF a >= b THEN a - b ELSE a - b + Size
  BY <1>1, SubCases
<1>3. Sub(e, b) = IF e >= b THEN e - b ELSE e - b + Size
  BY <1>1, SubCases
<1>4. Pending(x) = Sub(a, b) /\ Pending(y) = Sub(e, b)
  BY DEF Pending
<1>5. /\ InFlight(x) = {i \in Idx : Sub(i, b) < Sub(a, b)}
      /\ InFlight(y) = {i \in Idx : Sub(i, b) < Sub(e, b)}
  BY <1>4 DEF InFlight
<1> HIDE DEF a, b, e
<1>6. Sub(a, b) \in Nat /\ Sub(a, b) + 1 < Size /\ Sub(e, b) = Sub(a, b) + 1
  BY <1>1, <1>2, <1>3, Ring
<1>7. ASSUME NEW i \in Idx PROVE Sub(i, b) < Sub(e, b) <=> Sub(i, b) < Sub(a, b) \/ i = a
  <2>1. Sub(i, b) = (IF i >= b THEN i - b ELSE i - b + Size) /\ Sub(i, b) \in Nat
    BY <1>1, SubCases
  <2> QED BY <1>1, <1>2, <1>6, <2>1, Ring
<1>8. InFlight(y) = InFlight(x) \cup {a} /\ a \notin InFlight(x)
  <2>1. ~(Sub(a, b) < Sub(a, b))
    BY <1>6
  <2>2. a \notin InFlight(x)
    BY <2>1, <1>5, Zenon
  <2>3. InFlight(y) = InFlight(x) \cup {a}
    BY <1>1, <1>5, <1>7, Zenon
  <2> QED BY <2>2, <2>3
<1> QED
  BY <1>1, <1>4, <1>6, <1>8 DEF a, b, e

\* The operation that is retired is the first one.
LEMMA PopIdx ==
  ASSUME NEW x, NEW y, x.next_request \in Idx, x.next_result \in Idx, Pending(x) > 0,
         y.next_request = x.next_request, y.next_result = Add(x.next_result, 1)
  PROVE  /\ y.next_result \in Idx
         /\ Pending(x) \in Nat /\ Pending(y) = Pending(x) - 1
         /\ InFlight(y) = InFlight(x) \ {x.next_result}
         /\ x.next_result \in InFlight(x) /\ Sub(x.next_result, x.next_result) = 0
         /\ \A i \in InFlight(y) : Sub(i, y.next_result) = Sub(i, x.next_result) - 1
<1> DEFINE a == x.next_request
           b == x.next_result
           e == Add(b, 1)
<1>1. a \in Idx /\ b \in Idx /\ e \in Idx /\ Sub(a, b) > 0
      /\ e = IF b + 1 < Size THEN b + 1 ELSE b + 1 - Size
  BY Ring, NextCases DEF Pending
<1>2. Sub(a, b) = IF a >= b THEN a - b ELSE a - b + Size
  BY <1>1, SubCases
<1>3. Sub(a, e) = IF a >= e THEN a - e ELSE a - e + Size
  BY <1>1, SubCases
<1>4. Pending(x) = Sub(a, b) /\ Pending(y) = Sub(a, e)
  BY DEF Pending
<1>5. /\ InFlight(x) = {i \in Idx : Sub(i, b) < Sub(a, b)}
      /\ InFlight(y) = {i \in Idx : Sub(i, e) < Sub(a, e)}
  BY <1>4 DEF InFlight
<1> HIDE DEF a, b, e
<1>6. Sub(b, b) = 0
  <2>1. Sub(b, b) = IF b >= b THEN b - b ELSE b - b + Size
    BY <1>1, SubCases
  <2> QED BY <1>1, <2>1, Ring
<1>7. Sub(a, b) \in Nat /\ Sub(a, e) = Sub(a, b) - 1
  BY <1>1, <1>2, <1>3, Ring
<1>8. ASSUME NEW i \in Idx
      PROVE  /\ Sub(i, e) < Sub(a, e) <=> Sub(i, b) < Sub(a, b) /\ i # b
             /\ i # b => Sub(i, e) = Sub(i, b) - 1
  <2>1. Sub(i, b) = (IF i >= b THEN i - b ELSE i - b + Size) /\ Sub(i, b) \in Nat
    BY <1>1, SubCases
  <2>2. Sub(i, e) = (IF i >= e THEN i - e ELSE i - e + Size) /\ Sub(i, e) \in Nat
    BY <1>1, SubCases
  <2> QED BY <1>1, <1>2, <1>7, <2>1, <2>2, Ring
<1>9. InFlight(y) = InFlight(x) \ {b} /\ b \in InFlight(x)
  <2>1. Sub(b, b) < Sub(a, b)
    BY <1>1, <1>6
  <2>2. b \in InFlight(x)
    BY <1>1, <1>5, <2>1, Zenon
  <2>3. InFlight(y) = InFlight(x) \ {b}
    BY <1>5, <1>8, Zenon
  <2> QED BY <2>2, <2>3
<1>10. \A i \in InFlight(y) : Sub(i, e) = Sub(i, b) - 1
  BY <1>5, <1>8, <1>9
<1> QED
  BY <1>1, <1>4, <1>6, <1>7, <1>9, <1>10 DEF a, b, e

LEMMA PushOp ==
  ASSUME NEW x \in Rings, NEW y, NEW op, NEW s, ~IsFull(x),
         y.next_request = Add(x.next_request, 1), y.next_result = x.next_result,
         y.ops = [x.ops EXCEPT ![x.next_request] = op]
  PROVE  /\ UsesIn(y, s) = IF IsRequest(op) /\ op.sa = s
                           THEN UsesIn(x, s) \cup {x.next_request} ELSE UsesIn(x, s)
         /\ InvsIn(y, s) = IF ~IsRequest(op) /\ op.sa = s
                           THEN InvsIn(x, s) \cup {x.next_request} ELSE InvsIn(x, s)
         /\ \A i \in UsesIn(x, s) \cup InvsIn(x, s) :
              /\ i # x.next_request
              /\ Sub(i, x.next_result) < Sub(x.next_request, x.next_result)
<1>1. x.next_request \in Idx /\ x.next_result \in Idx /\ DOMAIN x.ops = Idx
  BY DEF Rings
<1>2. /\ InFlight(y) = InFlight(x) \cup {x.next_request}
      /\ x.next_request \notin InFlight(x)
  BY <1>1, PushIdx
<1>3. /\ y.ops[x.next_request] = op
      /\ \A i \in InFlight(x) : y.ops[i] = x.ops[i]
  BY <1>1, <1>2 DEF InFlight
<1>4. \A i \in InFlight(x) : Sub(i, x.next_result) < Sub(x.next_request, x.next_result)
  BY DEF InFlight, Pending
<1> QED
  BY <1>2, <1>3, <1>4, Zenon DEF UsesIn, InvsIn

LEMMA PopOp ==
  ASSUME NEW x \in Rings, NEW y, NEW s, Pending(x) > 0,
         y.next_request = x.next_request, y.next_result = Add(x.next_result, 1),
         y.ops = x.ops
  PROVE  /\ UsesIn(y, s) = UsesIn(x, s) \ {x.next_result}
         /\ InvsIn(y, s) = InvsIn(x, s) \ {x.next_result}
         /\ Sub(x.next_result, x.next_result) = 0
         /\ \A i \in UsesIn(x, s) \cup InvsIn(x, s) :
              /\ Sub(i, x.next_result) \in Nat
              /\ i # x.next_result => Sub(i, y.next_result) = Sub(i, x.next_result) - 1
<1>1. x.next_request \in Idx /\ x.next_result \in Idx
  BY DEF Rings
<1>2. /\ InFlight(y) = InFlight(x) \ {x.next_result}
      /\ Sub(x.next_result, x.next_result) = 0
      /\ \A i \in InFlight(y) : Sub(i, y.next_result) = Sub(i, x.next_result) - 1
  BY <1>1, PopIdx
<1>3. \A i \in InFlight(x) : Sub(i, x.next_result) \in Nat
  BY <1>1, SubCases DEF InFlight
<1> QED
  BY <1>2, <1>3, Zenon DEF UsesIn, InvsIn

\* The operations in flight are told by these three.
LEMMA SameOp ==
  ASSUME NEW x, NEW y, NEW s, y.next_request = x.next_request,
         y.next_result = x.next_result, y.ops = x.ops
  PROVE  /\ Pending(y) = Pending(x) /\ UsesIn(y, s) = UsesIn(x, s)
         /\ InvsIn(y, s) = InvsIn(x, s)
  BY DEF Pending, InFlight, UsesIn, InvsIn

-----------------------------------------------------------------------------
(* The steps of the rings *)

\* A step that adds and retires no operation, nor touches a session.
LEMMA SessionsKept ==
  ASSUME Alone, IInv, UNCHANGED <<session, open, mode>>,
         \A c \in Cios : /\ cio'[c].next_request = cio[c].next_request
                         /\ cio'[c].next_result = cio[c].next_result
                         /\ cio'[c].ops = cio[c].ops
  PROVE  \A s \in Sessions : SessionInv(s)'
<1>1. \A c \in Cios, s \in Sessions :
        /\ UsesIn(cio'[c], s) = UsesIn(cio[c], s) /\ InvsIn(cio'[c], s) = InvsIn(cio[c], s)
        /\ cio'[c].next_result = cio[c].next_result
  BY SameOp
<1>2. TAKE s \in Sessions
<1>3. SessionInv(s)
  BY DEF IInv
<1>4. Held(s)'
  BY <1>1, <1>3 DEF SessionInv, Held
<1>5. ASSUME NEW c \in Cios PROVE EndsUse(c, s)'
  <2>1. EndsUse(c, s)
    BY <1>3 DEF SessionInv
  <2> QED BY <1>1, <2>1 DEF EndsUse
<1>6. ASSUME NEW c \in Cios PROVE Surplus(c, s)'
  <2>1. Surplus(c, s)
    BY <1>3 DEF SessionInv
  <2> QED BY <1>1, <2>1 DEF Surplus
<1>7. ASSUME NEW c \in Cios PROVE Closing(c, s)'
  <2>1. Closing(c, s)
    BY <1>3 DEF SessionInv
  <2> QED BY <1>1, <2>1 DEF Closing
<1> QED
  BY <1>4, <1>5, <1>6, <1>7 DEF SessionInv

\* What Counts reads of a cio.
LEMMA CountsKept ==
  ASSUME IInv, NEW d \in Cios, Pending(cio'[d]) = Pending(cio[d]), hw'[d] = hw[d],
         enq'[d] = enq[d], deq'[d] = deq[d], mode'[d] = mode[d]
  PROVE  Counts(d)'
  BY DEF IInv, Counts

LEMMA SubmitInv == ASSUME IInv, NEW c \in Cios, Submit(c) PROVE IInv'
<1>1. TypeOK'
  <2>1. /\ hw[c].preps + enq[c].rdr \in Nat /\ hw[c].cmds + enq[c].cdr \in Nat
    BY DEF IInv, TypeOK, Engines
  <2>2. hw' \in [Cios -> Engines]
    <3>1. hw \in [Cios -> Engines]
      BY DEF IInv, TypeOK
    <3>2. hw' = [hw EXCEPT ![c] = [hw[c] EXCEPT !.preps = hw[c].preps + enq[c].rdr,
                                                !.cmds = hw[c].cmds + enq[c].cdr]]
      BY <3>1 DEF Submit, Engines
    <3>3. [hw[c] EXCEPT !.preps = hw[c].preps + enq[c].rdr,
                        !.cmds = hw[c].cmds + enq[c].cdr] \in Engines
      BY <2>1, <3>1 DEF Engines
    <3> QED BY <3>1, <3>2, <3>3
  <2>3. enq' \in [Cios -> [n: Nat, rdr: Nat, cdr: Nat]]
    BY DEF IInv, TypeOK, Submit
  <2> QED BY <2>2, <2>3 DEF Submit, users, IInv, TypeOK
<1>2. ASSUME NEW d \in Cios PROVE Counts(d)'
  <2>1. /\ cio' = cio /\ deq' = deq /\ mode' = mode
        /\ hw' = [hw EXCEPT ![c].preps = @ + enq[c].rdr, ![c].cmds = @ + enq[c].cdr]
        /\ enq' = [enq EXCEPT ![c] = [n |-> 0, rdr |-> 0, cdr |-> 0]]
    BY DEF Submit, users
  <2>2. CASE d # c
    BY <2>1, <2>2, CountsKept DEF IInv, TypeOK
  <2>3. CASE d = c
    <3>1. /\ hw'[c].preps = hw[c].preps + enq[c].rdr /\ hw'[c].done = hw[c].done
          /\ enq'[c].rdr = 0 /\ enq'[c].n = 0
          /\ hw[c].preps + enq[c].rdr \in Nat
      BY <2>1 DEF IInv, TypeOK, Engines
    <3> QED
      BY <2>1, <2>3, <3>1 DEF IInv, Counts
  <2> QED
    BY <2>2, <2>3
<1>3. Alone => \A s \in Sessions : SessionInv(s)'
  BY SessionsKept DEF Submit, users
<1> QED
  BY <1>1, <1>2, <1>3 DEF IInv

LEMMA ProcessInv == ASSUME IInv, NEW c \in Cios, Process(c) PROVE IInv'
<1> DEFINE h == hw[c]
           ends == {l \in 1 .. h.cmds : cio[c].cdr[Add(h.cdr, l - 1)].last}
           len == CHOOSE l \in ends : \A o \in ends : l <= o
<1>1. /\ cio[c] \in Rings /\ h \in Engines /\ hw \in [Cios -> Engines]
      /\ cio \in [Cios -> Rings]
  BY DEF IInv, TypeOK
<1>2. \E l \in ends : \A o \in ends : l <= o
  <2>1. PICK l \in ends : TRUE
    BY DEF Process
  <2>2. ends \subseteq Nat /\ ends # {}
    BY <1>1, <2>1 DEF Engines
  <2> HIDE DEF ends
  <2> QED BY <2>2, NatMin
<1>3. len \in 1 .. h.cmds
  BY <1>2
<1>4. cio' = [cio EXCEPT ![c].rdr[h.rdr] = cio[c].cdr[h.cdr].pkt]
  BY DEF Process
<1>5. hw' = [hw EXCEPT ![c] = [cdr |-> Add(@.cdr, len), rdr |-> Add(@.rdr, 1),
                                cmds |-> @.cmds - len, preps |-> @.preps - 1,
                                done |-> @.done + 1]]
  BY DEF Process
<1>6. h.preps > 0 /\ UNCHANGED <<enq, deq, session, open, mode, left>>
  BY DEF Process, users
<1> HIDE DEF len, ends
<1>7. cio[c].cdr[h.cdr].pkt \in Pkts
  BY <1>1 DEF Rings, Engines, Desc
<1>8. cio' \in [Cios -> Rings]
  BY <1>1, <1>4, <1>7 DEF Rings
<1>9. Add(h.cdr, len) \in Idx /\ Add(h.rdr, 1) \in Idx
  BY <1>1, <1>3, Ring DEF Add, Engines
<1>10. hw' \in [Cios -> Engines]
  BY <1>1, <1>3, <1>5, <1>6, <1>9 DEF Engines
<1>11. TypeOK'
  BY <1>6, <1>8, <1>10 DEF IInv, TypeOK
<1>12. \A d \in Cios : /\ cio'[d].next_request = cio[d].next_request
                       /\ cio'[d].next_result = cio[d].next_result
                       /\ cio'[d].ops = cio[d].ops
  BY <1>1, <1>4 DEF Rings
<1>13. ASSUME NEW d \in Cios PROVE Counts(d)'
  <2>1. Pending(cio'[d]) = Pending(cio[d])
    BY <1>12, SameOp
  <2>2. CASE d # c
    BY <1>1, <1>5, <1>6, <2>1, <2>2, CountsKept
  <2>3. CASE d = c
    <3>1. /\ hw'[c].preps = hw[c].preps - 1 /\ hw'[c].done = hw[c].done + 1
          /\ hw[c].preps \in Nat /\ hw[c].done \in Nat
          /\ enq[c].rdr \in Nat /\ deq[c].done \in Nat /\ deq[c].i \in Nat
      BY <1>1, <1>5 DEF Engines, IInv, TypeOK
    <3>2. Pending(cio[c]) \in Nat
      BY <1>1, SubCases DEF Rings, Pending
    <3>3. Counts(c)
      BY DEF IInv
    <3> QED
      BY <1>6, <2>1, <2>3, <3>1, <3>2, <3>3 DEF Counts
  <2> QED
    BY <2>2, <2>3
<1>14. Alone => \A s \in Sessions : SessionInv(s)'
  BY <1>6, <1>12, SessionsKept
<1> QED
  BY <1>11, <1>13, <1>14 DEF IInv

LEMMA DeqBeginInv == ASSUME IInv, NEW c \in Cios, DeqBegin(c) PROVE IInv'
<1>1. /\ mode[c] # "closed" /\ deq[c].done = 0
      /\ deq' = [deq EXCEPT ![c] = [done |-> hw[c].done, i |-> 0]]
      /\ UNCHANGED <<cio, hw, enq, session, open, mode, left>>
  BY DEF DeqBegin, users
<1>2. /\ hw[c].done \in Nat /\ deq[c].i \in Nat /\ deq[c].done \in Nat
      /\ deq \in [Cios -> [done: Nat, i: Nat]]
  BY DEF IInv, TypeOK, Engines
<1>3. TypeOK'
  BY <1>1, <1>2 DEF IInv, TypeOK
<1>4. ASSUME NEW d \in Cios PROVE Counts(d)'
  <2>1. CASE d # c
    BY <1>1, <1>2, <2>1, CountsKept
  <2>2. CASE d = c
    <3>1. deq[c].i = 0 /\ deq'[c].i = 0 /\ deq'[c].done = hw[c].done
      BY <1>1, <1>2 DEF IInv, Counts
    <3> QED BY <1>1, <1>2, <2>2, <3>1 DEF IInv, Counts
  <2> QED BY <2>1, <2>2
<1>5. Alone => \A s \in Sessions : SessionInv(s)'
  BY <1>1, SessionsKept
<1> QED
  BY <1>3, <1>4, <1>5 DEF IInv

LEMMA DeqEndInv == ASSUME IInv, NEW c \in Cios, DeqEnd(c) PROVE IInv'
<1>1. /\ hw' = [hw EXCEPT ![c].done = @ - deq[c].i]
      /\ deq' = [deq EXCEPT ![c] = [done |-> 0, i |-> 0]]
      /\ UNCHANGED <<cio, enq, session, open, mode, left>>
  BY DEF DeqEnd, users
<1>2. /\ hw \in [Cios -> Engines] /\ hw[c] \in Engines /\ deq[c].i \in Nat /\ deq[c].done \in Nat
      /\ deq \in [Cios -> [done: Nat, i: Nat]] /\ enq[c].rdr \in Nat
  BY DEF IInv, TypeOK
<1>3. Counts(c) /\ Pending(cio[c]) \in Nat
  BY SubCases DEF IInv, TypeOK, Rings, Pending
<1>4. hw[c].done - deq[c].i \in Nat
  BY <1>2, <1>3 DEF Counts, Engines
<1>5. TypeOK'
  BY <1>1, <1>2, <1>4 DEF IInv, TypeOK, Engines
<1>6. ASSUME NEW d \in Cios PROVE Counts(d)'
  <2>1. CASE d # c
    BY <1>1, <1>2, <2>1, CountsKept
  <2>2. CASE d = c
    <3>1. /\ deq'[c].i = 0 /\ deq'[c].done = 0 /\ hw'[c].done = hw[c].done - deq[c].i
          /\ hw'[c].preps = hw[c].preps
      BY <1>1, <1>2 DEF Engines
    <3> QED BY <1>1, <1>2, <1>3, <1>4, <2>2, <3>1 DEF Counts, Engines
  <2> QED BY <2>1, <2>2
<1>7. Alone => \A s \in Sessions : SessionInv(s)'
  BY <1>1, SessionsKept
<1> QED
  BY <1>5, <1>6, <1>7 DEF IInv

-----------------------------------------------------------------------------
(* The steps that change what a cio is doing *)

LEMMA NoneInFlight ==
  ASSUME NEW x, NEW s, Pending(x) = 0, x.next_result \in Idx
  PROVE  UsesIn(x, s) = {} /\ InvsIn(x, s) = {}
<1>1. ASSUME NEW i \in Idx PROVE ~(Sub(i, x.next_result) < 0)
  BY SubCases
<1> QED
  BY <1>1 DEF InFlight, UsesIn, InvsIn

\* A control ring is flushed until nothing is in flight.
LEMMA FlushEndInv == ASSUME IInv, NEW c \in Cios, FlushEnd(c) PROVE IInv'
<1>1. /\ mode[c] = "flush" /\ Pending(cio[c]) = 0
      /\ mode' = [mode EXCEPT ![c] = "open"]
      /\ UNCHANGED <<cio, hw, enq, deq, session, open, left>>
  BY DEF FlushEnd, rings
<1>2. mode \in [Cios -> {"open", "flush", "closing", "closed"}] /\ cio[c].next_result \in Idx
  BY DEF IInv, TypeOK, Rings
<1>3. TypeOK'
  BY <1>1, <1>2 DEF IInv, TypeOK
<1>4. \A d \in Cios : (mode'[d] = "closed") = (mode[d] = "closed")
                      /\ (mode'[d] = "closing") = (mode[d] = "closing")
                      /\ (mode'[d] = mode[d] \/ d = c)
  BY <1>1, <1>2
<1>5. \A d \in Cios : Counts(d)'
  BY <1>1, <1>4 DEF IInv, Counts
<1>6. ASSUME Alone, NEW s \in Sessions PROVE SessionInv(s)'
  <2>1. SessionInv(s) /\ InvsIn(cio[c], s) = {}
    BY <1>1, <1>2, <1>6, NoneInFlight DEF IInv
  <2>2. Held(s)'
    BY <1>1, <2>1 DEF SessionInv, Held
  <2>3. ASSUME NEW d \in Cios PROVE EndsUse(d, s)'
    <3>1. CASE d = c
      BY <1>1, <2>1, <3>1 DEF EndsUse
    <3>2. CASE d # c
      BY <1>1, <1>4, <2>1, <3>2 DEF SessionInv, EndsUse
    <3> QED BY <3>1, <3>2
  <2>4. ASSUME NEW d \in Cios PROVE Surplus(d, s)'
    <3>1. InvsIn(cio[d], s) # {} => session[s].cio \in Cios
      BY <2>1, SamAssumption DEF SessionInv, EndsUse
    <3>2. Surplus(d, s)
      BY <2>1 DEF SessionInv
    <3> QED BY <1>1, <1>4, <3>1, <3>2 DEF Surplus
  <2>5. ASSUME NEW d \in Cios PROVE Closing(d, s)'
    BY <1>1, <1>4, <2>1 DEF SessionInv, Closing
  <2> QED BY <2>2, <2>3, <2>4, <2>5 DEF SessionInv
<1> QED
  BY <1>3, <1>5, <1>6 DEF IInv

LEMMA CloseBeginInv == ASSUME IInv, NEW c \in Cios, CloseBegin(c) PROVE IInv'
<1>1. /\ mode[c] = "open"
      /\ mode' = [mode EXCEPT ![c] = "closing"]
      /\ left' = [left EXCEPT ![c] = Sessions]
      /\ UNCHANGED <<cio, hw, enq, deq, session, open>>
  BY DEF CloseBegin, rings
<1>2. \A s \in Sessions : session[s].cio = c =>
        /\ \A d \in Cios \ {c} : UsesIn(cio[d], s) = {}
        /\ UsesIn(cio[c], s) # {} => c \in Eip197 /\ session[s].ctr_cio = NoCio
  BY DEF CloseBegin, Uses, UsesIn
<1>3. mode \in [Cios -> {"open", "flush", "closing", "closed"}]
  BY DEF IInv, TypeOK
<1>4. TypeOK'
  BY <1>1, <1>3 DEF IInv, TypeOK
<1>5. \A d \in Cios : /\ mode'[d] = "closed" => mode[d] = "closed"
                      /\ mode[d] \in {"flush", "closing"} => mode'[d] = mode[d]
                      /\ d # c => mode'[d] = mode[d]
  BY <1>1, <1>3
<1>6. \A d \in Cios : Counts(d)'
  BY <1>1, <1>5 DEF IInv, Counts
<1>7. ASSUME Alone, NEW s \in Sessions PROVE SessionInv(s)'
  <2>1. SessionInv(s)
    BY <1>7 DEF IInv
  <2>2. Held(s)'
    BY <1>1, <2>1 DEF SessionInv, Held
  <2>3. ASSUME NEW d \in Cios PROVE EndsUse(d, s)'
    BY <1>1, <1>5, <2>1 DEF SessionInv, EndsUse
  <2>4. ASSUME NEW d \in Cios PROVE Surplus(d, s)'
    <3>1. InvsIn(cio[d], s) # {} => session[s].cio \in Cios
      BY <2>1, SamAssumption DEF SessionInv, EndsUse
    <3>2. Surplus(d, s)
      BY <2>1 DEF SessionInv
    <3> QED BY <1>1, <1>5, <3>1, <3>2 DEF Surplus
  <2>5. ASSUME NEW d \in Cios PROVE Closing(d, s)'
    BY <1>1, <1>2, <1>5, <2>1 DEF SessionInv, Closing
  <2> QED BY <2>2, <2>3, <2>4, <2>5 DEF SessionInv
<1> QED
  BY <1>4, <1>6, <1>7 DEF IInv

\* Nothing is in flight in a cio that is closed, and no control ring is flushed:
\* every invalidation of its sessions has come back.
LEMMA CloseEndInv == ASSUME IInv, NEW c \in Cios, CloseEnd(c) PROVE IInv'
<1>1. /\ mode[c] = "closing" /\ Pending(cio[c]) = 0 /\ enq[c].n = 0 /\ deq[c].done = 0
      /\ \A d \in Cios : mode[d] # "flush"
      /\ mode' = [mode EXCEPT ![c] = "closed"]
      /\ left' = [left EXCEPT ![c] = {}]
      /\ UNCHANGED <<cio, hw, enq, deq, session, open>>
  BY DEF CloseEnd, rings, Calm
<1>2. mode \in [Cios -> {"open", "flush", "closing", "closed"}] /\ cio[c].next_result \in Idx
  BY DEF IInv, TypeOK, Rings
<1>3. TypeOK'
  BY <1>1, <1>2 DEF IInv, TypeOK
<1>4. \A d \in Cios : /\ mode'[d] = "closed" => mode[d] = "closed" \/ d = c
                      /\ d # c => mode'[d] = mode[d]
                      /\ mode'[d] = "closing" => mode[d] = "closing"
  BY <1>1, <1>2
<1>5. \A d \in Cios : Counts(d)'
  BY <1>1, <1>4 DEF IInv, Counts
<1>6. ASSUME Alone, NEW s \in Sessions PROVE SessionInv(s)'
  <2>1. SessionInv(s) /\ InvsIn(cio[c], s) = {}
    BY <1>1, <1>2, <1>6, NoneInFlight DEF IInv
  <2>2. Held(s)'
    BY <1>1, <2>1 DEF SessionInv, Held
  <2>3. ASSUME NEW d \in Cios PROVE EndsUse(d, s)'
    <3>1. CASE d = c
      BY <1>1, <2>1, <3>1 DEF EndsUse
    <3>2. CASE d # c
      BY <1>1, <1>4, <2>1, <3>2 DEF SessionInv, EndsUse
    <3> QED BY <3>1, <3>2
  <2>4. ASSUME NEW d \in Cios PROVE Surplus(d, s)'
    <3>1. ASSUME InvsIn(cio[d], s) # {} PROVE session[s].cio \in Cios /\ session[s].cio # c
      <4>1. /\ session[s].cio \in Eip197
            /\ d = IF session[s].ctr_cio # NoCio THEN session[s].ctr_cio ELSE session[s].cio
            /\ session[s].ctr_cio # NoCio => mode[d] = "flush"
        BY <2>1, <3>1 DEF SessionInv, EndsUse
      <4>2. d = session[s].cio /\ d # c
        BY <1>1, <2>1, <3>1, <4>1
      <4> QED BY <4>2
    <3>2. Surplus(d, s)
      BY <2>1 DEF SessionInv
    <3> QED BY <1>1, <1>4, <3>1, <3>2 DEF Surplus
  <2>5. ASSUME NEW d \in Cios PROVE Closing(d, s)'
    BY <1>1, <1>4, <2>1 DEF SessionInv, Closing
  <2> QED BY <2>2, <2>3, <2>4, <2>5 DEF SessionInv
<1> QED
  BY <1>3, <1>5, <1>6 DEF IInv

LEMMA FreshTyped == FreshCio \in Rings /\ FreshHw \in Engines /\ Pending(FreshCio) = 0
<1>1. NoPkt \in Pkts /\ 0 \in Idx /\ 0 \in Nat
  BY Ring DEF Pkts
<1>2. FreshCio.ops \in [Idx -> Ops] /\ FreshCio.cdr \in [Idx -> Desc]
      /\ FreshCio.rdr \in [Idx -> Pkts]
  BY <1>1 DEF FreshCio, Ops, Desc
<1>3. Pending(FreshCio) = Sub(0, 0)
  BY DEF Pending, FreshCio
<1>4. Sub(0, 0) = 0
  BY <1>1, SubCases
<1> QED
  BY <1>1, <1>2, <1>3, <1>4 DEF FreshCio, FreshHw, Rings, Engines

LEMMA OpenInv == ASSUME IInv, NEW c \in Cios, Open(c) PROVE IInv'
<1>1. /\ mode[c] = "closed"
      /\ mode' = [mode EXCEPT ![c] = "open"]
      /\ cio' = [cio EXCEPT ![c] = FreshCio]
      /\ hw' = [hw EXCEPT ![c] = FreshHw]
      /\ UNCHANGED <<enq, deq, session, open, left>>
  BY DEF Open
<1>2. /\ mode \in [Cios -> {"open", "flush", "closing", "closed"}]
      /\ cio \in [Cios -> Rings] /\ hw \in [Cios -> Engines]
      /\ deq[c].i \in Nat /\ deq[c].done \in Nat
  BY DEF IInv, TypeOK
<1>3. TypeOK'
  BY <1>1, <1>2, FreshTyped DEF IInv, TypeOK
<1>4. \A d \in Cios : mode'[d] = (IF d = c THEN "open" ELSE mode[d])
                      /\ cio'[d] = (IF d = c THEN FreshCio ELSE cio[d])
  BY <1>1, <1>2
<1>5. ASSUME NEW d \in Cios PROVE Counts(d)'
  <2>1. CASE d # c
    BY <1>1, <1>2, <2>1, CountsKept
  <2>2. CASE d = c
    <3>1. /\ hw'[c].preps = 0 /\ hw'[c].done = 0 /\ Pending(cio'[c]) = 0
          /\ enq'[c].rdr = 0 /\ deq'[c].i = 0 /\ deq'[c].done = 0 /\ mode'[c] = "open"
      BY <1>1, <1>2, <1>4, FreshTyped DEF FreshHw, IInv, Counts
    <3> QED BY <2>2, <3>1 DEF Counts
  <2> QED BY <2>1, <2>2
<1>6. ASSUME Alone, NEW s \in Sessions PROVE SessionInv(s)'
  <2>1. UsesIn(FreshCio, s) = {} /\ InvsIn(FreshCio, s) = {}
    BY FreshTyped, NoneInFlight DEF Rings
  <2>2. \A d \in Cios : /\ UsesIn(cio'[d], s) = IF d = c THEN {} ELSE UsesIn(cio[d], s)
                        /\ InvsIn(cio'[d], s) = IF d = c THEN {} ELSE InvsIn(cio[d], s)
                        /\ d # c => cio'[d].next_result = cio[d].next_result
    BY <1>4, <2>1
  <2>3. SessionInv(s)
    BY <1>6 DEF IInv
  <2>4. Held(s)'
    BY <1>1, <2>2, <2>3 DEF SessionInv, Held
  <2>5. ASSUME NEW d \in Cios PROVE EndsUse(d, s)'
    <3>1. CASE d = c
      BY <2>2, <3>1 DEF EndsUse
    <3>2. CASE d # c
      BY <1>1, <1>4, <2>2, <2>3, <3>2 DEF SessionInv, EndsUse
    <3> QED BY <3>1, <3>2
  <2>6. ASSUME NEW d \in Cios PROVE Surplus(d, s)'
    <3>1. CASE d = c
      BY <2>2, <3>1 DEF Surplus
    <3>2. CASE d # c
      <4>1. InvsIn(cio[d], s) # {} => session[s].cio \in Cios
        BY <2>3, SamAssumption DEF SessionInv, EndsUse
      <4>2. Surplus(d, s)
        BY <2>3 DEF SessionInv
      <4> QED BY <1>1, <1>4, <2>2, <3>2, <4>1, <4>2 DEF Surplus
    <3> QED BY <3>1, <3>2
  <2>7. ASSUME NEW d \in Cios PROVE Closing(d, s)'
    BY <1>1, <1>4, <2>2, <2>3 DEF SessionInv, Closing
  <2> QED BY <2>4, <2>5, <2>6, <2>7 DEF SessionInv
<1> QED
  BY <1>3, <1>5, <1>6 DEF IInv

-----------------------------------------------------------------------------
(* The steps of a session's life *)

\* A session that is not valid has nothing in flight, unless a cio is being closed.
LEMMA CreateInv ==
  ASSUME IInv, NEW s \in Sessions, NEW ctr \in CtrCios, Create(s, ctr)
  PROVE  IInv'
<1>1. /\ ~session[s].is_valid /\ (Alone => \A c \in Cios : mode[c] # "closing")
      /\ session' = [session EXCEPT ![s] = [is_valid |-> TRUE, cio |-> NoCio, ctr_cio |-> ctr]]
      /\ open' = open \cup {s}
      /\ UNCHANGED <<cio, hw, enq, deq, mode, left>>
  BY DEF Create, rings
<1>2. session \in [Sessions -> Sas] /\ open \in SUBSET Sessions
  BY DEF IInv, TypeOK
<1>3. TypeOK'
  BY <1>1, <1>2 DEF IInv, TypeOK, Sas
<1>4. \A d \in Cios : Counts(d)'
  BY <1>1 DEF IInv, Counts
<1>5. ASSUME Alone, NEW t \in Sessions, t # s PROVE SessionInv(t)'
  <2>1. SessionInv(t) /\ session'[t] = session[t] /\ (t \in open' <=> t \in open)
    BY <1>1, <1>2, <1>5 DEF IInv
  <2> QED BY ZenonT(30), <1>1, <2>1 DEF SessionInv, Held, EndsUse, Surplus, Closing
<1>6. ASSUME Alone PROVE SessionInv(s)'
  <2>1. SessionInv(s) /\ session'[s] = [is_valid |-> TRUE, cio |-> NoCio, ctr_cio |-> ctr]
    BY <1>1, <1>2, <1>6 DEF IInv
  <2>2. ASSUME NEW d \in Cios PROVE InvsIn(cio[d], s) = {}
    <3>1. Surplus(d, s) /\ EndsUse(d, s)
      BY <2>1 DEF SessionInv
    <3> QED BY <1>1, <1>6, <3>1, SamAssumption DEF Surplus, EndsUse
  <2>3. Held(s)'
    BY <2>1 DEF Held
  <2>4. ASSUME NEW d \in Cios PROVE EndsUse(d, s)' /\ Surplus(d, s)' /\ Closing(d, s)'
    BY <1>1, <2>1, <2>2, SamAssumption DEF EndsUse, Surplus, Closing
  <2> QED BY <2>3, <2>4 DEF SessionInv
<1> QED
  BY <1>3, <1>4, <1>5, <1>6 DEF IInv

\* A session without a context in the engine is freed at once; nothing uses it.
LEMMA FreeNowInv ==
  ASSUME IInv, NEW s \in Sessions, Alone => \A d \in Cios : UsesIn(cio[d], s) = {},
         session[s].cio \notin Eip197,
         session' = [session EXCEPT ![s].is_valid = FALSE],
         open' = open \ {s}, left' \in [Cios -> SUBSET Sessions],
         UNCHANGED <<cio, hw, enq, deq, mode>>
  PROVE  IInv'
<1>1. session \in [Sessions -> Sas] /\ open \in SUBSET Sessions
  BY DEF IInv, TypeOK
<1>2. TypeOK'
  BY <1>1 DEF IInv, TypeOK, Sas
<1>3. \A d \in Cios : Counts(d)'
  BY DEF IInv, Counts
<1>4. ASSUME Alone, NEW t \in Sessions, t # s PROVE SessionInv(t)'
  <2>1. SessionInv(t) /\ session'[t] = session[t] /\ (t \in open' <=> t \in open)
    BY <1>1, <1>4 DEF IInv
  <2> QED BY ZenonT(30), <2>1 DEF SessionInv, Held, EndsUse, Surplus, Closing
<1>5. ASSUME Alone PROVE SessionInv(s)'
  <2>1. SessionInv(s) /\ session'[s].cio = session[s].cio
        /\ session'[s].ctr_cio = session[s].ctr_cio
    BY <1>1, <1>5 DEF IInv, Sas
  <2>2. ASSUME NEW d \in Cios PROVE InvsIn(cio[d], s) = {}
    BY <2>1 DEF SessionInv, EndsUse
  <2>3. Held(s)'
    BY <1>5 DEF Held
  <2>4. ASSUME NEW d \in Cios PROVE EndsUse(d, s)' /\ Surplus(d, s)' /\ Closing(d, s)'
    BY <1>5, <2>1, <2>2 DEF EndsUse, Surplus, Closing
  <2> QED BY <2>3, <2>4 DEF SessionInv
<1> QED
  BY <1>2, <1>3, <1>4, <1>5 DEF IInv

\* What the invalidation of a session does to the ring it goes to.
LEMMA InvalidatedRing ==
  ASSUME NEW x \in Rings, NEW s \in Sessions, NEW early \in BOOLEAN, ~IsFull(x)
  PROVE  /\ Invalidated(x, s, early) \in Rings
         /\ Invalidated(x, s, early).next_request = Add(x.next_request, 1)
         /\ Invalidated(x, s, early).next_result = x.next_result
         /\ \E op \in Ops :
              /\ ~IsRequest(op) /\ op.sa = s
              /\ Invalidated(x, s, early).ops = [x.ops EXCEPT ![x.next_request] = op]
         /\ Invalidated(x, s, early).next_cdr = Add(x.next_cdr, 1)
         /\ Invalidated(x, s, early).free_cdr =
              IF early THEN Add(x.free_cdr, 1) ELSE x.free_cdr
<1> DEFINE op == [x.ops[x.next_request] EXCEPT
                    !.sa = s, !.cookie = NoPkt, !.bufs_in = 0, !.bufs_out = 0]
<1>1. /\ x.next_request \in Idx /\ x.next_rdr \in Idx /\ x.next_cdr \in Idx /\ x.free_cdr \in Idx
      /\ x.ops \in [Idx -> Ops] /\ x.cdr \in [Idx -> Desc] /\ x.rdr \in [Idx -> Pkts]
      /\ s \in Pkts /\ NoPkt \in Pkts
  BY DEF Rings, Pkts
<1>2. op \in Ops /\ ~IsRequest(op) /\ op.sa = s
  BY <1>1 DEF Ops, IsRequest
<1>3. /\ Add(x.next_request, 1) \in Idx /\ Add(x.next_rdr, 1) \in Idx
      /\ Add(x.next_cdr, 1) \in Idx /\ Add(x.free_cdr, 1) \in Idx
  BY <1>1, NextCases, Ring
<1>4. Written(x, s, 1, 1) \in [Idx -> Desc]
  BY <1>1 DEF Written, Desc
<1>5. Invalidated(x, s, early) =
        [x EXCEPT !.ops = [x.ops EXCEPT ![x.next_request] = op],
                  !.cdr = Written(x, s, 1, 1),
                  !.rdr = [x.rdr EXCEPT ![x.next_rdr] = NoPkt],
                  !.next_cdr = Add(x.next_cdr, 1), !.next_rdr = Add(x.next_rdr, 1),
                  !.next_request = Add(x.next_request, 1),
                  !.free_cdr = IF early THEN Add(x.free_cdr, 1) ELSE x.free_cdr]
  BY DEF Invalidated, Rings
<1>6. [x.ops EXCEPT ![x.next_request] = op] \in [Idx -> Ops]
      /\ [x.rdr EXCEPT ![x.next_rdr] = NoPkt] \in [Idx -> Pkts]
  BY <1>1, <1>2
<1> HIDE DEF op
<1>7. Invalidated(x, s, early) \in Rings
  BY <1>1, <1>3, <1>4, <1>5, <1>6 DEF Rings
<1>8. /\ Invalidated(x, s, early).next_request = Add(x.next_request, 1)
      /\ Invalidated(x, s, early).next_result = x.next_result
      /\ Invalidated(x, s, early).ops = [x.ops EXCEPT ![x.next_request] = op]
      /\ Invalidated(x, s, early).next_cdr = Add(x.next_cdr, 1)
      /\ Invalidated(x, s, early).free_cdr = IF early THEN Add(x.free_cdr, 1) ELSE x.free_cdr
  BY <1>5 DEF Rings
<1> QED
  BY <1>2, <1>7, <1>8

\* The engine is told of one command and one result more.
LEMMA OneMore ==
  ASSUME hw \in [Cios -> Engines], NEW c \in Cios,
         hw' = [hw EXCEPT ![c].cmds = @ + 1, ![c].preps = @ + 1]
  PROVE  /\ hw' \in [Cios -> Engines]
         /\ hw'[c].preps = hw[c].preps + 1 /\ hw'[c].done = hw[c].done
         /\ \A d \in Cios : d # c => hw'[d] = hw[d]
<1> DEFINE h == [hw[c] EXCEPT !.cmds = hw[c].cmds + 1, !.preps = hw[c].preps + 1]
<1>1. hw[c] \in Engines
  OBVIOUS
<1>2. hw[c].cmds + 1 \in Nat /\ hw[c].preps + 1 \in Nat
  BY <1>1 DEF Engines
<1>3. h \in Engines /\ h.preps = hw[c].preps + 1 /\ h.done = hw[c].done
  BY <1>1, <1>2 DEF Engines
<1>4. hw' = [hw EXCEPT ![c] = h]
  BY <1>1 DEF Engines
<1> HIDE DEF h
<1> QED
  BY <1>3, <1>4

\* A session with a context in the engine: its invalidation goes behind all that
\* uses it, through the ring c.
LEMMA InvalidateInv ==
  ASSUME IInv, NEW s \in Sessions, NEW c \in Cios, session[s].cio \in Eip197,
         c = (IF session[s].ctr_cio # NoCio THEN session[s].ctr_cio ELSE session[s].cio),
         ~IsFull(cio[c]),
         Alone => \A d \in Cios : d # c => UsesIn(cio[d], s) = {},
         session[s].ctr_cio # NoCio => mode[c] = "open",
         mode[c] \in {"open", "closing"},
         Alone => \/ mode[session[s].cio] = "closing"
                  \/ session[s].is_valid /\ \A d \in Cios : InvsIn(cio[d], s) = {},
         cio' = [cio EXCEPT ![c] = Invalidated(@, s, session[s].ctr_cio = NoCio)],
         hw' = [hw EXCEPT ![c].cmds = @ + 1, ![c].preps = @ + 1],
         mode' = IF session[s].ctr_cio # NoCio THEN [mode EXCEPT ![c] = "flush"] ELSE mode,
         open' = open \ {s}, left' \in [Cios -> SUBSET Sessions],
         UNCHANGED <<session, enq, deq>>
  PROVE  IInv'
<1> DEFINE x == cio[c]
           early == session[s].ctr_cio = NoCio
           y == Invalidated(x, s, early)
           a == x.next_request
<1>1. /\ cio \in [Cios -> Rings] /\ hw \in [Cios -> Engines] /\ x \in Rings
      /\ mode \in [Cios -> {"open", "flush", "closing", "closed"}]
      /\ open \in SUBSET Sessions /\ session \in [Sessions -> Sas]
      /\ session[s].cio \in Cios
  BY SamAssumption DEF IInv, TypeOK
<1>2. PICK op \in Ops :
        /\ y \in Rings
        /\ y.next_request = Add(x.next_request, 1) /\ y.next_result = x.next_result
        /\ y.ops = [x.ops EXCEPT ![x.next_request] = op]
        /\ ~IsRequest(op) /\ op.sa = s
  <2>1. early \in BOOLEAN
    OBVIOUS
  <2> HIDE DEF early
  <2>2. x \in Rings /\ ~IsFull(x)
    BY <1>1
  <2> HIDE DEF x
  <2>3. /\ y \in Rings
        /\ y.next_request = Add(x.next_request, 1) /\ y.next_result = x.next_result
        /\ \E op \in Ops : /\ ~IsRequest(op) /\ op.sa = s
                          /\ y.ops = [x.ops EXCEPT ![x.next_request] = op]
    BY SMTT(30), <2>1, <2>2, InvalidatedRing
  <2> HIDE DEF y
  <2> QED BY <2>3
<1>3. \A d \in Cios : cio'[d] = IF d = c THEN y ELSE cio[d]
  BY <1>1
<1>4. cio' \in [Cios -> Rings]
  BY <1>1, <1>2
<1>5. \A d \in Cios : /\ mode'[d] = "closed" <=> mode[d] = "closed"
                      /\ mode'[d] = "closing" <=> mode[d] = "closing"
                      /\ mode[d] = "flush" => mode'[d] = "flush"
                      /\ d = c /\ session[s].ctr_cio # NoCio => mode'[d] = "flush"
                      /\ mode'[d] \in {"open", "flush", "closing", "closed"}
  BY SMTT(30), <1>1
<1>6. hw' \in [Cios -> Engines] /\ hw'[c].preps = hw[c].preps + 1 /\ hw'[c].done = hw[c].done
      /\ \A d \in Cios : d # c => hw'[d] = hw[d]
  <2>1. hw \in [Cios -> Engines]
    BY <1>1
  <2> QED BY ZenonT(30), <2>1, OneMore
<1>7. mode' \in [Cios -> {"open", "flush", "closing", "closed"}]
  BY <1>1
<1>8. TypeOK'
  BY <1>1, <1>4, <1>6, <1>7 DEF IInv, TypeOK
<1>9. Pending(y) = Pending(x) + 1 /\ Pending(x) \in Nat
  BY <1>1, <1>2, PushIdx DEF Rings
<1>10. ASSUME NEW d \in Cios PROVE Counts(d)'
  <2>1. CASE d # c
    <3>1. /\ cio'[d] = cio[d] /\ hw'[d] = hw[d] /\ enq'[d] = enq[d] /\ deq'[d] = deq[d]
          /\ (mode'[d] = "closed" <=> mode[d] = "closed")
      BY <1>3, <1>5, <1>6, <2>1
    <3>2. Counts(d)
      BY SMTT(30) DEF IInv
    <3> QED BY <3>1, <3>2 DEF Counts
  <2>2. CASE d = c
    <3>1. Counts(c) /\ hw[c].preps \in Nat /\ hw[c].done \in Nat /\ enq[c].rdr \in Nat
          /\ deq[c].i \in Nat
      BY <1>1 DEF IInv, TypeOK, Engines
    <3>2. Pending(cio'[c]) = Pending(cio[c]) + 1 /\ Pending(cio[c]) \in Nat
      BY SMTT(30), <1>3, <1>9
    <3>3. /\ hw'[c].preps = hw[c].preps + 1 /\ hw'[c].done = hw[c].done
          /\ enq'[c] = enq[c] /\ deq'[c] = deq[c] /\ (mode'[c] = "closed" <=> mode[c] = "closed")
      BY <1>5, <1>6
    <3> HIDE DEF x, y, a
    <3> QED BY <2>2, <3>1, <3>2, <3>3 DEF Counts
  <2> QED BY SMTT(30), <2>1, <2>2
<1>11. \A t \in Sessions, d \in Cios :
         /\ UsesIn(cio'[d], t) = UsesIn(cio[d], t)
         /\ cio'[d].next_result = cio[d].next_result
         /\ InvsIn(cio'[d], t) = IF d = c /\ t = s THEN InvsIn(x, s) \cup {a}
                                 ELSE InvsIn(cio[d], t)
  <2> TAKE t \in Sessions, d \in Cios
  <2>1. CASE d # c
    BY <1>3, <2>1
  <2>2. CASE d = c
    <3>1. /\ UsesIn(y, t) = UsesIn(x, t)
          /\ InvsIn(y, t) = IF t = s THEN InvsIn(x, t) \cup {a} ELSE InvsIn(x, t)
      <4> HIDE DEF y
      <4> QED BY SMTT(30), <1>1, <1>2, PushOp
    <3> QED BY <1>2, <1>3, <2>2, <3>1
  <2> QED BY <2>1, <2>2
<1>12. \A i \in UsesIn(x, s) : Sub(i, x.next_result) < Sub(a, x.next_result)
  <2> HIDE DEF y
  <2> QED BY <1>1, <1>2, PushOp
<1> HIDE DEF x, y, a, early
<1>13. x = cio[c]
  BY DEF x
<1>14. ASSUME Alone, NEW t \in Sessions, t # s PROVE SessionInv(t)'
  <2>1. SessionInv(t) /\ session' = session /\ (t \in open' <=> t \in open)
    BY <1>14 DEF IInv
  <2>2. \A d \in Cios : /\ UsesIn(cio'[d], t) = UsesIn(cio[d], t)
                        /\ cio'[d].next_result = cio[d].next_result
                        /\ InvsIn(cio'[d], t) = InvsIn(cio[d], t)
    BY <1>11, <1>14
  <2>3. Held(t)'
    BY SMTT(30), <2>1, <2>2 DEF SessionInv, Held
  <2>4. ASSUME NEW d \in Cios PROVE EndsUse(d, t)'
    <3>1. EndsUse(d, t)
      BY <2>1 DEF SessionInv
    <3> QED BY <1>5, <2>1, <2>2, <3>1 DEF EndsUse
  <2>5. ASSUME NEW d \in Cios PROVE Surplus(d, t)'
    <3>1. InvsIn(cio[d], t) # {} => session[t].cio \in Cios
      BY <2>1, SamAssumption DEF SessionInv, EndsUse
    <3>2. Surplus(d, t)
      BY <2>1 DEF SessionInv
    <3> QED BY <1>5, <2>1, <2>2, <3>1, <3>2 DEF Surplus
  <2>6. ASSUME NEW d \in Cios PROVE Closing(d, t)'
    BY <1>5, <2>1, <2>2 DEF SessionInv, Closing
  <2> QED BY <2>3, <2>4, <2>5, <2>6 DEF SessionInv
<1>15. ASSUME Alone PROVE SessionInv(s)'
  <2>1. SessionInv(s) /\ session' = session /\ s \notin open'
    BY <1>15 DEF IInv
  <2>2. Held(s)'
    BY <1>11, <2>1 DEF SessionInv, Held
  <2>3. ASSUME NEW d \in Cios PROVE EndsUse(d, s)'
    <3>1. EndsUse(d, s)
      BY <2>1 DEF SessionInv
    <3>2. ASSUME d # c PROVE InvsIn(cio'[d], s) = {} \/ FALSE
      BY SMTT(30), <1>11, <3>1, <3>2 DEF EndsUse
    <3>3. ASSUME d = c, NEW i \in InvsIn(cio'[c], s)
          PROVE  \A e \in Cios : \A u \in UsesIn(cio'[e], s) :
                   e = c /\ Sub(u, cio'[c].next_result) < Sub(i, cio'[c].next_result)
      <4>1. i \in InvsIn(cio[c], s) \/ i = a
        BY <1>11, <1>13
      <4> QED BY <1>11, <1>12, <1>13, <1>15, <3>1, <3>3, <4>1 DEF EndsUse
    <3>4. CASE d # c
      BY SMTT(30), <3>2, <3>4 DEF EndsUse
    <3>5. CASE d = c
      BY <1>5, <2>1, <3>3, <3>5 DEF EndsUse
    <3> QED BY <3>4, <3>5
  <2>4. ASSUME NEW d \in Cios PROVE Surplus(d, s)'
    <3>1. CASE mode[session[s].cio] = "closing"
      BY <1>1, <1>5, <2>1, <3>1 DEF Surplus
    <3>2. CASE session[s].is_valid /\ \A e \in Cios : InvsIn(cio[e], s) = {}
      BY SMTT(30), <1>11, <1>13, <2>1, <3>2 DEF Surplus
    <3> QED BY <1>15, <3>1, <3>2
  <2>5. ASSUME NEW d \in Cios PROVE Closing(d, s)'
    BY ZenonT(30), <1>5, <1>11, <2>1 DEF SessionInv, Closing
  <2> QED BY <2>2, <2>3, <2>4, <2>5 DEF SessionInv
<1> QED
  BY <1>8, <1>10, <1>14, <1>15 DEF IInv

\* The client destroys a session that nothing in another ring uses.
LEMMA ClientDestroyInv == ASSUME IInv, NEW s \in Sessions, ClientDestroy(s) PROVE IInv'
<1> DEFINE c == IF session[s].ctr_cio # NoCio THEN session[s].ctr_cio ELSE session[s].cio
<1>1. /\ s \in open /\ open' = open \ {s} /\ UNCHANGED <<enq, deq, left>>
      /\ Destroy(s) /\ left \in [Cios -> SUBSET Sessions] /\ session[s] \in Sas
      /\ Alone => SessionInv(s)
  BY DEF ClientDestroy, IInv, TypeOK
<1>2. /\ \A d \in Cios \ {session[s].cio} : UsesIn(cio[d], s) = {}
      /\ session[s].cio \in Cios /\ UsesIn(cio[session[s].cio], s) # {} =>
           session[s].cio \in Eip197 /\ session[s].ctr_cio = NoCio
      /\ session[s].cio \in Cios => mode[session[s].cio] = "open"
      /\ session[s].ctr_cio # NoCio => mode[session[s].ctr_cio] = "open"
  BY DEF ClientDestroy, MayDestroy, Uses, UsesIn
<1>3. Alone => \A d \in Cios : InvsIn(cio[d], s) = {}
  BY <1>1 DEF SessionInv, EndsUse
<1>4. CASE session[s].cio \in Eip197
  <2>1. c \in Cios /\ session[s].cio \in Cios
    BY <1>1, <1>4, SamAssumption DEF Sas
  <2>2. /\ ~IsFull(cio[c])
        /\ cio' = [cio EXCEPT ![c] = Invalidated(@, s, session[s].ctr_cio = NoCio)]
        /\ hw' = [hw EXCEPT ![c].cmds = @ + 1, ![c].preps = @ + 1]
        /\ mode' = IF session[s].ctr_cio # NoCio THEN [mode EXCEPT ![c] = "flush"] ELSE mode
        /\ UNCHANGED session
    BY <1>1, <1>4 DEF Destroy
  <2>3. \A d \in Cios : d # c => UsesIn(cio[d], s) = {}
    BY <1>2, <2>1
  <2>4. mode[c] = "open" /\ (Alone => session[s].is_valid)
    BY <1>1, <1>2, <2>1 DEF SessionInv, Held
  <2> HIDE DEF c
  <2>5. c = IF session[s].ctr_cio # NoCio THEN session[s].ctr_cio ELSE session[s].cio
    BY DEF c
  <2> QED
    BY <1>1, <1>3, <1>4, <2>1, <2>2, <2>3, <2>4, <2>5, InvalidateInv
<1>5. CASE session[s].cio \notin Eip197
  <2>1. \A d \in Cios : UsesIn(cio[d], s) = {}
    BY <1>2, <1>5
  <2>2. /\ session' = [session EXCEPT ![s].is_valid = FALSE]
        /\ UNCHANGED <<cio, hw, mode>>
    BY <1>1, <1>5 DEF Destroy
  <2> QED
    BY <1>1, <1>5, <2>1, <2>2, FreeNowInv
<1> QED
  BY <1>4, <1>5

\* sam_cio_deinit destroys the sessions of the cio, also those that are not valid.
LEMMA CloseDestroyInv ==
  ASSUME IInv, NEW e \in Cios, NEW s \in Sessions, CloseDestroy(e, s)
  PROVE  IInv'
<1> DEFINE c == IF session[s].ctr_cio # NoCio THEN session[s].ctr_cio ELSE session[s].cio
<1>1. /\ mode[e] = "closing" /\ session[s].cio = e
      /\ open' = open \ {s} /\ UNCHANGED <<enq, deq>>
      /\ left' = [left EXCEPT ![e] = @ \ {s}]
      /\ session[s].ctr_cio # NoCio => mode[session[s].ctr_cio] = "open"
      /\ Destroy(s) /\ left \in [Cios -> SUBSET Sessions] /\ session[s] \in Sas
      /\ Alone => SessionInv(s)
  BY DEF CloseDestroy, ToClose, IInv, TypeOK
<1>2. left' \in [Cios -> SUBSET Sessions]
  BY <1>1
<1>3. Alone =>
        /\ \A d \in Cios \ {e} : UsesIn(cio[d], s) = {}
        /\ UsesIn(cio[e], s) # {} => e \in Eip197 /\ session[s].ctr_cio = NoCio
  BY SMTT(30), <1>1 DEF SessionInv, Closing
<1>4. CASE e \in Eip197
  <2>1. c \in Cios
    BY <1>1, <1>4, SamAssumption DEF Sas
  <2>2. /\ ~IsFull(cio[c])
        /\ cio' = [cio EXCEPT ![c] = Invalidated(@, s, session[s].ctr_cio = NoCio)]
        /\ hw' = [hw EXCEPT ![c].cmds = @ + 1, ![c].preps = @ + 1]
        /\ mode' = IF session[s].ctr_cio # NoCio THEN [mode EXCEPT ![c] = "flush"] ELSE mode
        /\ UNCHANGED session
    BY <1>1, <1>4 DEF Destroy
  <2>3. Alone => \A d \in Cios : d # c => UsesIn(cio[d], s) = {}
    BY <1>1, <1>3, <2>1
  <2>4. mode[c] \in {"open", "closing"} /\ (session[s].ctr_cio # NoCio => mode[c] = "open")
    BY <1>1
  <2> HIDE DEF c
  <2>5. c = IF session[s].ctr_cio # NoCio THEN session[s].ctr_cio ELSE session[s].cio
    BY DEF c
  <2> QED
    BY <1>1, <1>2, <1>4, <2>1, <2>2, <2>3, <2>4, <2>5, InvalidateInv
<1>5. CASE e \notin Eip197
  <2>1. Alone => \A d \in Cios : UsesIn(cio[d], s) = {}
    BY <1>3, <1>5
  <2>2. /\ session' = [session EXCEPT ![s].is_valid = FALSE]
        /\ UNCHANGED <<cio, hw, mode>>
    BY <1>1, <1>5 DEF Destroy
  <2> QED
    BY <1>1, <1>2, <1>5, <2>1, <2>2, FreeNowInv
<1> QED
  BY <1>4, <1>5

-----------------------------------------------------------------------------
(* The steps that add and retire a request *)

\* What a request does to its ring.
Requested(x, y, s) ==
  /\ y.next_request = Add(x.next_request, 1) /\ y.next_result = x.next_result
  /\ \E op \in Ops : /\ IsRequest(op) /\ op.sa = s
                    /\ y.ops = [x.ops EXCEPT ![x.next_request] = op]
Booked(x, y, n) ==
  /\ y.next_cdr = Add(x.next_cdr, n) /\ y.free_cdr = x.free_cdr
  /\ IsRequest(y.ops[x.next_request]) /\ y.ops[x.next_request].bufs_in = n

LEMMA EnqRing ==
  ASSUME IInv, NEW c \in Cios, NEW s \in Sessions, NEW k \in Cookies, NEW n \in 1 .. MaxBufs,
         NEW short \in BOOLEAN, NEW proto \in BOOLEAN, EnqOne(c, s, k, n, short, proto)
  PROVE  /\ ~IsFull(cio[c]) /\ cio' \in [Cios -> Rings]
         /\ \A d \in Cios : d # c => cio'[d] = cio[d]
         /\ Requested(cio[c], cio'[c], s)
         /\ ~short => Booked(cio[c], cio'[c], n)
<1> DEFINE x == cio[c]
           m == IF short THEN n - 1 ELSE n
           op == [sa |-> s, cookie |-> k, bufs_in |-> n, bufs_out |-> 1]
           y == [x EXCEPT !.ops[x.next_request] = op,
                          !.cdr = Written(x, k, m, n),
                          !.rdr[x.next_rdr] = NoPkt,
                          !.next_cdr = IF short THEN @ ELSE Add(@, n),
                          !.next_rdr = IF short THEN @ ELSE Add(@, 1),
                          !.next_request = Add(@, 1)]
<1>1. cio \in [Cios -> Rings] /\ x \in Rings
  BY DEF IInv, TypeOK
<1>2. cio' = [cio EXCEPT ![c] = y] /\ ~IsFull(x)
  BY DEF EnqOne, IsFreeSlot
<1>3. op \in Ops /\ IsRequest(op) /\ op.sa = s /\ op.bufs_in = n
  BY SamAssumption DEF Ops, Pkts, IsRequest
<1>4. /\ x.next_request \in Idx /\ x.next_rdr \in Idx /\ x.next_cdr \in Idx
      /\ x.ops \in [Idx -> Ops] /\ x.cdr \in [Idx -> Desc] /\ x.rdr \in [Idx -> Pkts]
      /\ k \in Pkts /\ NoPkt \in Pkts
  BY <1>1 DEF Rings, Pkts
<1>5. Add(x.next_request, 1) \in Idx /\ Add(x.next_rdr, 1) \in Idx
  BY <1>4, NextCases, Ring
<1>6. Add(x.next_cdr, n) \in Idx
  BY <1>4, SamAssumption DEF Add, Idx
<1>7. Written(x, k, m, n) \in [Idx -> Desc]
  BY <1>4 DEF Written, Desc
<1> HIDE DEF m, op
<1>8. y = [x EXCEPT !.ops = [x.ops EXCEPT ![x.next_request] = op],
                    !.cdr = Written(x, k, m, n),
                    !.rdr = [x.rdr EXCEPT ![x.next_rdr] = NoPkt],
                    !.next_cdr = IF short THEN x.next_cdr ELSE Add(x.next_cdr, n),
                    !.next_rdr = IF short THEN x.next_rdr ELSE Add(x.next_rdr, 1),
                    !.next_request = Add(x.next_request, 1)]
  BY <1>1 DEF Rings
<1>9. [x.ops EXCEPT ![x.next_request] = op] \in [Idx -> Ops]
      /\ [x.rdr EXCEPT ![x.next_rdr] = NoPkt] \in [Idx -> Pkts]
  BY <1>3, <1>4
<1> HIDE DEF y
<1>10. y \in Rings
  BY ZenonT(30), <1>1, <1>4, <1>5, <1>6, <1>7, <1>8, <1>9 DEF Rings
<1>11. /\ y.next_request = Add(x.next_request, 1) /\ y.next_result = x.next_result
       /\ y.ops = [x.ops EXCEPT ![x.next_request] = op]
       /\ y.next_cdr = (IF short THEN x.next_cdr ELSE Add(x.next_cdr, n))
       /\ y.free_cdr = x.free_cdr
  BY <1>1, <1>8 DEF Rings
<1>12. Requested(x, y, s) /\ (~short => Booked(x, y, n))
  <2>1. Requested(x, y, s)
    BY <1>3, <1>11 DEF Requested
  <2>2. y.ops[x.next_request] = op
    BY <1>1, <1>11 DEF Rings
  <2>3. ~short => Booked(x, y, n)
    BY <1>3, <1>11, <2>2 DEF Booked
  <2> QED BY <2>1, <2>3
<1> HIDE DEF x
<1>13. cio' \in [Cios -> Rings] /\ cio'[c] = y /\ \A d \in Cios : d # c => cio'[d] = cio[d]
  BY <1>1, <1>2, <1>10
<1> QED
  BY <1>2, <1>12, <1>13 DEF x

LEMMA EnqInv ==
  ASSUME IInv, NEW c \in Cios, NEW s \in Sessions, NEW k \in Cookies, NEW n \in 1 .. MaxBufs,
         NEW short \in BOOLEAN, NEW proto \in BOOLEAN, EnqOne(c, s, k, n, short, proto)
  PROVE  IInv'
<1> DEFINE x == cio[c]
           a == x.next_request
<1>1. PICK op \in Ops :
        /\ IsRequest(op) /\ op.sa = s
        /\ ~IsFull(x) /\ cio' \in [Cios -> Rings]
        /\ \A d \in Cios : d # c => cio'[d] = cio[d]
        /\ cio'[c].next_request = Add(a, 1)
        /\ cio'[c].next_result = x.next_result
        /\ cio'[c].ops = [x.ops EXCEPT ![a] = op]
  <2>1. /\ ~IsFull(cio[c]) /\ cio' \in [Cios -> Rings]
        /\ \A d \in Cios : d # c => cio'[d] = cio[d]
        /\ Requested(cio[c], cio'[c], s)
    BY EnqRing
  <2> QED BY <2>1 DEF Requested
<1>2. /\ mode[c] = "open" /\ s \in open
      /\ enq' = [enq EXCEPT ![c] = [n |-> @.n + 1,
                                    rdr |-> IF short /\ ~proto THEN @.rdr ELSE @.rdr + 1,
                                    cdr |-> IF short THEN @.cdr ELSE @.cdr + n]]
      /\ session' = [session EXCEPT ![s].cio = c]
      /\ UNCHANGED <<hw, deq, open, mode, left>>
  BY DEF EnqOne
<1>3. /\ x \in Rings /\ session \in [Sessions -> Sas]
      /\ enq \in [Cios -> [n: Nat, rdr: Nat, cdr: Nat]] /\ n \in Nat
      /\ hw[c].preps \in Nat /\ hw[c].done \in Nat /\ deq[c].i \in Nat
  BY SamAssumption DEF IInv, TypeOK, Engines
<1>4. session' \in [Sessions -> Sas]
  BY <1>2, <1>3 DEF Sas
<1>5. /\ enq' \in [Cios -> [n: Nat, rdr: Nat, cdr: Nat]]
      /\ enq'[c].n = enq[c].n + 1 /\ enq'[c].rdr <= enq[c].rdr + 1
      /\ \A d \in Cios : d # c => enq'[d] = enq[d]
  BY <1>2, <1>3
<1>6. TypeOK'
  BY <1>1, <1>2, <1>4, <1>5 DEF IInv, TypeOK
<1>7. Pending(cio'[c]) = Pending(x) + 1 /\ Pending(x) \in Nat
  BY <1>1, <1>3, PushIdx DEF Rings
<1>8. ASSUME NEW d \in Cios PROVE Counts(d)'
  <2>1. CASE d # c
    BY <1>1, <1>2, <1>5, <2>1, CountsKept
  <2>2. CASE d = c
    <3>1. Counts(c) /\ enq[c].rdr \in Nat /\ enq[c].n \in Nat
          /\ enq'[c].rdr \in Nat
      BY <1>3, <1>5 DEF IInv
    <3>2. hw' = hw /\ deq' = deq /\ mode' = mode
      BY <1>2
    <3> HIDE DEF x, a
    <3>3. x = cio[c]
      BY DEF x
    <3> QED BY <1>2, <1>3, <1>5, <1>7, <2>2, <3>1, <3>2, <3>3 DEF Counts
  <2> QED BY <2>1, <2>2
<1>9. \A t \in Sessions, d \in Cios :
        /\ InvsIn(cio'[d], t) = InvsIn(cio[d], t)
        /\ cio'[d].next_result = cio[d].next_result
        /\ d # c \/ t # s => UsesIn(cio'[d], t) = UsesIn(cio[d], t)
  <2> TAKE t \in Sessions, d \in Cios
  <2>1. CASE d # c
    BY <1>1, <2>1
  <2>2. CASE d = c
    BY SMTT(30), <1>1, <1>3, <2>2, PushOp
  <2> QED BY <2>1, <2>2
<1> HIDE DEF x, a
<1>10. ASSUME Alone, NEW t \in Sessions, t # s PROVE SessionInv(t)'
  <2>1. SessionInv(t) /\ session'[t] = session[t] /\ open' = open /\ mode' = mode
    BY <1>2, <1>3, <1>10 DEF IInv
  <2>2. \A d \in Cios : /\ UsesIn(cio'[d], t) = UsesIn(cio[d], t)
                        /\ cio'[d].next_result = cio[d].next_result
                        /\ InvsIn(cio'[d], t) = InvsIn(cio[d], t)
    BY <1>9, <1>10
  <2>3. Held(t)'
    BY <2>1, <2>2 DEF SessionInv, Held
  <2>4. ASSUME NEW d \in Cios PROVE EndsUse(d, t)'
    <3>1. EndsUse(d, t)
      BY <2>1 DEF SessionInv
    <3> QED BY <2>1, <2>2, <3>1 DEF EndsUse
  <2>5. ASSUME NEW d \in Cios PROVE Surplus(d, t)' /\ Closing(d, t)'
    BY <2>1, <2>2 DEF SessionInv, Surplus, Closing
  <2> QED BY <2>3, <2>4, <2>5 DEF SessionInv
<1>11. ASSUME Alone PROVE SessionInv(s)'
  <2>1. SessionInv(s) /\ session'[s].cio = c /\ session'[s].is_valid = session[s].is_valid
        /\ mode'[c] = "open"
    BY <1>2, <1>3, <1>11 DEF IInv, Sas
  <2>2. ASSUME NEW d \in Cios PROVE InvsIn(cio'[d], s) = {}
    BY <1>2, <1>9, <2>1 DEF SessionInv, EndsUse
  <2>3. Held(s)'
    BY <1>2, <2>1 DEF SessionInv, Held
  <2>4. ASSUME NEW d \in Cios PROVE EndsUse(d, s)' /\ Surplus(d, s)' /\ Closing(d, s)'
    BY <2>1, <2>2 DEF EndsUse, Surplus, Closing
  <2> QED BY <2>3, <2>4 DEF SessionInv
<1> QED
  BY <1>6, <1>8, <1>10, <1>11 DEF IInv

\* Retiring an operation takes the first one off the ring.
LEMMA DeqRing ==
  ASSUME IInv, NEW c \in Cios, DeqOne(c)
  PROVE  LET x == cio[c]
             op == x.ops[x.next_result]
         IN /\ Pending(x) > 0 /\ cio' \in [Cios -> Rings]
            /\ \A d \in Cios : d # c => cio'[d] = cio[d]
            /\ cio'[c].next_request = x.next_request
            /\ cio'[c].next_result = Add(x.next_result, 1)
            /\ cio'[c].ops = x.ops /\ cio'[c].next_cdr = x.next_cdr
            /\ cio'[c].free_cdr = IF IsRequest(op) THEN Add(x.free_cdr, op.bufs_in)
                                  ELSE x.free_cdr
<1> DEFINE x == cio[c]
           op == x.ops[x.next_result]
           free == IF IsRequest(op) THEN Add(x.free_cdr, op.bufs_in) ELSE x.free_cdr
           y == [x EXCEPT !.next_result = Add(x.next_result, 1), !.free_cdr = free]
<1>1. cio \in [Cios -> Rings] /\ x \in Rings /\ Counts(c)
  BY DEF IInv, TypeOK
<1>2. cio' = [cio EXCEPT ![c] = y] /\ deq[c].i < deq[c].done
  BY DEF DeqOne, Retire, CmdPut
<1>3. Pending(x) > 0
  <2>1. /\ hw[c].preps \in Nat /\ hw[c].done \in Nat /\ enq[c].rdr \in Nat
        /\ deq[c].i \in Nat /\ deq[c].done \in Nat
    BY DEF IInv, TypeOK, Engines
  <2>2. Pending(x) \in Nat
    BY <1>1, SubCases DEF Pending, Rings
  <2> QED BY <1>1, <1>2, <2>1, <2>2 DEF Counts
<1>4. Add(x.next_result, 1) \in Idx
  BY <1>1, NextCases, Ring DEF Rings
<1>5. free \in Idx
  <2>1. x.free_cdr \in Idx /\ op.bufs_in \in Nat
    BY <1>1 DEF Rings, Ops
  <2>2. Add(x.free_cdr, op.bufs_in) \in Idx
    BY <2>1, SamAssumption DEF Add, Idx
  <2> QED BY <2>1, <2>2
<1> HIDE DEF free
<1>6. /\ y \in Rings /\ y.next_request = x.next_request
      /\ y.next_result = Add(x.next_result, 1) /\ y.ops = x.ops
      /\ y.next_cdr = x.next_cdr /\ y.free_cdr = free
  BY <1>1, <1>4, <1>5 DEF Rings
<1> HIDE DEF y
<1>7. cio' \in [Cios -> Rings] /\ cio'[c] = y /\ \A d \in Cios : d # c => cio'[d] = cio[d]
  BY <1>1, <1>2, <1>6
<1> QED
  BY <1>3, <1>6, <1>7 DEF free

LEMMA DeqInv == ASSUME IInv, NEW c \in Cios, DeqOne(c) PROVE IInv'
<1> DEFINE x == cio[c]
           b == x.next_result
           op == x.ops[b]
<1>1. /\ Pending(x) > 0 /\ cio' \in [Cios -> Rings]
      /\ \A d \in Cios : d # c => cio'[d] = cio[d]
      /\ cio'[c].next_request = x.next_request
      /\ cio'[c].next_result = Add(b, 1) /\ cio'[c].ops = x.ops
  BY DeqRing
<1>2. /\ deq[c].i < deq[c].done
      /\ session' = IF IsRequest(op) THEN session
                    ELSE [session EXCEPT ![op.sa].is_valid = FALSE]
      /\ deq' = [deq EXCEPT ![c].i = @ + 1]
      /\ UNCHANGED <<hw, enq, open, mode, left>>
  BY DEF DeqOne
<1>3. /\ x \in Rings /\ session \in [Sessions -> Sas]
      /\ deq \in [Cios -> [done: Nat, i: Nat]]
      /\ hw[c].preps \in Nat /\ hw[c].done \in Nat /\ enq[c].rdr \in Nat
  BY SMTT(30) DEF IInv, TypeOK, Engines
<1>4. \A t \in Sessions : /\ session'[t].cio = session[t].cio
                          /\ session'[t].ctr_cio = session[t].ctr_cio
                          /\ session'[t].is_valid = IF ~IsRequest(op) /\ t = op.sa THEN FALSE
                                                    ELSE session[t].is_valid
  BY <1>2, <1>3 DEF Sas
<1>5. session' \in [Sessions -> Sas]
  BY <1>2, <1>3 DEF Sas
<1>6. deq' \in [Cios -> [done: Nat, i: Nat]] /\ deq'[c].done = deq[c].done
      /\ deq'[c].i = deq[c].i + 1 /\ \A d \in Cios : d # c => deq'[d] = deq[d]
  BY <1>2, <1>3
<1>7. TypeOK'
  BY <1>1, <1>2, <1>5, <1>6 DEF IInv, TypeOK
<1>8. Pending(cio'[c]) = Pending(x) - 1 /\ Pending(x) \in Nat
      /\ b \in InFlight(x)
  BY <1>1, <1>3, PopIdx DEF Rings
<1>9. ASSUME NEW d \in Cios PROVE Counts(d)'
  <2>1. CASE d # c
    BY <1>1, <1>2, <1>6, <2>1, CountsKept
  <2>2. CASE d = c
    <3>1. Counts(c) /\ deq[c].i \in Nat /\ deq[c].done \in Nat /\ hw' = hw /\ enq' = enq
          /\ mode' = mode
      BY <1>2, <1>3 DEF IInv
    <3> HIDE DEF x, b, op
    <3>2. x = cio[c]
      BY DEF x
    <3> QED BY <1>2, <1>3, <1>6, <1>8, <2>2, <3>1, <3>2 DEF Counts
  <2> QED BY <2>1, <2>2
<1>10. \A t \in Sessions, d \in Cios :
         /\ UsesIn(cio'[d], t) = UsesIn(cio[d], t) \ (IF d = c THEN {b} ELSE {})
         /\ InvsIn(cio'[d], t) = InvsIn(cio[d], t) \ (IF d = c THEN {b} ELSE {})
         /\ \A i \in UsesIn(cio[d], t) \cup InvsIn(cio[d], t) :
              /\ Sub(i, cio[d].next_result) \in Nat
              /\ d = c => i = b \/ Sub(i, cio'[d].next_result) = Sub(i, cio[d].next_result) - 1
              /\ d # c => cio'[d].next_result = cio[d].next_result
  <2> TAKE t \in Sessions, d \in Cios
  <2>1. CASE d # c
    <3>1. cio[d].next_result \in Idx
      BY DEF IInv, TypeOK, Rings
    <3>2. \A i \in InFlight(cio[d]) : Sub(i, cio[d].next_result) \in Nat
      BY <3>1, SubCases DEF InFlight
    <3> QED BY <1>1, <2>1, <3>2 DEF UsesIn, InvsIn
  <2>2. CASE d = c
    <3>1. x = cio[c] /\ b = x.next_result
      OBVIOUS
    <3> HIDE DEF x, b, op
    <3>2. /\ UsesIn(cio'[c], t) = UsesIn(x, t) \ {b}
          /\ InvsIn(cio'[c], t) = InvsIn(x, t) \ {b}
          /\ \A i \in UsesIn(x, t) \cup InvsIn(x, t) :
               /\ Sub(i, b) \in Nat
               /\ i # b => Sub(i, cio'[c].next_result) = Sub(i, b) - 1
      <4>1. /\ x \in Rings /\ Pending(x) > 0 /\ cio'[c].next_request = x.next_request
            /\ cio'[c].next_result = Add(x.next_result, 1) /\ cio'[c].ops = x.ops
        BY <1>1, <1>3, <3>1
      <4> DEFINE y == cio'[c]
      <4> HIDE DEF y
      <4>2. /\ y.next_request = x.next_request /\ y.next_result = Add(x.next_result, 1)
            /\ y.ops = x.ops
        BY <4>1 DEF y
      <4>3. /\ UsesIn(y, t) = UsesIn(x, t) \ {x.next_result}
            /\ InvsIn(y, t) = InvsIn(x, t) \ {x.next_result}
            /\ \A i \in UsesIn(x, t) \cup InvsIn(x, t) :
                 /\ Sub(i, x.next_result) \in Nat
                 /\ i # x.next_result => Sub(i, y.next_result) = Sub(i, x.next_result) - 1
        BY <4>1, <4>2, PopOp
      <4> QED BY <3>1, <4>3 DEF y
    <3> QED BY <2>2, <3>1, <3>2
  <2> QED BY <2>1, <2>2
<1>11. Sub(b, b) = 0
  BY <1>1, <1>3, PopIdx DEF Rings
<1>12. ASSUME Alone, NEW t \in Sessions PROVE SessionInv(t)'
  <2>1. SessionInv(t) /\ open' = open /\ mode' = mode
    BY <1>2, <1>12 DEF IInv
  <2>2. ASSUME ~IsRequest(op), t = op.sa
        PROVE  /\ b \in InvsIn(x, t) /\ t \notin open
               /\ \A d \in Cios : UsesIn(cio[d], t) = {} /\ (d # c => InvsIn(cio[d], t) = {})
    <3>1. b \in InvsIn(x, t)
      BY <1>8, <2>2 DEF InvsIn
    <3>2. \A d \in Cios : EndsUse(d, t)
      BY <2>1 DEF SessionInv
    <3>3. t \notin open /\ \A d \in Cios : d # c => InvsIn(cio[d], t) = {}
      BY <3>1, <3>2 DEF EndsUse
    <3>4. ASSUME NEW d \in Cios, NEW u \in UsesIn(cio[d], t) PROVE FALSE
      <4>1. d = c /\ Sub(u, x.next_result) < Sub(b, x.next_result)
        BY <3>1, <3>2 DEF EndsUse
      <4>2. Sub(u, x.next_result) \in Nat
        BY <1>10, <4>1
      <4> QED BY <1>11, <4>1, <4>2
    <3> QED BY <3>1, <3>3, <3>4
  <2> HIDE DEF x, b, op
  <2>3. x = cio[c]
    BY DEF x
  <2>4. Held(t)'
    <3>1. Held(t) /\ \A e \in Cios : UsesIn(cio'[e], t) \subseteq UsesIn(cio[e], t)
      BY <1>10, <2>1 DEF SessionInv
    <3>2. CASE ~IsRequest(op) /\ t = op.sa
      BY <2>1, <2>2, <3>1, <3>2 DEF Held
    <3>3. CASE ~(~IsRequest(op) /\ t = op.sa)
      BY <1>4, <2>1, <3>1, <3>3 DEF Held
    <3> QED BY <3>2, <3>3
  <2>5. ASSUME NEW d \in Cios PROVE EndsUse(d, t)'
    <3>1. EndsUse(d, t)
      BY <2>1 DEF SessionInv
    <3>2. ASSUME NEW i \in InvsIn(cio'[d], t), NEW e \in Cios, NEW u \in UsesIn(cio'[e], t)
          PROVE  e = d /\ Sub(u, cio'[d].next_result) < Sub(i, cio'[d].next_result)
      <4>1. i \in InvsIn(cio[d], t) /\ u \in UsesIn(cio[e], t)
        BY <1>10
      <4>2. e = d /\ Sub(u, cio[d].next_result) < Sub(i, cio[d].next_result)
        BY <3>1, <4>1 DEF EndsUse
      <4>3. Sub(u, cio[d].next_result) \in Nat /\ Sub(i, cio[d].next_result) \in Nat
        BY <1>10, <4>1, <4>2
      <4>4. CASE d # c
        BY <1>10, <4>1, <4>2, <4>4
      <4>5. CASE d = c
        <5>1. i # b /\ u # b
          BY <1>10, <4>2, <4>5
        <5>2. /\ Sub(u, cio'[d].next_result) = Sub(u, cio[d].next_result) - 1
              /\ Sub(i, cio'[d].next_result) = Sub(i, cio[d].next_result) - 1
          BY <1>10, <4>1, <4>2, <4>5, <5>1
        <5> QED BY <4>2, <4>3, <5>2
      <4> QED BY <4>4, <4>5
    <3>3. \A i \in InvsIn(cio'[d], t) : i \in InvsIn(cio[d], t)
      BY <1>10
    <3> QED BY <1>4, <2>1, <3>1, <3>2, <3>3 DEF EndsUse
  <2>6. ASSUME NEW d \in Cios PROVE Surplus(d, t)'
    <3>1. Surplus(d, t)
      BY <2>1 DEF SessionInv
    <3>2. InvsIn(cio'[d], t) \subseteq InvsIn(cio[d], t)
      BY <1>10
    <3>3. CASE ~IsRequest(op) /\ t = op.sa
      <4>1. ASSUME NEW i \in InvsIn(cio'[d], t) PROVE mode[session[t].cio] = "closing"
        <5>1. d = c /\ i # b /\ i \in InvsIn(cio[c], t) /\ b \in InvsIn(cio[c], t)
          BY <1>10, <2>2, <2>3, <3>2, <3>3
        <5> QED BY <3>1, <5>1 DEF Surplus
      <4> QED BY <1>4, <2>1, <4>1 DEF Surplus
    <3>4. CASE ~(~IsRequest(op) /\ t = op.sa)
      BY <1>4, <2>1, <3>1, <3>2, <3>4 DEF Surplus
    <3> QED BY <3>3, <3>4
  <2>7. ASSUME NEW d \in Cios PROVE Closing(d, t)'
    <3>1. Closing(d, t)
      BY <2>1 DEF SessionInv
    <3>2. \A e \in Cios : UsesIn(cio'[e], t) \subseteq UsesIn(cio[e], t)
      BY <1>10
    <3> QED BY <1>4, <2>1, <3>1, <3>2 DEF Closing
  <2> QED BY <2>4, <2>5, <2>6, <2>7 DEF SessionInv
<1> QED
  BY <1>7, <1>9, <1>12 DEF IInv

-----------------------------------------------------------------------------
LEMMA InitInv == Init => IInv
<1> SUFFICES ASSUME Init PROVE IInv
  OBVIOUS
<1>1. TypeOK
  BY FreshTyped DEF Init, TypeOK, Sas, FreshHw
<1>2. \A c \in Cios : cio[c] = FreshCio
  BY DEF Init
<1>3. \A c \in Cios : Counts(c)
  BY <1>2, FreshTyped DEF Init, Counts, FreshHw
<1>4. ASSUME NEW s \in Sessions PROVE SessionInv(s)
  <2>1. UsesIn(FreshCio, s) = {} /\ InvsIn(FreshCio, s) = {}
    BY FreshTyped, NoneInFlight DEF Rings
  <2>2. Held(s)
    BY <1>2, <2>1 DEF Init, Held
  <2>3. ASSUME NEW c \in Cios PROVE EndsUse(c, s) /\ Surplus(c, s) /\ Closing(c, s)
    BY <1>2, <2>1 DEF Init, EndsUse, Surplus, Closing
  <2> QED BY <2>2, <2>3 DEF SessionInv
<1> QED
  BY <1>1, <1>3, <1>4 DEF IInv

LEMMA StepInv == ASSUME IInv, Next PROVE IInv'
<1>1. CASE \E s \in Sessions, ctr \in CtrCios : Create(s, ctr)
  BY <1>1, CreateInv
<1>2. CASE \E s \in Sessions : ClientDestroy(s)
  BY <1>2, ClientDestroyInv
<1>3. CASE \E s \in Sessions, c \in Cios : CloseDestroy(c, s)
  BY <1>3, CloseDestroyInv
<1>4. CASE \E s \in Sessions, c \in Cios, k \in Cookies, n \in 1 .. MaxBufs,
              proto \in {FALSE, Short}, short \in {FALSE, Short} :
              EnqOne(c, s, k, n, short, proto)
  <2>1. {FALSE, Short} \subseteq BOOLEAN
    BY SamAssumption
  <2> QED BY <1>4, <2>1, EnqInv, ZenonT(30)
<1>5. CASE \E c \in Cios : Submit(c) \/ CloseBegin(c) \/ CloseEnd(c) \/ Open(c)
  BY <1>5, SubmitInv, CloseBeginInv, CloseEndInv, OpenInv
<1>6. CASE Engine
  BY <1>6, ProcessInv DEF Engine
<1>7. CASE Dequeue
  BY <1>7, DeqBeginInv, DeqInv, DeqEndInv, FlushEndInv DEF Dequeue
<1> QED
  BY <1>1, <1>2, <1>3, <1>4, <1>5, <1>6, <1>7, Zenon DEF Next

LEMMA Stutter == IInv /\ UNCHANGED vars => IInv'
<1> SUFFICES ASSUME IInv, UNCHANGED vars PROVE IInv'
  OBVIOUS
<1>1. UNCHANGED <<cio, hw, enq, deq, session, open, mode, left>>
  BY DEF vars
<1> QED
  BY <1>1 DEF IInv, TypeOK, Counts, SessionInv, Held, EndsUse, Surplus, Closing

\* The inductive invariant: the positions of a ring, the operations it holds and
\* the sessions they are for fit together after every step.
THEOREM Invariance == Spec => []IInv
<1>1. IInv /\ [Next]_vars => IInv'
  BY StepInv, Stutter
<1> QED
  BY <1>1, InitInv, PTL DEF Spec

\* A session is not freed while a request in flight uses it, in whatever order
\* requests, invalidations and the closing of cios come; nor while its owner has it.
THEOREM SessionsAlive == ASSUME Alone PROVE Spec => []SessionAlive
<1>1. Alone /\ IInv => SessionAlive
  BY DEF IInv, SessionInv, Held, SessionAlive, Uses, UsesIn
<1> QED
  BY <1>1, Invariance, PTL

-----------------------------------------------------------------------------
(* The command descriptors that are taken *)

\* The descriptors of the j-th operation in flight.
Bufs(x, j) ==
  LET op == x.ops[Add(x.next_result, j)] IN IF IsRequest(op) THEN op.bufs_in ELSE 0

\* Between free_cdr and next_cdr are those of the requests in flight: rest[j] is how
\* many the operations from the j-th on have.
Taken(x) ==
  \E rest \in [0 .. Pending(x) -> Nat] :
    /\ rest[Pending(x)] = 0
    /\ \A j \in 0 .. Pending(x) - 1 : rest[j] = rest[j + 1] + Bufs(x, j)
    /\ rest[0] = Sub(x.next_cdr, x.free_cdr)

AllTaken == \A c \in Cios : c \notin CtrCios => Taken(cio[c])

LEMMA FreeIs ==
  ASSUME NEW x \in Rings
  PROVE  /\ FreeCdr(x) = Size - Sub(x.next_cdr, x.free_cdr)
         /\ Sub(x.next_cdr, x.free_cdr) \in Nat /\ FreeCdr(x) \in 1 .. Size
<1> DEFINE u == x.next_cdr
           v == x.free_cdr
<1>1. u \in Idx /\ v \in Idx
  BY DEF Rings
<1>2. /\ Sub(u, v) = IF u >= v THEN u - v ELSE u - v + Size
      /\ Sub(u, v) \in Nat /\ Sub(u, v) < Size
  BY <1>1, SubCases
<1>3. FreeCdr(x) = IF u >= v THEN Size - (u - v) ELSE v - u
  BY DEF FreeCdr
<1> HIDE DEF u, v
<1>4. FreeCdr(x) = Size - Sub(u, v) /\ Sub(u, v) \in Nat /\ FreeCdr(x) \in 1 .. Size
  BY <1>1, <1>2, <1>3, Ring
<1> QED BY <1>4 DEF u, v

\* n more descriptors are taken.
LEMMA BookIs ==
  ASSUME NEW x \in Rings, NEW n \in Nat, n < FreeCdr(x)
  PROVE  Sub(Add(x.next_cdr, n), x.free_cdr) = Sub(x.next_cdr, x.free_cdr) + n
<1> DEFINE u == x.next_cdr
           v == x.free_cdr
           w == Add(u, n)
<1>1. u \in Idx /\ v \in Idx
  BY DEF Rings
<1>2. Sub(u, v) = (IF u >= v THEN u - v ELSE u - v + Size) /\ Sub(u, v) \in Nat
  BY <1>1, SubCases
<1>3. FreeCdr(x) = Size - Sub(u, v)
  BY FreeIs
<1> HIDE DEF u, v
<1>4. n \in Idx /\ Sub(u, v) + n < Size
  BY <1>2, <1>3, Ring
<1>5. w \in Idx /\ w = IF u + n < Size THEN u + n ELSE u + n - Size
  BY <1>1, <1>4, NextCases
<1> HIDE DEF w
<1>6. Sub(w, v) = IF w >= v THEN w - v ELSE w - v + Size
  BY <1>1, <1>5, SubCases
<1>7. Sub(w, v) = Sub(u, v) + n
  BY <1>1, <1>2, <1>4, <1>5, <1>6, Ring
<1> QED BY <1>7 DEF u, v, w

\* Descriptors that are taken are given back.
LEMMA GiveBack ==
  ASSUME NEW u \in Idx, NEW v \in Idx, NEW n \in Nat, n <= Sub(u, v)
  PROVE  Sub(u, Add(v, n)) = Sub(u, v) - n
<1> DEFINE w == Add(v, n)
<1>1. Sub(u, v) = (IF u >= v THEN u - v ELSE u - v + Size) /\ Sub(u, v) < Size /\ Sub(u, v) \in Nat
  BY SubCases
<1>2. n \in Idx
  BY <1>1, Ring
<1>3. w \in Idx /\ w = IF v + n < Size THEN v + n ELSE v + n - Size
  BY <1>2, NextCases
<1> HIDE DEF w
<1>4. Sub(u, w) = IF u >= w THEN u - w ELSE u - w + Size
  BY <1>3, SubCases
<1>5. Sub(u, w) = Sub(u, v) - n
  BY <1>1, <1>2, <1>3, <1>4, Ring
<1> QED BY <1>5 DEF w

LEMMA AddTyped ==
  ASSUME NEW i \in Idx, NEW n \in Nat
  PROVE  Add(i, n) \in Idx /\ Add(i, 0) = i
<1>1. i \in Nat /\ i < Size /\ i + n \in Nat
  BY Ring
<1>2. (i + n) % Size \in 0 .. Size - 1
  BY <1>1, Ring
<1>3. Add(i, 0) = IF i + 0 < Size THEN i + 0 ELSE i + 0 - Size
  BY Ring, NextCases
<1> QED
  BY <1>1, <1>2, <1>3, Ring DEF Add

\* The operations in flight keep their places when one is added.
LEMMA PushBufs ==
  ASSUME NEW x \in Rings, NEW y \in Rings, ~IsFull(x), NEW op,
         y.next_request = Add(x.next_request, 1), y.next_result = x.next_result,
         y.ops = [x.ops EXCEPT ![x.next_request] = op]
  PROVE  /\ Pending(x) \in Nat /\ Pending(y) = Pending(x) + 1
         /\ \A j \in 0 .. Pending(x) - 1 : Bufs(y, j) = Bufs(x, j)
         /\ Bufs(y, Pending(x)) = IF IsRequest(op) THEN op.bufs_in ELSE 0
<1> DEFINE a == x.next_request
           b == x.next_result
<1>1. a \in Idx /\ b \in Idx /\ DOMAIN x.ops = Idx
  BY DEF Rings
<1>2. Pending(x) \in Nat /\ Pending(x) + 1 < Size /\ Pending(y) = Pending(x) + 1
      /\ a \notin InFlight(x) /\ Pending(x) = Sub(a, b)
  BY <1>1, PushIdx DEF Pending
<1>3. Add(b, Sub(a, b)) = a
  <2>1. Sub(a, b) \in Idx /\ Sub(a, b) = IF a >= b THEN a - b ELSE a - b + Size
    BY <1>1, SubCases
  <2>2. Add(b, Sub(a, b)) = IF b + Sub(a, b) < Size THEN b + Sub(a, b)
                            ELSE b + Sub(a, b) - Size
    BY <1>1, <2>1, NextCases
  <2> HIDE DEF a, b
  <2> QED BY <1>1, <2>1, <2>2, Ring
<1>4. ASSUME NEW j \in 0 .. Pending(x) - 1 PROVE Add(b, j) \in Idx /\ Add(b, j) # a
  <2>1. j \in Idx /\ j # Sub(a, b) /\ j \in Nat
    BY <1>2, Ring
  <2>2. Add(b, j) \in Idx /\ Add(b, j) = IF b + j < Size THEN b + j ELSE b + j - Size
    BY <1>1, <2>1, NextCases
  <2>3. Sub(a, b) \in Idx /\ Sub(a, b) = IF a >= b THEN a - b ELSE a - b + Size
    BY <1>1, SubCases
  <2> HIDE DEF a, b
  <2> QED BY <1>1, <2>1, <2>2, <2>3, Ring
<1>5. \A j \in 0 .. Pending(x) - 1 : Bufs(y, j) = Bufs(x, j)
  BY <1>1, <1>4 DEF Bufs
<1>6. Bufs(y, Pending(x)) = IF IsRequest(op) THEN op.bufs_in ELSE 0
  BY <1>1, <1>2, <1>3 DEF Bufs
<1> QED
  BY <1>2, <1>5, <1>6

\* Adding an operation with n descriptors, for which there is room.
LEMMA PushTaken ==
  ASSUME NEW x \in Rings, NEW y \in Rings, ~IsFull(x), NEW op, Taken(x),
         y.next_request = Add(x.next_request, 1), y.next_result = x.next_result,
         y.ops = [x.ops EXCEPT ![x.next_request] = op],
         NEW n \in Nat, n = (IF IsRequest(op) THEN op.bufs_in ELSE 0),
         Sub(y.next_cdr, y.free_cdr) = Sub(x.next_cdr, x.free_cdr) + n
  PROVE  Taken(y)
<1> DEFINE p == Pending(x)
<1>1. PICK rest \in [0 .. p -> Nat] :
        /\ rest[p] = 0
        /\ \A j \in 0 .. p - 1 : rest[j] = rest[j + 1] + Bufs(x, j)
        /\ rest[0] = Sub(x.next_cdr, x.free_cdr)
  BY DEF Taken
<1>2. /\ p \in Nat /\ Pending(y) = p + 1
      /\ \A j \in 0 .. p - 1 : Bufs(y, j) = Bufs(x, j)
      /\ Bufs(y, p) = n
  BY PushBufs
<1> HIDE DEF p
<1> DEFINE more == [j \in 0 .. p + 1 |-> IF j = p + 1 THEN 0 ELSE rest[j] + n]
<1>3. \A j \in 0 .. p : rest[j] \in Nat
  BY <1>2
<1>4. more \in [0 .. p + 1 -> Nat] /\ more[p + 1] = 0 /\ more[0] = rest[0] + n
  BY <1>2, <1>3
<1>5. ASSUME NEW j \in 0 .. p PROVE more[j] = more[j + 1] + Bufs(y, j)
  <2>1. CASE j = p
    BY <1>1, <1>2, <1>3, <2>1
  <2>2. CASE j < p
    <3>1. j \in 0 .. p - 1 /\ j + 1 \in 0 .. p
      BY <1>2, <2>2
    <3>2. rest[j] = rest[j + 1] + Bufs(x, j) /\ Bufs(y, j) = Bufs(x, j)
      BY <1>1, <1>2, <3>1
    <3>3. more[j] = rest[j] + n /\ more[j + 1] = rest[j + 1] + n
      BY <1>2, <3>1
    <3>4. rest[j] \in Nat /\ rest[j + 1] \in Nat /\ Bufs(x, j) = rest[j] - rest[j + 1]
      <4>1. IsRequest(x.ops[Add(x.next_result, j)]) =>
              x.ops[Add(x.next_result, j)].bufs_in \in Nat
        <5>1. Add(x.next_result, j) \in Idx
          BY <1>2, <3>1, AddTyped DEF Rings
        <5> QED BY <5>1 DEF Rings, Ops
      <4>2. Bufs(x, j) \in Nat
        BY <4>1 DEF Bufs
      <4> QED BY <1>3, <3>1, <3>2, <4>2
    <3> QED BY <3>2, <3>3, <3>4
  <2> QED BY <1>2, <2>1, <2>2
<1> HIDE DEF more
<1>6. more[0] = Sub(y.next_cdr, y.free_cdr)
  BY <1>1, <1>4
<1>7. (p + 1) - 1 = p
  BY <1>2
<1> QED
  BY <1>2, <1>4, <1>5, <1>6, <1>7 DEF Taken

\* Retiring the first operation gives its descriptors back.
LEMMA PopTaken ==
  ASSUME NEW x \in Rings, NEW y \in Rings, Pending(x) > 0, Taken(x),
         y.next_request = x.next_request, y.next_result = Add(x.next_result, 1),
         y.ops = x.ops, y.next_cdr = x.next_cdr,
         y.free_cdr = LET op == x.ops[x.next_result]
                      IN IF IsRequest(op) THEN Add(x.free_cdr, op.bufs_in) ELSE x.free_cdr
  PROVE  Taken(y)
<1> DEFINE p == Pending(x)
           b == x.next_result
           n == IF IsRequest(x.ops[b]) THEN x.ops[b].bufs_in ELSE 0
<1>1. PICK rest \in [0 .. p -> Nat] :
        /\ rest[p] = 0
        /\ \A j \in 0 .. p - 1 : rest[j] = rest[j + 1] + Bufs(x, j)
        /\ rest[0] = Sub(x.next_cdr, x.free_cdr)
  BY DEF Taken
<1>2. b \in Idx /\ x.ops \in [Idx -> Ops] /\ x.next_cdr \in Idx /\ x.free_cdr \in Idx
      /\ x.next_request \in Idx
  BY DEF Rings
<1>3. p \in Nat /\ p > 0 /\ p < Size /\ Pending(y) = p - 1
  BY <1>2, PopIdx, SubCases DEF Pending
<1>4. n \in Nat /\ Add(b, 0) = b
  BY <1>2, AddTyped DEF Ops
<1>5. Bufs(x, 0) = n
  BY <1>4 DEF Bufs
<1>6. ASSUME NEW j \in 0 .. p - 2 PROVE Bufs(y, j) = Bufs(x, j + 1)
  <2>1. Add(Add(b, 1), j) = Add(b, j + 1)
    <3>1. Add(b, 1) \in Idx /\ Add(b, 1) = IF b + 1 < Size THEN b + 1 ELSE b + 1 - Size
      BY <1>2, NextCases, Ring
    <3>2. j \in Idx /\ j + 1 \in Idx /\ j \in Nat
      BY <1>3, Ring
    <3>3. Add(b, j + 1) = IF b + (j + 1) < Size THEN b + (j + 1) ELSE b + (j + 1) - Size
      BY <1>2, <3>2, NextCases
    <3>4. Add(Add(b, 1), j) = IF Add(b, 1) + j < Size THEN Add(b, 1) + j
                              ELSE Add(b, 1) + j - Size
      BY <3>1, <3>2, NextCases
    <3> HIDE DEF b
    <3> QED BY <1>2, <3>1, <3>2, <3>3, <3>4, Ring
  <2> QED BY <2>1 DEF Bufs
<1> HIDE DEF p, n
<1>7. \A j \in 0 .. p : rest[j] \in Nat
  BY <1>3
<1>8. rest[0] = rest[1] + n /\ rest[1] \in Nat /\ rest[0] \in Nat
  BY <1>1, <1>3, <1>5, <1>7
<1> DEFINE less == [j \in 0 .. p - 1 |-> rest[j + 1]]
<1>9. less \in [0 .. p - 1 -> Nat] /\ less[p - 1] = 0 /\ less[0] = rest[1]
  <2>1. p - 1 \in 0 .. p - 1 /\ (p - 1) + 1 = p /\ 0 \in 0 .. p - 1 /\ 0 + 1 = 1
    BY <1>3
  <2>2. \A j \in 0 .. p - 1 : rest[j + 1] \in Nat
    BY <1>3, <1>7
  <2> QED BY <1>1, <2>1, <2>2
<1>10. ASSUME NEW j \in 0 .. (p - 1) - 1 PROVE less[j] = less[j + 1] + Bufs(y, j)
  <2>1. j \in 0 .. p - 2 /\ j + 1 \in 0 .. p - 1 /\ j \in 0 .. p - 1
    BY <1>3
  <2>2. rest[j + 1] = rest[(j + 1) + 1] + Bufs(x, j + 1)
    BY <1>1, <2>1
  <2> QED BY <1>6, <2>1, <2>2
<1>11. less[0] = Sub(y.next_cdr, y.free_cdr)
  <2>1. y.next_cdr = x.next_cdr /\ y.free_cdr = Add(x.free_cdr, n)
    <3>1. Add(x.free_cdr, 0) = x.free_cdr
      BY <1>2, AddTyped
    <3> QED BY <3>1 DEF n
  <2>2. Sub(x.next_cdr, x.free_cdr) = rest[1] + n /\ Sub(x.next_cdr, x.free_cdr) < Size
    BY <1>1, <1>2, <1>8, SubCases
  <2>3. n \in Idx
    BY <1>4, <1>8, <2>2, Ring
  <2>4. Sub(x.next_cdr, Add(x.free_cdr, n)) = Sub(x.next_cdr, x.free_cdr) - n
    <3>1. n <= Sub(x.next_cdr, x.free_cdr)
      BY <1>4, <1>8, <2>2
    <3> QED BY <1>2, <1>4, <3>1, GiveBack
  <2> QED BY <1>4, <1>8, <1>9, <2>1, <2>2, <2>4
<1> HIDE DEF less
<1> QED
  BY <1>3, <1>9, <1>10, <1>11 DEF Taken

LEMMA FreshTaken == Taken(FreshCio)
<1>1. FreshCio.next_cdr = 0 /\ FreshCio.free_cdr = 0 /\ Pending(FreshCio) = 0 /\ Sub(0, 0) = 0
  BY FreshTyped, Ring, SubCases DEF FreshCio
<1> DEFINE rest == [j \in 0 .. 0 |-> 0]
<1>2. rest \in [0 .. 0 -> Nat] /\ rest[0] = 0 /\ 0 .. 0 - 1 = {}
  OBVIOUS
<1> QED
  BY <1>1, <1>2 DEF Taken

LEMMA TakenInit == Init => AllTaken
  BY FreshTaken DEF Init, AllTaken

\* Both ends of the descriptors that are taken move on by one.
LEMMA BothMove ==
  ASSUME NEW u \in Idx, NEW v \in Idx
  PROVE  Sub(Add(u, 1), Add(v, 1)) = Sub(u, v)
<1> DEFINE w == Add(u, 1)
           z == Add(v, 1)
<1>1. w \in Idx /\ w = IF u + 1 < Size THEN u + 1 ELSE u + 1 - Size
  BY NextCases, Ring
<1>2. z \in Idx /\ z = IF v + 1 < Size THEN v + 1 ELSE v + 1 - Size
  BY NextCases, Ring
<1>3. Sub(u, v) = IF u >= v THEN u - v ELSE u - v + Size
  BY SubCases
<1> HIDE DEF w, z
<1>4. Sub(w, z) = IF w >= z THEN w - z ELSE w - z + Size
  BY <1>1, <1>2, SubCases
<1>5. Sub(w, z) = Sub(u, v)
  BY <1>1, <1>2, <1>3, <1>4, Ring
<1> QED
  BY <1>5 DEF w, z

\* Every step keeps what is taken the descriptors of the requests in flight.
LEMMA TakenStep ==
  ASSUME Dedicated, ~Short, IInv, AllTaken, [Next]_vars
  PROVE  AllTaken'
<1>1. cio \in [Cios -> Rings] /\ session \in [Sessions -> Sas]
  BY DEF IInv, TypeOK
<1>2. ASSUME NEW c \in Cios, c \notin CtrCios, cio' \in [Cios -> Rings], cio'[c] = cio[c]
      PROVE  Taken(cio'[c])
  BY <1>2 DEF AllTaken
<1>3. ASSUME NEW c \in Cios, c \notin CtrCios, NEW e \in Cios,
             NEW s \in Sessions, NEW k \in Cookies, NEW n \in 1 .. MaxBufs,
             EnqOne(e, s, k, n, FALSE, FALSE)
      PROVE  Taken(cio'[c])
  <2>1. /\ ~IsFull(cio[e]) /\ cio' \in [Cios -> Rings]
        /\ \A d \in Cios : d # e => cio'[d] = cio[d]
        /\ Requested(cio[e], cio'[e], s) /\ Booked(cio[e], cio'[e], n)
    BY <1>3, EnqRing
  <2>2. CASE c # e
    BY <1>3, <2>1, <2>2 DEF AllTaken
  <2>3. CASE c = e
    <3> DEFINE x == cio[c]
               y == cio'[c]
    <3>1. PICK op \in Ops : IsRequest(op) /\ y.ops = [x.ops EXCEPT ![x.next_request] = op]
      BY <2>1, <2>3 DEF Requested
    <3>2. x \in Rings /\ y \in Rings /\ x.next_request \in Idx /\ DOMAIN x.ops = Idx
          /\ x.next_cdr \in Idx /\ x.free_cdr \in Idx
      BY <1>1, <2>1 DEF Rings
    <3>3. op.bufs_in = n /\ n \in Nat
      BY <2>1, <2>3, <3>1, <3>2, SamAssumption DEF Booked
    <3>4. y.next_cdr = Add(x.next_cdr, n) /\ y.free_cdr = x.free_cdr
      BY <2>1, <2>3 DEF Booked
    <3>5. n < FreeCdr(x)
      BY <1>3, <2>3 DEF EnqOne, IsFreeSlot
    <3>6. Sub(Add(x.next_cdr, n), x.free_cdr) = Sub(x.next_cdr, x.free_cdr) + n
      BY <3>2, <3>3, <3>5, BookIs
    <3>7. y.next_request = Add(x.next_request, 1) /\ y.next_result = x.next_result
          /\ ~IsFull(x) /\ Taken(x)
      BY <1>3, <2>1, <2>3 DEF Requested, AllTaken
    <3> HIDE DEF x, y
    <3>8. Taken(y)
      BY <3>1, <3>2, <3>3, <3>4, <3>6, <3>7, PushTaken
    <3> QED BY <3>8 DEF y
  <2> QED BY <2>2, <2>3
<1>4. ASSUME NEW c \in Cios, c \notin CtrCios, NEW e \in Cios, DeqOne(e)
      PROVE  Taken(cio'[c])
  <2> DEFINE x == cio[c]
             y == cio'[c]
             op == x.ops[x.next_result]
  <2>1. CASE c # e
    BY <1>4, <2>1, DeqRing DEF AllTaken
  <2>2. CASE c = e
    <3>1. /\ Pending(x) > 0 /\ y \in Rings /\ x \in Rings
          /\ y.next_request = x.next_request /\ y.next_result = Add(x.next_result, 1)
          /\ y.ops = x.ops /\ y.next_cdr = x.next_cdr
          /\ y.free_cdr = IF IsRequest(op) THEN Add(x.free_cdr, op.bufs_in) ELSE x.free_cdr
          /\ Taken(x)
      BY <1>1, <1>4, <2>2, DeqRing DEF AllTaken
    <3> HIDE DEF x, y
    <3>2. Taken(y)
      BY <3>1, PopTaken
    <3> QED BY <3>2 DEF y
  <2> QED BY <2>1, <2>2
\* A ring that carries requests gets an invalidation only from a session without a
\* control ring: its descriptor is given back at once.
<1>5. ASSUME NEW c \in Cios, c \notin CtrCios, NEW s \in Sessions, Destroy(s)
      PROVE  Taken(cio'[c])
  <2> DEFINE ctr == session[s].ctr_cio
             e == IF ctr # NoCio THEN ctr ELSE session[s].cio
             x == cio[c]
             y == Invalidated(x, s, TRUE)
  <2>1. CASE UNCHANGED cio
    BY <1>5, <2>1 DEF AllTaken
  <2>2. CASE /\ ~IsFull(cio[e]) /\ session[s].cio \in Eip197
             /\ cio' = [cio EXCEPT ![e] = Invalidated(@, s, ctr = NoCio)]
    <3>1. CASE c # e
      BY <1>1, <1>5, <2>2, <3>1 DEF AllTaken
    <3>2. CASE c = e
      <4>1. ctr = NoCio
        BY <1>1, <1>5, <3>2 DEF Sas
      <4>2. cio'[c] = y /\ x \in Rings /\ ~IsFull(x) /\ Taken(x)
        BY <1>1, <1>5, <2>2, <3>2, <4>1 DEF AllTaken
      <4> HIDE DEF x
      <4>3. PICK op \in Ops :
              /\ y \in Rings /\ ~IsRequest(op)
              /\ y.next_request = Add(x.next_request, 1) /\ y.next_result = x.next_result
              /\ y.ops = [x.ops EXCEPT ![x.next_request] = op]
              /\ y.next_cdr = Add(x.next_cdr, 1) /\ y.free_cdr = Add(x.free_cdr, 1)
        BY ZenonT(30), <4>2, InvalidatedRing
      <4>4. x.next_cdr \in Idx /\ x.free_cdr \in Idx
        BY <4>2 DEF Rings
      <4>5. Sub(x.next_cdr, x.free_cdr) \in Nat
        BY <4>4, SubCases
      <4> HIDE DEF y
      <4>6. Sub(y.next_cdr, y.free_cdr) = Sub(x.next_cdr, x.free_cdr) + 0
        <5>1. Sub(Add(x.next_cdr, 1), Add(x.free_cdr, 1)) = Sub(x.next_cdr, x.free_cdr)
          BY <4>4, BothMove
        <5> QED BY <4>3, <4>5, <5>1
      <4>7. Taken(y)
        BY <4>2, <4>3, <4>6, PushTaken
      <4> QED BY <4>2, <4>7
    <3> QED BY <3>1, <3>2
  <2> QED BY <1>5, <2>1, <2>2 DEF Destroy
<1>6. ASSUME NEW c \in Cios, c \notin CtrCios, NEW e \in Cios, Process(e)
      PROVE  Taken(cio'[c])
  <2>1. PICK pkt : cio' = [cio EXCEPT ![e].rdr[hw[e].rdr] = pkt]
    BY <1>6 DEF Process
  <2>2. /\ cio'[c].next_request = cio[c].next_request
        /\ cio'[c].next_result = cio[c].next_result
        /\ cio'[c].ops = cio[c].ops /\ cio'[c].next_cdr = cio[c].next_cdr
        /\ cio'[c].free_cdr = cio[c].free_cdr
    BY <1>1, <2>1 DEF Rings
  <2> QED BY <1>6, <2>2 DEF AllTaken, Taken, Pending, Bufs
<1>7. ASSUME NEW c \in Cios, c \notin CtrCios, NEW e \in Cios, Open(e)
      PROVE  Taken(cio'[c])
  <2>1. Taken(FreshCio)
    BY FreshTaken
  <2>2. cio'[c] = cio[c] \/ cio'[c] = FreshCio
    BY <1>1, <1>7 DEF Open
  <2> QED BY <1>7, <2>1, <2>2 DEF AllTaken
<1>8. ASSUME UNCHANGED cio PROVE AllTaken'
  BY <1>8 DEF AllTaken
<1>9. CASE \E s \in Sessions, e \in Cios, k \in Cookies, n \in 1 .. MaxBufs,
              proto \in {FALSE, Short}, short \in {FALSE, Short} :
              EnqOne(e, s, k, n, short, proto)
  <2>1. Short = FALSE
    BY SamAssumption
  <2>2. PICK s \in Sessions, e \in Cios, k \in Cookies, n \in 1 .. MaxBufs :
          EnqOne(e, s, k, n, FALSE, FALSE)
    BY <1>9, <2>1, Zenon
  <2> QED BY <1>3, <2>2 DEF AllTaken
<1>10. CASE \E s \in Sessions : ClientDestroy(s) \/ \E e \in Cios : CloseDestroy(e, s)
  BY <1>5, <1>10 DEF AllTaken, ClientDestroy, CloseDestroy
<1>11. CASE \E e \in Cios : Process(e) \/ DeqOne(e) \/ Open(e)
  BY <1>4, <1>6, <1>7, <1>11 DEF AllTaken
<1>12. CASE \/ \E s \in Sessions, ctr \in CtrCios : Create(s, ctr)
            \/ \E e \in Cios : \/ Submit(e) \/ CloseBegin(e) \/ CloseEnd(e)
                              \/ DeqBegin(e) \/ DeqEnd(e) \/ FlushEnd(e)
            \/ UNCHANGED vars
  <2>1. UNCHANGED cio
    BY <1>12 DEF Create, Submit, CloseBegin, CloseEnd, DeqBegin, DeqEnd, FlushEnd, rings, vars
  <2> QED BY <1>8, <2>1
<1> QED
  BY <1>9, <1>10, <1>11, <1>12, Zenon DEF Next, Engine, Dequeue

\* Once nothing is in flight in a ring that carries requests, all its descriptors
\* are free, whatever requests it took and sessions were destroyed before.
THEOREM DescriptorsGivenBack == ASSUME Dedicated, ~Short PROVE Spec => []AllGivenBack
<1>1. IInv /\ AllTaken => AllGivenBack
  <2> SUFFICES ASSUME IInv, AllTaken, NEW c \in Cios, c \notin CtrCios, Pending(cio[c]) = 0
               PROVE  FreeCdr(cio[c]) = Size
    BY DEF AllGivenBack
  <2>1. Sub(cio[c].next_cdr, cio[c].free_cdr) = 0
    BY DEF AllTaken, Taken
  <2>2. cio[c].next_cdr \in Idx /\ cio[c].free_cdr \in Idx
    BY DEF IInv, TypeOK, Rings
  <2>3. cio[c].next_cdr = cio[c].free_cdr
    <3> DEFINE u == cio[c].next_cdr
               v == cio[c].free_cdr
    <3>1. Sub(u, v) = IF u >= v THEN u - v ELSE u - v + Size
      BY <2>2, SubCases
    <3> HIDE DEF u, v
    <3>2. u \in Idx /\ v \in Idx /\ Sub(u, v) = 0
      BY <2>1, <2>2 DEF u, v
    <3>3. u = v
      BY <3>1, <3>2, Ring
    <3> QED BY <3>3 DEF u, v
  <2> QED BY <2>2, <2>3, Ring DEF FreeCdr
<1>2. Init => AllTaken
  BY TakenInit
<1>3. IInv /\ AllTaken /\ [Next]_vars => AllTaken'
  BY TakenStep
<1> QED
  BY <1>1, <1>2, <1>3, Invariance, PTL DEF Spec

-----------------------------------------------------------------------------
(* What the rings hold *)

\* Requests of one buffer each leave room for the invalidations, as there are less
\* operations in flight than entries in a ring.
Room == MaxBufs > 1 => InvalidationsFit

\* The j-th operation in flight; its descriptors; the entry of the command ring
\* that is k before the next one.
OpAt(x, j) == x.ops[Add(x.next_result, j)]
Cost(op) == IF IsRequest(op) THEN op.bufs_in ELSE 1
Back(x, k) == Sub(x.next_cdr, k)
InvOps(x) == {i \in InFlight(x) : ~IsRequest(x.ops[i])}

\* rest[j] is how many descriptors the operations from the j-th on have.
Sizes(x, rest) ==
  /\ rest \in [0 .. Pending(x) -> Nat] /\ rest[Pending(x)] = 0
  /\ \A j \in 0 .. Pending(x) - 1 :
       Cost(OpAt(x, j)) \in Nat \ {0} /\ rest[j] = rest[j + 1] + Cost(OpAt(x, j))
  /\ \A i, j \in 0 .. Pending(x) : i <= j => rest[j] <= rest[i]

\* In all they are one each in a control ring (ctl); in a ring that carries requests,
\* those between free_cdr and next_cdr and one for each invalidation.
Total(x, ctl, rest) ==
  /\ ctl \/ MaxBufs = 1 => /\ rest[0] = Pending(x)
                           /\ \A j \in 0 .. Pending(x) - 1 : Cost(OpAt(x, j)) = 1
  /\ ~ctl => rest[0] = Sub(x.next_cdr, x.free_cdr) + Cardinality(InvOps(x))

\* The engine (h) is at the first operation that has no result, the u-th; what it
\* has been told of and what sam_cio_enq (e) has still to tell it of come then.
Placed(x, h, e, u, rest) ==
  /\ u \in Nat /\ Pending(x) = u + h.preps + e.rdr
  /\ rest[u] = h.cmds + e.cdr /\ rest[u + h.preps] = e.cdr
  /\ h.cdr = Back(x, rest[u]) /\ h.rdr = Add(x.next_result, u) /\ x.next_rdr = x.next_request

\* The descriptors of the operations that have no result, the results of the others.
Commands(x, u, rest) ==
  \A j \in u .. Pending(x) - 1 : \A k \in 0 .. Cost(OpAt(x, j)) - 1 :
    x.cdr[Back(x, rest[j] - k)] =
      [pkt |-> PktOf(OpAt(x, j)), first |-> k = 0, last |-> k = Cost(OpAt(x, j)) - 1]
Results(x, u) == \A j \in 0 .. u - 1 : x.rdr[Add(x.next_result, j)] = PktOf(OpAt(x, j))

Line(x, h, e, u, ctl, rest) ==
  /\ Sizes(x, rest) /\ Total(x, ctl, rest) /\ Placed(x, h, e, u, rest)
  /\ Commands(x, u, rest) /\ Results(x, u)
Lined(c) == \E rest : Line(cio[c], hw[c], enq[c], Unread(c), c \in CtrCios, rest)

\* Control rings are not enqueued to, and no session has one as its ring.
Apart ==
  /\ \A c \in Cios : enq[c].n = 0 => enq[c].rdr = 0 /\ enq[c].cdr = 0
  /\ \A c \in Cios \cap CtrCios : enq[c].n = 0
  /\ \A s \in Sessions : session[s].cio \in Cios => session[s].cio \notin CtrCios

AllLined == Apart /\ \A c \in Cios : Lined(c)

-----------------------------------------------------------------------------
(* Places in the rings *)

LEMMA BackIs ==
  ASSUME NEW i \in Idx, NEW k \in 0 .. Size
  PROVE  Sub(i, k) \in Idx /\ Sub(i, k) = IF i >= k THEN i - k ELSE i - k + Size
<1>1. CASE k = Size
  <2>1. i - k + Size = i /\ i \in 0 .. Size - 1 /\ i < k
    BY <1>1, Ring
  <2>2. i % Size = i
    BY <2>1, Ring
  <2> QED BY <2>1, <2>2, Ring DEF Sub
<1>2. CASE k # Size
  <2>1. k \in Idx
    BY <1>2, Ring
  <2> QED BY <2>1, SubCases
<1> QED BY <1>1, <1>2

\* After n more descriptors an entry is n more before the next one, and the new ones
\* are those that come from the old place on.
LEMMA BackOn ==
  ASSUME NEW i \in Idx, NEW n \in 1 .. Size, NEW k \in 1 .. Size
  PROVE  /\ Add(i, n) \in Idx
         /\ k >= n => Sub(Add(i, n), k) = Sub(i, k - n)
         /\ k > n => ~(Sub(Sub(Add(i, n), k), i) < n)
         /\ k <= n => Sub(Sub(Add(i, n), k), i) = n - k
<1> DEFINE w == Add(i, n)
           z == Sub(w, k)
<1>1. w \in Idx /\ w = IF i + n < Size THEN i + n ELSE i + n - Size
  <2>1. CASE n = Size
    <3>1. Add(i, n) = (i + Size) % Size
      BY <2>1 DEF Add
    <3>2. (i + Size) % Size = i
      BY Ring
    <3> QED BY <2>1, <3>1, <3>2, Ring
  <2>2. CASE n # Size
    <3>1. n \in Idx
      BY <2>2, Ring
    <3> QED BY <3>1, NextCases
  <2> QED BY <2>1, <2>2
<1>2. k \in 0 .. Size
  BY Ring
<1> HIDE DEF w
<1>3. z \in Idx /\ z = IF w >= k THEN w - k ELSE w - k + Size
  BY <1>1, <1>2, BackIs
<1> HIDE DEF z
<1>4. Sub(z, i) = IF z >= i THEN z - i ELSE z - i + Size
  BY <1>3, SubCases
<1>5. ASSUME k >= n PROVE z = Sub(i, k - n) /\ (k > n => ~(Sub(z, i) < n))
  <2>1. k - n \in 0 .. Size
    BY <1>5, Ring
  <2>2. Sub(i, k - n) = IF i >= k - n THEN i - (k - n) ELSE i - (k - n) + Size
    BY <2>1, BackIs
  <2>3. z = Sub(i, k - n)
    BY <1>1, <1>3, <1>5, <2>2, Ring
  <2>4. k > n => ~(Sub(z, i) < n)
    BY <1>1, <1>3, <1>4, <1>5, Ring
  <2> QED BY <2>3, <2>4
<1>6. ASSUME k <= n PROVE Sub(z, i) = n - k
  BY <1>1, <1>3, <1>4, <1>6, Ring
<1>7. k > n => k >= n
  BY Ring
<1> QED BY <1>1, <1>5, <1>6, <1>7 DEF z, w

\* The engine goes on over n descriptors.
LEMMA BackAhead ==
  ASSUME NEW i \in Idx, NEW k \in 0 .. Size, NEW n \in 0 .. k
  PROVE  Add(Sub(i, k), n) = Sub(i, k - n)
<1> DEFINE z == Sub(i, k)
<1>1. z \in Idx /\ z = IF i >= k THEN i - k ELSE i - k + Size
  BY BackIs
<1> HIDE DEF z
<1>2. k - n \in 0 .. Size
  BY Ring
<1>3. Sub(i, k - n) = IF i >= k - n THEN i - (k - n) ELSE i - (k - n) + Size
  BY <1>2, BackIs
<1>4. Add(z, n) = IF z + n < Size THEN z + n ELSE z + n - Size
  <2>1. CASE n = Size
    <3>1. Add(z, n) = (z + Size) % Size
      BY <2>1 DEF Add
    <3>2. (z + Size) % Size = z
      BY <1>1, Ring
    <3> QED BY <1>1, <2>1, <3>1, <3>2, Ring
  <2>2. CASE n # Size
    <3>1. n \in Idx
      BY <2>2, Ring
    <3> QED BY <1>1, <3>1, NextCases
  <2> QED BY <2>1, <2>2
<1>5. Add(z, n) = Sub(i, k - n)
  BY <1>1, <1>3, <1>4, Ring
<1> QED BY <1>5 DEF z

\* Entries ahead of the same one are different, and one further on from the next.
LEMMA AheadApart ==
  ASSUME NEW b \in Idx, NEW j \in Idx, NEW i \in Idx
  PROVE  /\ Add(b, j) \in Idx /\ (Add(b, j) = Add(b, i) => i = j)
         /\ j + 1 \in Idx => Add(Add(b, 1), j) = Add(b, j + 1)
         /\ j + 1 \in Idx => Add(Add(b, j), 1) = Add(b, j + 1)
<1>1. Add(b, j) \in Idx /\ Add(b, j) = IF b + j < Size THEN b + j ELSE b + j - Size
  BY NextCases
<1>2. Add(b, i) = IF b + i < Size THEN b + i ELSE b + i - Size
  BY NextCases
<1>3. Add(b, 1) \in Idx /\ Add(b, 1) = IF b + 1 < Size THEN b + 1 ELSE b + 1 - Size
  BY NextCases, Ring
<1>4. ASSUME j + 1 \in Idx PROVE Add(Add(b, 1), j) = Add(b, j + 1) /\ Add(Add(b, j), 1) = Add(b, j + 1)
  <2>1. Add(b, j + 1) = IF b + (j + 1) < Size THEN b + (j + 1) ELSE b + (j + 1) - Size
    BY <1>4, NextCases
  <2>2. Add(Add(b, 1), j) = IF Add(b, 1) + j < Size THEN Add(b, 1) + j ELSE Add(b, 1) + j - Size
    BY <1>3, NextCases
  <2>3. Add(Add(b, j), 1) = IF Add(b, j) + 1 < Size THEN Add(b, j) + 1 ELSE Add(b, j) + 1 - Size
    BY <1>1, NextCases, Ring
  <2> QED BY <1>1, <1>3, <1>4, <2>1, <2>2, <2>3, Ring
<1> QED BY <1>1, <1>2, <1>4, Ring

-----------------------------------------------------------------------------
(* An operation is added *)

Grown(x, y, op) ==
  /\ y.next_request = Add(x.next_request, 1) /\ y.next_result = x.next_result
  /\ y.ops = [x.ops EXCEPT ![x.next_request] = op]
  /\ y.next_cdr = Add(x.next_cdr, Cost(op)) /\ y.next_rdr = Add(x.next_rdr, 1)
  /\ y.cdr = Written(x, PktOf(op), Cost(op), Cost(op))
  /\ y.rdr = [x.rdr EXCEPT ![x.next_rdr] = NoPkt]

\* The operations keep their places, the new one is the last.
LEMMA PushOpAt ==
  ASSUME NEW x \in Rings, NEW y \in Rings, ~IsFull(x), NEW op, Grown(x, y, op)
  PROVE  /\ Pending(x) \in Nat /\ Pending(x) + 1 < Size /\ Pending(y) = Pending(x) + 1
         /\ \A j \in 0 .. Pending(x) - 1 : OpAt(y, j) = OpAt(x, j)
         /\ OpAt(y, Pending(x)) = op
         /\ Add(x.next_result, Pending(x)) = x.next_request
<1> DEFINE a == x.next_request
           b == x.next_result
<1>1. a \in Idx /\ b \in Idx /\ DOMAIN x.ops = Idx
  BY DEF Rings
<1>2. Pending(x) \in Nat /\ Pending(x) + 1 < Size /\ Pending(y) = Pending(x) + 1
      /\ Pending(x) = Sub(a, b)
  BY <1>1, PushIdx DEF Pending, Grown
<1>3. Add(b, Sub(a, b)) = a
  <2>1. Sub(a, b) \in Idx /\ Sub(a, b) = IF a >= b THEN a - b ELSE a - b + Size
    BY <1>1, SubCases
  <2>2. Add(b, Sub(a, b)) = IF b + Sub(a, b) < Size THEN b + Sub(a, b)
                            ELSE b + Sub(a, b) - Size
    BY <1>1, <2>1, NextCases
  <2> HIDE DEF a, b
  <2> QED BY <1>1, <2>1, <2>2, Ring
<1>4. ASSUME NEW j \in 0 .. Pending(x) - 1 PROVE Add(b, j) \in Idx /\ Add(b, j) # a
  <2>1. j \in Idx /\ Pending(x) \in Idx /\ j # Pending(x)
    BY <1>2, Ring
  <2>2. Add(b, Pending(x)) = a
    BY <1>2, <1>3
  <2>3. Add(b, j) \in Idx /\ (Add(b, j) = Add(b, Pending(x)) => Pending(x) = j)
    <3> HIDE DEF b
    <3>1. b \in Idx
      BY <1>1
    <3> QED BY ONLY <2>1, <3>1, AheadApart
  <2> QED BY <2>1, <2>2, <2>3
<1>5. \A j \in 0 .. Pending(x) - 1 : OpAt(y, j) = OpAt(x, j)
  BY <1>1, <1>4 DEF OpAt, Grown
<1>6. OpAt(y, Pending(x)) = op
  BY <1>1, <1>2, <1>3 DEF OpAt, Grown
<1> QED
  BY <1>2, <1>3, <1>5, <1>6

\* The invalidations in flight are finitely many.
LEMMA InvsFinite ==
  ASSUME NEW x
  PROVE  IsFiniteSet(InvOps(x)) /\ Cardinality(InvOps(x)) \in Nat
<1>1. IsFiniteSet(Idx)
  BY Ring, FS_Interval
<1>2. InvOps(x) \subseteq Idx
  BY DEF InvOps, InFlight
<1>3. IsFiniteSet(InvOps(x))
  BY <1>1, <1>2, FS_Subset
<1> QED BY <1>3, FS_CardinalityType

LEMMA PushInvs ==
  ASSUME NEW x \in Rings, NEW y \in Rings, ~IsFull(x), NEW op, Grown(x, y, op)
  PROVE  Cardinality(InvOps(y)) = Cardinality(InvOps(x)) + (IF IsRequest(op) THEN 0 ELSE 1)
<1> DEFINE a == x.next_request
<1>1. a \in Idx /\ x.next_result \in Idx /\ DOMAIN x.ops = Idx
  BY DEF Rings
<1>2. InFlight(y) = InFlight(x) \cup {a} /\ a \notin InFlight(x) /\ InFlight(x) \subseteq Idx
  BY <1>1, PushIdx DEF Grown, InFlight
<1>3. y.ops[a] = op /\ \A i \in InFlight(x) : y.ops[i] = x.ops[i]
  BY <1>1, <1>2 DEF Grown
<1>4. IsFiniteSet(InvOps(x)) /\ Cardinality(InvOps(x)) \in Nat
  BY InvsFinite
<1>5. CASE IsRequest(op)
  <2>1. InvOps(y) = InvOps(x)
    BY <1>2, <1>3, <1>5 DEF InvOps
  <2> QED BY <1>4, <1>5, <2>1
<1>6. CASE ~IsRequest(op)
  <2>1. InvOps(y) = InvOps(x) \cup {a} /\ a \notin InvOps(x)
    BY <1>2, <1>3, <1>6 DEF InvOps
  <2> HIDE DEF a
  <2>2. Cardinality(InvOps(x) \cup {a}) = Cardinality(InvOps(x)) + 1
    BY <1>4, <2>1, FS_AddElement
  <2> QED BY <1>6, <2>1, <2>2
<1> QED BY <1>5, <1>6

More(x, rest, n) == [j \in 0 .. Pending(x) + 1 |-> IF j = Pending(x) + 1 THEN 0 ELSE rest[j] + n]

LEMMA PushSizes ==
  ASSUME NEW x \in Rings, NEW y \in Rings, ~IsFull(x), NEW op, Grown(x, y, op), NEW rest,
         Sizes(x, rest), Cost(op) \in Nat \ {0}
  PROVE  /\ Sizes(y, More(x, rest, Cost(op)))
         /\ \A j \in 0 .. Pending(x) : More(x, rest, Cost(op))[j] = rest[j] + Cost(op) /\ rest[j] \in Nat
         /\ More(x, rest, Cost(op))[Pending(x) + 1] = 0
<1> DEFINE p == Pending(x)
           n == Cost(op)
           more == More(x, rest, n)
<1>1. /\ p \in Nat /\ Pending(y) = p + 1 /\ OpAt(y, p) = op
      /\ \A j \in 0 .. p - 1 : OpAt(y, j) = OpAt(x, j)
  BY PushOpAt
<1>2. /\ rest \in [0 .. p -> Nat] /\ rest[p] = 0
      /\ \A j \in 0 .. p - 1 : Cost(OpAt(x, j)) \in Nat \ {0} /\ rest[j] = rest[j + 1] + Cost(OpAt(x, j))
      /\ \A i, j \in 0 .. p : i <= j => rest[j] <= rest[i]
  BY DEF Sizes
<1>3. n \in Nat \ {0} /\ n = Cost(op)
  OBVIOUS
<1>4. more = [j \in 0 .. p + 1 |-> IF j = p + 1 THEN 0 ELSE rest[j] + n]
  BY DEF More
<1> HIDE DEF p, n, more
<1>5. \A j \in 0 .. p : more[j] = rest[j] + n /\ rest[j] \in Nat
  BY <1>1, <1>2, <1>4
<1>6. more \in [0 .. p + 1 -> Nat] /\ more[p + 1] = 0
  BY <1>1, <1>2, <1>3, <1>4
<1>7. ASSUME NEW j \in 0 .. p PROVE Cost(OpAt(y, j)) \in Nat \ {0} /\ more[j] = more[j + 1] + Cost(OpAt(y, j))
  <2>1. CASE j = p
    <3>1. more[p] = 0 + n /\ more[p + 1] = 0
      BY <1>1, <1>2, <1>5, <1>6
    <3> QED BY <1>1, <1>3, <2>1, <3>1
  <2>2. CASE j # p
    <3>1. j \in 0 .. p - 1 /\ j + 1 \in 0 .. p /\ j \in 0 .. p
      BY <1>1, <2>2
    <3>2. /\ more[j] = rest[j] + n /\ more[j + 1] = rest[j + 1] + n /\ rest[j] \in Nat /\ rest[j + 1] \in Nat
          /\ OpAt(y, j) = OpAt(x, j)
      BY <1>1, <1>5, <3>1
    <3>3. Cost(OpAt(x, j)) \in Nat \ {0} /\ rest[j] = rest[j + 1] + Cost(OpAt(x, j))
      BY <1>2, <3>1
    <3> QED BY <1>3, <3>2, <3>3
  <2> QED BY <2>1, <2>2
<1>8. ASSUME NEW i \in 0 .. p + 1, NEW j \in 0 .. p + 1, i <= j PROVE more[j] <= more[i]
  <2>1. CASE j = p + 1
    BY <1>6, <2>1
  <2>2. CASE j # p + 1
    <3>1. i \in 0 .. p /\ j \in 0 .. p
      BY <1>1, <1>8, <2>2
    <3>2. rest[j] <= rest[i] /\ more[j] = rest[j] + n /\ more[i] = rest[i] + n /\ rest[i] \in Nat /\ rest[j] \in Nat
      BY <1>2, <1>5, <1>8, <3>1
    <3> QED BY <1>3, <3>2
  <2> QED BY <2>1, <2>2
<1>9. (p + 1) - 1 = p
  BY <1>1
<1>10. Sizes(y, more)
  BY <1>1, <1>6, <1>7, <1>8, <1>9 DEF Sizes
<1> QED BY <1>5, <1>6, <1>10 DEF p, n, more

LEMMA PushTotal ==
  ASSUME NEW x \in Rings, NEW y \in Rings, ~IsFull(x), NEW op, Grown(x, y, op), NEW rest, NEW ctl,
         Sizes(x, rest), Cost(op) \in Nat \ {0}, Total(x, ctl, rest),
         ctl \/ MaxBufs = 1 => Cost(op) = 1,
         ~ctl => Sub(y.next_cdr, y.free_cdr) + (IF IsRequest(op) THEN 0 ELSE 1)
                   = Sub(x.next_cdr, x.free_cdr) + Cost(op)
  PROVE  Total(y, ctl, More(x, rest, Cost(op)))
<1> DEFINE p == Pending(x)
           n == Cost(op)
           more == More(x, rest, n)
<1>1. /\ p \in Nat /\ Pending(y) = p + 1 /\ OpAt(y, p) = op
      /\ \A j \in 0 .. p - 1 : OpAt(y, j) = OpAt(x, j)
  BY PushOpAt
<1>2. more[0] = rest[0] + n /\ rest[0] \in Nat
  <2>1. 0 \in 0 .. p
    BY <1>1
  <2> QED BY <2>1, PushSizes
<1>3. /\ Cardinality(InvOps(y)) = Cardinality(InvOps(x)) + (IF IsRequest(op) THEN 0 ELSE 1)
      /\ Cardinality(InvOps(x)) \in Nat
  BY PushInvs, InvsFinite
<1>4. n = Cost(op) /\ n \in Nat
  OBVIOUS
<1>5. ASSUME ctl \/ MaxBufs = 1
      PROVE  more[0] = p + 1 /\ \A j \in 0 .. p : Cost(OpAt(y, j)) = 1
  <2>1. rest[0] = p /\ n = 1 /\ \A j \in 0 .. p - 1 : Cost(OpAt(x, j)) = 1
    BY <1>5 DEF Total
  <2> HIDE DEF p, n, more
  <2>2. ASSUME NEW j \in 0 .. p PROVE Cost(OpAt(y, j)) = 1
    <3>1. CASE j = p
      BY <1>1, <1>4, <2>1, <3>1
    <3>2. CASE j # p
      <4>1. j \in 0 .. p - 1
        BY <1>1, <3>2
      <4> QED BY <1>1, <2>1, <4>1
    <3> QED BY <3>1, <3>2
  <2> QED BY <1>2, <2>1, <2>2
<1>6. ASSUME ~ctl PROVE more[0] = Sub(y.next_cdr, y.free_cdr) + Cardinality(InvOps(y))
  <2> DEFINE u == Sub(x.next_cdr, x.free_cdr)
             w == Sub(y.next_cdr, y.free_cdr)
  <2>1. u \in Nat /\ w \in Nat
    BY SubCases DEF Rings
  <2>2. rest[0] = u + Cardinality(InvOps(x)) /\ w + (IF IsRequest(op) THEN 0 ELSE 1) = u + n
    BY <1>6 DEF Total
  <2> HIDE DEF u, w, n, more
  <2>3. more[0] = w + Cardinality(InvOps(y))
    BY <1>2, <1>3, <1>4, <2>1, <2>2
  <2> QED BY <2>3 DEF w
<1>7. (p + 1) - 1 = p
  BY <1>1
<1> HIDE DEF p, more
<1>8. Total(y, ctl, more)
  BY <1>1, <1>5, <1>6, <1>7 DEF Total
<1> QED BY <1>8 DEF more

\* Of n descriptors more the engine is told at once, or by sam_cio_enq later.
Told(h, e, h2, e2, n) ==
  /\ h2.cdr = h.cdr /\ h2.rdr = h.rdr
  /\ \/ h2.preps = h.preps /\ h2.cmds = h.cmds /\ e2.rdr = e.rdr + 1 /\ e2.cdr = e.cdr + n
     \/ /\ h2.preps = h.preps + 1 /\ h2.cmds = h.cmds + n
        /\ e.rdr = 0 /\ e.cdr = 0 /\ e2.rdr = 0 /\ e2.cdr = 0

EnqRec == [n: Nat, rdr: Nat, cdr: Nat]

LEMMA PushPlaced ==
  ASSUME NEW x \in Rings, NEW y \in Rings, ~IsFull(x), NEW op, Grown(x, y, op), NEW rest,
         Sizes(x, rest), Cost(op) \in Nat \ {0}, NEW h \in Engines, NEW e \in EnqRec,
         NEW h2 \in Engines, NEW e2 \in EnqRec,
         NEW u, Placed(x, h, e, u, rest), Told(h, e, h2, e2, Cost(op)),
         rest[0] + Cost(op) <= Size
  PROVE  Placed(y, h2, e2, u, More(x, rest, Cost(op)))
<1> DEFINE p == Pending(x)
           n == Cost(op)
           more == More(x, rest, n)
           i == x.next_cdr
<1>1. p \in Nat /\ Pending(y) = p + 1
  BY PushOpAt
<1>2. more[p + 1] = 0 /\ \A j \in 0 .. p : more[j] = rest[j] + n /\ rest[j] \in Nat
  BY PushSizes
<1>3. /\ h.preps \in Nat /\ h.cmds \in Nat /\ e.rdr \in Nat /\ e.cdr \in Nat
      /\ h2.preps \in Nat /\ h2.cmds \in Nat /\ e2.rdr \in Nat /\ e2.cdr \in Nat
  BY DEF Engines, EnqRec
<1>4. /\ u \in Nat /\ p = u + h.preps + e.rdr
      /\ rest[u] = h.cmds + e.cdr /\ rest[u + h.preps] = e.cdr
      /\ h.cdr = Sub(i, rest[u]) /\ h.rdr = Add(x.next_result, u) /\ x.next_rdr = x.next_request
  BY DEF Placed, Back
<1>5. u \in 0 .. p /\ u + h.preps \in 0 .. p /\ 0 \in 0 .. p
  BY <1>1, <1>3, <1>4
<1>6. rest[u] <= rest[0] /\ rest[u] \in Nat /\ more[u] = rest[u] + n /\ rest[0] \in Nat
  BY <1>1, <1>2, <1>5 DEF Sizes
<1>7. i \in Idx /\ y.next_cdr = Add(i, n) /\ y.next_rdr = Add(x.next_rdr, 1)
      /\ y.next_request = Add(x.next_request, 1) /\ y.next_result = x.next_result
  BY DEF Rings, Grown
<1>8. n \in 1 .. Size /\ more[u] \in 1 .. Size /\ more[u] >= n /\ more[u] - n = rest[u] /\ rest[0] + n <= Size
  BY <1>6, Ring
<1> HIDE DEF n, more, p, i
<1>9. Sub(Add(i, n), more[u]) = Sub(i, rest[u])
  BY <1>7, <1>8, BackOn
<1>10. h2.cdr = Back(y, more[u]) /\ h2.rdr = Add(y.next_result, u) /\ y.next_rdr = y.next_request
  BY <1>4, <1>7, <1>9 DEF Back, Told
<1>11. CASE h2.preps = h.preps /\ h2.cmds = h.cmds /\ e2.rdr = e.rdr + 1 /\ e2.cdr = e.cdr + n
  <2>1. Pending(y) = u + h2.preps + e2.rdr
    BY <1>1, <1>3, <1>4, <1>11
  <2>2. more[u] = h2.cmds + e2.cdr /\ more[u + h2.preps] = e2.cdr
    <3>1. more[u + h.preps] = rest[u + h.preps] + n
      BY <1>2, <1>5
    <3> QED BY <1>3, <1>4, <1>6, <1>8, <1>11, <3>1
  <2> QED BY <1>4, <1>10, <2>1, <2>2 DEF Placed, more, n
<1>12. CASE h2.preps = h.preps + 1 /\ h2.cmds = h.cmds + n /\ e.rdr = 0 /\ e.cdr = 0 /\ e2.rdr = 0 /\ e2.cdr = 0
  <2>1. Pending(y) = u + h2.preps + e2.rdr
    BY <1>1, <1>3, <1>4, <1>12
  <2>2. u + h2.preps = p + 1
    BY <1>1, <1>3, <1>4, <1>12
  <2>3. more[u] = h2.cmds + e2.cdr /\ more[u + h2.preps] = e2.cdr
    BY <1>2, <1>3, <1>4, <1>6, <1>8, <1>12, <2>2
  <2> QED BY <1>4, <1>10, <2>1, <2>3 DEF Placed, more, n
<1> QED BY <1>11, <1>12 DEF Told, n

LEMMA PushCommands ==
  ASSUME NEW x \in Rings, NEW y \in Rings, ~IsFull(x), NEW op, Grown(x, y, op), NEW rest,
         Sizes(x, rest), Cost(op) \in Nat \ {0}, NEW u \in 0 .. Pending(x),
         Commands(x, u, rest), rest[0] + Cost(op) <= Size
  PROVE  Commands(y, u, More(x, rest, Cost(op)))
<1> DEFINE p == Pending(x)
           n == Cost(op)
           more == More(x, rest, n)
           i == x.next_cdr
<1>1. /\ p \in Nat /\ Pending(y) = p + 1 /\ OpAt(y, p) = op
      /\ \A j \in 0 .. p - 1 : OpAt(y, j) = OpAt(x, j)
  BY PushOpAt
<1>2. \A j \in 0 .. p : more[j] = rest[j] + n /\ rest[j] \in Nat
  BY PushSizes
<1>3. i \in Idx /\ y.next_cdr = Add(i, n) /\ n = Cost(op) /\ n \in Nat \ {0} /\ u \in 0 .. p
  BY DEF Rings, Grown
<1>4. rest[0] + n <= Size /\ rest[p] = 0 /\ \A j \in 0 .. p : rest[j] <= rest[0]
  <2>1. 0 \in 0 .. p /\ \A j \in 0 .. p : 0 <= j
    BY <1>1
  <2> QED BY <2>1 DEF Sizes
<1>5. n \in 1 .. Size
  BY <1>1, <1>2, <1>3, <1>4, Ring
<1>6. \A l \in Idx : y.cdr[l] = IF Sub(l, i) < n
                               THEN [pkt |-> PktOf(op), first |-> Sub(l, i) = 0, last |-> Sub(l, i) = n - 1]
                               ELSE x.cdr[l]
  BY DEF Grown, Written
<1>7. \A j \in 0 .. p - 1 : Cost(OpAt(x, j)) \in Nat \ {0} /\ rest[j] = rest[j + 1] + Cost(OpAt(x, j))
  BY DEF Sizes
<1>8. \A j \in u .. p - 1 : \A k \in 0 .. Cost(OpAt(x, j)) - 1 :
        x.cdr[Sub(i, rest[j] - k)] =
          [pkt |-> PktOf(OpAt(x, j)), first |-> k = 0, last |-> k = Cost(OpAt(x, j)) - 1]
  BY DEF Commands, Back
<1> HIDE DEF n, more, p, i
<1>9. ASSUME NEW j \in u .. p, NEW k \in 0 .. Cost(OpAt(y, j)) - 1
      PROVE  y.cdr[Sub(Add(i, n), more[j] - k)] =
               [pkt |-> PktOf(OpAt(y, j)), first |-> k = 0, last |-> k = Cost(OpAt(y, j)) - 1]
  <2> DEFINE l == Sub(Add(i, n), more[j] - k)
  <2>1. CASE j = p
    <3>1. OpAt(y, j) = op /\ k \in 0 .. n - 1 /\ more[j] = n
      BY <1>1, <1>2, <1>3, <1>4, <1>9, <2>1
    <3>2. n - k \in 1 .. Size /\ n - k <= n /\ n - k \in 0 .. Size
      BY <1>5, <3>1, Ring
    <3>3. Add(i, n) \in Idx /\ Sub(Sub(Add(i, n), n - k), i) = n - (n - k)
      BY <1>3, <1>5, <3>2, BackOn
    <3>4. l \in Idx /\ Sub(l, i) = k
      <4>1. Sub(Add(i, n), n - k) \in Idx
        BY <3>2, <3>3, BackIs
      <4> QED BY <1>3, <3>1, <3>3, <4>1
    <3> HIDE DEF l
    <3>5. k < n
      BY <1>3, <3>1
    <3>6. y.cdr[l] = [pkt |-> PktOf(op), first |-> k = 0, last |-> k = n - 1]
      BY <1>6, <3>4, <3>5
    <3> QED BY <1>3, <3>1, <3>6 DEF l
  <2>2. CASE j # p
    <3>1. j \in u .. p - 1 /\ j \in 0 .. p - 1 /\ j \in 0 .. p /\ j + 1 \in 0 .. p
      BY <1>1, <1>3, <2>2
    <3>2. OpAt(y, j) = OpAt(x, j) /\ more[j] = rest[j] + n /\ rest[j] \in Nat /\ rest[j + 1] \in Nat
      BY <1>1, <1>2, <3>1
    <3> DEFINE m == rest[j] - k
    <3>3. m \in 1 .. rest[j] /\ more[j] - k = m + n
      <4>1. Cost(OpAt(x, j)) \in Nat \ {0} /\ rest[j] = rest[j + 1] + Cost(OpAt(x, j))
            /\ k \in 0 .. Cost(OpAt(x, j)) - 1
        BY <1>7, <3>1, <3>2
      <4> QED BY <1>3, <3>2, <4>1
    <3>4. rest[j] <= rest[0] /\ rest[0] \in Nat
      BY <1>1, <1>2, <1>4, <3>1
    <3> HIDE DEF m
    <3>5. m + n \in 1 .. Size /\ m + n > n /\ m + n >= n /\ (m + n) - n = m /\ m + n \in 0 .. Size
      <4> DEFINE r == rest[j]
                 t == rest[0]
      <4>1. /\ m \in 1 .. r /\ r \in Nat /\ t \in Nat /\ r <= t /\ t + n <= Size /\ n \in Nat \ {0}
            /\ Size \in Nat
        BY <1>3, <1>4, <3>2, <3>3, <3>4, Ring
      <4> HIDE DEF r, t
      <4> QED BY <4>1
    <3>6. Add(i, n) \in Idx /\ Sub(Add(i, n), m + n) = Sub(i, m) /\ ~(Sub(Sub(Add(i, n), m + n), i) < n)
      BY <1>3, <1>5, <3>5, BackOn
    <3>7. l \in Idx /\ l = Sub(i, m) /\ ~(Sub(l, i) < n)
      BY <3>3, <3>5, <3>6, BackIs
    <3> HIDE DEF l
    <3>8. y.cdr[l] = x.cdr[Sub(i, m)]
      BY <1>6, <3>7
    <3> QED BY <1>8, <3>1, <3>2, <3>8 DEF l, m
  <2> QED BY <2>1, <2>2
<1>10. (p + 1) - 1 = p
  BY <1>1
<1>11. Commands(y, u, more)
  BY <1>1, <1>3, <1>9, <1>10 DEF Commands, Back
<1> QED BY <1>11 DEF more, n

LEMMA PushResults ==
  ASSUME NEW x \in Rings, NEW y \in Rings, ~IsFull(x), NEW op, Grown(x, y, op),
         NEW u \in 0 .. Pending(x), Results(x, u), x.next_rdr = x.next_request
  PROVE  Results(y, u)
<1> DEFINE p == Pending(x)
           b == x.next_result
<1>1. /\ p \in Nat /\ p + 1 < Size /\ u \in 0 .. p /\ Add(b, p) = x.next_request
      /\ \A j \in 0 .. p - 1 : OpAt(y, j) = OpAt(x, j)
  BY PushOpAt
<1>2. y.next_result = b /\ b \in Idx /\ x.rdr \in [Idx -> Pkts]
      /\ y.rdr = [x.rdr EXCEPT ![Add(b, p)] = NoPkt]
  BY <1>1 DEF Rings, Grown
<1>3. \A j \in 0 .. u - 1 : x.rdr[Add(b, j)] = PktOf(OpAt(x, j))
  BY DEF Results
<1> HIDE DEF p, b
<1>4. ASSUME NEW j \in 0 .. u - 1 PROVE y.rdr[Add(b, j)] = PktOf(OpAt(y, j))
  <2>1. j \in Idx /\ p \in Idx /\ j # p /\ j \in 0 .. p - 1
    BY <1>1, Ring
  <2>2. Add(b, j) \in Idx /\ Add(b, j) # Add(b, p)
    BY ONLY <1>2, <2>1, AheadApart
  <2> QED BY <1>1, <1>2, <1>3, <2>1, <2>2
<1> QED BY <1>2, <1>4 DEF Results

\* There is room in ring x.
RoomIn(x, ctl) == ctl \/ MaxBufs = 1 \/ Cardinality(InvOps(x)) <= FreeCdr(x)

\* Then the descriptors of the operations in flight fit in it.
LEMMA Fits ==
  ASSUME NEW x \in Rings, NEW ctl, NEW rest, Sizes(x, rest), Total(x, ctl, rest), RoomIn(x, ctl)
  PROVE  rest[0] <= Size /\ Pending(x) \in Nat /\ Pending(x) < Size
<1>1. Pending(x) \in Nat /\ Pending(x) < Size
  BY SubCases DEF Pending, Rings
<1>2. CASE ctl \/ MaxBufs = 1
  <2>1. rest[0] = Pending(x)
    BY <1>2 DEF Total
  <2> QED BY <1>1, <2>1, Ring
<1>3. CASE ~(ctl \/ MaxBufs = 1)
  <2> DEFINE f == FreeCdr(x)
             s == Sub(x.next_cdr, x.free_cdr)
             i == Cardinality(InvOps(x))
  <2>1. f = Size - s /\ s \in Nat /\ f \in 1 .. Size
    BY FreeIs
  <2>2. i \in Nat
    BY InvsFinite
  <2>3. rest[0] = s + i
    BY <1>3 DEF Total
  <2>4. i <= f
    BY <1>3 DEF RoomIn
  <2> HIDE DEF f, s, i
  <2>5. rest[0] <= Size
    BY <2>1, <2>2, <2>3, <2>4, Ring
  <2> QED BY <1>1, <2>5
<1> QED BY <1>2, <1>3

LEMMA PushLine ==
  ASSUME NEW x \in Rings, NEW y \in Rings, ~IsFull(x), NEW op, Grown(x, y, op), NEW rest,
         NEW h \in Engines, NEW e \in EnqRec, NEW h2 \in Engines, NEW e2 \in EnqRec, NEW u, NEW ctl,
         Line(x, h, e, u, ctl, rest), Told(h, e, h2, e2, Cost(op)), Cost(op) \in Nat \ {0},
         ctl \/ MaxBufs = 1 => Cost(op) = 1,
         ~ctl => Sub(y.next_cdr, y.free_cdr) + (IF IsRequest(op) THEN 0 ELSE 1)
                   = Sub(x.next_cdr, x.free_cdr) + Cost(op),
         RoomIn(y, ctl)
  PROVE  \E more : Line(y, h2, e2, u, ctl, more)
<1> DEFINE more == More(x, rest, Cost(op))
<1>1. /\ Sizes(x, rest) /\ Total(x, ctl, rest) /\ Placed(x, h, e, u, rest)
      /\ Commands(x, u, rest) /\ Results(x, u)
  BY DEF Line
<1>2. Sizes(y, more)
  BY <1>1, PushSizes
<1>3. Total(y, ctl, more)
  BY <1>1, PushTotal
<1>4. rest[0] + Cost(op) <= Size
  <2>1. more[0] <= Size
    BY ONLY <1>2, <1>3, y \in Rings, RoomIn(y, ctl), Fits
  <2>2. 0 \in 0 .. Pending(x)
    BY PushOpAt
  <2>3. more[0] = rest[0] + Cost(op)
    BY <1>1, <2>2, PushSizes
  <2> QED BY <2>1, <2>3
<1>5. Placed(y, h2, e2, u, more)
  BY <1>1, <1>4, PushPlaced
<1>6. u \in 0 .. Pending(x) /\ x.next_rdr = x.next_request
  <2>1. u \in Nat /\ Pending(x) = u + h.preps + e.rdr /\ x.next_rdr = x.next_request
    BY <1>1 DEF Placed
  <2>2. h.preps \in Nat /\ e.rdr \in Nat
    BY DEF Engines, EnqRec
  <2> QED BY <2>1, <2>2
<1>7. Commands(y, u, more)
  BY <1>1, <1>4, <1>6, PushCommands
<1>8. Results(y, u)
  BY <1>1, <1>6, PushResults
<1> HIDE DEF more
<1>9. Line(y, h2, e2, u, ctl, more)
  BY <1>2, <1>3, <1>5, <1>7, <1>8 DEF Line
<1> QED BY <1>9

-----------------------------------------------------------------------------
(* The first operation is retired *)

Shrunk(x, y) ==
  /\ y.next_request = x.next_request /\ y.next_result = Add(x.next_result, 1)
  /\ y.ops = x.ops /\ y.next_cdr = x.next_cdr /\ y.next_rdr = x.next_rdr
  /\ y.cdr = x.cdr /\ y.rdr = x.rdr
  /\ y.free_cdr = LET op == x.ops[x.next_result]
                  IN IF IsRequest(op) THEN Add(x.free_cdr, op.bufs_in) ELSE x.free_cdr

LEMMA PopOpAt ==
  ASSUME NEW x \in Rings, NEW y \in Rings, Pending(x) > 0, Shrunk(x, y)
  PROVE  /\ Pending(x) \in Nat /\ Pending(x) < Size /\ Pending(y) = Pending(x) - 1
         /\ \A j \in 0 .. Pending(x) - 2 : /\ OpAt(y, j) = OpAt(x, j + 1)
                                           /\ Add(y.next_result, j) = Add(x.next_result, j + 1)
         /\ OpAt(x, 0) = x.ops[x.next_result]
<1> DEFINE p == Pending(x)
           b == x.next_result
<1>1. b \in Idx /\ x.next_request \in Idx /\ 0 \in Nat
  BY DEF Rings
<1>2. p \in Nat /\ p > 0 /\ p < Size /\ Pending(y) = p - 1
  BY <1>1, PopIdx, SubCases DEF Pending, Shrunk
<1>3. Add(b, 0) = b
  BY <1>1, AddTyped
<1> HIDE DEF p, b
<1>4. ASSUME NEW j \in 0 .. p - 2 PROVE Add(Add(b, 1), j) = Add(b, j + 1)
  <2>1. j \in Idx /\ j + 1 \in Idx
    BY <1>2, Ring
  <2> QED BY ONLY <1>1, <2>1, AheadApart
<1>5. y.next_result = Add(b, 1) /\ y.ops = x.ops
  BY DEF Shrunk, b
<1>6. \A j \in 0 .. p - 2 : OpAt(y, j) = OpAt(x, j + 1) /\ Add(y.next_result, j) = Add(b, j + 1)
  BY <1>4, <1>5 DEF OpAt, b
<1>7. OpAt(x, 0) = x.ops[b]
  BY <1>3 DEF OpAt, b
<1> QED BY <1>2, <1>6, <1>7 DEF p, b

LEMMA PopInvs ==
  ASSUME NEW x \in Rings, NEW y \in Rings, Pending(x) > 0, Shrunk(x, y)
  PROVE  Cardinality(InvOps(x)) = Cardinality(InvOps(y)) + (IF IsRequest(OpAt(x, 0)) THEN 0 ELSE 1)
<1> DEFINE b == x.next_result
<1>1. InFlight(y) = InFlight(x) \ {b} /\ b \in InFlight(x)
  BY PopIdx DEF Shrunk, Rings
<1>2. y.ops = x.ops /\ OpAt(x, 0) = x.ops[b]
  BY PopOpAt DEF Shrunk
<1>3. /\ IsFiniteSet(InvOps(y)) /\ Cardinality(InvOps(y)) \in Nat
      /\ Cardinality(InvOps(x)) \in Nat
  BY InvsFinite
<1>4. CASE IsRequest(x.ops[b])
  <2>1. InvOps(y) = InvOps(x)
    BY <1>1, <1>2, <1>4 DEF InvOps
  <2> QED BY <1>2, <1>3, <1>4, <2>1
<1>5. CASE ~IsRequest(x.ops[b])
  <2>1. InvOps(x) = InvOps(y) \cup {b} /\ b \notin InvOps(y)
    BY <1>1, <1>2, <1>5 DEF InvOps
  <2> HIDE DEF b
  <2>2. Cardinality(InvOps(y) \cup {b}) = Cardinality(InvOps(y)) + 1
    BY <1>3, <2>1, FS_AddElement
  <2> QED BY <1>2, <1>5, <2>1, <2>2
<1> QED BY <1>4, <1>5

Fewer(x, rest) == [j \in 0 .. Pending(x) - 1 |-> rest[j + 1]]

LEMMA PopSizes ==
  ASSUME NEW x \in Rings, NEW y \in Rings, Pending(x) > 0, Shrunk(x, y), NEW rest, Sizes(x, rest)
  PROVE  /\ Sizes(y, Fewer(x, rest))
         /\ \A j \in 0 .. Pending(x) - 1 : Fewer(x, rest)[j] = rest[j + 1]
<1> DEFINE p == Pending(x)
           less == Fewer(x, rest)
<1>1. /\ p \in Nat /\ p > 0 /\ Pending(y) = p - 1
      /\ \A j \in 0 .. p - 2 : OpAt(y, j) = OpAt(x, j + 1)
  BY PopOpAt
<1>2. /\ rest \in [0 .. p -> Nat] /\ rest[p] = 0
      /\ \A j \in 0 .. p - 1 : Cost(OpAt(x, j)) \in Nat \ {0} /\ rest[j] = rest[j + 1] + Cost(OpAt(x, j))
      /\ \A i, j \in 0 .. p : i <= j => rest[j] <= rest[i]
  BY DEF Sizes
<1>3. less = [j \in 0 .. p - 1 |-> rest[j + 1]]
  BY DEF Fewer
<1> HIDE DEF p, less
<1>4. \A j \in 0 .. p - 1 : less[j] = rest[j + 1] /\ rest[j + 1] \in Nat
  BY <1>1, <1>2, <1>3
<1>5. less \in [0 .. p - 1 -> Nat] /\ less[p - 1] = 0
  <2>1. p - 1 \in 0 .. p - 1 /\ (p - 1) + 1 = p
    BY <1>1
  <2> QED BY <1>2, <1>3, <1>4, <2>1
<1>6. ASSUME NEW j \in 0 .. (p - 1) - 1
      PROVE  Cost(OpAt(y, j)) \in Nat \ {0} /\ less[j] = less[j + 1] + Cost(OpAt(y, j))
  <2>1. j \in 0 .. p - 2 /\ j \in 0 .. p - 1 /\ j + 1 \in 0 .. p - 1
    BY <1>1
  <2>2. /\ Cost(OpAt(x, j + 1)) \in Nat \ {0}
        /\ rest[j + 1] = rest[(j + 1) + 1] + Cost(OpAt(x, j + 1))
    BY <1>2, <2>1
  <2> QED BY <1>1, <1>4, <2>1, <2>2
<1>7. ASSUME NEW i \in 0 .. p - 1, NEW j \in 0 .. p - 1, i <= j PROVE less[j] <= less[i]
  <2>1. i + 1 \in 0 .. p /\ j + 1 \in 0 .. p /\ i + 1 <= j + 1
    BY <1>1, <1>7
  <2> QED BY <1>2, <1>4, <2>1
<1>8. Sizes(y, less)
  BY <1>1, <1>5, <1>6, <1>7 DEF Sizes
<1> QED BY <1>4, <1>8 DEF p, less

LEMMA PopTotal ==
  ASSUME NEW x \in Rings, NEW y \in Rings, Pending(x) > 0, Shrunk(x, y), NEW rest, NEW ctl,
         Sizes(x, rest), Total(x, ctl, rest), ~ctl => Taken(x)
  PROVE  Total(y, ctl, Fewer(x, rest))
<1> DEFINE p == Pending(x)
           less == Fewer(x, rest)
           op == OpAt(x, 0)
<1>1. /\ p \in Nat /\ p > 0 /\ Pending(y) = p - 1
      /\ \A j \in 0 .. p - 2 : OpAt(y, j) = OpAt(x, j + 1)
      /\ op = x.ops[x.next_result]
  BY PopOpAt
<1>2. less[0] = rest[1] /\ rest[0] = rest[1] + Cost(op) /\ Cost(op) \in Nat \ {0} /\ rest[1] \in Nat
  <2>1. 0 \in 0 .. p - 1 /\ 0 + 1 = 1 /\ 1 \in 0 .. p
    BY <1>1
  <2>2. less[0] = rest[0 + 1]
    BY <2>1, PopSizes
  <2>3. rest[0] = rest[0 + 1] + Cost(op) /\ Cost(op) \in Nat \ {0} /\ rest[1] \in Nat
    BY <2>1 DEF Sizes
  <2> QED BY <2>1, <2>2, <2>3
<1>3. ASSUME ctl \/ MaxBufs = 1
      PROVE  less[0] = p - 1 /\ \A j \in 0 .. (p - 1) - 1 : Cost(OpAt(y, j)) = 1
  <2>1. rest[0] = p /\ \A j \in 0 .. p - 1 : Cost(OpAt(x, j)) = 1
    BY <1>3 DEF Total
  <2>2. 0 \in 0 .. p - 1
    BY <1>1
  <2>3. Cost(op) = 1
    BY <2>1, <2>2
  <2> HIDE DEF p, less, op
  <2>4. ASSUME NEW j \in 0 .. (p - 1) - 1 PROVE Cost(OpAt(y, j)) = 1
    <3>1. j \in 0 .. p - 2 /\ j + 1 \in 0 .. p - 1
      BY <1>1
    <3> QED BY <1>1, <2>1, <3>1
  <2> QED BY <1>1, <1>2, <2>1, <2>3, <2>4
<1>4. ASSUME ~ctl PROVE less[0] = Sub(y.next_cdr, y.free_cdr) + Cardinality(InvOps(y))
  <2> DEFINE s == Sub(x.next_cdr, x.free_cdr)
             t == Sub(y.next_cdr, y.free_cdr)
             i == Cardinality(InvOps(x))
             l == Cardinality(InvOps(y))
  <2>1. i = l + (IF IsRequest(op) THEN 0 ELSE 1) /\ l \in Nat
    BY PopInvs, InvsFinite
  <2>2. rest[0] = s + i
    BY <1>4 DEF Total
  <2>3. s \in Nat
    BY FreeIs
  <2>4. CASE ~IsRequest(op)
    <3>1. t = s /\ Cost(op) = 1
      BY <1>1, <2>4 DEF Shrunk, Cost
    <3> HIDE DEF less, op, s, t, i, l
    <3>2. less[0] = t + l
      BY <1>2, <2>1, <2>2, <2>3, <2>4, <3>1
    <3> QED BY <3>2 DEF t, l
  <2>5. CASE IsRequest(op)
    <3>1. PICK rs \in [0 .. p -> Nat] :
            /\ \A j \in 0 .. p - 1 : rs[j] = rs[j + 1] + Bufs(x, j)
            /\ rs[0] = s
      BY <1>4 DEF Taken
    <3>2. Bufs(x, 0) = Cost(op)
      BY <2>5 DEF Bufs, OpAt, Cost
    <3>3. Cost(op) <= s
      <4>1. 0 \in 0 .. p - 1 /\ 0 + 1 = 1 /\ 1 \in 0 .. p
        BY <1>1
      <4>2. rs[0] = rs[1] + Cost(op) /\ rs[1] \in Nat
        BY <3>1, <3>2, <4>1
      <4> QED BY <1>2, <3>1, <4>2
    <3>4. t = s - Cost(op)
      <4>1. /\ y.next_cdr = x.next_cdr /\ y.free_cdr = Add(x.free_cdr, Cost(op))
            /\ x.next_cdr \in Idx /\ x.free_cdr \in Idx
        BY <1>1, <2>5 DEF Shrunk, Cost, Rings
      <4> QED BY <1>2, <3>3, <4>1, GiveBack
    <3> HIDE DEF less, op, s, t, i, l
    <3>5. less[0] = t + l
      BY <1>2, <2>1, <2>2, <2>3, <2>5, <3>3, <3>4
    <3> QED BY <3>5 DEF t, l
  <2> QED BY <2>4, <2>5
<1> HIDE DEF p, less
<1>5. Total(y, ctl, less)
  BY <1>1, <1>3, <1>4 DEF Total
<1> QED BY <1>5 DEF less

\* The result that is read is the first; the engine stays where it is.
LEMMA PopLine ==
  ASSUME NEW x \in Rings, NEW y \in Rings, Pending(x) > 0, Shrunk(x, y), NEW rest,
         NEW h \in Engines, NEW e \in EnqRec, NEW u \in Nat \ {0}, NEW ctl,
         Line(x, h, e, u, ctl, rest), ~ctl => Taken(x)
  PROVE  \E less : Line(y, h, e, u - 1, ctl, less)
<1> DEFINE p == Pending(x)
           b == x.next_result
           less == Fewer(x, rest)
<1>1. /\ p \in Nat /\ p > 0 /\ p < Size /\ Pending(y) = p - 1
      /\ \A j \in 0 .. p - 2 : OpAt(y, j) = OpAt(x, j + 1) /\ Add(y.next_result, j) = Add(b, j + 1)
  BY PopOpAt
<1>2. /\ Sizes(x, rest) /\ Total(x, ctl, rest) /\ Placed(x, h, e, u, rest)
      /\ Commands(x, u, rest) /\ Results(x, u)
  BY DEF Line
<1>3. Sizes(y, less) /\ \A j \in 0 .. p - 1 : less[j] = rest[j + 1]
  BY <1>2, PopSizes
<1>4. Total(y, ctl, less)
  BY <1>2, PopTotal
<1>5. /\ y.next_cdr = x.next_cdr /\ y.next_rdr = x.next_rdr /\ y.next_request = x.next_request
      /\ y.cdr = x.cdr /\ y.rdr = x.rdr /\ y.next_result = Add(b, 1) /\ b \in Idx
  BY DEF Shrunk, Rings
<1>6. h.preps \in Nat /\ e.rdr \in Nat
  BY DEF Engines, EnqRec
<1>7. /\ p = u + h.preps + e.rdr /\ rest[u] = h.cmds + e.cdr /\ rest[u + h.preps] = e.cdr
      /\ h.cdr = Sub(x.next_cdr, rest[u]) /\ h.rdr = Add(b, u) /\ x.next_rdr = x.next_request
  BY <1>2 DEF Placed, Back
<1>8. \A j \in u .. p - 1 : \A k \in 0 .. Cost(OpAt(x, j)) - 1 :
        x.cdr[Sub(x.next_cdr, rest[j] - k)] =
          [pkt |-> PktOf(OpAt(x, j)), first |-> k = 0, last |-> k = Cost(OpAt(x, j)) - 1]
  BY <1>2 DEF Commands, Back
<1>9. \A j \in 0 .. u - 1 : x.rdr[Add(b, j)] = PktOf(OpAt(x, j))
  BY <1>2 DEF Results
<1>10. SUFFICES Line(y, h, e, u - 1, ctl, less)
  OBVIOUS
<1> HIDE DEF p, b, less
<1>11. Placed(y, h, e, u - 1, less)
  <2>1. u - 1 \in Nat /\ p - 1 = (u - 1) + h.preps + e.rdr
    BY <1>6, <1>7
  <2>2. u - 1 \in 0 .. p - 1 /\ (u - 1) + 1 = u
    BY <1>6, <1>7
  <2>3. (u - 1) + h.preps \in 0 .. p - 1 /\ ((u - 1) + h.preps) + 1 = u + h.preps
    BY <1>6, <1>7
  <2>4. less[u - 1] = rest[u] /\ less[(u - 1) + h.preps] = rest[u + h.preps]
    BY <1>3, <2>2, <2>3
  <2>5. Add(Add(b, 1), u - 1) = Add(b, u)
    <3>1. u - 1 \in Idx /\ (u - 1) + 1 \in Idx
      BY <1>1, <2>2, Ring
    <3>2. Add(Add(b, 1), u - 1) = Add(b, (u - 1) + 1)
      BY ONLY <1>5, <3>1, AheadApart
    <3> QED BY <2>2, <3>2
  <2> QED BY <1>1, <1>5, <1>7, <2>1, <2>4, <2>5 DEF Placed, Back
<1>12. Commands(y, u - 1, less)
  <2>1. ASSUME NEW j \in u - 1 .. (p - 1) - 1, NEW k \in 0 .. Cost(OpAt(y, j)) - 1
        PROVE  x.cdr[Sub(x.next_cdr, less[j] - k)] =
                 [pkt |-> PktOf(OpAt(y, j)), first |-> k = 0, last |-> k = Cost(OpAt(y, j)) - 1]
    <3>1. j + 1 \in u .. p - 1 /\ j \in 0 .. p - 2 /\ j \in 0 .. p - 1
      BY <1>1
    <3>2. OpAt(y, j) = OpAt(x, j + 1) /\ less[j] = rest[j + 1]
      BY <1>1, <1>3, <3>1
    <3> QED BY <1>8, <3>1, <3>2
  <2> QED BY <1>1, <1>5, <2>1 DEF Commands, Back
<1>13. Results(y, u - 1)
  <2>1. ASSUME NEW j \in 0 .. (u - 1) - 1 PROVE x.rdr[Add(y.next_result, j)] = PktOf(OpAt(y, j))
    <3>1. j \in 0 .. p - 2 /\ j + 1 \in 0 .. u - 1
      BY <1>6, <1>7
    <3> QED BY <1>1, <1>9, <3>1
  <2> QED BY <1>5, <2>1 DEF Results
<1> QED BY <1>3, <1>4, <1>11, <1>12, <1>13 DEF Line

-----------------------------------------------------------------------------
(* The engine is told of what was added *)

LEMMA SubmitLine ==
  ASSUME NEW x \in Rings, NEW h \in Engines, NEW e \in EnqRec, NEW h2, NEW e2, NEW u, NEW ctl, NEW rest,
         Line(x, h, e, u, ctl, rest), h2.cdr = h.cdr, h2.rdr = h.rdr, h2.preps = h.preps + e.rdr,
         h2.cmds = h.cmds + e.cdr, e2.rdr = 0, e2.cdr = 0
  PROVE  Line(x, h2, e2, u, ctl, rest)
<1>1. Placed(x, h, e, u, rest) /\ rest[Pending(x)] = 0
  BY DEF Line, Sizes
<1>2. h.preps \in Nat /\ h.cmds \in Nat /\ e.rdr \in Nat /\ e.cdr \in Nat
  BY DEF Engines, EnqRec
<1>3. u \in Nat /\ Pending(x) = u + h.preps + e.rdr /\ rest[u] = h.cmds + e.cdr
  BY <1>1 DEF Placed
<1>4. u + h2.preps = Pending(x) /\ Pending(x) = u + h2.preps + e2.rdr /\ rest[u] = h2.cmds + e2.cdr
  BY <1>2, <1>3
<1>5. Placed(x, h2, e2, u, rest)
  BY <1>1, <1>3, <1>4 DEF Placed
<1> QED BY <1>5 DEF Line

-----------------------------------------------------------------------------
(* The engine processes a packet *)

\* The first packet the engine has been told of is the next operation's.
LEMMA FirstPacket ==
  ASSUME NEW x \in Rings, NEW h \in Engines, NEW e \in EnqRec, NEW u, NEW ctl, NEW rest,
         Line(x, h, e, u, ctl, rest), RoomIn(x, ctl), h.preps > 0
  PROVE  LET n == Cost(OpAt(x, u))
             ends == {l \in 1 .. h.cmds : x.cdr[Add(h.cdr, l - 1)].last}
         IN /\ n \in Nat \ {0} /\ n \in ends /\ \A o \in ends : n <= o
            /\ x.cdr[h.cdr].pkt = PktOf(OpAt(x, u))
            /\ Add(h.cdr, n) = Back(x, rest[u + 1]) /\ rest[u + 1] = (h.cmds - n) + e.cdr
<1> DEFINE p == Pending(x)
           i == x.next_cdr
           n == Cost(OpAt(x, u))
           r == rest[u]
           ends == {l \in 1 .. h.cmds : x.cdr[Add(h.cdr, l - 1)].last}
<1>1. /\ Sizes(x, rest) /\ Total(x, ctl, rest) /\ Placed(x, h, e, u, rest) /\ Commands(x, u, rest)
  BY DEF Line
<1>2. rest[0] <= Size /\ p \in Nat /\ p < Size
  BY <1>1, Fits
<1>3. h.preps \in Nat /\ h.cmds \in Nat /\ e.rdr \in Nat /\ e.cdr \in Nat /\ i \in Idx
  BY DEF Engines, EnqRec, Rings
<1>4. /\ u \in Nat /\ p = u + h.preps + e.rdr /\ r = h.cmds + e.cdr /\ rest[u + h.preps] = e.cdr
      /\ h.cdr = Sub(i, r)
  BY <1>1 DEF Placed, Back
<1>5. u \in 0 .. p - 1 /\ u \in 0 .. p /\ u + 1 \in 0 .. p /\ u + h.preps \in 0 .. p /\ 0 \in 0 .. p
      /\ 0 <= u /\ u + 1 <= u + h.preps /\ u \in u .. p - 1
  BY <1>2, <1>3, <1>4
<1>6. /\ n \in Nat \ {0} /\ r = rest[u + 1] + n /\ rest[u + h.preps] <= rest[u + 1] /\ r <= rest[0]
      /\ rest[u + 1] \in Nat /\ rest[0] \in Nat
  BY <1>1, <1>5 DEF Sizes
<1>7. \A k \in 0 .. n - 1 : x.cdr[Sub(i, r - k)] =
          [pkt |-> PktOf(OpAt(x, u)), first |-> k = 0, last |-> k = n - 1]
  BY <1>1, <1>5 DEF Commands, Back
<1>15. ASSUME NEW k \in 0 .. n - 1
       PROVE  /\ x.cdr[Sub(i, r - k)].pkt = PktOf(OpAt(x, u))
              /\ x.cdr[Sub(i, r - k)].last <=> k = n - 1
  <2> HIDE DEF n, r, i
  <2> DEFINE pkt == PktOf(OpAt(x, u))
             first == k = 0
             last == k = n - 1
             d == x.cdr[Sub(i, r - k)]
  <2>1. d = [pkt |-> pkt, first |-> first, last |-> last]
    BY <1>7
  <2> HIDE DEF pkt, first, last, d
  <2>2. d.pkt = pkt /\ d.last = last
    BY <2>1
  <2> QED BY <2>2 DEF pkt, last, d
<1> SUFFICES /\ n \in Nat \ {0} /\ n \in ends /\ \A o \in ends : n <= o
             /\ x.cdr[h.cdr].pkt = PktOf(OpAt(x, u))
             /\ Add(h.cdr, n) = Back(x, rest[u + 1]) /\ rest[u + 1] = (h.cmds - n) + e.cdr
  BY DEF Back
<1> HIDE DEF p, i, n, r
<1>8. r \in 0 .. Size /\ n \in 0 .. r /\ n <= h.cmds
  <2> DEFINE t == rest[u + 1]
             z == rest[0]
  <2>1. /\ n \in Nat /\ r = t + n /\ e.cdr <= t /\ r <= z /\ t \in Nat /\ z \in Nat /\ z <= Size
        /\ r = h.cmds + e.cdr
    BY <1>2, <1>4, <1>6
  <2> HIDE DEF t, z
  <2> QED BY <1>3, <2>1, Ring
<1>9. ASSUME NEW l \in 1 .. n PROVE x.cdr[Add(h.cdr, l - 1)].last <=> l = n
  <2>1. l - 1 \in 0 .. n - 1 /\ l - 1 \in 0 .. r
    BY <1>6, <1>8
  <2>2. Add(Sub(i, r), l - 1) = Sub(i, r - (l - 1))
    BY ONLY <1>3, <1>8, <2>1, BackAhead
  <2>3. x.cdr[Add(h.cdr, l - 1)].last <=> l - 1 = n - 1
    BY <1>4, <1>15, <2>1, <2>2
  <2>4. l - 1 = n - 1 <=> l = n
    BY <1>6
  <2> QED BY <2>3, <2>4
<1>10. n \in ends
  <2>1. n \in 1 .. n /\ n \in 1 .. h.cmds
    BY <1>3, <1>6, <1>8
  <2> QED BY <1>9, <2>1
<1>11. ASSUME NEW o \in ends PROVE n <= o
  <2>1. o \in 1 .. h.cmds /\ x.cdr[Add(h.cdr, o - 1)].last
    OBVIOUS
  <2>2. ASSUME ~(n <= o) PROVE FALSE
    <3>1. o \in 1 .. n /\ o # n
      BY <1>6, <2>1, <2>2
    <3> QED BY <1>9, <2>1, <3>1
  <2> QED BY <2>2
<1>12. x.cdr[h.cdr].pkt = PktOf(OpAt(x, u))
  <2>1. 0 \in 0 .. n - 1 /\ r - 0 = r
    BY <1>6, <1>8
  <2>2. x.cdr[Sub(i, r - 0)].pkt = PktOf(OpAt(x, u))
    BY <1>15, <2>1
  <2> QED BY <1>4, <2>1, <2>2
<1>13. Add(h.cdr, n) = Back(x, rest[u + 1])
  <2>1. Add(Sub(i, r), n) = Sub(i, r - n)
    BY ONLY <1>3, <1>8, BackAhead
  <2>2. r - n = rest[u + 1]
    BY <1>6
  <2> QED BY <1>4, <2>1, <2>2 DEF Back, i
<1>14. rest[u + 1] = (h.cmds - n) + e.cdr
  BY <1>3, <1>4, <1>6
<1> QED BY <1>6, <1>10, <1>11, <1>12, <1>13, <1>14

LEMMA ProcessLine ==
  ASSUME NEW x \in Rings, NEW h \in Engines, NEW e \in EnqRec, NEW u, NEW ctl, NEW rest,
         Line(x, h, e, u, ctl, rest), RoomIn(x, ctl), h.preps > 0,
         NEW y \in Rings, NEW h2 \in Engines, NEW len,
         y.next_request = x.next_request, y.next_result = x.next_result, y.ops = x.ops,
         y.next_cdr = x.next_cdr, y.free_cdr = x.free_cdr, y.next_rdr = x.next_rdr, y.cdr = x.cdr,
         y.rdr = [x.rdr EXCEPT ![h.rdr] = x.cdr[h.cdr].pkt], len = Cost(OpAt(x, u)),
         h2.cdr = Add(h.cdr, len), h2.rdr = Add(h.rdr, 1), h2.cmds = h.cmds - len,
         h2.preps = h.preps - 1
  PROVE  Line(y, h2, e, u + 1, ctl, rest)
<1> DEFINE p == Pending(x)
           b == x.next_result
           op == OpAt(x, u)
<1>1. /\ Sizes(x, rest) /\ Total(x, ctl, rest) /\ Placed(x, h, e, u, rest)
      /\ Commands(x, u, rest) /\ Results(x, u)
  BY DEF Line
<1>2. p \in Nat /\ p < Size
  BY <1>1, Fits
<1>3. /\ Pending(y) = p /\ InFlight(y) = InFlight(x) /\ InvOps(y) = InvOps(x)
      /\ \A j : OpAt(y, j) = OpAt(x, j) /\ Add(y.next_result, j) = Add(b, j)
      /\ \A k : Back(y, k) = Back(x, k)
  BY DEF Pending, InFlight, InvOps, OpAt, Back
<1>4. Sizes(y, rest) /\ Total(y, ctl, rest)
  BY <1>1, <1>3 DEF Sizes, Total
<1>5. h.preps \in Nat /\ e.rdr \in Nat /\ b \in Idx /\ x.rdr \in [Idx -> Pkts]
  BY DEF Engines, EnqRec, Rings
<1>6. /\ u \in Nat /\ p = u + h.preps + e.rdr /\ rest[u + h.preps] = e.cdr
      /\ h.rdr = Add(b, u) /\ x.next_rdr = x.next_request
  BY <1>1 DEF Placed
<1>7. u \in Idx /\ u + 1 \in Idx
  BY <1>2, <1>5, <1>6, Ring
<1>8. Add(Add(b, u), 1) = Add(b, u + 1) /\ Add(b, u) \in Idx
  BY ONLY <1>5, <1>7, AheadApart
<1>9. x.cdr[h.cdr].pkt = PktOf(op) /\ Add(h.cdr, len) = Back(x, rest[u + 1]) /\ rest[u + 1] = (h.cmds - len) + e.cdr
  BY FirstPacket
<1>10. Placed(y, h2, e, u + 1, rest)
  <2>1. u + 1 \in Nat /\ p = (u + 1) + h2.preps + e.rdr /\ (u + 1) + h2.preps = u + h.preps
    BY <1>5, <1>6
  <2> HIDE DEF p, b, op
  <2> QED BY <1>3, <1>6, <1>8, <1>9, <2>1 DEF Placed, b
<1>11. Commands(y, u + 1, rest)
  <2>1. \A j \in u + 1 .. p - 1 : j \in u .. p - 1
    BY <1>2, <1>6
  <2> QED BY <1>1, <1>3, <2>1 DEF Commands
<1>12. Results(y, u + 1)
  <2>1. \A j \in 0 .. u - 1 : x.rdr[Add(b, j)] = PktOf(OpAt(x, j))
    BY <1>1 DEF Results
  <2> HIDE DEF p, b
  <2>2. ASSUME NEW j \in 0 .. (u + 1) - 1 PROVE y.rdr[Add(b, j)] = PktOf(OpAt(x, j))
    <3>1. CASE j = u
      BY <1>5, <1>6, <1>8, <1>9, <3>1
    <3>2. CASE j # u
      <4>1. j \in 0 .. u - 1 /\ j \in Idx
        BY <1>6, <1>7, <3>2, Ring
      <4>2. Add(b, j) \in Idx /\ Add(b, j) # Add(b, u)
        BY ONLY <1>5, <1>7, <3>2, <4>1, AheadApart
      <4> QED BY <1>5, <1>6, <2>1, <4>1, <4>2
    <3> QED BY <3>1, <3>2
  <2> QED BY <1>3, <2>2 DEF Results
<1> QED BY <1>4, <1>10, <1>11, <1>12 DEF Line

-----------------------------------------------------------------------------
(* The steps, ring by ring *)

\* What Line reads of the engine and of sam_cio_enq.
LEMMA LineSame ==
  ASSUME NEW x, NEW h, NEW e, NEW h2, NEW e2, NEW u, NEW ctl, NEW rest, Line(x, h, e, u, ctl, rest),
         h2.cdr = h.cdr, h2.rdr = h.rdr, h2.cmds = h.cmds, h2.preps = h.preps,
         e2.rdr = e.rdr, e2.cdr = e.cdr
  PROVE  Line(x, h2, e2, u, ctl, rest)
<1>1. Placed(x, h, e, u, rest)
  BY DEF Line
<1>2. Placed(x, h2, e2, u, rest)
  BY <1>1 DEF Placed
<1> QED BY <1>2 DEF Line

LEMMA LinedKept ==
  ASSUME AllLined, NEW d \in Cios, cio'[d] = cio[d], hw'[d] = hw[d], enq'[d] = enq[d], deq'[d] = deq[d]
  PROVE  Lined(d)'
  BY DEF AllLined, Lined, Unread

LEMMA RoomIs ==
  ASSUME Room, NEW c \in Cios
  PROVE  RoomIn(cio[c], c \in CtrCios)
<1>1. MaxBufs > 1 \/ MaxBufs = 1
  BY SamAssumption
<1> QED BY <1>1 DEF Room, InvalidationsFit, RoomIn, Invs, InvOps

LEMMA RoomNext ==
  ASSUME Room', NEW c \in Cios
  PROVE  RoomIn(cio'[c], c \in CtrCios)
<1>1. MaxBufs > 1 \/ MaxBufs = 1
  BY SamAssumption
<1> QED BY <1>1 DEF Room, InvalidationsFit, RoomIn, Invs, InvOps

\* The types of one ring's records.
LEMMA Typed ==
  ASSUME IInv, NEW c \in Cios
  PROVE  /\ cio[c] \in Rings /\ hw[c] \in Engines /\ enq[c] \in EnqRec
         /\ hw[c].done \in Nat /\ deq[c].i \in Nat /\ deq[c].done \in Nat
         /\ Unread(c) \in Nat /\ Counts(c)
<1>1. cio[c] \in Rings /\ hw[c] \in Engines /\ enq[c] \in EnqRec /\ deq[c] \in [done: Nat, i: Nat] /\ Counts(c)
  BY DEF IInv, TypeOK, EnqRec
<1>2. hw[c].done \in Nat /\ deq[c].i \in Nat /\ deq[c].done \in Nat
  BY <1>1 DEF Engines
<1>3. deq[c].i <= deq[c].done /\ deq[c].done <= hw[c].done
  BY <1>1 DEF Counts
<1>4. Unread(c) \in Nat
  BY <1>2, <1>3 DEF Unread
<1> QED BY <1>1, <1>2, <1>4

LEMMA TypedNext ==
  ASSUME IInv', NEW c \in Cios
  PROVE  /\ cio'[c] \in Rings /\ hw'[c] \in Engines /\ enq'[c] \in EnqRec
         /\ hw'[c].done \in Nat /\ deq'[c].i \in Nat /\ deq'[c].done \in Nat
  BY DEF IInv, TypeOK, EnqRec, Engines

LEMMA FreshLine ==
  ASSUME NEW h, NEW e, NEW ctl, h = FreshHw, e.rdr = 0, e.cdr = 0
  PROVE  \E rest : Line(FreshCio, h, e, 0, ctl, rest)
<1> DEFINE x == FreshCio
           rest == [j \in 0 .. 0 |-> 0]
<1>1. /\ x.next_cdr = 0 /\ x.free_cdr = 0 /\ x.next_request = 0 /\ x.next_rdr = 0 /\ x.next_result = 0
      /\ Pending(x) = 0 /\ Sub(0, 0) = 0 /\ Add(0, 0) = 0
  BY FreshTyped, Ring, SubCases, AddTyped DEF FreshCio
<1>2. InvOps(x) = {}
  <2>1. \A i \in Idx : ~(Sub(i, 0) < 0)
    BY Ring, SubCases
  <2> HIDE DEF x
  <2> QED BY <1>1, <2>1 DEF InvOps, InFlight
<1>3. Cardinality(InvOps(x)) = 0
  BY <1>2, FS_EmptySet
<1> HIDE DEF x
<1>4. rest \in [0 .. 0 -> Nat] /\ rest[0] = 0 /\ 0 .. 0 - 1 = {} /\ 0 .. 0 = {0}
  OBVIOUS
<1> HIDE DEF rest
<1>5. Sizes(x, rest)
  BY <1>1, <1>4 DEF Sizes
<1>6. Total(x, ctl, rest)
  BY <1>1, <1>3, <1>4 DEF Total
<1>7. Placed(x, h, e, 0, rest)
  BY <1>1, <1>4 DEF Placed, Back, FreshHw
<1>8. Commands(x, 0, rest) /\ Results(x, 0)
  BY <1>1, <1>4 DEF Commands, Results
<1>9. Line(x, h, e, 0, ctl, rest)
  BY <1>5, <1>6, <1>7, <1>8 DEF Line
<1> QED BY <1>9 DEF x

LEMMA LinedInit == Init => AllLined
<1> SUFFICES ASSUME Init PROVE AllLined
  OBVIOUS
<1>1. /\ \A c \in Cios : /\ cio[c] = FreshCio /\ hw[c] = FreshHw /\ enq[c].n = 0 /\ enq[c].rdr = 0
                         /\ enq[c].cdr = 0 /\ Unread(c) = 0
      /\ \A s \in Sessions : session[s].cio = NoCio
  BY DEF Init, Unread, FreshHw
<1>2. Apart
  BY <1>1, SamAssumption DEF Apart
<1>3. \A c \in Cios : Lined(c)
  BY <1>1, FreshLine DEF Lined
<1> QED BY <1>2, <1>3 DEF AllLined

\* What a request does to its ring, all of it.
LEMMA EnqGrown ==
  ASSUME IInv, NEW c \in Cios, NEW s \in Sessions, NEW k \in Cookies, NEW n \in 1 .. MaxBufs,
         EnqOne(c, s, k, n, FALSE, FALSE)
  PROVE  \E op : /\ IsRequest(op) /\ op.bufs_in = n /\ Grown(cio[c], cio'[c], op)
                 /\ ~IsFull(cio[c]) /\ n < FreeCdr(cio[c]) /\ cio'[c].free_cdr = cio[c].free_cdr
                 /\ enq'[c].rdr = enq[c].rdr + 1 /\ enq'[c].cdr = enq[c].cdr + n
<1> DEFINE x == cio[c]
           op == [sa |-> s, cookie |-> k, bufs_in |-> n, bufs_out |-> 1]
           y == [x EXCEPT !.ops = [x.ops EXCEPT ![x.next_request] = op],
                          !.cdr = Written(x, k, n, n),
                          !.rdr = [x.rdr EXCEPT ![x.next_rdr] = NoPkt],
                          !.next_cdr = Add(x.next_cdr, n),
                          !.next_rdr = Add(x.next_rdr, 1),
                          !.next_request = Add(x.next_request, 1)]
<1>1. x \in Rings /\ cio \in [Cios -> Rings]
  BY DEF IInv, TypeOK
<1>2. IsRequest(op) /\ op.bufs_in = n /\ op.cookie = k
  BY DEF IsRequest
<1>3. cio' = [cio EXCEPT ![c] =
                [x EXCEPT !.ops[x.next_request] = op,
                          !.cdr = Written(x, k, n, n),
                          !.rdr[x.next_rdr] = NoPkt,
                          !.next_cdr = Add(@, n),
                          !.next_rdr = Add(@, 1),
                          !.next_request = Add(@, 1)]]
  BY DEF EnqOne
<1> HIDE DEF op
<1>4. cio'[c] = y
  BY <1>1, <1>3 DEF Rings
<1>5. /\ y.ops = [x.ops EXCEPT ![x.next_request] = op] /\ y.cdr = Written(x, k, n, n)
      /\ y.rdr = [x.rdr EXCEPT ![x.next_rdr] = NoPkt] /\ y.next_cdr = Add(x.next_cdr, n)
      /\ y.next_rdr = Add(x.next_rdr, 1) /\ y.next_request = Add(x.next_request, 1)
      /\ y.next_result = x.next_result /\ y.free_cdr = x.free_cdr
  BY <1>1 DEF Rings
<1> HIDE DEF y
<1>6. Cost(op) = n /\ PktOf(op) = k
  BY <1>2 DEF Cost, PktOf
<1>7. Grown(x, cio'[c], op)
  BY <1>4, <1>5, <1>6 DEF Grown
<1>8. ~IsFull(x) /\ n < FreeCdr(x)
  BY DEF EnqOne, IsFreeSlot
<1>9. enq \in [Cios -> EnqRec]
  BY DEF IInv, TypeOK, EnqRec
<1>10. enq'[c].rdr = enq[c].rdr + 1 /\ enq'[c].cdr = enq[c].cdr + n
  BY <1>9 DEF EnqOne, EnqRec
<1> QED BY <1>2, <1>4, <1>5, <1>7, <1>8, <1>10

\* What an invalidation does.
LEMMA InvalidatedGrown ==
  ASSUME NEW x \in Rings, NEW s \in Sessions, NEW early \in BOOLEAN
  PROVE  \E op : /\ ~IsRequest(op) /\ Grown(x, Invalidated(x, s, early), op)
                 /\ Invalidated(x, s, early).free_cdr = IF early THEN Add(x.free_cdr, 1) ELSE x.free_cdr
<1> DEFINE op == [x.ops[x.next_request] EXCEPT
                    !.sa = s, !.cookie = NoPkt, !.bufs_in = 0, !.bufs_out = 0]
           y == [x EXCEPT !.ops = [x.ops EXCEPT ![x.next_request] = op],
                  !.cdr = Written(x, s, 1, 1),
                  !.rdr = [x.rdr EXCEPT ![x.next_rdr] = NoPkt],
                  !.next_cdr = Add(x.next_cdr, 1), !.next_rdr = Add(x.next_rdr, 1),
                  !.next_request = Add(x.next_request, 1),
                  !.free_cdr = IF early THEN Add(x.free_cdr, 1) ELSE x.free_cdr]
<1>1. x.next_request \in Idx /\ x.ops \in [Idx -> Ops]
  BY DEF Rings
<1>2. ~IsRequest(op) /\ op.sa = s
  <2>1. x.ops[x.next_request] \in Ops
    BY <1>1
  <2> QED BY <2>1 DEF Ops, IsRequest
<1>3. Invalidated(x, s, early) = y
  BY DEF Invalidated, Rings
<1> HIDE DEF op
<1>4. /\ y.ops = [x.ops EXCEPT ![x.next_request] = op] /\ y.cdr = Written(x, s, 1, 1)
      /\ y.rdr = [x.rdr EXCEPT ![x.next_rdr] = NoPkt] /\ y.next_cdr = Add(x.next_cdr, 1)
      /\ y.next_rdr = Add(x.next_rdr, 1) /\ y.next_request = Add(x.next_request, 1)
      /\ y.next_result = x.next_result
      /\ y.free_cdr = IF early THEN Add(x.free_cdr, 1) ELSE x.free_cdr
  BY DEF Rings
<1> HIDE DEF y
<1>5. Cost(op) = 1 /\ PktOf(op) = s
  BY <1>2 DEF Cost, PktOf
<1>6. Grown(x, y, op)
  BY <1>4, <1>5 DEF Grown
<1> QED BY <1>2, <1>3, <1>4, <1>6

-----------------------------------------------------------------------------
(* Every step keeps the rings lined up *)

\* Next, when requests have no empty buffers at their end.
LEMMA Steps ==
  ASSUME ~Short, [Next]_vars
  PROVE  \/ \E s \in Sessions, c \in Cios, k \in Cookies, n \in 1 .. MaxBufs :
              EnqOne(c, s, k, n, FALSE, FALSE)
         \/ \E s \in Sessions : ClientDestroy(s) \/ \E c \in Cios : CloseDestroy(c, s)
         \/ \E s \in Sessions, ctr \in CtrCios : Create(s, ctr)
         \/ \E c \in Cios : \/ Submit(c) \/ Process(c) \/ DeqOne(c) \/ Open(c)
                            \/ DeqBegin(c) \/ DeqEnd(c)
         \/ \E c \in Cios : CloseBegin(c) \/ CloseEnd(c) \/ FlushEnd(c)
         \/ UNCHANGED vars
<1>1. Short = FALSE
  BY SamAssumption
<1>2. ASSUME \E s \in Sessions, c \in Cios, k \in Cookies, n \in 1 .. MaxBufs,
               proto \in {FALSE, Short}, short \in {FALSE, Short} : EnqOne(c, s, k, n, short, proto)
      PROVE  \E s \in Sessions, c \in Cios, k \in Cookies, n \in 1 .. MaxBufs :
               EnqOne(c, s, k, n, FALSE, FALSE)
  BY <1>1, <1>2, Zenon
<1>3. CASE Next
  BY <1>2, <1>3, Zenon DEF Next, Engine, Dequeue
<1> QED BY <1>3

LEMMA ApartStep ==
  ASSUME Dedicated, ~Short, IInv, Apart, [Next]_vars
  PROVE  Apart'
<1>1. enq \in [Cios -> EnqRec] /\ session \in [Sessions -> Sas]
  BY DEF IInv, TypeOK, EnqRec
<1>2. /\ \A c \in Cios : enq[c].n = 0 => enq[c].rdr = 0 /\ enq[c].cdr = 0
      /\ \A c \in Cios \cap CtrCios : enq[c].n = 0
      /\ \A s \in Sessions : session[s].cio \in Cios => session[s].cio \notin CtrCios
  BY DEF Apart
<1>3. CASE \E s \in Sessions, c \in Cios, k \in Cookies, n \in 1 .. MaxBufs :
             EnqOne(c, s, k, n, FALSE, FALSE)
  <2>1. PICK s \in Sessions, c \in Cios, k \in Cookies, n \in 1 .. MaxBufs :
          EnqOne(c, s, k, n, FALSE, FALSE)
    BY <1>3
  <2>2. c \notin CtrCios /\ session' = [session EXCEPT ![s].cio = c]
    BY <2>1 DEF EnqOne
  <2>3. enq'[c].n # 0 /\ \A d \in Cios : d # c => enq'[d] = enq[d]
    BY <1>1, <2>1 DEF EnqOne, EnqRec
  <2>4. \A t \in Sessions : session'[t].cio = c \/ session'[t].cio = session[t].cio
    BY <1>1, <2>2 DEF Sas
  <2> QED BY <1>2, <2>2, <2>3, <2>4 DEF Apart
<1>4. CASE \E s \in Sessions, ctr \in CtrCios : Create(s, ctr)
  <2>1. PICK s \in Sessions, ctr \in CtrCios : Create(s, ctr)
    BY <1>4
  <2>2. \A t \in Sessions : session'[t].cio = NoCio \/ session'[t].cio = session[t].cio
    BY <1>1, <2>1 DEF Create, Sas
  <2> QED BY <1>2, <2>1, <2>2, SamAssumption DEF Create, rings, Apart
<1>5. CASE \E s \in Sessions : ClientDestroy(s) \/ \E c \in Cios : CloseDestroy(c, s)
  <2>1. PICK s \in Sessions : Destroy(s) /\ UNCHANGED enq
    BY <1>5 DEF ClientDestroy, CloseDestroy
  <2>2. \A t \in Sessions : session'[t].cio = session[t].cio
    BY <1>1, <2>1 DEF Destroy, Sas
  <2> QED BY <1>2, <2>1, <2>2 DEF Apart
<1>6. CASE \E c \in Cios : Submit(c)
  <2>1. PICK c \in Cios : Submit(c)
    BY <1>6
  <2>2. enq'[c] = [n |-> 0, rdr |-> 0, cdr |-> 0] /\ \A d \in Cios : d # c => enq'[d] = enq[d]
    BY <1>1, <2>1 DEF Submit
  <2> QED BY <1>2, <2>1, <2>2 DEF Submit, users, Apart
<1>7. CASE \E c \in Cios : DeqOne(c)
  <2>1. PICK c \in Cios : DeqOne(c)
    BY <1>7
  <2>2. enq' = enq /\ \A t \in Sessions : session'[t].cio = session[t].cio
    BY <1>1, <2>1 DEF DeqOne, Sas
  <2> QED BY SMTT(30), <1>2, <2>2 DEF Apart
<1>8. CASE \/ \E c \in Cios : \/ Process(c) \/ Open(c) \/ DeqBegin(c) \/ DeqEnd(c)
                              \/ CloseBegin(c) \/ CloseEnd(c) \/ FlushEnd(c)
           \/ UNCHANGED vars
  <2>1. UNCHANGED <<enq, session>>
    BY <1>8 DEF Process, Open, DeqBegin, DeqEnd, CloseBegin, CloseEnd, FlushEnd, rings, users, vars
  <2> QED BY SMTT(30), <1>2, <2>1 DEF Apart
<1> QED BY <1>3, <1>4, <1>5, <1>6, <1>7, <1>8, Steps

LEMMA EnqLined ==
  ASSUME Dedicated, IInv, IInv', AllLined, Room', NEW c \in Cios, NEW s \in Sessions, NEW k \in Cookies,
         NEW n \in 1 .. MaxBufs, EnqOne(c, s, k, n, FALSE, FALSE), NEW d \in Cios
  PROVE  Lined(d)'
<1> DEFINE x == cio[c]
           y == cio'[c]
           u == Unread(c)
<1>1. /\ hw' = hw /\ deq' = deq /\ c \notin CtrCios
      /\ \A a \in Cios : a # c => enq'[a] = enq[a] /\ cio'[a] = cio[a]
  BY EnqRing DEF EnqOne, IInv, TypeOK
<1>2. CASE d # c
  BY <1>1, <1>2, LinedKept
<1>3. CASE d = c
  <2>1. PICK op : /\ IsRequest(op) /\ op.bufs_in = n /\ Grown(x, y, op)
                  /\ ~IsFull(x) /\ n < FreeCdr(x) /\ y.free_cdr = x.free_cdr
                  /\ enq'[c].rdr = enq[c].rdr + 1 /\ enq'[c].cdr = enq[c].cdr + n
    BY EnqGrown
  <2>2. PICK rest : Line(x, hw[c], enq[c], u, c \in CtrCios, rest)
    BY DEF AllLined, Lined
  <2>3. x \in Rings /\ hw[c] \in Engines /\ enq[c] \in EnqRec
    BY Typed
  <2>4. y \in Rings /\ hw'[c] \in Engines /\ enq'[c] \in EnqRec
    BY TypedNext
  <2>5. Cost(op) = n /\ n \in Nat \ {0} /\ (MaxBufs = 1 => n = 1)
    BY <2>1, SamAssumption DEF Cost
  <2>6. Sub(y.next_cdr, y.free_cdr) + 0 = Sub(x.next_cdr, x.free_cdr) + Cost(op)
    <3>1. y.next_cdr = Add(x.next_cdr, n)
      BY <2>1, <2>5 DEF Grown
    <3>2. Sub(y.next_cdr, y.free_cdr) = Sub(x.next_cdr, x.free_cdr) + n
      BY <2>1, <2>3, <2>5, <3>1, BookIs
    <3>3. Sub(y.next_cdr, y.free_cdr) \in Nat
      BY <2>4, FreeIs
    <3> QED BY <2>5, <3>2, <3>3
  <2>7. RoomIn(y, c \in CtrCios)
    BY RoomNext
  <2>8. Told(hw[c], enq[c], hw'[c], enq'[c], Cost(op))
    BY <1>1, <2>1, <2>5 DEF Told
  <2>9. u' = u
    BY <1>1 DEF Unread
  <2> DEFINE ctl == c \in CtrCios
             h == hw[c]
             h2 == hw'[c]
             e == enq[c]
             e2 == enq'[c]
  <2>10. ~ctl
    BY <1>1
  <2> HIDE DEF x, y, u, ctl, h, h2, e, e2
  <2>11. \E more : Line(y, h2, e2, u, ctl, more)
    <3>1. x \in Rings /\ y \in Rings /\ h \in Engines /\ h2 \in Engines /\ e \in EnqRec /\ e2 \in EnqRec
      BY <2>3, <2>4 DEF h, h2, e, e2
    <3>2. Line(x, h, e, u, ctl, rest) /\ Told(h, e, h2, e2, Cost(op)) /\ RoomIn(y, ctl)
      BY <2>2, <2>7, <2>8 DEF h, h2, e, e2, ctl
    <3>3. /\ ctl \/ MaxBufs = 1 => Cost(op) = 1
          /\ ~ctl => Sub(y.next_cdr, y.free_cdr) + (IF IsRequest(op) THEN 0 ELSE 1)
                       = Sub(x.next_cdr, x.free_cdr) + Cost(op)
          /\ Cost(op) \in Nat \ {0} /\ ~IsFull(x) /\ Grown(x, y, op)
      BY <2>1, <2>5, <2>6, <2>10
    <3> QED BY ONLY <3>1, <3>2, <3>3, PushLine
  <2> QED BY <1>3, <2>9, <2>11 DEF Lined, y, h2, e2, ctl, u
<1> QED BY <1>2, <1>3

LEMMA DestroyLined ==
  ASSUME IInv, IInv', AllLined, Room', NEW s \in Sessions, Destroy(s), UNCHANGED <<enq, deq>>,
         session[s].cio \in Cios => enq[session[s].cio].n = 0, NEW d \in Cios
  PROVE  Lined(d)'
<1> DEFINE ctr == session[s].ctr_cio
           c == IF ctr # NoCio THEN ctr ELSE session[s].cio
           early == ctr = NoCio
           x == cio[c]
           y == cio'[c]
           u == Unread(c)
<1>1. /\ cio \in [Cios -> Rings] /\ hw \in [Cios -> Engines]
      /\ ctr \in CtrCios \cup {NoCio} /\ session[s].cio \in Cios \cup {NoCio}
  BY DEF IInv, TypeOK, Sas
<1>2. CASE UNCHANGED <<cio, hw>>
  BY <1>2, LinedKept
<1>3. CASE /\ session[s].cio \in Eip197 /\ ~IsFull(x)
           /\ cio' = [cio EXCEPT ![c] = Invalidated(@, s, early)]
           /\ hw' = [hw EXCEPT ![c].cmds = @ + 1, ![c].preps = @ + 1]
  <2>1. session[s].cio \in Cios /\ c \in Cios /\ NoCio \notin Cios
    BY <1>1, <1>3, SamAssumption
  <2>2. Apart
    BY DEF AllLined
  <2>3. c \in CtrCios <=> ~early
    BY <1>1, <2>1, <2>2 DEF Apart
  <2>4. enq[c].n = 0
    BY <2>1, <2>2, <2>3 DEF Apart
  <2>5. enq[c].rdr = 0 /\ enq[c].cdr = 0
    BY <2>1, <2>2, <2>4 DEF Apart
  <2>6. CASE d # c
    <3>1. cio'[d] = cio[d] /\ hw'[d] = hw[d]
      BY <1>1, <1>3, <2>6
    <3> QED BY <3>1, LinedKept
  <2>7. CASE d = c
    <3>1. x \in Rings /\ hw[c] \in Engines /\ enq[c] \in EnqRec
      BY <2>1, Typed
    <3>2. y \in Rings /\ hw'[c] \in Engines /\ enq'[c] \in EnqRec
      BY SMTT(30), <2>1, TypedNext
    <3>3. /\ hw'[c].cdr = hw[c].cdr /\ hw'[c].rdr = hw[c].rdr /\ hw'[c].done = hw[c].done
          /\ hw'[c].preps = hw[c].preps + 1 /\ hw'[c].cmds = hw[c].cmds + 1
      BY <1>1, <1>3, <2>1, <3>1 DEF Engines
    <3>4. y = Invalidated(x, s, early) /\ early \in BOOLEAN
      BY <1>1, <1>3, <2>1
    <3>5. PICK op : /\ ~IsRequest(op) /\ Grown(x, y, op)
                    /\ y.free_cdr = IF early THEN Add(x.free_cdr, 1) ELSE x.free_cdr
      BY ZenonT(30), <3>1, <3>4, InvalidatedGrown
    <3>6. PICK rest : Line(x, hw[c], enq[c], u, c \in CtrCios, rest)
      BY <2>1 DEF AllLined, Lined
    <3>7. Cost(op) = 1
      BY <3>5 DEF Cost
    <3> DEFINE ctl == c \in CtrCios
               h == hw[c]
               h2 == hw'[c]
               e == enq[c]
               e2 == enq'[c]
    <3>8. RoomIn(y, ctl)
      BY <2>1, RoomNext
    <3>9. Told(h, e, h2, e2, Cost(op))
      BY <2>5, <3>3, <3>7 DEF Told
    <3>10. Unread(d)' = u
      BY <2>7, <3>3 DEF Unread
    <3>11. ~ctl => Sub(y.next_cdr, y.free_cdr) + 1 = Sub(x.next_cdr, x.free_cdr) + Cost(op)
      <4> SUFFICES ASSUME ~ctl
                   PROVE  Sub(y.next_cdr, y.free_cdr) + 1 = Sub(x.next_cdr, x.free_cdr) + Cost(op)
        BY SMTT(30)
      <4>1. y.next_cdr = Add(x.next_cdr, 1) /\ y.free_cdr = Add(x.free_cdr, 1)
        BY <2>3, <3>5, <3>7 DEF Grown
      <4>2. x.next_cdr \in Idx /\ x.free_cdr \in Idx
        BY <3>1 DEF Rings
      <4>3. Sub(y.next_cdr, y.free_cdr) = Sub(x.next_cdr, x.free_cdr)
        BY <4>1, <4>2, BothMove
      <4> QED BY <3>7, <4>3
    <3> HIDE DEF x, y, u, ctl, h, h2, e, e2
    <3>12. \E more : Line(y, h2, e2, u, ctl, more)
      <4>1. x \in Rings /\ y \in Rings /\ h \in Engines /\ h2 \in Engines /\ e \in EnqRec /\ e2 \in EnqRec
        BY <3>1, <3>2 DEF h, h2, e, e2
      <4>2. Line(x, h, e, u, ctl, rest)
        BY <3>6 DEF h, e, ctl
      <4>3. /\ ctl \/ MaxBufs = 1 => Cost(op) = 1
            /\ ~ctl => Sub(y.next_cdr, y.free_cdr) + (IF IsRequest(op) THEN 0 ELSE 1)
                         = Sub(x.next_cdr, x.free_cdr) + Cost(op)
            /\ Cost(op) \in Nat \ {0} /\ ~IsFull(x) /\ Grown(x, y, op)
        BY <1>3, <3>5, <3>7, <3>11
      <4> QED BY ONLY <3>8, <3>9, <4>1, <4>2, <4>3, PushLine
    <3> QED BY <2>7, <3>10, <3>12 DEF Lined, y, h2, e2, ctl, u
  <2> QED BY <2>6, <2>7
<1> QED BY <1>2, <1>3 DEF Destroy

LEMMA SubmitLined ==
  ASSUME IInv, AllLined, NEW c \in Cios, Submit(c), NEW d \in Cios
  PROVE  Lined(d)'
<1>1. hw \in [Cios -> Engines] /\ enq \in [Cios -> EnqRec]
  BY DEF IInv, TypeOK, EnqRec
<1>2. cio' = cio /\ deq' = deq
  BY DEF Submit, users
<1>3. \A a \in Cios : a # c => hw'[a] = hw[a] /\ enq'[a] = enq[a]
  BY <1>1 DEF Submit
<1>4. CASE d # c
  BY <1>2, <1>3, <1>4, LinedKept
<1>5. CASE d = c
  <2>1. PICK rest : Line(cio[c], hw[c], enq[c], Unread(c), c \in CtrCios, rest)
    BY DEF AllLined, Lined
  <2>2. cio[c] \in Rings /\ hw[c] \in Engines /\ enq[c] \in EnqRec
    BY Typed
  <2>3. /\ hw'[c].cdr = hw[c].cdr /\ hw'[c].rdr = hw[c].rdr /\ hw'[c].done = hw[c].done
        /\ hw'[c].preps = hw[c].preps + enq[c].rdr /\ hw'[c].cmds = hw[c].cmds + enq[c].cdr
        /\ enq'[c].rdr = 0 /\ enq'[c].cdr = 0
    BY <1>1, <2>2 DEF Submit, Engines
  <2>4. Unread(c)' = Unread(c)
    BY <1>2, <2>3 DEF Unread
  <2>5. Line(cio[c], hw'[c], enq'[c], Unread(c), c \in CtrCios, rest)
    BY <2>1, <2>2, <2>3, SubmitLine
  <2> QED BY <1>2, <1>5, <2>4, <2>5 DEF Lined
<1> QED BY <1>4, <1>5

LEMMA ProcessLined ==
  ASSUME IInv, IInv', AllLined, Room, NEW c \in Cios, Process(c), NEW d \in Cios
  PROVE  Lined(d)'
<1> DEFINE x == cio[c]
           y == cio'[c]
           h == hw[c]
           h2 == hw'[c]
           e == enq[c]
           u == Unread(c)
           ctl == c \in CtrCios
           ends == {l \in 1 .. h.cmds : x.cdr[Add(h.cdr, l - 1)].last}
           len == CHOOSE l \in ends : \A o \in ends : l <= o
           n == Cost(OpAt(x, u))
<1>1. cio \in [Cios -> Rings] /\ hw \in [Cios -> Engines]
  BY DEF IInv, TypeOK
<1>2. /\ h.preps > 0 /\ enq' = enq /\ deq' = deq
      /\ cio' = [cio EXCEPT ![c].rdr[h.rdr] = x.cdr[h.cdr].pkt]
      /\ hw' = [hw EXCEPT ![c] = [cdr |-> Add(@.cdr, len), rdr |-> Add(@.rdr, 1),
                                  cmds |-> @.cmds - len, preps |-> @.preps - 1,
                                  done |-> @.done + 1]]
  BY DEF Process, users
<1> HIDE DEF len
<1>3. CASE d # c
  <2>1. cio'[d] = cio[d] /\ hw'[d] = hw[d]
    BY <1>1, <1>2, <1>3
  <2> QED BY <1>2, <2>1, LinedKept
<1>4. CASE d = c
  <2>1. PICK rest : Line(x, h, e, u, ctl, rest)
    BY DEF AllLined, Lined
  <2>2. x \in Rings /\ h \in Engines /\ e \in EnqRec /\ y \in Rings /\ h2 \in Engines
        /\ h.done \in Nat /\ deq[c].i \in Nat
    BY Typed, TypedNext
  <2>3. RoomIn(x, ctl)
    BY RoomIs
  <2>4. /\ y.next_request = x.next_request /\ y.next_result = x.next_result /\ y.ops = x.ops
        /\ y.next_cdr = x.next_cdr /\ y.free_cdr = x.free_cdr /\ y.next_rdr = x.next_rdr
        /\ y.cdr = x.cdr /\ y.rdr = [x.rdr EXCEPT ![h.rdr] = x.cdr[h.cdr].pkt]
    BY <1>1, <1>2, <2>2 DEF Rings
  <2>5. /\ h2.cdr = Add(h.cdr, len) /\ h2.rdr = Add(h.rdr, 1) /\ h2.cmds = h.cmds - len
        /\ h2.preps = h.preps - 1 /\ h2.done = h.done + 1
    BY <1>1, <1>2
  <2>6. u' = u + 1
    BY <1>2, <2>2, <2>5 DEF Unread
  <2> HIDE DEF x, y, h, h2, e, u, ctl
  <2>7. n \in Nat \ {0} /\ n \in ends /\ \A o \in ends : n <= o
    BY <1>2, <2>1, <2>2, <2>3, FirstPacket
  <2>8. len = n
    <3>1. len \in ends /\ \A o \in ends : len <= o
      <4> HIDE DEF ends, n
      <4> QED BY <2>7, Zenon DEF len
    <3>2. len \in Nat /\ len <= n /\ n <= len
      <4>1. ends \subseteq Nat
        OBVIOUS
      <4> HIDE DEF ends, n
      <4> QED BY <2>7, <3>1, <4>1
    <3> HIDE DEF ends, n
    <3> QED BY <2>7, <3>2
  <2>9. Line(y, h2, e, u + 1, ctl, rest)
    BY <1>2, <2>1, <2>2, <2>3, <2>4, <2>5, <2>8, ProcessLine
  <2> QED BY <1>2, <1>4, <2>6, <2>9 DEF Lined, y, h2, e, u, ctl
<1> QED BY <1>3, <1>4

LEMMA DeqLined ==
  ASSUME IInv, IInv', AllTaken, AllLined, NEW c \in Cios, DeqOne(c), NEW d \in Cios
  PROVE  Lined(d)'
<1> DEFINE x == cio[c]
           y == cio'[c]
           h == hw[c]
           e == enq[c]
           u == Unread(c)
           ctl == c \in CtrCios
           op == x.ops[x.next_result]
<1>1. deq \in [Cios -> [done: Nat, i: Nat]] /\ cio \in [Cios -> Rings]
  BY DEF IInv, TypeOK
<1>2. /\ deq[c].i < deq[c].done /\ hw' = hw /\ enq' = enq
      /\ cio' = [cio EXCEPT ![c] = Retire(c, @, op)] /\ deq' = [deq EXCEPT ![c].i = @ + 1]
  BY DEF DeqOne
<1>3. CASE d # c
  <2>1. cio'[d] = cio[d] /\ deq'[d] = deq[d]
    BY <1>1, <1>2, <1>3
  <2> QED BY <1>2, <2>1, LinedKept
<1>4. CASE d = c
  <2>1. PICK rest : Line(x, h, e, u, ctl, rest)
    BY DEF AllLined, Lined
  <2>2. x \in Rings /\ h \in Engines /\ e \in EnqRec /\ y \in Rings
        /\ h.done \in Nat /\ deq[c].i \in Nat /\ deq[c].done \in Nat /\ Counts(c)
    BY Typed, TypedNext
  <2>3. y = Retire(c, x, op)
    BY SMTT(30), <1>1, <1>2
  <2>4. Shrunk(x, y) /\ Pending(x) > 0
    BY <2>2, <2>3, DeqRing DEF Retire, CmdPut, Shrunk, Rings
  <2>5. deq'[c].i = deq[c].i + 1
    BY <1>1, <1>2
  <2>6. u \in Nat \ {0} /\ u' = u - 1
    <3>1. deq[c].done <= h.done
      BY <2>2 DEF Counts
    <3> QED BY <1>2, <2>2, <2>5, <3>1 DEF Unread
  <2>7. ~ctl => Taken(x)
    BY DEF AllTaken
  <2> HIDE DEF x, y, h, e, u, ctl
  <2>8. \E less : Line(y, h, e, u - 1, ctl, less)
    BY ONLY <2>1, <2>2, <2>4, <2>6, <2>7, PopLine
  <2> QED BY <1>2, <1>4, <2>6, <2>8 DEF Lined, y, h, e, u, ctl
<1> QED BY <1>3, <1>4

\* sam_cio_deq reads how many results there are, and tells how many it took.
LEMMA DeqEndsLined ==
  ASSUME IInv, AllLined, NEW c \in Cios, DeqBegin(c) \/ DeqEnd(c), NEW d \in Cios
  PROVE  Lined(d)'
<1>1. deq \in [Cios -> [done: Nat, i: Nat]] /\ hw \in [Cios -> Engines]
  BY DEF IInv, TypeOK
<1>2. cio' = cio /\ enq' = enq
  BY DEF DeqBegin, DeqEnd, users
<1>3. CASE d # c
  <2>1. hw'[d] = hw[d] /\ deq'[d] = deq[d]
    BY <1>1, <1>3 DEF DeqBegin, DeqEnd
  <2> QED BY <1>2, <2>1, LinedKept
<1>4. CASE d = c
  <2>1. PICK rest : Line(cio[c], hw[c], enq[c], Unread(c), c \in CtrCios, rest)
    BY DEF AllLined, Lined
  <2>2. hw[c] \in Engines /\ hw[c].done \in Nat /\ deq[c].i \in Nat /\ deq[c].done \in Nat /\ Counts(c)
    BY Typed
  <2>3. /\ hw'[c].cdr = hw[c].cdr /\ hw'[c].rdr = hw[c].rdr /\ hw'[c].cmds = hw[c].cmds
        /\ hw'[c].preps = hw[c].preps
    BY <1>1, <2>2 DEF DeqBegin, DeqEnd, Engines
  <2>4. Unread(c)' = Unread(c)
    <3>1. CASE DeqBegin(c)
      <4>1. hw' = hw /\ deq[c].done = 0 /\ deq'[c].i = 0
        BY <1>1, <3>1 DEF DeqBegin
      <4>2. deq[c].i = 0
        BY <2>2, <4>1 DEF Counts
      <4> QED BY <4>1, <4>2 DEF Unread
    <3>2. CASE DeqEnd(c)
      <4>1. hw'[c].done = hw[c].done - deq[c].i /\ deq'[c].i = 0
        BY <1>1, <2>2, <3>2 DEF DeqEnd, Engines
      <4> QED BY <2>2, <4>1 DEF Unread
    <3> QED BY <3>1, <3>2
  <2>5. Line(cio[c], hw'[c], enq'[c], Unread(c), c \in CtrCios, rest)
    BY <1>2, <2>1, <2>3, LineSame
  <2> QED BY <1>2, <1>4, <2>4, <2>5 DEF Lined
<1> QED BY <1>3, <1>4

LEMMA OpenLined ==
  ASSUME IInv, AllLined, NEW c \in Cios, Open(c), NEW d \in Cios
  PROVE  Lined(d)'
<1>1. cio \in [Cios -> Rings] /\ hw \in [Cios -> Engines]
  BY DEF IInv, TypeOK
<1>2. /\ mode[c] = "closed" /\ enq' = enq /\ deq' = deq
      /\ cio' = [cio EXCEPT ![c] = FreshCio] /\ hw' = [hw EXCEPT ![c] = FreshHw]
  BY DEF Open
<1>3. CASE d # c
  <2>1. cio'[d] = cio[d] /\ hw'[d] = hw[d]
    BY <1>1, <1>2, <1>3
  <2> QED BY <1>2, <2>1, LinedKept
<1>4. CASE d = c
  <2>1. Counts(c) /\ Apart /\ deq[c].i \in Nat /\ deq[c].done \in Nat
    BY Typed DEF AllLined
  <2>2. enq[c].n = 0 /\ deq[c].i = 0
    BY <1>2, <2>1 DEF Counts
  <2>3. enq[c].rdr = 0 /\ enq[c].cdr = 0
    BY <2>1, <2>2 DEF Apart
  <2>4. cio'[c] = FreshCio /\ hw'[c] = FreshHw
    BY <1>1, <1>2
  <2>5. Unread(c)' = 0
    BY <1>2, <2>2, <2>4 DEF Unread, FreshHw
  <2>6. \E rest : Line(FreshCio, hw'[c], enq[c], 0, c \in CtrCios, rest)
    BY <2>3, <2>4, FreshLine
  <2> QED BY <1>2, <1>4, <2>4, <2>5, <2>6 DEF Lined
<1> QED BY <1>3, <1>4

\* An inductive invariant, where there is room for every invalidation.
LEMMA LinedStep ==
  ASSUME Dedicated, ~Short, IInv, AllTaken, AllLined, Room, Room', [Next]_vars
  PROVE  AllLined'
<1>1. IInv'
  BY StepInv, Stutter
<1>2. Apart'
  BY ApartStep DEF AllLined
<1> SUFFICES ASSUME NEW d \in Cios PROVE Lined(d)'
  BY <1>2 DEF AllLined
<1>3. CASE \E s \in Sessions, c \in Cios, k \in Cookies, n \in 1 .. MaxBufs :
             EnqOne(c, s, k, n, FALSE, FALSE)
  BY <1>1, <1>3, EnqLined
<1>4. CASE \E s \in Sessions : ClientDestroy(s) \/ \E c \in Cios : CloseDestroy(c, s)
  <2>1. PICK s \in Sessions : ClientDestroy(s) \/ \E c \in Cios : CloseDestroy(c, s)
    BY <1>4
  <2>2. Destroy(s) /\ UNCHANGED <<enq, deq>>
    BY <2>1 DEF ClientDestroy, CloseDestroy
  <2>3. session[s].cio \in Cios => enq[session[s].cio].n = 0
    BY <2>1 DEF ClientDestroy, CloseDestroy, MayDestroy, Calm, ToClose
  <2> QED BY <1>1, <2>2, <2>3, DestroyLined
<1>5. CASE \E c \in Cios : \/ Submit(c) \/ Process(c) \/ DeqOne(c) \/ Open(c)
                           \/ DeqBegin(c) \/ DeqEnd(c)
  BY <1>1, <1>5, SubmitLined, ProcessLined, DeqLined, OpenLined, DeqEndsLined
<1>6. CASE \/ \E s \in Sessions, ctr \in CtrCios : Create(s, ctr)
           \/ \E c \in Cios : CloseBegin(c) \/ CloseEnd(c) \/ FlushEnd(c)
           \/ UNCHANGED vars
  <2>1. UNCHANGED rings
    BY <1>6 DEF Create, CloseBegin, CloseEnd, FlushEnd, rings, vars
  <2> QED BY <2>1, LinedKept DEF rings
<1> QED BY <1>3, <1>4, <1>5, <1>6, Steps

-----------------------------------------------------------------------------
(* What the lines say of the results and of the descriptors *)

LEMMA LinedPaired == IInv /\ AllLined => Paired
<1> SUFFICES ASSUME IInv, AllLined, NEW c \in Cios
             PROVE  /\ Unread(c) <= Pending(cio[c])
                    /\ \A j \in 0 .. Unread(c) - 1 :
                         LET i == Add(cio[c].next_result, j) IN cio[c].rdr[i] = PktOf(cio[c].ops[i])
  BY DEF Paired
<1>1. PICK rest : Line(cio[c], hw[c], enq[c], Unread(c), c \in CtrCios, rest)
  BY DEF AllLined, Lined
<1>2. hw[c].preps \in Nat /\ enq[c].rdr \in Nat
  BY Typed DEF Engines, EnqRec
<1>3. Unread(c) \in Nat /\ Pending(cio[c]) = Unread(c) + hw[c].preps + enq[c].rdr
  BY <1>1 DEF Line, Placed
<1>4. Unread(c) <= Pending(cio[c])
  BY <1>2, <1>3
<1>5. Results(cio[c], Unread(c))
  BY <1>1 DEF Line
<1> QED BY <1>4, <1>5 DEF Results, OpAt

\* FlattenSeq is the concatenation with one sequence after the other.
JoinOne(s, seqs, i) == IF i = 1 THEN seqs[i] ELSE s \o seqs[i]

LEMMA JoinRec ==
  ASSUME NEW seqs, NEW n \in Nat
  PROVE  \E f : f = [i \in 1 .. n |-> JoinOne(f[i - 1], seqs, i)]
<1> DEFINE Has(m) == \E f : f = [i \in 1 .. m |-> JoinOne(f[i - 1], seqs, i)]
<1> DEFINE S == {m \in Nat : Has(m)}
<1>1. 0 \in S
  <2> DEFINE f == [i \in 1 .. 0 |-> seqs[i]]
  <2>1. f = [i \in 1 .. 0 |-> JoinOne(f[i - 1], seqs, i)]
    OBVIOUS
  <2> QED BY <2>1
<1>2. ASSUME NEW m \in S PROVE m + 1 \in S
  <2>1. PICK f : f = [i \in 1 .. m |-> JoinOne(f[i - 1], seqs, i)]
    BY <1>2
  <2> DEFINE next == JoinOne(f[m], seqs, m + 1)
             g == [i \in 1 .. m + 1 |-> IF i <= m THEN f[i] ELSE next]
  <2>2. \A i \in 1 .. m + 1 : g[i] = JoinOne(g[i - 1], seqs, i)
    <3> TAKE i \in 1 .. m + 1
    <3>1. CASE i = 1 /\ i <= m
      <4>1. g[i] = f[i] /\ f[i] = JoinOne(f[i - 1], seqs, i)
        BY <2>1, <3>1
      <4> HIDE DEF g
      <4> QED BY <3>1, <4>1 DEF JoinOne
    <3>2. CASE i # 1 /\ i <= m
      <4>1. g[i] = f[i] /\ g[i - 1] = f[i - 1]
        BY <3>2
      <4>2. f[i] = JoinOne(f[i - 1], seqs, i)
        BY <2>1, <3>2
      <4> QED BY <4>1, <4>2
    <3>3. CASE i = m + 1 /\ m # 0
      <4>1. g[i] = next /\ g[i - 1] = f[m]
        BY <3>3
      <4> QED BY <3>3, <4>1
    <3>4. CASE i = m + 1 /\ m = 0
      <4>1. g[i] = next /\ i = 1
        BY <3>4
      <4> HIDE DEF g
      <4> QED BY <3>4, <4>1 DEF JoinOne
    <3> QED BY <3>1, <3>2, <3>3, <3>4
  <2>3. g = [i \in 1 .. m + 1 |-> JoinOne(g[i - 1], seqs, i)]
    BY <2>2
  <2> HIDE DEF g
  <2> QED BY <2>3, <1>2
<1> HIDE DEF Has
<1>3. S = Nat
  <2> HIDE DEF S
  <2>1. S \in SUBSET Nat
    BY DEF S
  <2> QED BY <1>1, <1>2, <2>1, NatInduct
<1>4. Has(n)
  BY <1>3
<1> QED BY <1>4 DEF Has

LEMMA FlattenSteps ==
  ASSUME NEW seqs, Len(seqs) \in Nat \ {0}
  PROVE  \E s : /\ s[1] = seqs[1]
                /\ \A i \in 2 .. Len(seqs) : s[i] = s[i - 1] \o seqs[i]
                /\ FlattenSeq(seqs) = s[Len(seqs)]
<1> DEFINE n == Len(seqs)
           s == CHOOSE f : f = [i \in 1 .. n |-> IF i = 1 THEN seqs[i] ELSE f[i - 1] \o seqs[i]]
<1>1. s = [i \in 1 .. n |-> IF i = 1 THEN seqs[i] ELSE s[i - 1] \o seqs[i]]
  <2> HIDE DEF n
  <2>1. \E f : f = [i \in 1 .. n |-> JoinOne(f[i - 1], seqs, i)]
    BY JoinRec DEF n
  <2>2. \E f : f = [i \in 1 .. n |-> IF i = 1 THEN seqs[i] ELSE f[i - 1] \o seqs[i]]
    BY <2>1, Zenon DEF JoinOne
  <2> QED BY <2>2, Zenon
<1>2. FlattenSeq(seqs) = s[n]
  <2>1. Len(seqs) # 0
    OBVIOUS
  <2> QED BY <2>1, Zenon DEF FlattenSeq
<1> HIDE DEF s
<1>3. s[1] = seqs[1] /\ \A i \in 2 .. n : s[i] = s[i - 1] \o seqs[i]
  <2> HIDE DEF n
  <2>1. n \in Nat \ {0}
    BY DEF n
  <2>2. 1 \in 1 .. n
    BY <2>1
  <2>3. s[1] = seqs[1]
    BY <1>1, <2>2
  <2>4. ASSUME NEW i \in 2 .. n PROVE s[i] = s[i - 1] \o seqs[i]
    <3>1. i \in 1 .. n /\ i # 1
      BY <2>1
    <3> QED BY <1>1, <3>1
  <2> QED BY <2>3, <2>4
<1> QED BY <1>2, <1>3

\* The descriptors of an operation.
LEMMA DescsAre ==
  ASSUME NEW op \in Ops, Cost(op) \in Nat
  PROVE  /\ DescsOf(op) \in Seq(Desc) /\ Len(DescsOf(op)) = Cost(op)
         /\ \A k \in 0 .. Cost(op) - 1 :
              DescsOf(op)[k + 1] = [pkt |-> PktOf(op), first |-> k = 0, last |-> k = Cost(op) - 1]
<1> DEFINE n == Cost(op)
           pkt == PktOf(op)
           D(j) == [pkt |-> pkt, first |-> j = 1, last |-> j = n]
<1>1. DescsOf(op) = [j \in 1 .. n |-> D(j)]
  BY DEF DescsOf, Cost
<1>2. pkt \in Pkts
  BY DEF PktOf, Ops
<1> HIDE DEF pkt, n
<1>3. \A j : D(j) \in Desc
  BY <1>2 DEF Desc
<1>4. ASSUME NEW k \in 0 .. n - 1 PROVE D(k + 1) = [pkt |-> pkt, first |-> k = 0, last |-> k = n - 1]
  <2> DEFINE f == k + 1 = 1
             g == k = 0
             l == k + 1 = n
             r == k = n - 1
  <2>1. (f <=> g) /\ (l <=> r)
    BY DEF n
  <2>2. f = g /\ l = r
    <3>1. f \in BOOLEAN /\ g \in BOOLEAN /\ l \in BOOLEAN /\ r \in BOOLEAN
      OBVIOUS
    <3> HIDE DEF f, g, l, r
    <3> QED BY <2>1, <3>1
  <2> HIDE DEF f, g, l, r
  <2>3. [pkt |-> pkt, first |-> f, last |-> l] = [pkt |-> pkt, first |-> g, last |-> r]
    BY <2>2
  <2> QED BY <2>3 DEF f, g, l, r
<1> HIDE DEF D
<1>5. DescsOf(op) \in [1 .. n -> Desc] /\ n \in Nat
  BY <1>1, <1>3 DEF n
<1>6. DescsOf(op) \in Seq(Desc) /\ Len(DescsOf(op)) = n
  BY <1>5
<1>7. ASSUME NEW k \in 0 .. n - 1
      PROVE  DescsOf(op)[k + 1] = [pkt |-> pkt, first |-> k = 0, last |-> k = n - 1]
  <2>1. k + 1 \in 1 .. n
    BY <1>5
  <2>2. DescsOf(op)[k + 1] = D(k + 1)
    BY <1>1, <2>1
  <2> QED BY <1>4, <2>2
<1> QED BY <1>6, <1>7 DEF n, pkt

\* They are where the engine will find them.
LEMMA DescsAhead ==
  ASSUME NEW x \in Rings, NEW h, NEW e, NEW u, NEW ctl, NEW rest, Line(x, h, e, u, ctl, rest),
         RoomIn(x, ctl), NEW j \in u .. Pending(x) - 1, NEW k \in 0 .. Cost(OpAt(x, j)) - 1
  PROVE  /\ OpAt(x, j) \in Ops /\ Cost(OpAt(x, j)) \in Nat /\ rest[u] - rest[j] \in Nat
         /\ x.cdr[Add(h.cdr, (rest[u] - rest[j]) + k)] = DescsOf(OpAt(x, j))[k + 1]
<1> DEFINE p == Pending(x)
           i == x.next_cdr
           op == OpAt(x, j)
           r == rest[u]
           t == rest[j]
           z == rest[0]
<1>1. Sizes(x, rest) /\ Total(x, ctl, rest) /\ Placed(x, h, e, u, rest) /\ Commands(x, u, rest)
  BY DEF Line
<1>2. z <= Size /\ p \in Nat /\ p < Size
  BY <1>1, Fits
<1>3. u \in Nat /\ h.cdr = Sub(i, r)
  BY <1>1 DEF Placed, Back
<1>4. j \in 0 .. p - 1 /\ j \in 0 .. p /\ j + 1 \in 0 .. p /\ u \in 0 .. p /\ 0 \in 0 .. p /\ u <= j /\ 0 <= u
  BY <1>2, <1>3
<1>5. /\ Cost(op) \in Nat \ {0} /\ t = rest[j + 1] + Cost(op) /\ rest[j + 1] \in Nat
      /\ t <= r /\ r <= z /\ r \in Nat /\ t \in Nat /\ z \in Nat
  BY <1>1, <1>4 DEF Sizes
<1>6. op \in Ops
  <2>1. Add(x.next_result, j) \in Idx
    BY <1>2, <1>4, AddTyped DEF Rings
  <2> QED BY <2>1 DEF OpAt, Rings
<1>7. x.cdr[Sub(i, t - k)] = [pkt |-> PktOf(op), first |-> k = 0, last |-> k = Cost(op) - 1]
  BY <1>1 DEF Commands, Back
<1>8. DescsOf(op)[k + 1] = [pkt |-> PktOf(op), first |-> k = 0, last |-> k = Cost(op) - 1]
  BY <1>5, <1>6, DescsAre
<1>9. i \in Idx
  BY DEF Rings
<1>13. k \in 0 .. Cost(op) - 1
  OBVIOUS
<1> HIDE DEF p, i, r, t, z, op
<1>10. (r - t) + k \in 0 .. r /\ r \in 0 .. Size /\ r - ((r - t) + k) = t - k /\ r - t \in Nat
  BY SMTT(30), <1>2, <1>5, <1>13, Ring
<1>11. Add(Sub(i, r), (r - t) + k) = Sub(i, r - ((r - t) + k))
  BY ONLY <1>9, <1>10, BackAhead
<1>12. x.cdr[Add(h.cdr, (r - t) + k)] = DescsOf(op)[k + 1]
  BY <1>3, <1>7, <1>8, <1>10, <1>11
<1> QED BY <1>5, <1>6, <1>10, <1>12 DEF op, r, t

LEMMA JoinIs ==
  ASSUME NEW S, NEW f \in Seq(S), NEW d \in Seq(S)
  PROVE  /\ f \o d \in Seq(S) /\ Len(f \o d) = Len(f) + Len(d) /\ Len(f) \in Nat /\ Len(d) \in Nat
         /\ \A t \in 1 .. Len(f) : (f \o d)[t] = f[t]
         /\ \A t \in Len(f) + 1 .. Len(f) + Len(d) : (f \o d)[t] = d[t - Len(f)]
  OBVIOUS

\* The engine has the descriptors of the operations that have no result before it.
LEMMA LineDescs ==
  ASSUME NEW x \in Rings, NEW h \in Engines, NEW e \in EnqRec, NEW u, NEW ctl, NEW rest,
         Line(x, h, e, u, ctl, rest), RoomIn(x, ctl), NEW m, m = Pending(x) - u,
         NEW seqs, seqs = [i \in 1 .. m |-> DescsOf(OpAt(x, u + (i - 1)))]
  PROVE  LET descs == FlattenSeq(seqs)
         IN /\ m \in Nat /\ m = h.preps + e.rdr /\ Len(descs) = h.cmds + e.cdr
            /\ \A j \in DOMAIN descs : x.cdr[Add(h.cdr, j - 1)] = descs[j]
            /\ \A i \in 1 .. m : OpAt(x, u + (i - 1)) \in Ops
<1> DEFINE p == Pending(x)
           At(d) == \A t \in 1 .. Len(d) : x.cdr[Add(h.cdr, t - 1)] = d[t]
<1>1. Sizes(x, rest) /\ Total(x, ctl, rest) /\ Placed(x, h, e, u, rest)
  BY DEF Line
<1>2. p \in Nat /\ p < Size
  BY <1>1, Fits
<1>3. h.preps \in Nat /\ e.rdr \in Nat /\ h.cmds \in Nat /\ e.cdr \in Nat
  BY DEF Engines, EnqRec
<1>4. u \in Nat /\ p = u + h.preps + e.rdr /\ rest[u] = h.cmds + e.cdr
  BY <1>1 DEF Placed
<1>5. m \in Nat /\ m = h.preps + e.rdr /\ u + m = p
  BY SMTT(30), <1>2, <1>3, <1>4
<1>6. /\ rest[p] = 0 /\ \A j \in 0 .. p : rest[j] \in Nat
      /\ \A j \in 0 .. p - 1 : rest[j] = rest[j + 1] + Cost(OpAt(x, j))
  BY <1>1 DEF Sizes
<1>7. ASSUME NEW i \in 0 .. m - 1
      PROVE  /\ u + i \in u .. p - 1 /\ u + i \in 0 .. p - 1 /\ u + i \in 0 .. p
             /\ u + ((i + 1) - 1) = u + i /\ i + 1 \in 1 .. m
  BY <1>4, <1>5
<1>8. ASSUME NEW i \in 0 .. m - 1
      PROVE  LET op == OpAt(x, u + i)
             IN /\ op \in Ops /\ Cost(op) \in Nat /\ rest[u] - rest[u + i] \in Nat
                /\ \A k \in 0 .. Cost(op) - 1 :
                     x.cdr[Add(h.cdr, (rest[u] - rest[u + i]) + k)] = DescsOf(op)[k + 1]
                /\ DescsOf(op) \in Seq(Desc) /\ Len(DescsOf(op)) = Cost(op)
                /\ rest[u + i] = rest[u + (i + 1)] + Cost(op) /\ seqs[i + 1] = DescsOf(op)
                /\ rest[u + i] \in Nat /\ rest[u + (i + 1)] \in Nat
  <2> DEFINE op == OpAt(x, u + i)
             a == rest[u]
             b == rest[u + i]
             c == rest[u + (i + 1)]
  <2>1. Cost(op) \in Nat \ {0}
    BY <1>1, <1>7 DEF Sizes
  <2>2. 0 \in 0 .. Cost(op) - 1
    BY <2>1
  <2>3. op \in Ops /\ a - b \in Nat
    BY <1>2, <1>7, <2>2, DescsAhead
  <2>4. \A k \in 0 .. Cost(op) - 1 : x.cdr[Add(h.cdr, (a - b) + k)] = DescsOf(op)[k + 1]
    BY <1>7, DescsAhead
  <2>5. DescsOf(op) \in Seq(Desc) /\ Len(DescsOf(op)) = Cost(op)
    BY <2>1, <2>3, DescsAre
  <2>6. b = c + Cost(op) /\ b \in Nat /\ c \in Nat
    <3>1. (u + i) + 1 = u + (i + 1) /\ u + (i + 1) \in 0 .. p
      BY <1>4, <1>5
    <3> QED BY <1>6, <1>7, <3>1
  <2>7. seqs[i + 1] = DescsOf(op)
    BY <1>7
  <2> HIDE DEF op
  <2>8. op \in Ops /\ Cost(op) \in Nat
    BY <2>1, <2>3
  <2> QED BY <2>3, <2>4, <2>5, <2>6, <2>7, <2>8 DEF op
<1>9. \A i \in 1 .. m : OpAt(x, u + (i - 1)) \in Ops
  <2> SUFFICES ASSUME NEW i \in 1 .. m PROVE OpAt(x, u + (i - 1)) \in Ops
    OBVIOUS
  <2>1. i - 1 \in 0 .. m - 1
    BY <1>4, <1>5
  <2>2. OpAt(x, u + (i - 1)) \in Ops
    BY <1>8, <2>1
  <2> QED BY <2>1, <2>2
<1>10. CASE m = 0
  <2>1. seqs = << >> /\ Len(seqs) = 0
    BY <1>10
  <2>2. FlattenSeq(seqs) = << >>
    BY <2>1 DEF FlattenSeq
  <2>3. rest[u] = 0
    BY <1>4, <1>5, <1>6, <1>10
  <2>4. Len(<< >>) = h.cmds + e.cdr /\ DOMAIN << >> = {}
    BY <1>4, <2>3
  <2> QED BY <1>5, <1>9, <2>2, <2>4
<1>11. CASE m # 0
  <2>1. Len(seqs) = m
    <3>1. \A i \in 1 .. m : DescsOf(OpAt(x, u + (i - 1))) \in Seq(Desc)
      <4> TAKE i \in 1 .. m
      <4>1. i - 1 \in 0 .. m - 1
        BY <1>4, <1>5
      <4>2. DescsOf(OpAt(x, u + (i - 1))) \in Seq(Desc)
        BY <1>8, <4>1
      <4> QED BY <4>1, <4>2
    <3>2. seqs \in [1 .. m -> Seq(Desc)]
      BY <3>1
    <3> QED BY <1>5, <3>2
  <2>2. PICK s : /\ s[1] = seqs[1] /\ \A i \in 2 .. m : s[i] = s[i - 1] \o seqs[i]
                 /\ FlattenSeq(seqs) = s[m]
    BY <1>5, <1>11, <2>1, FlattenSteps
  <2> DEFINE Good(i) == s[i + 1] \in Seq(Desc) /\ Len(s[i + 1]) = rest[u] - rest[u + (i + 1)] /\ At(s[i + 1])
             S == {i \in Nat : i < m => Good(i)}
  <2>3. 0 \in S
    <3> DEFINE op == OpAt(x, u + 0)
               d == DescsOf(op)
               a == rest[u]
               b == rest[u + (0 + 1)]
    <3>1. 0 \in 0 .. m - 1 /\ u + 0 = u /\ 0 + 1 = 1
      BY <1>4, <1>5, <1>11
    <3>2. /\ \A k \in 0 .. Cost(op) - 1 : x.cdr[Add(h.cdr, (a - rest[u + 0]) + k)] = d[k + 1]
          /\ d \in Seq(Desc) /\ Len(d) = Cost(op) /\ rest[u + 0] = b + Cost(op)
          /\ seqs[0 + 1] = d /\ rest[u + 0] \in Nat /\ b \in Nat /\ Cost(op) \in Nat
      BY <1>8, <3>1
    <3>3. s[0 + 1] = d /\ rest[u + 0] = a
      BY <2>2, <3>1, <3>2
    <3> HIDE DEF d, a, b, At, op
    <3>4. Len(d) = a - b
      BY <3>2, <3>3
    <3>5. At(d)
      <4>1. ASSUME NEW t \in 1 .. Len(d) PROVE x.cdr[Add(h.cdr, t - 1)] = d[t]
        <5>1. t - 1 \in 0 .. Cost(op) - 1 /\ (a - a) + (t - 1) = t - 1 /\ (t - 1) + 1 = t
          BY <3>2, <3>3
        <5>2. x.cdr[Add(h.cdr, (a - a) + (t - 1))] = d[(t - 1) + 1]
          BY <3>2, <3>3, <5>1
        <5> QED BY <5>1, <5>2
      <4> QED BY <4>1 DEF At
    <3> QED BY <3>2, <3>3, <3>4, <3>5 DEF a, b
  <2>4. ASSUME NEW i \in S PROVE i + 1 \in S
    <3> SUFFICES ASSUME i + 1 < m PROVE Good(i + 1)
      BY <2>4
    <3> DEFINE op == OpAt(x, u + (i + 1))
               d == DescsOf(op)
               a == rest[u]
               b == rest[u + (i + 1)]
               c == rest[u + ((i + 1) + 1)]
               f == s[i + 1]
               g == s[(i + 1) + 1]
    <3>1. i \in Nat /\ i < m /\ i + 1 \in 0 .. m - 1
      BY <1>5, <2>4
    <3>2. f \in Seq(Desc) /\ Len(f) = a - b /\ At(f)
      BY <2>4, <3>1
    <3>3. /\ \A k \in 0 .. Cost(op) - 1 : x.cdr[Add(h.cdr, (a - b) + k)] = d[k + 1]
          /\ d \in Seq(Desc) /\ Len(d) = Cost(op) /\ b = c + Cost(op) /\ a - b \in Nat
          /\ seqs[(i + 1) + 1] = d /\ b \in Nat /\ c \in Nat /\ Cost(op) \in Nat
      BY <1>8, <3>1
    <3>4. a \in Nat
      <4>1. u \in 0 .. p
        BY <1>2, <1>3, <1>4
      <4> QED BY <1>6, <4>1
    <3>5. g = f \o d
      <4>1. (i + 1) + 1 \in 2 .. m /\ ((i + 1) + 1) - 1 = i + 1
        BY <1>5, <3>1
      <4> QED BY <2>2, <3>3, <4>1
    <3> HIDE DEF d, a, b, c, f, g, op, At
    <3>10. f \in Seq(Desc) /\ d \in Seq(Desc)
      BY <3>2, <3>3
    <3>6. /\ g \in Seq(Desc) /\ Len(g) = Len(f) + Len(d) /\ Len(f) \in Nat /\ Len(d) \in Nat
          /\ \A t \in 1 .. Len(f) : g[t] = f[t]
          /\ \A t \in Len(f) + 1 .. Len(f) + Len(d) : g[t] = d[t - Len(f)]
      BY ONLY <3>5, <3>10, JoinIs
    <3>7. Len(g) = a - c
      BY SMTT(30), <3>2, <3>3, <3>4, <3>6
    <3>8. ASSUME NEW t \in 1 .. Len(g) PROVE x.cdr[Add(h.cdr, t - 1)] = g[t]
      <4>1. CASE t <= Len(f)
        <5>1. t \in 1 .. Len(f) /\ g[t] = f[t]
          BY SMTT(30), <3>6, <4>1
        <5> QED BY <3>2, <5>1 DEF At
      <4>2. CASE ~(t <= Len(f))
        <5> DEFINE k == (t - 1) - Len(f)
                   l == Len(f)
                   n == Cost(op)
        <5>4. l \in Nat /\ n \in Nat /\ l = a - b /\ Len(d) = n /\ Len(g) = l + n /\ k = (t - 1) - l
          BY <3>2, <3>3, <3>6
        <5> HIDE DEF k, l, n
        <5>1. /\ k \in 0 .. Cost(op) - 1 /\ (a - b) + k = t - 1 /\ k + 1 = t - Len(f)
              /\ t \in Len(f) + 1 .. Len(f) + Len(d)
          <6>1. t \in 1 .. l + n /\ ~(t <= l)
            BY <4>2, <5>4 DEF l
          <6>2. k \in 0 .. n - 1 /\ l + k = t - 1 /\ k + 1 = t - l /\ t \in l + 1 .. l + n
            BY <5>4, <6>1
          <6> QED BY <5>4, <6>2 DEF l, n
        <5>2. g[t] = d[t - Len(f)]
          BY <3>6, <5>1
        <5>3. x.cdr[Add(h.cdr, (a - b) + k)] = d[k + 1]
          BY <3>3, <5>1
        <5> QED BY <5>1, <5>2, <5>3
      <4> QED BY <4>1, <4>2
    <3>9. At(g)
      BY <3>8 DEF At
    <3> QED BY <3>6, <3>7, <3>9 DEF a, c, g
  <2> HIDE DEF Good, At
  <2>5. S = Nat
    <3> HIDE DEF S
    <3>1. S \in SUBSET Nat
      BY DEF S
    <3> QED BY <2>3, <2>4, <3>1, NatInduct
  <2>6. m - 1 \in Nat /\ m - 1 < m /\ (m - 1) + 1 = m
    BY <1>5, <1>11
  <2>7. Good(m - 1)
    BY <2>5, <2>6
  <2>8. s[m] \in Seq(Desc) /\ Len(s[m]) = rest[u] - rest[p] /\ At(s[m])
    BY <1>5, <2>6, <2>7 DEF Good
  <2>9. Len(s[m]) = h.cmds + e.cdr
    BY <1>3, <1>4, <1>6, <2>8
  <2>10. DOMAIN s[m] = 1 .. Len(s[m])
    BY <2>8
  <2> QED BY <1>5, <1>9, <2>2, <2>8, <2>9, <2>10 DEF At
<1> QED BY <1>10, <1>11

LEMMA LinedHolds == IInv /\ AllLined /\ Room => RingHoldsPending
<1> SUFFICES ASSUME IInv, AllLined, Room, NEW c \in Cios
             PROVE  LET descs == FlattenSeq([j \in DOMAIN Behind(c) |-> DescsOf(Behind(c)[j])])
                    IN /\ Len(descs) = hw[c].cmds + enq[c].cdr
                       /\ \A j \in DOMAIN descs : cio[c].cdr[Add(hw[c].cdr, j - 1)] = descs[j]
                       /\ hw[c].preps + enq[c].rdr = Len(Behind(c))
  BY DEF RingHoldsPending
<1> DEFINE x == cio[c]
           h == hw[c]
           e == enq[c]
           u == Unread(c)
           ctl == c \in CtrCios
           m == Pending(x) - u
           seqs == [i \in 1 .. m |-> DescsOf(OpAt(x, u + (i - 1)))]
<1>1. PICK rest : Line(x, h, e, u, ctl, rest)
  BY DEF AllLined, Lined
<1>2. x \in Rings /\ h \in Engines /\ e \in EnqRec /\ u \in Nat
  BY Typed
<1>3. RoomIn(x, ctl)
  BY RoomIs
<1>4. Behind(c) = [i \in 1 .. m |-> OpAt(x, u + (i - 1))]
  BY DEF Behind, OpAt
<1> HIDE DEF x, h, e, u, ctl
<1>5. [j \in DOMAIN Behind(c) |-> DescsOf(Behind(c)[j])] = seqs
  BY <1>4
<1> HIDE DEF m, seqs
<1>6. LET descs == FlattenSeq(seqs)
      IN /\ m \in Nat /\ m = h.preps + e.rdr /\ Len(descs) = h.cmds + e.cdr
         /\ \A j \in DOMAIN descs : x.cdr[Add(h.cdr, j - 1)] = descs[j]
         /\ \A i \in 1 .. m : OpAt(x, u + (i - 1)) \in Ops
  <2>1. m = Pending(x) - u /\ seqs = [i \in 1 .. m |-> DescsOf(OpAt(x, u + (i - 1)))]
    BY DEF m, seqs
  <2> QED BY ONLY <1>1, <1>2, <1>3, <2>1, LineDescs, SMTT(30)
<1>7. Len(Behind(c)) = m
  <2>1. Behind(c) \in [1 .. m -> Ops]
    BY <1>4, <1>6
  <2> QED BY <1>6, <2>1
<1> QED BY <1>5, <1>6, <1>7 DEF x, h, e

\* Operations of one descriptor each are less than the entries of the ring.
LEMMA LinedFits == MaxBufs = 1 /\ IInv /\ AllLined => InvalidationsFit
<1> SUFFICES ASSUME MaxBufs = 1, IInv, AllLined, NEW c \in Cios, c \notin CtrCios
             PROVE  Cardinality(Invs(c)) <= FreeCdr(cio[c])
  BY DEF InvalidationsFit
<1> DEFINE x == cio[c]
           s == Sub(x.next_cdr, x.free_cdr)
           i == Cardinality(InvOps(x))
           f == FreeCdr(x)
<1>1. PICK rest : Line(x, hw[c], enq[c], Unread(c), c \in CtrCios, rest)
  BY DEF AllLined, Lined
<1>2. x \in Rings
  BY Typed
<1>3. rest[0] = Pending(x) /\ rest[0] = s + i
  BY <1>1 DEF Line, Total
<1>4. Pending(x) \in Nat /\ Pending(x) < Size
  BY <1>2, SubCases DEF Pending, Rings
<1>5. f = Size - s /\ s \in Nat
  BY <1>2, FreeIs
<1>6. i \in Nat
  BY InvsFinite
<1> HIDE DEF s, i, f
<1>7. i <= f
  BY <1>3, <1>4, <1>5, <1>6, Ring
<1> QED BY <1>7 DEF i, f, Invs, InvOps

-----------------------------------------------------------------------------
(* The results and the descriptors of a ring go with its operations *)

\* As long as the invalidations find a descriptor.
LEMMA AlwaysLined == ASSUME Dedicated, ~Short PROVE Spec /\ []Room => [](IInv /\ AllLined)
<1>1. IInv /\ AllTaken /\ [Next]_vars => AllTaken'
  BY TakenStep
<1>2. IInv /\ AllTaken /\ AllLined /\ Room /\ Room' /\ [Next]_vars => AllLined'
  BY LinedStep
<1> QED
  BY <1>1, <1>2, TakenInit, LinedInit, Invariance, PTL DEF Spec

\* Every result that sam_cio_deq reads is the one of the operation it is given back
\* for, whatever was enqueued, retired, invalidated or closed before.
THEOREM ResultsPaired == ASSUME Dedicated, ~Short PROVE Spec /\ []InvalidationsFit => []Paired
<1>1. InvalidationsFit => Room
  BY DEF Room
<1> QED
  BY <1>1, AlwaysLined, LinedPaired, PTL

\* The engine processes every operation in flight once, with the descriptors it was
\* given: none is overwritten and none is lost.
THEOREM RingsHoldPending ==
  ASSUME Dedicated, ~Short PROVE Spec /\ []InvalidationsFit => []RingHoldsPending
<1>1. InvalidationsFit => Room
  BY DEF Room
<1> QED
  BY <1>1, AlwaysLined, LinedHolds, PTL

\* Where no request has more than one buffer all of this holds, of any ring and for
\* any number of sessions that are destroyed at once.
THEOREM OneBufferEach ==
  ASSUME Dedicated, ~Short, MaxBufs = 1
  PROVE  Spec => [](InvalidationsFit /\ Paired /\ RingHoldsPending)
<1>1. Room
  BY DEF Room
<1>2. IInv /\ AllLined => InvalidationsFit /\ Paired /\ RingHoldsPending
  BY <1>1, LinedFits, LinedPaired, LinedHolds
<1> QED
  BY <1>1, <1>2, AlwaysLined, PTL
=============================================================================
