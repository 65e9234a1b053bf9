-------------------------- MODULE AgnicMgmt_proofs --------------------------
(***************************************************************************)
(* The management protocol gives each call its own answer, whatever the    *)
(* number of threads, commands, indices and descriptors, while one thread  *)
(* polls at a time and no copy of the GIE ends inside an answer.           *)
(*                                                                         *)
(* The two rings of a direction are one stream, which copying does not     *)
(* change.  Calls go up along the answers and then the commands, so none   *)
(* is there twice, and each finds its cookie: a late answer frees the      *)
(* cookie of its own call, never that of a later one with the same index.  *)
(* A late answer may be copied over the buffer of a later call, but never  *)
(* after that call's own answer.                                           *)
(***************************************************************************)
EXTENDS AgnicMgmt, SequenceTheorems, TLAPS

\* The GIE has not stopped inside an answer: the last descriptor it has copied
\* ends a message.
Untorn == notq.host # <<>> => notq.host[Len(notq.host)].pos # "mid"

\* The streams of the two directions, oldest first.
Cmds == cmdq.card \o cmdq.host
Notes == notq.host \o notq.card

\* The answers of a stream, by their first descriptors.
Mids(N) == {i \in 1 .. Len(N) : N[i].pos = "mid"}
\* The commands to be answered.
Asks(C) == {k \in 1 .. Len(C) : C[k].resp}

CookieLists == [0 .. Cookies - 1 -> Cookie]
Callers == [pc: {"idle", "waiting"}, call: Calls \cup {NoCall}, idx: 0 .. Cookies - 1,
            answer: Calls \cup {NoCall},
            ret: {"none", "ok", "error", "timeout", "refused", "unanswered"}]
Typed ==
  /\ cmdq \in [host: Seq(CmdDesc), card: Seq(CmdDesc)]
  /\ notq \in [host: Seq(NotDesc), card: Seq(NotDesc)]
  /\ cookie \in CookieLists /\ cmd_idx \in 0 .. Cookies - 1 /\ calls \in 0 .. MaxCalls
  /\ thread \in [Threads -> Callers] /\ poll \in [Threads -> Found \cup {NotFound}]
  /\ conf \in [host: [Threads -> Calls \cup {NoCall}], card: [Threads -> Calls \cup {NoCall}]]
Linked == link \in [up: BOOLEAN, last: BOOLEAN, host: BOOLEAN]

\* An answer is two descriptors, a notification one.
Joins(N, i) ==
  /\ N[i].pos = "mid" => i < Len(N) /\ N[i + 1].pos = "last" /\ N[i + 1].idx = N[i].idx
  /\ N[i].pos = "last" => i > 1 /\ N[i - 1].pos = "mid"
  /\ N[i].pos = "single" <=> N[i].idx = NOTIFICATION
Joined(N) == \A i \in 1 .. Len(N) : Joins(N, i)

\* Calls go up, from the oldest answer to the newest command.
InOrder(N, C, n) ==
  /\ \A i, j \in Mids(N) : i < j => N[i].call < N[j].call
  /\ \A i \in Mids(N) : N[i].call \in 1 .. n /\ \A k \in 1 .. Len(C) : N[i].call < C[k].call
  /\ \A k, l \in 1 .. Len(C) : k < l => C[k].call < C[l].call
  /\ \A k \in 1 .. Len(C) : C[k].call \in 1 .. n

\* Each finds the cookie of its index to be its own.
Finds(N, C, K) ==
  /\ \A i \in Mids(N) : K[N[i].idx].buf = N[i].call
  /\ \A k \in Asks(C) : K[C[k].idx].buf = C[k].call

\* A cookie in use waits, for what is in the streams or was dropped.
Awaits(N, C, K, gone) ==
  \A x \in 0 .. Cookies - 1 : K[x].buf # NoCall =>
    /\ K[x].cond = "sent"
    /\ \/ K[x].buf \in gone
       \/ \E i \in Mids(N) : N[i].idx = x /\ N[i].call = K[x].buf
       \/ \E k \in Asks(C) : C[k].idx = x /\ C[k].call = K[x].buf

\* The part of the invariant about the streams N and C, the cookies K, the number
\* n of calls and the calls gone.
Core(N, C, K, n, gone) ==
  /\ N \in Seq(NotDesc) /\ C \in Seq(CmdDesc) /\ K \in CookieLists /\ n \in Nat
  /\ Joined(N) /\ InOrder(N, C, n) /\ Finds(N, C, K) /\ Awaits(N, C, K, gone)

\* A caller's cookie is still its own, or its answer is in its buffer.
Calling(r, K) ==
  /\ r.pc = "waiting" => r.call # NoCall /\ (r.answer = r.call \/ K[r.idx].buf = r.call)
  /\ r.ret = "ok" => r.answer = r.call

\* What a poll finds in the message that begins with d.
Seen(d) == [idx |-> d.idx, sg |-> d.pos = "mid", buf |-> IF d.pos = "mid" THEN d.call ELSE NoCall]
\* A poll has read the head of the ring, and no one else has.
Polling(p, r) ==
  \A t \in Threads : p[t] # NotFound =>
    /\ r # <<>> /\ p[t] = Seen(r[1])
    /\ \A u \in Threads : p[u] # NotFound => u = t

\* A caller that has its answer keeps it: what is on its way is of later calls.
Kept(r, N, C, n) ==
  /\ r.call <= n
  /\ r.pc = "waiting" /\ r.answer = r.call =>
       /\ \A i \in Mids(N) : r.call < N[i].call
       /\ \A k \in 1 .. Len(C) : r.call < C[k].call
AnswersKept == \A t \in Threads : Kept(thread[t], Notes, Cmds, calls)

\* The inductive invariant, with AnswersKept.
IInv ==
  /\ Typed /\ Core(Notes, Cmds, cookie, calls, lost)
  /\ (\A t \in Threads : Calling(thread[t], cookie)) /\ Polling(poll, notq.host)

\* No command of t to be answered is still to be executed.
Quiet(t, C) == \A k \in Asks(C) : C[k].by # t

\* A thread t whose record is r, of whose setting the host and the card have the
\* values host and card: its commands, and what their execution has set.
Owned(t, r, host, card, N, C, n) ==
  /\ r.call <= n
  /\ \A k \in 1 .. Len(C) : (C[k].by = t => C[k].call <= r.call) /\ (C[k].call = r.call => C[k].by = t)
  /\ r.pc = "waiting" => \A i \in Mids(N) : N[i].call = r.call => card = r.call /\ Quiet(t, C)
  /\ r.pc = "waiting" /\ r.answer = r.call => card = r.call /\ Quiet(t, C)
  /\ r.ret = "ok" => card = r.call /\ host = r.call /\ Quiet(t, C)

ConfInv == \A t \in Threads : Owned(t, thread[t], conf.host[t], conf.card[t], Notes, Cmds, calls)

-----------------------------------------------------------------------------
(* Sequences *)

\* What is copied from one ring to the other is the same stream.
LEMMA CopySame ==
  ASSUME NEW S, NEW a \in Seq(S), NEW b \in Seq(S), NEW n \in 0 .. Len(b)
  PROVE  /\ (a \o SubSeq(b, 1, n)) \o Drop(b, n) = a \o b
         /\ a \o SubSeq(b, 1, n) \in Seq(S) /\ Drop(b, n) \in Seq(S)
         /\ Len(a \o SubSeq(b, 1, n)) = Len(a) + n
         /\ (n > 0 => (a \o SubSeq(b, 1, n))[Len(a) + n] = b[n])
<1> DEFINE f == SubSeq(b, 1, n)
           g == Drop(b, n)
<1>1. Len(a) \in Nat /\ Len(b) \in Nat /\ \A i \in 1 .. Len(b) : b[i] \in S
  BY ElementOfSeq, LenProperties
<1>2. f \in Seq(S) /\ Len(f) = n /\ \A i \in 1 .. n : f[i] = b[i]
  BY <1>1, SubSeqProperties
<1>3. g \in Seq(S) /\ Len(g) = Len(b) - n /\ \A i \in 1 .. Len(b) - n : g[i] = b[n + i]
  <2>1. \A i \in n + 1 .. Len(b) : b[i] \in S
    BY <1>1
  <2>2. /\ g \in Seq(S) /\ Len(g) = IF n + 1 <= Len(b) THEN Len(b) - (n + 1) + 1 ELSE 0
        /\ \A i \in 1 .. Len(b) - (n + 1) + 1 : g[i] = b[n + 1 + i - 1]
    BY <1>1, <2>1, SubSeqProperties DEF Drop
  <2> HIDE DEF g
  <2> QED BY <1>1, <2>2
<1> HIDE DEF f, g
<1>4. /\ a \o f \in Seq(S) /\ Len(a \o f) = Len(a) + n
      /\ \A i \in 1 .. Len(a) + n : (a \o f)[i] = IF i <= Len(a) THEN a[i] ELSE f[i - Len(a)]
  BY <1>2, ConcatProperties
<1>5. (a \o f) \o g = a \o (f \o g)
  BY <1>2, <1>3, ConcatAssociative
<1>6. f \o g = b
  <2>1. /\ f \o g \in Seq(S) /\ Len(f \o g) = Len(f) + Len(g)
        /\ \A i \in 1 .. Len(f) + Len(g) : (f \o g)[i] = IF i <= Len(f) THEN f[i] ELSE g[i - Len(f)]
    BY <1>2, <1>3, ConcatProperties
  <2>2. Len(f \o g) = Len(b)
    BY <1>1, <1>2, <1>3, <2>1
  <2>3. ASSUME NEW i \in 1 .. Len(f \o g) PROVE (f \o g)[i] = b[i]
    <3>1. CASE i <= n
      BY <1>1, <1>2, <1>3, <2>1, <2>2, <3>1
    <3>2. CASE i > n
      <4>1. (f \o g)[i] = g[i - n] /\ i - n \in 1 .. Len(b) - n
        BY <1>1, <1>2, <1>3, <2>1, <2>2, <3>2
      <4> QED BY <1>1, <1>3, <4>1
    <3> QED BY <3>1, <3>2, <1>1
  <2> QED BY <2>1, <2>2, <2>3, SeqEqual
<1>7. n > 0 => (a \o f)[Len(a) + n] = b[n]
  <2> SUFFICES ASSUME n > 0 PROVE (a \o f)[Len(a) + n] = b[n]
    OBVIOUS
  <2>1. (a \o f)[Len(a) + n] = f[Len(a) + n - Len(a)]
    BY <1>1, <1>4
  <2>2. Len(a) + n - Len(a) = n
    BY <1>1
  <2> QED BY <2>1, <2>2, <1>2
<1> QED BY <1>3, <1>4, <1>5, <1>6, <1>7 DEF f, g

\* What is taken off the first ring is taken off the stream.
LEMMA DropIs ==
  ASSUME NEW S, NEW s \in Seq(S), NEW n \in 0 .. Len(s)
  PROVE  Drop(s, n) \in Seq(S) /\ Len(Drop(s, n)) = Len(s) - n /\ \A i \in 1 .. Len(s) - n : Drop(s, n)[i] = s[i + n]
<1>1. Len(s) \in Nat /\ \A i \in n + 1 .. Len(s) : s[i] \in S
  BY ElementOfSeq, LenProperties
<1>2. /\ Drop(s, n) \in Seq(S) /\ Len(Drop(s, n)) = IF n + 1 <= Len(s) THEN Len(s) - (n + 1) + 1 ELSE 0
      /\ \A i \in 1 .. Len(s) - (n + 1) + 1 : Drop(s, n)[i] = s[n + 1 + i - 1]
  BY <1>1, SubSeqProperties DEF Drop
<1> QED BY <1>1, <1>2

LEMMA DropFront ==
  ASSUME NEW S, NEW a \in Seq(S), NEW b \in Seq(S), NEW n \in 0 .. Len(a)
  PROVE  Drop(a, n) \o b = Drop(a \o b, n)
<1> DEFINE d == Drop(a, n)
           c == a \o b
<1>1. d \in Seq(S) /\ Len(d) = Len(a) - n /\ \A i \in 1 .. Len(a) - n : d[i] = a[i + n]
  BY DropIs
<1>2. /\ c \in Seq(S) /\ Len(c) = Len(a) + Len(b)
      /\ \A i \in 1 .. Len(a) + Len(b) : c[i] = IF i <= Len(a) THEN a[i] ELSE b[i - Len(a)]
  BY ConcatProperties
<1> HIDE DEF d, c
<1>3. Len(a) \in Nat /\ Len(b) \in Nat
  BY LenProperties
<1> DEFINE e == Drop(c, n)
           f == d \o b
<1>4. e \in Seq(S) /\ Len(e) = Len(c) - n /\ \A i \in 1 .. Len(c) - n : e[i] = c[i + n]
  <2>1. n \in 0 .. Len(c)
    BY <1>2, <1>3
  <2> QED BY <1>2, <2>1, DropIs
<1>5. /\ f \in Seq(S) /\ Len(f) = Len(d) + Len(b)
      /\ \A i \in 1 .. Len(d) + Len(b) : f[i] = IF i <= Len(d) THEN d[i] ELSE b[i - Len(d)]
  BY <1>1, ConcatProperties
<1> HIDE DEF e, f
<1>6. Len(f) = Len(e)
  BY <1>1, <1>2, <1>3, <1>4, <1>5
<1>7. ASSUME NEW i \in 1 .. Len(f) PROVE f[i] = e[i]
  <2>1. e[i] = c[i + n] /\ i + n \in 1 .. Len(a) + Len(b)
    BY <1>2, <1>3, <1>4, <1>6
  <2>2. CASE i + n <= Len(a)
    BY <2>1, <2>2, <1>1, <1>2, <1>3, <1>5
  <2>3. CASE i + n > Len(a)
    <3>1. e[i] = b[i + n - Len(a)]
      BY <2>1, <2>3, <1>2, <1>3
    <3>2. f[i] = b[i - Len(d)] /\ i - Len(d) = i + n - Len(a)
      BY <2>1, <2>3, <1>1, <1>3, <1>5
    <3> QED BY <3>1, <3>2
  <2> QED BY <2>1, <2>2, <2>3, <1>3
<1> QED BY <1>4, <1>5, <1>6, <1>7, SeqEqual DEF e, f, d, c

\* The head of a stream is the head of its first ring.
LEMMA HeadFront ==
  ASSUME NEW S, NEW a \in Seq(S), NEW b \in Seq(S), a # <<>>
  PROVE  /\ Head(a) = a[1] /\ (a \o b)[1] = a[1] /\ a \o b # <<>> /\ Len(a) \in Nat \ {0} /\ Len(a) <= Len(a \o b)
         /\ \A i \in 1 .. Len(a) : (a \o b)[i] = a[i]
         /\ Tail(a) = Drop(a, 1) /\ a[1] \in S
<1>1. Len(a) \in Nat \ {0} /\ Len(b) \in Nat
  BY EmptySeq, LenProperties
<1>2. /\ Len(a \o b) = Len(a) + Len(b)
      /\ \A i \in 1 .. Len(a) + Len(b) : (a \o b)[i] = IF i <= Len(a) THEN a[i] ELSE b[i - Len(a)]
  BY ConcatProperties
<1>3. \A i \in 1 .. Len(a) : (a \o b)[i] = a[i]
  BY <1>1, <1>2
<1>4. (a \o b)[1] = a[1] /\ a[1] \in S
  BY <1>1, <1>3, ElementOfSeq
<1>5. a \o b # <<>>
  BY <1>1, <1>2
<1>6. Tail(a) = Drop(a, 1)
  BY TailIsSubSeq DEF Drop
<1>7. Len(a) <= Len(a \o b)
  BY <1>1, <1>2
<1> QED BY <1>1, <1>3, <1>4, <1>5, <1>6, <1>7

\* An element more at the end.
LEMMA AppendCat ==
  ASSUME NEW S, NEW a \in Seq(S), NEW b \in Seq(S), NEW e \in S
  PROVE  a \o Append(b, e) = Append(a \o b, e) /\ Append(b, e) \in Seq(S)
<1>1. Append(b, e) = b \o <<e>> /\ Append(a \o b, e) = (a \o b) \o <<e>> /\ <<e>> \in Seq(S)
  BY AppendIsConcat, ConcatProperties
<1>2. a \o (b \o <<e>>) = (a \o b) \o <<e>>
  BY <1>1, ConcatAssociative
<1> QED BY <1>1, <1>2, AppendProperties

\* Two elements more at the end.
LEMMA TwoMore ==
  ASSUME NEW S, NEW a \in Seq(S), NEW e \in S, NEW f \in S
  PROVE  /\ a \o <<e, f>> \in Seq(S) /\ Len(a \o <<e, f>>) = Len(a) + 2
         /\ \A i \in 1 .. Len(a) : (a \o <<e, f>>)[i] = a[i]
         /\ (a \o <<e, f>>)[Len(a) + 1] = e /\ (a \o <<e, f>>)[Len(a) + 2] = f
<1> DEFINE s == <<e, f>>
<1>1. s \in Seq(S) /\ Len(s) = 2 /\ s[1] = e /\ s[2] = f
  OBVIOUS
<1>2. Len(a) \in Nat
  BY LenProperties
<1> HIDE DEF s
<1> DEFINE t == a \o s
<1>3. /\ t \in Seq(S) /\ Len(t) = Len(a) + Len(s)
      /\ \A i \in 1 .. Len(a) + Len(s) : t[i] = IF i <= Len(a) THEN a[i] ELSE s[i - Len(a)]
  BY <1>1, ConcatProperties
<1> HIDE DEF t
<1>4. \A i \in 1 .. Len(a) : t[i] = a[i]
  BY <1>1, <1>2, <1>3
<1>5. t[Len(a) + 1] = s[1] /\ t[Len(a) + 2] = s[2]
  BY <1>1, <1>2, <1>3
<1> QED BY <1>1, <1>3, <1>4, <1>5 DEF t, s


-----------------------------------------------------------------------------
(* What the steps do to the streams and the cookies *)

\* A command that is refused has a number nonetheless.
LEMMA CountOn ==
  ASSUME NEW N, NEW C, NEW K, NEW n, NEW gone, Core(N, C, K, n, gone)
  PROVE  Core(N, C, K, n + 1, gone)
<1>1. n \in Nat /\ InOrder(N, C, n)
  BY DEF Core
<1>2. InOrder(N, C, n + 1)
  BY <1>1 DEF InOrder
<1> QED BY <1>1, <1>2 DEF Core

\* The elements of the streams.
LEMMA Elements ==
  ASSUME NEW N, NEW C, NEW K, NEW n, NEW gone, Core(N, C, K, n, gone)
  PROVE  /\ Len(N) \in Nat /\ Len(C) \in Nat
         /\ \A i \in 1 .. Len(N) : N[i].idx \in 0 .. Cookies - 1 /\ N[i].pos \in {"single", "mid", "last"}
         /\ \A i \in Mids(N) : N[i].idx \in 1 .. Cookies - 1 /\ N[i].call \in 1 .. n
         /\ \A k \in 1 .. Len(C) : C[k].idx \in 1 .. Cookies - 1 /\ C[k].call \in 1 .. n /\ C[k] \in CmdDesc
         /\ Cookies \in Nat \ {0, 1}
<1>1. Len(N) \in Nat /\ Len(C) \in Nat /\ Cookies \in Nat \ {0, 1}
  BY MgmtAssumption, LenProperties DEF Core
<1>2. \A i \in 1 .. Len(N) : N[i].idx \in 0 .. Cookies - 1 /\ N[i].pos \in {"single", "mid", "last"}
  <2>1. \A i \in 1 .. Len(N) : N[i] \in NotDesc
    BY ElementOfSeq DEF Core
  <2> QED BY <2>1 DEF NotDesc
<1>3. \A i \in Mids(N) : N[i].idx \in 1 .. Cookies - 1 /\ N[i].call \in 1 .. n
  <2>1. \A i \in Mids(N) : i \in 1 .. Len(N) /\ N[i].pos = "mid"
    BY DEF Mids
  <2>2. \A i \in Mids(N) : N[i].idx # NOTIFICATION /\ N[i].call \in 1 .. n
    BY <2>1 DEF Core, Joined, Joins, InOrder
  <2> QED BY <1>1, <1>2, <2>1, <2>2 DEF NOTIFICATION
<1>4. \A k \in 1 .. Len(C) : C[k].idx \in 1 .. Cookies - 1 /\ C[k].call \in 1 .. n /\ C[k] \in CmdDesc
  <2>1. \A k \in 1 .. Len(C) : C[k] \in CmdDesc
    BY ElementOfSeq DEF Core
  <2> QED BY <2>1 DEF CmdDesc, Core, InOrder
<1> QED BY <1>1, <1>2, <1>3, <1>4

\* The cookie a command takes.
Taking(K, d, K2) ==
  /\ K2 \in CookieLists /\ (\A x \in 0 .. Cookies - 1 : x # d.idx => K2[x] = K[x])
  /\ K2[d.idx].buf = (IF d.resp THEN d.call ELSE NoCall) /\ K2[d.idx].cond = "sent"

\* agnic_mgmt_command_send: the command is the newest, and its cookie was free.
LEMMA CoreSend ==
  ASSUME NEW N, NEW C, NEW K, NEW n, NEW gone, Core(N, C, K, n, gone),
         NEW d \in CmdDesc, d.call = n + 1, K[d.idx].buf = NoCall, NEW K2, Taking(K, d, K2)
  PROVE  Core(N, Append(C, d), K2, n + 1, gone)
<1> DEFINE D == Append(C, d)
           M == Len(C)
<1>1. /\ M \in Nat /\ n \in Nat /\ d.idx \in 1 .. Cookies - 1 /\ Cookies \in Nat \ {0, 1}
      /\ C \in Seq(CmdDesc) /\ K \in CookieLists /\ d.resp \in BOOLEAN
  BY Elements DEF Core, CmdDesc
<1>2. D \in Seq(CmdDesc) /\ Len(D) = M + 1 /\ (\A k \in 1 .. M : D[k] = C[k]) /\ D[M + 1] = d
  BY <1>1, AppendProperties
<1> HIDE DEF D, M
<1>3. \A k \in 1 .. M + 1 : k \in 1 .. M \/ k = M + 1
  BY <1>1
<1>4. InOrder(N, D, n + 1)
  <2>1. InOrder(N, C, n)
    BY DEF Core
  <2>2. \A k \in 1 .. M : C[k].call \in 1 .. n
    BY Elements DEF M
  <2>3. \A k \in 1 .. Len(D) : D[k].call \in 1 .. n + 1
    BY <1>1, <1>2, <1>3, <2>2
  <2>4. \A k, l \in 1 .. Len(D) : k < l => D[k].call < D[l].call
    <3> SUFFICES ASSUME NEW k \in 1 .. M + 1, NEW l \in 1 .. M + 1, k < l PROVE D[k].call < D[l].call
      BY <1>2
    <3>1. k \in 1 .. M
      BY <1>1
    <3>2. CASE l \in 1 .. M
      <4>1. C[k].call < C[l].call
        BY <2>1, <3>1, <3>2 DEF InOrder, M
      <4> QED BY <4>1, <1>2, <3>1, <3>2
    <3>3. CASE l = M + 1
      BY <1>1, <1>2, <2>2, <3>1, <3>3
    <3> QED BY <1>3, <3>2, <3>3
  <2>5. \A i \in Mids(N) : N[i].call \in 1 .. n
    BY <2>1 DEF InOrder
  <2>6. \A i \in Mids(N) : N[i].call \in 1 .. n + 1 /\ \A k \in 1 .. Len(D) : N[i].call < D[k].call
    <3> SUFFICES ASSUME NEW i \in Mids(N) PROVE N[i].call \in 1 .. n + 1 /\ \A k \in 1 .. Len(D) : N[i].call < D[k].call
      OBVIOUS
    <3>1. N[i].call \in 1 .. n /\ N[i].call \in 1 .. n + 1
      BY <1>1, <2>5
    <3>2. \A k \in 1 .. M : N[i].call < C[k].call
      BY <2>1 DEF InOrder, M
    <3>3. N[i].call < d.call
      BY <1>1, <3>1
    <3> QED BY <1>2, <1>3, <3>1, <3>2, <3>3
  <2> QED BY <2>1, <2>3, <2>4, <2>6 DEF InOrder
<1>5. \A x \in 0 .. Cookies - 1 : K[x].buf # NoCall => K2[x] = K[x]
  BY DEF Taking
<1>6. Finds(N, D, K2)
  <2>1. Finds(N, C, K)
    BY DEF Core
  <2>2. \A i \in Mids(N) : K2[N[i].idx].buf = N[i].call
    <3> SUFFICES ASSUME NEW i \in Mids(N) PROVE K2[N[i].idx].buf = N[i].call
      OBVIOUS
    <3>1. K[N[i].idx].buf = N[i].call /\ N[i].call # NoCall /\ N[i].idx \in 0 .. Cookies - 1
      BY <2>1, Elements, <1>1 DEF Finds, NoCall
    <3> QED BY <3>1, <1>5
  <2>3. \A k \in Asks(D) : K2[D[k].idx].buf = D[k].call
    <3> SUFFICES ASSUME NEW k \in Asks(D) PROVE K2[D[k].idx].buf = D[k].call
      OBVIOUS
    <3>1. k \in 1 .. M + 1 /\ D[k].resp
      BY <1>2 DEF Asks
    <3>2. CASE k \in 1 .. M
      <4>1. k \in Asks(C)
        BY <1>2, <3>1, <3>2 DEF Asks, M
      <4>2. K[C[k].idx].buf = C[k].call /\ C[k].call # NoCall /\ C[k].idx \in 0 .. Cookies - 1
        BY <2>1, <3>2, <4>1, Elements, <1>1 DEF Finds, NoCall, M
      <4> QED BY <4>2, <1>5, <1>2, <3>2
    <3>3. CASE k = M + 1
      BY <1>2, <3>1, <3>3 DEF Taking
    <3> QED BY <1>3, <3>1, <3>2, <3>3
  <2> QED BY <2>2, <2>3 DEF Finds
<1>7. Awaits(N, D, K2, gone)
  <2> SUFFICES ASSUME NEW x \in 0 .. Cookies - 1, K2[x].buf # NoCall
               PROVE  /\ K2[x].cond = "sent"
                      /\ \/ K2[x].buf \in gone
                         \/ \E i \in Mids(N) : N[i].idx = x /\ N[i].call = K2[x].buf
                         \/ \E k \in Asks(D) : D[k].idx = x /\ D[k].call = K2[x].buf
    BY DEF Awaits
  <2>1. CASE x = d.idx
    <3>1. d.resp /\ K2[x].cond = "sent" /\ K2[x].buf = d.call
      BY <2>1 DEF Taking
    <3>2. M + 1 \in Asks(D)
      BY <1>1, <1>2, <3>1 DEF Asks
    <3> QED BY <1>2, <2>1, <3>1, <3>2
  <2>2. CASE x # d.idx
    <3>1. K2[x] = K[x]
      BY <2>2 DEF Taking
    <3>2. /\ K[x].cond = "sent"
          /\ \/ K[x].buf \in gone
             \/ \E i \in Mids(N) : N[i].idx = x /\ N[i].call = K[x].buf
             \/ \E k \in Asks(C) : C[k].idx = x /\ C[k].call = K[x].buf
      BY <3>1 DEF Core, Awaits
    <3>3. \A k \in Asks(C) : k \in Asks(D) /\ D[k] = C[k]
      BY <1>1, <1>2 DEF Asks, M
    <3> QED BY <3>1, <3>2, <3>3
  <2> QED BY <2>1, <2>2
<1>8. K2 \in CookieLists /\ N \in Seq(NotDesc) /\ Joined(N)
  BY DEF Core, Taking
<1> QED BY <1>1, <1>2, <1>4, <1>6, <1>7, <1>8 DEF Core, D

\* Dispatch takes the oldest command, whose call is then dropped ...
LEMMA CoreTail ==
  ASSUME NEW N, NEW C, NEW K, NEW n, NEW gone, Core(N, C, K, n, gone), C # <<>>,
         NEW g2, gone \subseteq g2, C[1].resp => C[1].call \in g2
  PROVE  Core(N, Drop(C, 1), K, n, g2)
<1> DEFINE D == Drop(C, 1)
           M == Len(C)
<1>1. M \in Nat \ {0} /\ C \in Seq(CmdDesc)
  BY EmptySeq DEF Core
<1>2. D \in Seq(CmdDesc) /\ Len(D) = M - 1 /\ \A k \in 1 .. M - 1 : D[k] = C[k + 1]
  <2>1. 1 \in 0 .. Len(C)
    BY <1>1
  <2> QED BY <1>1, <2>1, DropIs
<1> HIDE DEF D, M
<1>3. \A k \in 1 .. Len(D) : k + 1 \in 1 .. M /\ D[k] = C[k + 1]
  BY <1>1, <1>2
<1>4. InOrder(N, D, n)
  <2>1. InOrder(N, C, n)
    BY DEF Core
  <2>2. \A k \in 1 .. Len(C) : C[k].call \in 1 .. n
    BY <2>1 DEF InOrder
  <2>3. \A k, l \in 1 .. Len(D) : k < l => k + 1 < l + 1
    BY <1>1, <1>2
  <2>4. \A k, l \in 1 .. Len(D) : k < l => D[k].call < D[l].call
    BY <1>3, <2>1, <2>3 DEF InOrder, M
  <2>5. \A k \in 1 .. Len(D) : D[k].call \in 1 .. n
    BY <1>3, <2>2 DEF M
  <2>6. \A i \in Mids(N) : \A k \in 1 .. Len(D) : N[i].call < D[k].call
    BY <1>3, <2>1 DEF InOrder, M
  <2> QED BY <2>1, <2>4, <2>5, <2>6 DEF InOrder
<1>5. \A k \in Asks(D) : k + 1 \in Asks(C) /\ D[k] = C[k + 1]
  BY <1>3 DEF Asks, M
<1>6. Finds(N, D, K)
  BY <1>5 DEF Finds, Core
<1>7. Awaits(N, D, K, g2)
  <2> SUFFICES ASSUME NEW x \in 0 .. Cookies - 1, K[x].buf # NoCall
               PROVE  /\ K[x].cond = "sent"
                      /\ \/ K[x].buf \in g2
                         \/ \E i \in Mids(N) : N[i].idx = x /\ N[i].call = K[x].buf
                         \/ \E k \in Asks(D) : D[k].idx = x /\ D[k].call = K[x].buf
    BY DEF Awaits
  <2>1. /\ K[x].cond = "sent"
        /\ \/ K[x].buf \in gone
           \/ \E i \in Mids(N) : N[i].idx = x /\ N[i].call = K[x].buf
           \/ \E k \in Asks(C) : C[k].idx = x /\ C[k].call = K[x].buf
    BY DEF Core, Awaits
  <2>2. ASSUME NEW k \in Asks(C), C[k].idx = x, C[k].call = K[x].buf
        PROVE  K[x].buf \in g2 \/ \E j \in Asks(D) : D[j].idx = x /\ D[j].call = K[x].buf
    <3>1. k \in 1 .. M /\ C[k].resp
      BY DEF Asks, M
    <3>2. CASE k = 1
      BY <2>2, <3>1, <3>2
    <3>3. CASE k # 1
      <4>1. k - 1 \in 1 .. Len(D) /\ D[k - 1] = C[k]
        BY <1>1, <1>2, <3>1, <3>3
      <4>2. k - 1 \in Asks(D)
        BY <3>1, <4>1 DEF Asks
      <4> QED BY <2>2, <4>1, <4>2
    <3> QED BY <3>2, <3>3
  <2> QED BY <2>1, <2>2
<1> QED BY <1>2, <1>4, <1>6, <1>7 DEF Core, D

\* ... or answered: two descriptors, found by the same cookie.
LEMMA CoreAnswer ==
  ASSUME NEW N, NEW C, NEW K, NEW n, NEW gone, Core(N, C, K, n, gone), C # <<>>, C[1].resp,
         NEW a \in NotDesc, NEW b \in NotDesc, a.pos = "mid", b.pos = "last",
         a.idx = C[1].idx, b.idx = C[1].idx, a.call = C[1].call
  PROVE  Core(N \o <<a, b>>, Drop(C, 1), K, n, gone)
<1> DEFINE D == Drop(C, 1)
           N2 == N \o <<a, b>>
           M == Len(N)
           c == C[1].call
           x0 == C[1].idx
           g2 == gone \cup {c}
<1>1. M \in Nat /\ N \in Seq(NotDesc) /\ C \in Seq(CmdDesc) /\ Len(C) \in Nat \ {0} /\ 1 \in 1 .. Len(C)
  BY Elements, EmptySeq DEF Core
<1>2. N2 \in Seq(NotDesc) /\ Len(N2) = M + 2 /\ (\A i \in 1 .. M : N2[i] = N[i]) /\ N2[M + 1] = a /\ N2[M + 2] = b
  BY <1>1, TwoMore
<1>3. Core(N, D, K, n, g2)
  BY CoreTail
<1>4. c \in 1 .. n /\ x0 \in 1 .. Cookies - 1 /\ (\A i \in Mids(N) : N[i].call < c) /\ K[x0].buf = c
  <2>1. InOrder(N, C, n) /\ Finds(N, C, K) /\ 1 \in Asks(C)
    BY <1>1 DEF Core, Asks
  <2>2. C[1].call \in 1 .. n /\ C[1].idx \in 1 .. Cookies - 1
    BY <1>1, Elements
  <2> QED BY <1>1, <2>1, <2>2 DEF InOrder, Finds
<1>5. \A k \in 1 .. Len(D) : c < D[k].call
  <2>1. Len(D) = Len(C) - 1 /\ \A k \in 1 .. Len(C) - 1 : D[k] = C[k + 1]
    <3>1. 1 \in 0 .. Len(C)
      BY <1>1
    <3> QED BY <1>1, <3>1, DropIs
  <2> HIDE DEF D
  <2> SUFFICES ASSUME NEW k \in 1 .. Len(D) PROVE C[1].call < D[k].call
    OBVIOUS
  <2>2. D[k] = C[k + 1] /\ k + 1 \in 1 .. Len(C) /\ 1 < k + 1
    BY <1>1, <2>1
  <2> QED BY <1>1, <2>2 DEF Core, InOrder
<1> HIDE DEF D, N2, M, c, x0
<1>6. Mids(N2) = Mids(N) \cup {M + 1}
  <2>1. \A i \in 1 .. M + 2 : i \in 1 .. M \/ i = M + 1 \/ i = M + 2
    BY <1>1
  <2>2. M + 1 \in 1 .. M + 2 /\ \A i \in 1 .. M : i \in 1 .. M + 2
    BY <1>1
  <2> QED BY <1>2, <2>1, <2>2 DEF Mids, M
<1>7. \A i \in Mids(N) : N2[i] = N[i] /\ i <= M /\ i \in Nat
  BY <1>1, <1>2 DEF Mids, M
<1>8. Joined(N2)
  <2>1. Joined(N)
    BY DEF Core
  <2> SUFFICES ASSUME NEW i \in 1 .. M + 2
               PROVE  /\ N2[i].pos = "mid" => i < M + 2 /\ N2[i + 1].pos = "last" /\ N2[i + 1].idx = N2[i].idx
                      /\ N2[i].pos = "last" => i > 1 /\ N2[i - 1].pos = "mid"
                      /\ N2[i].pos = "single" <=> N2[i].idx = NOTIFICATION
    BY <1>2 DEF Joined, Joins
  <2>2. CASE i \in 1 .. M
    <3>1. /\ N[i].pos = "mid" => i < M /\ N[i + 1].pos = "last" /\ N[i + 1].idx = N[i].idx
          /\ N[i].pos = "last" => i > 1 /\ N[i - 1].pos = "mid"
          /\ N[i].pos = "single" <=> N[i].idx = NOTIFICATION
      BY <2>1, <2>2 DEF Joined, Joins, M
    <3>2. N2[i] = N[i] /\ (i < M => N2[i + 1] = N[i + 1]) /\ (i > 1 => N2[i - 1] = N[i - 1])
      <4>1. (i < M => i + 1 \in 1 .. M) /\ (i > 1 => i - 1 \in 1 .. M)
        BY <1>1, <2>2
      <4> QED BY <4>1, <1>2, <2>2
    <3>3. i < M => i < M + 2
      BY <1>1
    <3> QED BY <3>1, <3>2, <3>3
  <2>3. CASE i = M + 1
    <3>1. N2[i] = a /\ N2[i + 1] = b
      BY <1>1, <1>2, <2>3
    <3>2. a.idx # NOTIFICATION
      BY <1>4 DEF NOTIFICATION, x0
    <3>3. i < M + 2
      BY <1>1, <2>3
    <3> QED BY <3>1, <3>2, <3>3
  <2>4. CASE i = M + 2
    <3>1. N2[i] = b /\ N2[i - 1] = a /\ i > 1
      BY <1>1, <1>2, <2>4
    <3>2. b.idx # NOTIFICATION
      BY <1>4 DEF NOTIFICATION, x0
    <3> QED BY <3>1, <3>2
  <2> QED BY <1>1, <2>2, <2>3, <2>4
<1>9. N2[M + 1].call = c /\ N2[M + 1].idx = x0
  BY <1>2 DEF c, x0
<1>10. InOrder(N2, D, n)
  <2>1. InOrder(N, D, n)
    BY <1>3 DEF Core
  <2>2. \A i \in Mids(N2) : N2[i].call \in 1 .. n /\ \A k \in 1 .. Len(D) : N2[i].call < D[k].call
    BY <1>4, <1>5, <1>6, <1>7, <1>9, <2>1 DEF InOrder
  <2>3. \A i, j \in Mids(N2) : i < j => N2[i].call < N2[j].call
    <3> SUFFICES ASSUME NEW i \in Mids(N2), NEW j \in Mids(N2), i < j PROVE N2[i].call < N2[j].call
      OBVIOUS
    <3>1. i # M + 1
      BY <1>1, <1>6, <1>7
    <3>2. i \in Mids(N) /\ N2[i] = N[i]
      BY <3>1, <1>6, <1>7
    <3>3. CASE j = M + 1
      BY <1>4, <1>9, <3>2, <3>3
    <3>4. CASE j \in Mids(N)
      BY <1>7, <2>1, <3>2, <3>4 DEF InOrder
    <3> QED BY <1>6, <3>3, <3>4
  <2> QED BY <2>1, <2>2, <2>3 DEF InOrder
<1>11. Finds(N2, D, K)
  BY <1>3, <1>4, <1>6, <1>7, <1>9 DEF Core, Finds
<1>12. Awaits(N2, D, K, gone)
  <2> SUFFICES ASSUME NEW x \in 0 .. Cookies - 1, K[x].buf # NoCall
               PROVE  /\ K[x].cond = "sent"
                      /\ \/ K[x].buf \in gone
                         \/ \E i \in Mids(N2) : N2[i].idx = x /\ N2[i].call = K[x].buf
                         \/ \E k \in Asks(D) : D[k].idx = x /\ D[k].call = K[x].buf
    BY DEF Awaits
  <2>1. /\ K[x].cond = "sent"
        /\ \/ K[x].buf \in gone
           \/ \E i \in Mids(N) : N[i].idx = x /\ N[i].call = K[x].buf
           \/ \E k \in Asks(C) : C[k].idx = x /\ C[k].call = K[x].buf
    BY DEF Core, Awaits
  <2>2. CASE \E i \in Mids(N) : N[i].idx = x /\ N[i].call = K[x].buf
    BY <2>1, <2>2, <1>6, <1>7
  <2>3. ASSUME NEW k \in Asks(C), C[k].idx = x, C[k].call = K[x].buf
        PROVE  \/ \E i \in Mids(N2) : N2[i].idx = x /\ N2[i].call = K[x].buf
               \/ \E j \in Asks(D) : D[j].idx = x /\ D[j].call = K[x].buf
    <3>1. k \in 1 .. Len(C) /\ C[k].resp
      BY DEF Asks
    <3>2. CASE k = 1
      <4>1. x = x0 /\ K[x].buf = c
        BY <2>3, <3>2 DEF x0, c
      <4> QED BY <4>1, <1>6, <1>9
    <3>3. CASE k # 1
      <4>1. Len(D) = Len(C) - 1 /\ \A j \in 1 .. Len(C) - 1 : D[j] = C[j + 1]
        <5>1. 1 \in 0 .. Len(C)
          BY <1>1
        <5> QED BY <1>1, <5>1, DropIs DEF D
      <4>2. k - 1 \in 1 .. Len(D) /\ D[k - 1] = C[k]
        BY <1>1, <3>1, <3>3, <4>1
      <4>3. k - 1 \in Asks(D)
        BY <3>1, <4>2 DEF Asks
      <4> QED BY <2>3, <4>2, <4>3
    <3> QED BY <3>2, <3>3
  <2> QED BY <2>1, <2>2, <2>3
<1> QED BY <1>2, <1>3, <1>8, <1>10, <1>11, <1>12 DEF Core, D, N2

\* The maintenance adds a notification.
LEMMA CoreNote ==
  ASSUME NEW N, NEW C, NEW K, NEW n, NEW gone, Core(N, C, K, n, gone),
         NEW e \in NotDesc, e.pos = "single", e.idx = NOTIFICATION
  PROVE  Core(Append(N, e), C, K, n, gone)
<1> DEFINE N2 == Append(N, e)
           M == Len(N)
<1>1. M \in Nat /\ N \in Seq(NotDesc)
  BY Elements DEF Core
<1>2. N2 \in Seq(NotDesc) /\ Len(N2) = M + 1 /\ (\A i \in 1 .. M : N2[i] = N[i]) /\ N2[M + 1] = e
  BY <1>1, AppendProperties
<1> HIDE DEF N2, M
<1>3. \A i \in 1 .. M + 1 : i \in 1 .. M \/ i = M + 1
  BY <1>1
<1>4. Mids(N2) = Mids(N) /\ \A i \in Mids(N) : N2[i] = N[i]
  <2>1. \A i \in 1 .. M : i \in 1 .. M + 1
    BY <1>1
  <2> QED BY <1>2, <1>3, <2>1 DEF Mids, M
<1>5. Joined(N2)
  <2> SUFFICES ASSUME NEW i \in 1 .. M + 1 PROVE Joins(N2, i)
    BY <1>2 DEF Joined
  <2>2. CASE i \in 1 .. M
    <3>1. /\ N[i].pos = "mid" => i < M /\ N[i + 1].pos = "last" /\ N[i + 1].idx = N[i].idx
          /\ N[i].pos = "last" => i > 1 /\ N[i - 1].pos = "mid"
          /\ N[i].pos = "single" <=> N[i].idx = NOTIFICATION
      BY <2>2 DEF Core, Joined, Joins, M
    <3>2. N2[i] = N[i] /\ (i < M => N2[i + 1] = N[i + 1]) /\ (i > 1 => N2[i - 1] = N[i - 1])
      <4>1. (i < M => i + 1 \in 1 .. M) /\ (i > 1 => i - 1 \in 1 .. M)
        BY <1>1, <2>2
      <4> QED BY <4>1, <1>2, <2>2
    <3>3. i < M => i < M + 1
      BY <1>1
    <3> QED BY <3>1, <3>2, <3>3, <1>2 DEF Joins
  <2>3. CASE i = M + 1
    BY <1>2, <2>3 DEF Joins
  <2> QED BY <1>3, <2>2, <2>3
<1>6. InOrder(N2, C, n) /\ Finds(N2, C, K) /\ Awaits(N2, C, K, gone)
  <2>1. InOrder(N, C, n) /\ Finds(N, C, K) /\ Awaits(N, C, K, gone)
    BY DEF Core
  <2>2. InOrder(N2, C, n)
    BY <1>4, <2>1 DEF InOrder
  <2>3. Finds(N2, C, K)
    BY <1>4, <2>1 DEF Finds
  <2>4. Awaits(N2, C, K, gone)
    BY <1>4, <2>1 DEF Awaits
  <2> QED BY <2>2, <2>3, <2>4
<1> QED BY <1>2, <1>5, <1>6 DEF Core, N2

\* The head of the ring is not the rest of an answer.
LEMMA HeadIs ==
  ASSUME NEW N, NEW C, NEW K, NEW n, NEW gone, Core(N, C, K, n, gone), N # <<>>
  PROVE  /\ Len(N) \in Nat \ {0} /\ N[1] \in NotDesc
         /\ \/ N[1].pos = "single" /\ N[1].idx = NOTIFICATION
            \/ /\ N[1].pos = "mid" /\ N[1].idx \in 1 .. Cookies - 1 /\ 1 \in Mids(N)
               /\ Len(N) >= 2 /\ N[2].pos = "last" /\ N[2].idx = N[1].idx
               /\ K[N[1].idx].buf = N[1].call /\ N[1].call \in 1 .. n
<1>1. Len(N) \in Nat \ {0} /\ N[1] \in NotDesc /\ 1 \in 1 .. Len(N)
  <2>1. Len(N) \in Nat \ {0}
    BY EmptySeq, LenProperties DEF Core
  <2> QED BY <2>1, ElementOfSeq DEF Core
<1>2. Joins(N, 1)
  BY <1>1 DEF Core, Joined
<1>3. N[1].pos \in {"single", "mid", "last"}
  BY <1>1, Elements
<1>4. CASE N[1].pos = "mid"
  <2>1. 1 \in Mids(N)
    BY <1>1, <1>4 DEF Mids
  <2>2. N[1].idx \in 1 .. Cookies - 1 /\ N[1].call \in 1 .. n
    BY <2>1, Elements
  <2>3. K[N[1].idx].buf = N[1].call
    BY <2>1 DEF Core, Finds
  <2>4. 1 < Len(N) /\ N[1 + 1].pos = "last" /\ N[1 + 1].idx = N[1].idx
    BY <1>2, <1>4 DEF Joins
  <2>5. Len(N) >= 2 /\ N[2].pos = "last" /\ N[2].idx = N[1].idx
    BY <2>4, <1>1
  <2> QED BY <1>1, <1>4, <2>1, <2>2, <2>3, <2>5
<1>5. CASE N[1].pos = "single"
  BY <1>1, <1>2, <1>5 DEF Joins
<1> QED BY <1>2, <1>3, <1>4, <1>5 DEF Joins

\* A poll takes the message at the head, and frees the cookie of an answer.
LEMMA CoreTake ==
  ASSUME NEW N, NEW C, NEW K, NEW n, NEW gone, Core(N, C, K, n, gone), N # <<>>,
         NEW m \in {1, 2}, m = 2 <=> N[1].pos = "mid",
         NEW K2 \in CookieLists, \A x \in 0 .. Cookies - 1 : x # N[1].idx => K2[x] = K[x],
         IF m = 1 THEN K2 = K ELSE K2[N[1].idx].buf = NoCall
  PROVE  Core(Drop(N, m), C, K2, n, gone)
<1> DEFINE D == Drop(N, m)
           M == Len(N)
           x0 == N[1].idx
<1>1. M \in Nat \ {0} /\ m \in 1 .. M /\ N \in Seq(NotDesc) /\ n \in Nat
  BY HeadIs DEF Core
<1>2. D \in Seq(NotDesc) /\ Len(D) = M - m /\ \A i \in 1 .. M - m : D[i] = N[i + m]
  <2>1. m \in 0 .. Len(N)
    BY <1>1
  <2> QED BY <1>1, <2>1, DropIs
<1> HIDE DEF D, M
<1>3. \A i \in 1 .. Len(D) : i + m \in 1 .. M /\ D[i] = N[i + m]
  BY <1>1, <1>2
<1>4. \A i \in Mids(D) : i + m \in Mids(N) /\ D[i] = N[i + m] /\ i \in Nat \ {0}
  BY <1>1, <1>2, <1>3 DEF Mids, M
<1>5. \A j \in Mids(N) : (j = 1 /\ m = 2) \/ (j - m \in Mids(D) /\ N[j] = D[j - m])
  <2> SUFFICES ASSUME NEW j \in Mids(N), ~(j = 1 /\ m = 2) PROVE j - m \in Mids(D) /\ N[j] = D[j - m]
    OBVIOUS
  <2>1. j \in 1 .. M /\ N[j].pos = "mid"
    BY DEF Mids, M
  <2>2. j # 1 /\ (m = 2 => j # 2)
    BY <2>1, HeadIs
  <2>3. j - m \in 1 .. M - m
    BY <2>1, <2>2, <1>1
  <2>4. D[j - m] = N[j]
    BY <2>3, <2>1, <1>1, <1>2
  <2> QED BY <2>1, <2>3, <2>4, <1>2 DEF Mids
<1>6. Joined(D)
  <2> SUFFICES ASSUME NEW i \in 1 .. Len(D) PROVE Joins(D, i)
    BY DEF Joined
  <2>1. i + m \in 1 .. M /\ D[i] = N[i + m] /\ i \in Nat \ {0}
    BY <1>1, <1>2, <1>3
  <2>2. Joins(N, i + m)
    BY <2>1 DEF Core, Joined, M
  <2>3. D[i].pos = "mid" => i < Len(D) /\ D[i + 1].pos = "last" /\ D[i + 1].idx = D[i].idx
    <3> SUFFICES ASSUME D[i].pos = "mid" PROVE i < Len(D) /\ D[i + 1].pos = "last" /\ D[i + 1].idx = D[i].idx
      OBVIOUS
    <3>1. i + m < M /\ N[i + m + 1].pos = "last" /\ N[i + m + 1].idx = N[i + m].idx
      BY <2>1, <2>2 DEF Joins, M
    <3>2. i < Len(D) /\ i + 1 \in 1 .. Len(D) /\ i + m + 1 = i + 1 + m
      BY <1>1, <1>2, <2>1, <3>1
    <3> QED BY <1>3, <2>1, <3>1, <3>2
  <2>4. D[i].pos = "last" => i > 1 /\ D[i - 1].pos = "mid"
    <3> SUFFICES ASSUME D[i].pos = "last" PROVE i > 1 /\ D[i - 1].pos = "mid"
      OBVIOUS
    <3>1. N[i + m - 1].pos = "mid"
      BY <2>1, <2>2 DEF Joins
    <3>2. i # 1
      BY <3>1, HeadIs
    <3>3. i > 1 /\ i - 1 \in 1 .. Len(D) /\ i - 1 + m = i + m - 1
      BY <1>1, <1>2, <2>1, <3>2
    <3> QED BY <1>3, <3>1, <3>3
  <2> QED BY <2>1, <2>2, <2>3, <2>4 DEF Joins
<1>7. InOrder(N, C, n)
  BY DEF Core
<1>8. InOrder(D, C, n)
  <2>1. \A i, j \in Mids(D) : i < j => D[i].call < D[j].call
    <3> SUFFICES ASSUME NEW i \in Mids(D), NEW j \in Mids(D), i < j PROVE D[i].call < D[j].call
      OBVIOUS
    <3>1. i + m < j + m
      BY <1>1, <1>4
    <3> QED BY <3>1, <1>4, <1>7 DEF InOrder
  <2>2. \A i \in Mids(D) : D[i].call \in 1 .. n /\ \A k \in 1 .. Len(C) : D[i].call < C[k].call
    BY <1>4, <1>7 DEF InOrder
  <2> QED BY <1>7, <2>1, <2>2 DEF InOrder
<1>9. Finds(D, C, K2)
  <2>1. ASSUME NEW i \in Mids(D) PROVE K2[D[i].idx].buf = D[i].call
    <3>1. K[D[i].idx].buf = D[i].call /\ D[i].idx \in 0 .. Cookies - 1
      BY <1>4, Elements DEF Core, Finds
    <3>2. D[i].idx # x0 \/ m = 1
      <4> SUFFICES ASSUME m = 2 PROVE D[i].idx # x0
        OBVIOUS
      <4>1. 1 \in Mids(N) /\ i + m \in Mids(N) /\ 1 < i + m /\ N[1].call \in 1 .. n /\ D[i].call \in 1 .. n
        BY <1>4, HeadIs, <1>1, Elements
      <4>2. N[1].call < D[i].call
        BY <4>1, <1>4, <1>7 DEF InOrder
      <4>3. D[i].call # N[1].call
        BY <4>1, <4>2
      <4> QED BY <4>3, <3>1, HeadIs
    <3> QED BY <3>1, <3>2
  <2>2. ASSUME NEW k \in Asks(C) PROVE K2[C[k].idx].buf = C[k].call
    <3>1. k \in 1 .. Len(C) /\ C[k].resp
      BY DEF Asks
    <3>2. K[C[k].idx].buf = C[k].call /\ C[k].idx \in 0 .. Cookies - 1
      BY <3>1, Elements DEF Core, Finds
    <3>3. C[k].idx # x0 \/ m = 1
      <4> SUFFICES ASSUME m = 2 PROVE C[k].idx # x0
        OBVIOUS
      <4>1. 1 \in Mids(N) /\ N[1].call \in 1 .. n /\ C[k].call \in 1 .. n
        BY <3>1, HeadIs, Elements
      <4>2. N[1].call < C[k].call
        BY <3>1, <4>1, <1>7 DEF InOrder
      <4>3. C[k].call # N[1].call
        BY <4>1, <4>2
      <4> QED BY <4>3, <3>2, HeadIs
    <3> QED BY <3>2, <3>3
  <2> QED BY <2>1, <2>2 DEF Finds
<1>10. Awaits(D, C, K2, gone)
  <2> SUFFICES ASSUME NEW x \in 0 .. Cookies - 1, K2[x].buf # NoCall
               PROVE  /\ K2[x].cond = "sent"
                      /\ \/ K2[x].buf \in gone
                         \/ \E i \in Mids(D) : D[i].idx = x /\ D[i].call = K2[x].buf
                         \/ \E k \in Asks(C) : C[k].idx = x /\ C[k].call = K2[x].buf
    BY DEF Awaits
  <2>1. K2[x] = K[x] /\ (x # x0 \/ m = 1)
    OBVIOUS
  <2>2. /\ K[x].cond = "sent"
        /\ \/ K[x].buf \in gone
           \/ \E i \in Mids(N) : N[i].idx = x /\ N[i].call = K[x].buf
           \/ \E k \in Asks(C) : C[k].idx = x /\ C[k].call = K[x].buf
    BY <2>1 DEF Core, Awaits
  <2>3. ASSUME NEW j \in Mids(N), N[j].idx = x, N[j].call = K[x].buf
        PROVE  \E i \in Mids(D) : D[i].idx = x /\ D[i].call = K[x].buf
    <3>1. j - m \in Mids(D) /\ N[j] = D[j - m]
      BY <1>5, <2>1, <2>3
    <3> QED BY <2>3, <3>1
  <2> QED BY <2>1, <2>2, <2>3
<1> QED BY <1>2, <1>6, <1>8, <1>9, <1>10 DEF Core, D

-----------------------------------------------------------------------------
(* The steps keep the invariant *)

\* The four rings and their streams.
LEMMA Rings ==
  ASSUME IInv
  PROVE  /\ cmdq.host \in Seq(CmdDesc) /\ cmdq.card \in Seq(CmdDesc)
         /\ notq.host \in Seq(NotDesc) /\ notq.card \in Seq(NotDesc)
         /\ cookie \in CookieLists /\ thread \in [Threads -> Callers]
         /\ Core(Notes, Cmds, cookie, calls, lost)
BY DEF IInv, Typed

\* Its parts, for a step that leaves some of them alone.
LEMMA Parts ==
  ASSUME IInv, Typed', Core(Notes, Cmds, cookie, calls, lost)',
         \A t \in Threads : Calling(thread'[t], cookie'), Polling(poll', notq'.host)
  PROVE  IInv'
BY DEF IInv

LEMMA NextIdxIs == ASSUME IInv PROVE NextIdx \in 1 .. Cookies - 1
<1>1. Cookies \in Nat \ {0, 1} /\ cmd_idx \in 0 .. Cookies - 1
  BY MgmtAssumption DEF IInv, Typed
<1> QED BY <1>1 DEF NextIdx

LEMMA SendStep ==
  ASSUME IInv, NEW t \in Threads, NEW resp \in BOOLEAN, Send(t, resp)
  PROVE  IInv'
<1> DEFINE i == NextIdx
           c == calls + 1
           d == [idx |-> i, call |-> c, by |-> t, resp |-> resp]
<1>1. /\ cmd_idx' = i /\ calls' = c /\ thread[t].pc = "idle" /\ calls < MaxCalls /\ cookie[i].buf = NoCall
      /\ cmdq' = [cmdq EXCEPT !.host = Append(cmdq.host, d)]
      /\ cookie' = [cookie EXCEPT ![i].buf = IF resp THEN c ELSE NoCall, ![i].cond = "sent"]
      /\ thread' = [thread EXCEPT ![t] =
           [pc |-> IF resp THEN "waiting" ELSE "idle", call |-> c, idx |-> i,
            answer |-> NoCall, ret |-> IF resp THEN "none" ELSE "unanswered"]]
      /\ notq' = notq /\ poll' = poll /\ lost' = lost /\ conf' = conf
  BY DEF Send, Available
<1>2. /\ i \in 1 .. Cookies - 1 /\ i \in 0 .. Cookies - 1 /\ calls \in Nat /\ MaxCalls \in Nat
      /\ c \in Calls /\ c # NoCall /\ d \in CmdDesc /\ d.idx = i /\ d.call = c /\ d.resp = resp
  <2>1. i \in 1 .. Cookies - 1 /\ Cookies \in Nat
    BY NextIdxIs, MgmtAssumption
  <2>2. calls \in Nat /\ MaxCalls \in Nat /\ c \in Calls /\ c # NoCall
    BY <1>1, MgmtAssumption DEF IInv, Typed, Calls, NoCall
  <2> HIDE DEF i, c
  <2> QED BY <2>1, <2>2 DEF CmdDesc
<1> HIDE DEF i, c, d
<1>3. Cmds' = Append(Cmds, d) /\ Notes' = Notes /\ Append(cmdq.host, d) \in Seq(CmdDesc)
      /\ cmdq' \in [host: Seq(CmdDesc), card: Seq(CmdDesc)]
  <2>1. cmdq \in [host: Seq(CmdDesc), card: Seq(CmdDesc)]
    BY DEF IInv, Typed
  <2>2. cmdq.card \o Append(cmdq.host, d) = Append(Cmds, d) /\ Append(cmdq.host, d) \in Seq(CmdDesc)
    <3>1. cmdq.host \in Seq(CmdDesc) /\ cmdq.card \in Seq(CmdDesc) /\ d \in CmdDesc
      BY <1>2, Rings
    <3> QED BY <3>1, AppendCat DEF Cmds
  <2>3. cmdq'.card = cmdq.card /\ cmdq'.host = Append(cmdq.host, d)
        /\ cmdq' \in [host: Seq(CmdDesc), card: Seq(CmdDesc)]
    BY <1>1, <2>1, <2>2
  <2> QED BY <1>1, <2>2, <2>3 DEF Cmds, Notes
<1>4. Taking(cookie, d, cookie')
  <2>1. cookie \in [0 .. Cookies - 1 -> Cookie]
    BY Rings DEF CookieLists
  <2>2. cookie' = [cookie EXCEPT ![i] = [cookie[i] EXCEPT !.buf = IF resp THEN c ELSE NoCall, !.cond = "sent"]]
    BY <1>1, <1>2, <2>1 DEF Cookie
  <2>3. cookie[i] \in Cookie
    BY <1>2, <2>1
  <2> DEFINE k == [cookie[i] EXCEPT !.buf = IF resp THEN c ELSE NoCall, !.cond = "sent"]
  <2>4. k \in Cookie /\ k.buf = (IF resp THEN c ELSE NoCall) /\ k.cond = "sent"
    BY <1>2, <2>3 DEF Cookie
  <2> HIDE DEF k
  <2>5. cookie' \in [0 .. Cookies - 1 -> Cookie] /\ cookie'[i] = k /\ \A x \in 0 .. Cookies - 1 : x # i => cookie'[x] = cookie[x]
    BY <2>1, <2>2, <2>4, <1>2 DEF k
  <2> QED BY <1>2, <2>4, <2>5 DEF Taking, CookieLists
<1>5. Core(Notes, Append(Cmds, d), cookie', calls + 1, lost)
  BY <1>1, <1>2, <1>4, Rings, CoreSend DEF c
<1>6. Core(Notes, Cmds, cookie, calls, lost)'
  BY <1>1, <1>3, <1>5 DEF c
<1>7. thread' \in [Threads -> Callers]
  <2>1. [pc |-> IF resp THEN "waiting" ELSE "idle", call |-> c, idx |-> i,
         answer |-> NoCall, ret |-> IF resp THEN "none" ELSE "unanswered"] \in Callers
    BY <1>2 DEF Callers
  <2> QED BY <1>1, <2>1, Rings
<1>8. Typed'
  <2>1. Typed /\ calls' \in 0 .. MaxCalls /\ cmd_idx' \in 0 .. Cookies - 1 /\ cookie' \in CookieLists
    BY <1>1, <1>2, <1>4 DEF IInv, Taking, c
  <2> QED BY <2>1, <1>1, <1>3, <1>7 DEF Typed
<1>9. ASSUME NEW u \in Threads PROVE Calling(thread'[u], cookie')
  <2>1. CASE u = t
    <3>1. thread'[t] = [pc |-> IF resp THEN "waiting" ELSE "idle", call |-> c, idx |-> i,
            answer |-> NoCall, ret |-> IF resp THEN "none" ELSE "unanswered"]
      BY <1>1, Rings
    <3>2. resp => cookie'[i].buf = c
      BY <1>2, <1>4 DEF Taking
    <3> QED BY <1>2, <2>1, <3>1, <3>2 DEF Calling
  <2>2. CASE u # t
    <3>1. thread'[u] = thread[u] /\ Calling(thread[u], cookie) /\ thread[u].idx \in 0 .. Cookies - 1
      BY <1>1, <2>2, Rings DEF IInv, Callers
    <3>2. thread[u].idx # i => cookie'[thread[u].idx] = cookie[thread[u].idx]
      BY <1>2, <1>4, <3>1 DEF Taking
    <3> QED BY <1>1, <3>1, <3>2 DEF Calling
  <2> QED BY <2>1, <2>2
<1>10. Polling(poll', notq'.host)
  BY <1>1 DEF IInv
<1> QED BY <1>6, <1>8, <1>9, <1>10, Parts

\* A command sent is the newest of the stream.
LEMMA Sent ==
  ASSUME IInv, NEW t \in Threads, NEW resp \in BOOLEAN, Send(t, resp)
  PROVE  LET d == [idx |-> NextIdx, call |-> calls + 1, by |-> t, resp |-> resp]
         IN Cmds' = Append(Cmds, d) /\ Notes' = Notes /\ d \in CmdDesc
<1> DEFINE c == calls + 1
           d == [idx |-> NextIdx, call |-> c, by |-> t, resp |-> resp]
<1>1. cmdq' = [cmdq EXCEPT !.host = Append(cmdq.host, d)] /\ notq' = notq /\ calls < MaxCalls
  BY DEF Send
<1>2. c \in Calls
  BY <1>1, MgmtAssumption DEF IInv, Typed, Calls
<1>3. d \in CmdDesc
  <2> HIDE DEF c
  <2> QED BY <1>2, NextIdxIs DEF CmdDesc
<1> HIDE DEF d, c
<1>4. cmdq.host \in Seq(CmdDesc) /\ cmdq.card \in Seq(CmdDesc) /\ cmdq \in [host: Seq(CmdDesc), card: Seq(CmdDesc)]
  BY Rings DEF IInv, Typed
<1>5. cmdq.card \o Append(cmdq.host, d) = Append(Cmds, d)
  BY <1>3, <1>4, AppendCat DEF Cmds
<1>6. cmdq'.card = cmdq.card /\ cmdq'.host = Append(cmdq.host, d)
  BY <1>1, <1>4
<1>7. Cmds' = Append(Cmds, d) /\ Notes' = Notes
  BY <1>1, <1>5, <1>6 DEF Cmds, Notes
<1> QED BY <1>3, <1>7 DEF d, c

LEMMA SendRefusedStep ==
  ASSUME IInv, NEW t \in Threads, SendRefused(t)
  PROVE  IInv'
<1>1. /\ thread[t].pc = "idle" /\ calls < MaxCalls /\ calls' = calls + 1
      /\ thread' = [thread EXCEPT ![t].ret = "refused"]
      /\ UNCHANGED <<cmdq, notq, cookie, poll, lost, conf>>
      /\ cmd_idx' \in {cmd_idx, NextIdx}
  BY DEF SendRefused
<1>2. Core(Notes, Cmds, cookie, calls, lost)'
  <2>1. Core(Notes, Cmds, cookie, calls + 1, lost)
    BY Rings, CountOn
  <2> QED BY <1>1, <2>1 DEF Notes, Cmds
<1>3. thread' \in [Threads -> Callers] /\ \A u \in Threads : Calling(thread'[u], cookie')
  <2>1. thread \in [Threads -> Callers] /\ thread[t] \in Callers /\ \A u \in Threads : Calling(thread[u], cookie)
    BY Rings DEF IInv
  <2>2. [thread[t] EXCEPT !.ret = "refused"] \in Callers /\ Calling([thread[t] EXCEPT !.ret = "refused"], cookie)
    BY <1>1, <2>1 DEF Callers, Calling
  <2>3. thread' = [thread EXCEPT ![t] = [thread[t] EXCEPT !.ret = "refused"]]
    BY <1>1
  <2> QED BY <1>1, <2>1, <2>2, <2>3
<1>4. calls' \in 0 .. MaxCalls /\ cmd_idx' \in 0 .. Cookies - 1
  <2>1. calls \in 0 .. MaxCalls /\ cmd_idx \in 0 .. Cookies - 1 /\ NextIdx \in 1 .. Cookies - 1
        /\ MaxCalls \in Nat /\ Cookies \in Nat
    BY NextIdxIs, MgmtAssumption DEF IInv, Typed
  <2> QED BY <1>1, <2>1
<1>5. Typed'
  BY <1>1, <1>3, <1>4 DEF IInv, Typed
<1> QED BY <1>1, <1>2, <1>3, <1>5, Parts DEF IInv

\* A cookie whose answer has come is free: the caller has its answer.
LEMMA Answers ==
  ASSUME IInv, NEW t \in Threads, thread[t].pc = "waiting", cookie[thread[t].idx].cond = "rcv"
  PROVE  thread[t].answer = thread[t].call
<1>1. thread[t].idx \in 0 .. Cookies - 1
  BY Rings DEF Callers
<1>2. cookie[thread[t].idx].buf = NoCall
  BY <1>1, Rings DEF Core, Awaits
<1> QED BY <1>2 DEF IInv, Calling

\* A call that ends.
LEMMA EndStep ==
  ASSUME IInv, NEW t \in Threads, thread[t].pc = "waiting",
         NEW ret \in {"ok", "error", "timeout"}, ret = "ok" => thread[t].answer = thread[t].call,
         thread' = [thread EXCEPT ![t].pc = "idle", ![t].ret = ret], conf' \in {conf, [conf EXCEPT !.host[t] = thread[t].call]},
         UNCHANGED <<cmdq, notq, cookie, cmd_idx, poll, calls, lost>>
  PROVE  IInv'
<1>1. thread' \in [Threads -> Callers] /\ \A u \in Threads : Calling(thread'[u], cookie')
  <2>1. thread \in [Threads -> Callers] /\ thread[t] \in Callers /\ \A u \in Threads : Calling(thread[u], cookie)
    BY Rings DEF IInv
  <2> DEFINE r == [thread[t] EXCEPT !.pc = "idle", !.ret = ret]
  <2>2. r \in Callers /\ Calling(r, cookie)
    BY <2>1 DEF Callers, Calling
  <2>3. thread' = [thread EXCEPT ![t] = r]
    BY <2>1 DEF Callers
  <2> HIDE DEF r
  <2> QED BY <2>1, <2>2, <2>3
<1>2. conf' \in [host: [Threads -> Calls \cup {NoCall}], card: [Threads -> Calls \cup {NoCall}]]
  <2>1. conf \in [host: [Threads -> Calls \cup {NoCall}], card: [Threads -> Calls \cup {NoCall}]]
    BY DEF IInv, Typed
  <2>2. thread[t].call \in Calls \cup {NoCall}
    BY Rings DEF Callers
  <2>3. [conf EXCEPT !.host[t] = thread[t].call] = [conf EXCEPT !.host = [conf.host EXCEPT ![t] = thread[t].call]]
    BY <2>1
  <2> QED BY <2>1, <2>2, <2>3
<1>3. Typed'
  BY <1>1, <1>2 DEF IInv, Typed
<1>4. Core(Notes, Cmds, cookie, calls, lost)'
  BY Rings DEF Notes, Cmds
<1> QED BY <1>1, <1>3, <1>4, Parts DEF IInv

LEMMA ReturnStep == ASSUME IInv, NEW t \in Threads, Return(t) PROVE IInv'
<1> DEFINE ret == IF cookie[thread[t].idx].ok THEN "ok" ELSE "error"
<1>1. /\ thread[t].pc = "waiting" /\ cookie[thread[t].idx].cond = "rcv"
      /\ thread' = [thread EXCEPT ![t].pc = "idle", ![t].ret = ret]
      /\ conf' = [conf EXCEPT !.host[t] = IF cookie[thread[t].idx].ok THEN thread[t].call ELSE @]
      /\ UNCHANGED <<cmdq, notq, cookie, cmd_idx, poll, calls, notes, lost, link>>
  BY DEF Return
<1>2. conf' \in {conf, [conf EXCEPT !.host[t] = thread[t].call]}
  <2>1. conf \in [host: [Threads -> Calls \cup {NoCall}], card: [Threads -> Calls \cup {NoCall}]]
    BY DEF IInv, Typed
  <2>2. [conf EXCEPT !.host[t] = conf.host[t]] = conf
    <3>1. [conf EXCEPT !.host[t] = conf.host[t]] = [conf EXCEPT !.host = [conf.host EXCEPT ![t] = conf.host[t]]]
      BY <2>1
    <3>2. [conf.host EXCEPT ![t] = conf.host[t]] = conf.host
      BY <2>1
    <3> QED BY <2>1, <3>1, <3>2
  <2>3. CASE cookie[thread[t].idx].ok
    BY <1>1, <2>3
  <2>4. CASE ~cookie[thread[t].idx].ok
    <3>1. conf' = [conf EXCEPT !.host[t] = conf.host[t]]
      BY <1>1, <2>1, <2>4
    <3> QED BY <2>2, <3>1
  <2> QED BY <2>3, <2>4
<1>3. thread[t].answer = thread[t].call
  BY <1>1, Answers
<1>4. ret \in {"ok", "error", "timeout"}
  OBVIOUS
<1> HIDE DEF ret
<1> QED BY <1>1, <1>2, <1>3, <1>4, EndStep

LEMMA TimeoutStep == ASSUME IInv, NEW t \in Threads, Timeout(t) PROVE IInv'
<1>1. /\ thread[t].pc = "waiting" /\ thread' = [thread EXCEPT ![t].pc = "idle", ![t].ret = "timeout"]
      /\ UNCHANGED <<cmdq, notq, cookie, cmd_idx, poll, calls, notes, lost, conf, link>>
  BY DEF Timeout
<1> QED BY <1>1, EndStep

\* The head of the host's ring is the head of the stream.
LEMMA RingHead ==
  ASSUME IInv, notq.host # <<>>
  PROVE  /\ notq.host[1] = Notes[1] /\ Head(notq.host) = Notes[1] /\ Notes # <<>> /\ Notes[1] \in NotDesc
         /\ Len(notq.host) \in Nat \ {0} /\ \A i \in 1 .. Len(notq.host) : Notes[i] = notq.host[i]
<1>1. notq.host \in Seq(NotDesc) /\ notq.card \in Seq(NotDesc)
  BY Rings
<1> DEFINE a == notq.host
           b == notq.card
<1>2. a \in Seq(NotDesc) /\ b \in Seq(NotDesc) /\ a # <<>>
  BY <1>1
<1> HIDE DEF a, b
<1>3. /\ Head(a) = a[1] /\ (a \o b)[1] = a[1] /\ a \o b # <<>> /\ a[1] \in NotDesc
      /\ Len(a) \in Nat \ {0} /\ \A i \in 1 .. Len(a) : (a \o b)[i] = a[i]
  BY <1>2, HeadFront, Zenon
<1> QED BY <1>3 DEF a, b, Notes

LEMMA PollBeginStep == ASSUME ~Overlap, IInv, NEW t \in Threads, PollBegin(t) PROVE IInv'
<1> DEFINE d == Head(notq.host)
           p == [idx |-> d.idx, sg |-> d.pos = "mid",
                 buf |-> IF d.idx = NOTIFICATION THEN NoCall ELSE cookie[d.idx].buf]
<1>1. /\ \A u \in Threads : poll[u] = NotFound
      /\ notq.host # <<>> /\ poll' = [poll EXCEPT ![t] = p]
      /\ UNCHANGED <<cmdq, notq, cookie, cmd_idx, thread, calls, lost, conf>>
  BY DEF PollBegin, MayPoll, Free
<1>2. d = Notes[1] /\ d = notq.host[1] /\ d \in NotDesc /\ Notes # <<>>
  BY <1>1, RingHead
<1>3. p = Seen(d)
  <2>1. \/ d.pos = "single" /\ d.idx = NOTIFICATION
        \/ d.pos = "mid" /\ d.idx \in 1 .. Cookies - 1 /\ cookie[d.idx].buf = d.call
    BY <1>2, Rings, HeadIs
  <2>2. Cookies \in Nat
    BY MgmtAssumption
  <2> HIDE DEF d
  <2> QED BY <2>1, <2>2 DEF Seen, NOTIFICATION
<1>4. Seen(d) \in Found
  BY <1>2 DEF Seen, Found, NotDesc
<1> HIDE DEF p, d
<1>5. poll' \in [Threads -> Found \cup {NotFound}] /\ Polling(poll', notq'.host)
  <2>1. poll \in [Threads -> Found \cup {NotFound}]
    BY DEF IInv, Typed
  <2> QED BY <1>1, <1>2, <1>3, <1>4, <2>1 DEF Polling
<1>6. Typed'
  BY <1>1, <1>5 DEF IInv, Typed
<1>7. Core(Notes, Cmds, cookie, calls, lost)'
  BY <1>1, Rings DEF Notes, Cmds
<1> QED BY <1>1, <1>5, <1>6, <1>7, Parts DEF IInv

LEMMA PollSkipStep == ASSUME IInv, PollSkip PROVE FALSE
<1>1. notq.host # <<>> /\ notq.host[1].idx # NOTIFICATION /\ cookie[notq.host[1].idx].buf = NoCall
  BY DEF PollSkip
<1>2. notq.host[1] = Notes[1] /\ Notes # <<>>
  BY <1>1, RingHead
<1>3. cookie[Notes[1].idx].buf = Notes[1].call /\ Notes[1].call \in 1 .. calls
  BY <1>1, <1>2, Rings, HeadIs
<1> QED BY <1>1, <1>2, <1>3 DEF NoCall

LEMMA LinkFlipsStep == ASSUME IInv, LinkFlips PROVE IInv'
<1>1. UNCHANGED <<cmdq, notq, cookie, cmd_idx, thread, poll, calls, lost, conf>>
  BY DEF LinkFlips
<1>2. Core(Notes, Cmds, cookie, calls, lost)' /\ Typed'
  BY <1>1, Rings DEF Notes, Cmds, IInv, Typed
<1> QED BY <1>1, <1>2, Parts DEF IInv

\* Least is one of the numbers, and no more than any.
LEMMA LeastOfThree ==
  ASSUME NEW a \in Int, NEW b \in Int, NEW c \in Int
  PROVE  LET l == Least({a, b, c}) IN l \in {a, b, c} /\ l <= a /\ l <= b /\ l <= c
<1> DEFINE P(x) == \A y \in {a, b, c} : x <= y
<1>1. \E x \in {a, b, c} : P(x)
  <2>1. CASE a <= b /\ a <= c
    BY <2>1
  <2>2. CASE b <= a /\ b <= c
    BY <2>2
  <2>3. CASE c <= a /\ c <= b
    BY <2>3
  <2> QED BY <2>1, <2>2, <2>3
<1>2. Least({a, b, c}) = CHOOSE x \in {a, b, c} : P(x)
  BY DEF Least
<1> HIDE DEF P
<1>3. Least({a, b, c}) \in {a, b, c} /\ P(Least({a, b, c}))
  BY <1>1, <1>2
<1> QED BY <1>3 DEF P

\* The GIE copies commands: the stream stays.
LEMMA CommandsCopied ==
  ASSUME IInv, CopyCommands
  PROVE  /\ cmdq' \in [host: Seq(CmdDesc), card: Seq(CmdDesc)] /\ Cmds' = Cmds /\ Notes' = Notes
         /\ UNCHANGED <<notq, cookie, cmd_idx, thread, poll, calls, lost, conf>>
<1> DEFINE r == Room(cmdq.card, LocalLen)
<1>1. PICK n \in 1 .. Least({Len(cmdq.host), Batch, r}) :
        cmdq' = [host |-> Drop(cmdq.host, n), card |-> cmdq.card \o SubSeq(cmdq.host, 1, n)]
  BY DEF CopyCommands
<1>2. UNCHANGED <<notq, cookie, cmd_idx, thread, poll, calls, lost, conf>>
  BY DEF CopyCommands
<1>3. cmdq.host \in Seq(CmdDesc) /\ cmdq.card \in Seq(CmdDesc)
  BY Rings
<1>4. n \in 0 .. Len(cmdq.host)
  <2>1. Len(cmdq.host) \in Int /\ Batch \in Int /\ r \in Int
    BY <1>3, MgmtAssumption, LenProperties DEF Room
  <2> HIDE DEF r
  <2>2. Least({Len(cmdq.host), Batch, r}) \in Int /\ Least({Len(cmdq.host), Batch, r}) <= Len(cmdq.host)
    BY <2>1, LeastOfThree
  <2> QED BY <2>1, <2>2
<1> DEFINE h == Drop(cmdq.host, n)
           g == cmdq.card \o SubSeq(cmdq.host, 1, n)
<1>5. g \o h = cmdq.card \o cmdq.host /\ g \in Seq(CmdDesc) /\ h \in Seq(CmdDesc)
  <2> DEFINE a == cmdq.card
             b == cmdq.host
  <2> HIDE DEF a, b
  <2> SUFFICES (a \o SubSeq(b, 1, n)) \o Drop(b, n) = a \o b /\ a \o SubSeq(b, 1, n) \in Seq(CmdDesc) /\ Drop(b, n) \in Seq(CmdDesc)
    BY DEF a, b
  <2>1. a \in Seq(CmdDesc) /\ b \in Seq(CmdDesc) /\ n \in 0 .. Len(b)
    BY <1>3, <1>4 DEF a, b
  <2> QED BY <2>1, CopySame, Zenon
<1>6. cmdq' = [host |-> h, card |-> g]
  BY <1>1
<1> HIDE DEF g, h, r
<1>7. cmdq'.host = h /\ cmdq'.card = g /\ cmdq' \in [host: Seq(CmdDesc), card: Seq(CmdDesc)]
  BY <1>5, <1>6
<1> QED BY <1>2, <1>5, <1>7 DEF Cmds, Notes

LEMMA CopyCommandsStep == ASSUME IInv, CopyCommands PROVE IInv'
<1>1. /\ cmdq' \in [host: Seq(CmdDesc), card: Seq(CmdDesc)] /\ Cmds' = Cmds /\ Notes' = Notes
      /\ UNCHANGED <<notq, cookie, cmd_idx, thread, poll, calls, lost, conf>>
  BY CommandsCopied
<1>2. Core(Notes, Cmds, cookie, calls, lost)' /\ Typed'
  BY <1>1, Rings DEF IInv, Typed
<1> QED BY <1>1, <1>2, Parts DEF IInv

\* The GIE copies answers: the stream stays, and so does the head of the ring.
LEMMA AnswersCopied ==
  ASSUME IInv, CopyAnswers
  PROVE  /\ notq' \in [host: Seq(NotDesc), card: Seq(NotDesc)] /\ Cmds' = Cmds /\ Notes' = Notes
         /\ (notq.host # <<>> => notq'.host # <<>> /\ notq'.host[1] = notq.host[1])
         /\ UNCHANGED <<cmdq, cookie, cmd_idx, thread, poll, calls, lost, conf>>
<1> DEFINE r == Room(notq.host, HostLen)
<1>1. PICK n \in 1 .. Least({Len(notq.card), Batch, r}) :
        notq' = [host |-> notq.host \o SubSeq(notq.card, 1, n), card |-> Drop(notq.card, n)]
  BY DEF CopyAnswers
<1>2. UNCHANGED <<cmdq, cookie, cmd_idx, thread, poll, calls, lost, conf>>
  BY DEF CopyAnswers
<1>3. notq.host \in Seq(NotDesc) /\ notq.card \in Seq(NotDesc)
  BY Rings
<1>4. n \in 0 .. Len(notq.card) /\ n > 0
  <2>1. Len(notq.card) \in Int /\ Batch \in Int /\ r \in Int
    BY <1>3, MgmtAssumption, LenProperties DEF Room
  <2> HIDE DEF r
  <2>2. Least({Len(notq.card), Batch, r}) \in Int /\ Least({Len(notq.card), Batch, r}) <= Len(notq.card)
    BY <2>1, LeastOfThree
  <2> QED BY <2>1, <2>2
<1> DEFINE h == Drop(notq.card, n)
           g == notq.host \o SubSeq(notq.card, 1, n)
<1>5. g \o h = notq.host \o notq.card /\ g \in Seq(NotDesc) /\ h \in Seq(NotDesc)
  <2> DEFINE a == notq.host
             b == notq.card
  <2> HIDE DEF a, b
  <2> SUFFICES (a \o SubSeq(b, 1, n)) \o Drop(b, n) = a \o b /\ a \o SubSeq(b, 1, n) \in Seq(NotDesc) /\ Drop(b, n) \in Seq(NotDesc)
    BY DEF a, b
  <2>1. a \in Seq(NotDesc) /\ b \in Seq(NotDesc) /\ n \in 0 .. Len(b)
    BY <1>3, <1>4 DEF a, b
  <2> QED BY <2>1, CopySame, Zenon
<1>6. notq' = [host |-> g, card |-> h]
  BY <1>1
<1>7. notq.host # <<>> => g # <<>> /\ g[1] = notq.host[1]
  <2>1. SubSeq(notq.card, 1, n) \in Seq(NotDesc)
    <3>1. \A i \in 1 .. n : notq.card[i] \in NotDesc
      BY <1>3, <1>4, ElementOfSeq, LenProperties
    <3> QED BY <1>3, <1>4, <3>1, SubSeqProperties
  <2> QED BY <1>3, <2>1, HeadFront
<1> HIDE DEF g, h, r
<1>8. notq'.host = g /\ notq'.card = h /\ notq' \in [host: Seq(NotDesc), card: Seq(NotDesc)]
  BY <1>5, <1>6
<1> QED BY <1>2, <1>5, <1>7, <1>8 DEF Cmds, Notes

LEMMA CopyAnswersStep == ASSUME IInv, CopyAnswers PROVE IInv'
<1>1. /\ notq' \in [host: Seq(NotDesc), card: Seq(NotDesc)] /\ Cmds' = Cmds /\ Notes' = Notes
      /\ (notq.host # <<>> => notq'.host # <<>> /\ notq'.host[1] = notq.host[1])
      /\ UNCHANGED <<cmdq, cookie, cmd_idx, thread, poll, calls, lost, conf>>
  BY AnswersCopied
<1>2. Core(Notes, Cmds, cookie, calls, lost)' /\ Typed'
  BY <1>1, Rings DEF IInv, Typed
<1>3. Polling(poll', notq'.host)
  BY <1>1 DEF IInv, Polling
<1> QED BY <1>1, <1>2, <1>3, Parts DEF IInv

\* What the walk takes of a notification, and of an answer.
LEMMA WalkOfOne ==
  ASSUME NEW p, NEW r, Len(r) \in Nat \ {0}, r[1].pos = "single", p = Seen(r[1])
  PROVE  Taken(p, r) = 1 /\ Whole(p, r)
<1>1. p.sg = FALSE
  BY DEF Seen
<1>2. Fits(p, r, 1)
  BY <1>1 DEF Fits
<1>3. Taken(p, r) = 1
  BY <1>2 DEF Taken
<1> QED BY <1>3 DEF Whole

LEMMA WalkOfTwo ==
  ASSUME NEW p, NEW r \in Seq(NotDesc), Len(r) >= 2, r[1].pos = "mid", p = Seen(r[1]),
         r[2].pos = "last", r[2].idx = r[1].idx
  PROVE  Taken(p, r) = 2 /\ Whole(p, r)
<1>1. p.sg = TRUE /\ p.idx = r[1].idx
  BY DEF Seen
<1>2. Len(r) >= 1
  BY LenProperties
<1>3. Fits(p, r, 1)
  BY <1>1, <1>2 DEF Fits
<1>4. Fits(p, r, 2)
  BY <1>1, <1>2 DEF Fits
<1>5. Taken(p, r) = 2
  BY <1>3, <1>4 DEF Taken
<1> QED BY <1>5 DEF Whole

\* A poll ends with the message it has found: the whole of it is in the ring.
LEMMA PollTakes ==
  ASSUME IInv, Untorn, NEW t \in Threads, ~Free(t)
  PROVE  /\ notq.host # <<>> /\ Notes # <<>> /\ notq.host[1] = Notes[1] /\ poll[t] = Seen(Notes[1])
         /\ \A u \in Threads : u # t => poll[u] = NotFound
         /\ Whole(poll[t], notq.host)
         /\ \/ /\ Notes[1].pos = "single" /\ Taken(poll[t], notq.host) = 1 /\ Len(notq.host) >= 1
               /\ Notes[1].idx = NOTIFICATION
            \/ /\ Notes[1].pos = "mid" /\ Taken(poll[t], notq.host) = 2 /\ Len(notq.host) >= 2
               /\ notq.host[2].idx = Notes[1].idx /\ Notes[1].idx \in 1 .. Cookies - 1
               /\ Notes[1].call \in 1 .. calls /\ cookie[Notes[1].idx].buf = Notes[1].call /\ 1 \in Mids(Notes)
<1> DEFINE r == notq.host
           N == Notes
<1>1. r # <<>> /\ poll[t] = Seen(r[1]) /\ \A u \in Threads : u # t => poll[u] = NotFound
  BY DEF IInv, Polling, Free
<1>2. /\ r[1] = N[1] /\ N # <<>> /\ Len(r) \in Nat \ {0} /\ \A i \in 1 .. Len(r) : N[i] = r[i]
  BY <1>1, RingHead
<1>3. \/ N[1].pos = "single" /\ N[1].idx = NOTIFICATION
      \/ /\ N[1].pos = "mid" /\ N[1].idx \in 1 .. Cookies - 1 /\ 1 \in Mids(N)
         /\ N[2].pos = "last" /\ N[2].idx = N[1].idx
         /\ cookie[N[1].idx].buf = N[1].call /\ N[1].call \in 1 .. calls
  BY <1>2, Rings, HeadIs
<1>4. r[Len(r)].pos # "mid"
  BY <1>1 DEF Untorn
<1> HIDE DEF r, N
<1>5. CASE N[1].pos = "single"
  <2>1. Taken(poll[t], r) = 1 /\ Whole(poll[t], r) /\ Len(r) >= 1
    BY <1>1, <1>2, <1>5, WalkOfOne
  <2> QED BY <1>1, <1>2, <1>3, <1>5, <2>1 DEF r, N
<1>6. CASE N[1].pos = "mid"
  <2>1. Len(r) >= 2 /\ r \in Seq(NotDesc)
    BY <1>2, <1>4, <1>6, Rings DEF r
  <2>2. r[2] = N[2]
    BY <1>2, <2>1
  <2>3. Taken(poll[t], r) = 2 /\ Whole(poll[t], r)
    BY <1>1, <1>2, <1>3, <1>6, <2>1, <2>2, WalkOfTwo
  <2> QED BY <1>1, <1>2, <1>3, <1>6, <2>1, <2>2, <2>3 DEF r, N
<1> QED BY <1>3, <1>5, <1>6

\* The callers after an answer to a call has been copied to what is the buffer of hit.
Told(hit, call) == [u \in Threads |-> IF u \in hit THEN [thread[u] EXCEPT !.answer = call] ELSE thread[u]]
\* The end of a poll: the stream loses the message of m descriptors at its head,
\* whose caller, if it still waits, gets its answer.
EndsWith(m) ==
  /\ m = 2 <=> Notes[1].pos = "mid"
  /\ Notes # <<>> /\ Notes' = Drop(Notes, m)
  /\ notq' \in [host: Seq(NotDesc), card: Seq(NotDesc)]
  /\ \A u \in Threads : poll'[u] = NotFound
  /\ cookie' \in CookieLists /\ \A x \in 0 .. Cookies - 1 : x # Notes[1].idx => cookie'[x] = cookie[x]
  /\ m = 1 => cookie' = cookie /\ thread' = thread
  /\ m = 2 => /\ cookie'[Notes[1].idx].buf = NoCall
              /\ \E hit \in Written(Notes[1].call) : thread' = Told(hit, Notes[1].call)
              /\ 1 \in Mids(Notes) /\ cookie[Notes[1].idx].buf = Notes[1].call
  /\ UNCHANGED <<cmdq, cmd_idx, calls, lost, conf>>

LEMMA PollEnds ==
  ASSUME IInv, Untorn, NEW t \in Threads, PollEnd(t)
  PROVE  EndsWith(1) \/ EndsWith(2)
<1> DEFINE r == notq.host
           N == Notes
           x0 == N[1].idx
           m == Taken(poll[t], r)
           p == poll[t]
           freed(c) == IF p.idx = NOTIFICATION THEN c ELSE [c EXCEPT ![p.idx].buf = NoCall]
<1>1. /\ ~Free(t) /\ poll' = [poll EXCEPT ![t] = NotFound]
      /\ notq' = [notq EXCEPT !.host = Drop(r, m)]
      /\ \E hit \in IF m = 0 THEN {{}} ELSE Written(p.buf) : thread' = Told(hit, r[1].call)
      /\ IF Whole(p, r) /\ r[m].idx # NOTIFICATION
         THEN \E ok \in IF r[1].pos = "last" THEN BOOLEAN ELSE {r[1].ok} :
                cookie' = freed([cookie EXCEPT ![r[m].idx] = Answered(@, ok)])
         ELSE cookie' = freed(cookie)
      /\ UNCHANGED <<cmdq, cmd_idx, calls, lost, conf>>
  BY DEF PollEnd, Told
<1>2. /\ r # <<>> /\ N # <<>> /\ r[1] = N[1] /\ p = Seen(N[1])
      /\ \A u \in Threads : u # t => poll[u] = NotFound
      /\ Whole(p, r)
      /\ \/ N[1].pos = "single" /\ m = 1 /\ Len(r) >= 1 /\ N[1].idx = NOTIFICATION
         \/ /\ N[1].pos = "mid" /\ m = 2 /\ Len(r) >= 2
            /\ r[2].idx = N[1].idx /\ N[1].idx \in 1 .. Cookies - 1
            /\ N[1].call \in 1 .. calls /\ cookie[N[1].idx].buf = N[1].call /\ 1 \in Mids(N)
  BY <1>1, PollTakes
<1>3. \A u \in Threads : poll'[u] = NotFound
  BY <1>1, <1>2 DEF IInv, Typed
<1>4. Drop(r, m) \in Seq(NotDesc) /\ Drop(r, m) \o notq.card = Drop(N, m)
  <2> DEFINE c == notq.card
  <2>1. r \in Seq(NotDesc) /\ c \in Seq(NotDesc)
    BY Rings
  <2>2. Len(r) \in Nat
    BY <2>1, LenProperties
  <2> HIDE DEF r, c, m
  <2>3. m \in 0 .. Len(r)
    BY <1>2, <2>2
  <2>4. Drop(r, m) \o c = Drop(r \o c, m) /\ Drop(r, m) \in Seq(NotDesc)
    BY <2>1, <2>3, DropFront, DropIs, Zenon
  <2> QED BY <2>4 DEF r, c, Notes
<1>5. Notes' = Drop(N, m) /\ notq' \in [host: Seq(NotDesc), card: Seq(NotDesc)]
  <2>1. notq \in [host: Seq(NotDesc), card: Seq(NotDesc)]
    BY DEF IInv, Typed
  <2> HIDE DEF m
  <2>2. notq'.host = Drop(r, m) /\ notq'.card = notq.card /\ notq' \in [host: Seq(NotDesc), card: Seq(NotDesc)]
    BY <1>1, <1>4, <2>1
  <2> QED BY <1>4, <2>2 DEF Notes
<1> HIDE DEF m, p, r, N
<1>6. CASE m = 1
  <2>1. N[1].pos # "mid" /\ x0 = NOTIFICATION /\ r[m].idx = NOTIFICATION /\ p.idx = NOTIFICATION /\ p.buf = NoCall
    BY <1>2, <1>6 DEF Seen
  <2>2. cookie' = cookie
    BY <1>1, <2>1
  <2>3. thread' = thread
    <3>1. thread' = Told({}, r[1].call)
      BY <1>1, <1>6, <2>1 DEF Written
    <3>2. thread \in [Threads -> Callers]
      BY Rings
    <3> QED BY <3>1, <3>2 DEF Told
  <2>4. cookie' \in CookieLists
    BY <2>2, Rings
  <2> HIDE DEF x0, freed
  <2>5. \A x \in 0 .. Cookies - 1 : x # N[1].idx => cookie'[x] = cookie[x]
    BY <2>2
  <2>6. EndsWith(m)
    BY <1>1, <1>2, <1>3, <1>5, <1>6, <2>1, <2>2, <2>3, <2>4, <2>5 DEF N, EndsWith
  <2> QED BY <1>6, <2>6
<1>7. CASE m = 2
  <2>1. /\ N[1].pos = "mid" /\ x0 \in 1 .. Cookies - 1 /\ x0 # NOTIFICATION /\ r[m].idx = x0 /\ p.idx = x0
        /\ p.buf = N[1].call /\ r[1].pos = "mid" /\ x0 \in 0 .. Cookies - 1
    <3>1. Cookies \in Nat
      BY MgmtAssumption
    <3> QED BY <1>2, <1>7, <3>1 DEF Seen, NOTIFICATION
  <2>2. cookie' = [[cookie EXCEPT ![x0] = Answered(@, r[1].ok)] EXCEPT ![x0].buf = NoCall]
    BY <1>1, <1>2, <2>1
  <2> DEFINE a == Answered(cookie[x0], r[1].ok)
             k == [a EXCEPT !.buf = NoCall]
  <2>3. cookie \in [0 .. Cookies - 1 -> Cookie] /\ cookie[x0] \in Cookie /\ r[1].ok \in BOOLEAN
    <3>1. r[1] \in NotDesc
      BY <1>2, RingHead DEF r, N
    <3> QED BY <2>1, <3>1, Rings DEF CookieLists, NotDesc
  <2>4. a \in Cookie
    BY <2>3 DEF Answered, Cookie
  <2> HIDE DEF a
  <2>5. k \in Cookie /\ k.buf = NoCall
    BY <2>4 DEF Cookie, Calls
  <2> HIDE DEF x0
  <2>6. cookie' = [cookie EXCEPT ![x0] = k]
    BY <2>1, <2>2, <2>3 DEF a
  <2> HIDE DEF k
  <2>7. cookie' \in [0 .. Cookies - 1 -> Cookie] /\ cookie'[x0] = k /\ \A x \in 0 .. Cookies - 1 : x # x0 => cookie'[x] = cookie[x]
    BY <2>1, <2>3, <2>5, <2>6
  <2>8. \E hit \in Written(N[1].call) : thread' = Told(hit, N[1].call)
    BY <1>1, <1>2, <1>7, <2>1
  <2>9. cookie' \in CookieLists
    BY <2>7 DEF CookieLists
  <2> HIDE DEF freed
  <2>10. cookie'[N[1].idx].buf = NoCall /\ \A x \in 0 .. Cookies - 1 : x # N[1].idx => cookie'[x] = cookie[x]
    BY <2>5, <2>7 DEF x0
  <2>11. EndsWith(m)
    <3>1. UNCHANGED <<cmdq, cmd_idx, calls, lost, conf>> /\ N # <<>> /\ 1 \in Mids(N) /\ cookie[N[1].idx].buf = N[1].call
      BY <1>1, <1>2, <2>1
    <3>2. m = 2 <=> N[1].pos = "mid"
      BY <1>7, <2>1
    <3>3. m # 1
      BY <1>7
    <3> QED BY <3>1, <3>2, <3>3, <1>3, <1>5, <2>8, <2>9, <2>10 DEF N, EndsWith
  <2> QED BY <1>7, <2>11
<1> QED BY <1>2, <1>6, <1>7

\* A caller that finds the answer to an earlier call in its buffer still waits for
\* its own, which its cookie knows.
LEMMA Overwritten ==
  ASSUME IInv, AnswersKept, 1 \in Mids(Notes), NEW u \in Threads,
         thread[u].pc = "waiting", thread[u].call > Notes[1].call
  PROVE  thread[u].answer # thread[u].call /\ cookie[thread[u].idx].buf = thread[u].call
<1> DEFINE c == Notes[1].call
           r == thread[u]
<1>1. Kept(r, Notes, Cmds, calls) /\ Calling(r, cookie) /\ r \in Callers
  BY Rings DEF AnswersKept, IInv
<1>2. c \in Nat /\ r.call \in Nat
  <2>1. c \in 1 .. calls /\ calls \in Nat
    BY Rings, Elements DEF Core
  <2> QED BY <1>1, <2>1, MgmtAssumption DEF Callers, Calls, NoCall
<1>3. r.answer # r.call
  <2>1. r.answer = r.call => r.call < c
    BY <1>1 DEF Kept
  <2> HIDE DEF c, r
  <2> QED BY <1>2, <2>1 DEF c, r
<1> QED BY <1>1, <1>3 DEF Calling

\* Who finds an answer to a call c in its buffer: the caller, or one that called later.
LEMMA WhoIsHit ==
  ASSUME NEW c, NEW hit \in Written(c), NEW u \in hit
  PROVE  u \in Threads /\ thread[u].pc = "waiting" /\ (thread[u].call = c \/ thread[u].call > c)
BY DEF Written

\* Who still waits is hit.
LEMMA CallerIsHit ==
  ASSUME NEW c, c # NoCall, NEW hit \in Written(c), NEW u \in Threads,
         thread[u].pc = "waiting", thread[u].call = c
  PROVE  u \in hit
BY DEF Written

LEMMA PollEndStep == ASSUME IInv, AnswersKept, Untorn, NEW t \in Threads, PollEnd(t) PROVE IInv'
<1>1. PICK m \in {1, 2} : EndsWith(m)
  BY PollEnds
<1>2. Core(Notes, Cmds, cookie, calls, lost)
  BY Rings
<1>3. Core(Drop(Notes, m), Cmds, cookie', calls, lost)
  <2>1. /\ Notes # <<>>
        /\ m = 2 <=> Notes[1].pos = "mid"
        /\ cookie' \in CookieLists /\ \A x \in 0 .. Cookies - 1 : x # Notes[1].idx => cookie'[x] = cookie[x]
        /\ IF m = 1 THEN cookie' = cookie ELSE cookie'[Notes[1].idx].buf = NoCall
    BY <1>1 DEF EndsWith
  <2> QED BY <1>2, <2>1, CoreTake
<1>4. Core(Notes, Cmds, cookie, calls, lost)'
  <2>1. Notes' = Drop(Notes, m) /\ Cmds' = Cmds /\ calls' = calls /\ lost' = lost
    BY <1>1 DEF EndsWith, Cmds
  <2> QED BY <1>3, <2>1
<1>5. thread \in [Threads -> Callers] /\ \A u \in Threads : Calling(thread[u], cookie)
  BY Rings DEF IInv
<1>6. thread' \in [Threads -> Callers] /\ \A u \in Threads : Calling(thread'[u], cookie')
  <2>1. CASE m = 1
    BY <1>1, <1>5, <2>1 DEF EndsWith
  <2>2. CASE m = 2
    <3> DEFINE c == Notes[1].call
    <3>1. PICK hit \in Written(c) : thread' = Told(hit, c)
      BY <1>1, <2>2 DEF EndsWith
    <3>2. /\ cookie[Notes[1].idx].buf = c /\ 1 \in Mids(Notes)
          /\ \A x \in 0 .. Cookies - 1 : x # Notes[1].idx => cookie'[x] = cookie[x]
      BY <1>1, <2>2 DEF EndsWith
    <3>3. c \in Calls /\ c # NoCall /\ c \in Nat
      <4>1. c \in 1 .. calls /\ calls \in 0 .. MaxCalls /\ MaxCalls \in Nat
        BY <1>2, <3>2, Elements, MgmtAssumption DEF IInv, Typed
      <4> HIDE DEF c
      <4> QED BY <4>1 DEF Calls, NoCall
    <3>4. ASSUME NEW u \in Threads PROVE thread'[u] \in Callers /\ Calling(thread'[u], cookie')
      <4>1. thread[u] \in Callers /\ Calling(thread[u], cookie) /\ thread[u].idx \in 0 .. Cookies - 1
        BY <1>5 DEF Callers
      <4>2. thread'[u] = IF u \in hit THEN [thread[u] EXCEPT !.answer = c] ELSE thread[u]
        BY <3>1 DEF Told
      <4>3. CASE u \in hit /\ thread[u].call = c
        <5> HIDE DEF c
        <5> QED BY <3>3, <4>1, <4>2, <4>3 DEF Callers, Calling
      <4>4. CASE u \in hit /\ thread[u].call > c /\ thread[u].pc = "waiting"
        <5>1. thread[u].answer # thread[u].call /\ cookie[thread[u].idx].buf = thread[u].call
          BY <3>2, <4>4, Overwritten
        <5>2. thread[u].call # c
          <6>1. thread[u].call \in Nat
            BY <4>1 DEF Callers, Calls, NoCall
          <6> HIDE DEF c
          <6> QED BY <3>3, <4>4, <6>1
        <5>3. cookie'[thread[u].idx].buf = thread[u].call
          BY <3>2, <4>1, <5>1, <5>2
        <5> HIDE DEF c
        <5> QED BY <3>3, <4>1, <4>2, <4>4, <5>1, <5>3 DEF Callers, Calling
      <4>5. CASE u \notin hit
        <5>1. ~(thread[u].pc = "waiting" /\ thread[u].call = c)
          BY <3>3, <4>5, CallerIsHit
        <5>2. thread'[u] = thread[u]
          BY <4>2, <4>5
        <5> QED BY <3>2, <4>1, <5>1, <5>2 DEF Calling
      <4> QED BY <4>3, <4>4, <4>5, WhoIsHit
    <3> HIDE DEF c
    <3> QED BY <3>1, <3>4 DEF Told
  <2> QED BY <2>1, <2>2
<1>7. poll' \in [Threads -> Found \cup {NotFound}] /\ Polling(poll', notq'.host)
  <2>1. poll' \in [Threads -> Found \cup {NotFound}]
    BY DEF PollEnd, IInv, Typed
  <2>2. \A u \in Threads : poll'[u] = NotFound
    BY <1>1 DEF EndsWith
  <2> QED BY <2>1, <2>2 DEF Polling
<1>8. Typed'
  <2>1. cookie' \in CookieLists /\ notq' \in [host: Seq(NotDesc), card: Seq(NotDesc)]
        /\ UNCHANGED <<cmdq, cmd_idx, calls, lost, conf>>
    BY <1>1 DEF EndsWith
  <2> QED BY <1>6, <1>7, <2>1 DEF IInv, Typed
<1> QED BY <1>4, <1>6, <1>7, <1>8, Parts

\* The end of a poll leaves the answers behind the message it has taken.
LEMMA Fewer ==
  ASSUME IInv, NEW m \in {1, 2}, EndsWith(m)
  PROVE  \A i \in Mids(Notes') : \E j \in Mids(Notes) : j > m /\ Notes'[i] = Notes[j]
<1>1. Notes' = Drop(Notes, m) /\ Notes # <<>>
  BY DEF EndsWith
<1> DEFINE N == Notes
<1>2. N \in Seq(NotDesc) /\ Len(N) \in Nat \ {0} /\ (N[1].pos = "mid" => Len(N) >= 2)
  BY <1>1, Rings, HeadIs DEF Core
<1>3. m = 2 <=> N[1].pos = "mid"
  BY DEF EndsWith
<1> HIDE DEF N
<1>4. m \in 0 .. Len(N)
  BY <1>2, <1>3
<1>5. Len(Drop(N, m)) = Len(N) - m /\ \A i \in 1 .. Len(N) - m : Drop(N, m)[i] = N[i + m]
  BY <1>2, <1>4, DropIs
<1> DEFINE D == Drop(N, m)
<1>6. Len(D) = Len(N) - m /\ \A i \in 1 .. Len(N) - m : D[i] = N[i + m]
  BY <1>5
<1> HIDE DEF D
<1>7. ASSUME NEW i \in Mids(D) PROVE i + m \in Mids(N) /\ i + m > m /\ D[i] = N[i + m]
  <2>1. i \in 1 .. Len(N) - m /\ D[i].pos = "mid"
    BY <1>6 DEF Mids
  <2>2. i + m \in 1 .. Len(N) /\ i + m > m
    BY <1>2, <2>1
  <2> QED BY <1>6, <2>1, <2>2 DEF Mids
<1> QED BY <1>1, <1>7 DEF N, D

\* A command is executed: its answer is the last in the stream, or is lost.
Executed(ok) ==
  /\ Cmds # <<>> /\ Cmds' = Drop(Cmds, 1)
  /\ cmdq' \in [host: Seq(CmdDesc), card: Seq(CmdDesc)] /\ notq' \in [host: Seq(NotDesc), card: Seq(NotDesc)]
  /\ Cmds[1] \in CmdDesc /\ notq'.host = notq.host
  /\ \/ Cmds[1].resp /\ Notes' = Notes \o Answer(Cmds[1], ok) /\ lost' = lost
     \/ Cmds[1].resp /\ Notes' = Notes /\ lost' = lost \cup {Cmds[1].call}
     \/ ~Cmds[1].resp /\ Notes' = Notes /\ lost' = lost
  /\ conf' = [conf EXCEPT !.card[Cmds[1].by] = IF Cmds[1].resp /\ ok THEN Cmds[1].call ELSE @]
  /\ UNCHANGED <<cookie, cmd_idx, thread, poll, calls>>

LEMMA AnswerIs ==
  ASSUME NEW d \in CmdDesc, NEW ok \in BOOLEAN
  PROVE  \E a \in NotDesc, b \in NotDesc :
           /\ Answer(d, ok) = <<a, b>> /\ a.pos = "mid" /\ b.pos = "last"
           /\ a.idx = d.idx /\ b.idx = d.idx /\ a.call = d.call
<1> DEFINE x(pos) == [idx |-> d.idx, pos |-> pos, code |-> "answer", call |-> d.call, ok |-> ok]
<1>1. d.idx \in 0 .. Cookies - 1 /\ d.call \in Calls
  <2>1. Cookies \in Nat
    BY MgmtAssumption
  <2> QED BY <2>1 DEF CmdDesc
<1>2. x("mid") \in NotDesc /\ x("last") \in NotDesc
  BY <1>1 DEF NotDesc
<1>3. Answer(d, ok) = <<x("mid"), x("last")>>
  BY DEF Answer
<1> QED BY <1>2, <1>3

LEMMA DispatchIs ==
  ASSUME IInv, Dispatch
  PROVE  \E ok \in IF MayFail THEN BOOLEAN ELSE {TRUE} : Executed(ok)
<1> DEFINE d == Head(cmdq.card)
           fits == Room(notq.card, LocalLen) >= 2
<1>1. PICK ok \in IF MayFail THEN BOOLEAN ELSE {TRUE} :
        /\ cmdq.card # <<>> /\ cmdq' = [cmdq EXCEPT !.card = Tail(@)]
        /\ conf' = [conf EXCEPT !.card[d.by] = IF d.resp /\ ok THEN d.call ELSE @]
        /\ notq' = IF d.resp /\ fits THEN [notq EXCEPT !.card = @ \o Answer(d, ok)] ELSE notq
        /\ lost' = IF d.resp /\ ~fits THEN lost \cup {d.call} ELSE lost
        /\ UNCHANGED <<cookie, cmd_idx, thread, poll, calls>>
  BY DEF Dispatch, Received
<1>2. ok \in BOOLEAN
  BY <1>1
<1> DEFINE h == cmdq.host
           c == cmdq.card
<1>3. h \in Seq(CmdDesc) /\ c \in Seq(CmdDesc) /\ c # <<>>
  BY <1>1, Rings
<1> HIDE DEF h, c
<1>4. /\ Head(c) = c[1] /\ (c \o h)[1] = c[1] /\ c \o h # <<>> /\ Tail(c) = Drop(c, 1) /\ c[1] \in CmdDesc
      /\ Len(c) \in Nat \ {0}
  BY <1>3, HeadFront
<1>5. Drop(c, 1) \o h = Drop(c \o h, 1) /\ Drop(c, 1) \in Seq(CmdDesc)
  <2>1. 1 \in 0 .. Len(c)
    BY <1>4
  <2> QED BY <1>3, <2>1, DropFront, DropIs, Zenon
<1>6. d = Cmds[1] /\ Cmds # <<>> /\ Cmds[1] \in CmdDesc
  BY <1>4 DEF h, c, Cmds
<1>7. Cmds' = Drop(Cmds, 1) /\ cmdq' \in [host: Seq(CmdDesc), card: Seq(CmdDesc)]
  <2>1. cmdq \in [host: Seq(CmdDesc), card: Seq(CmdDesc)]
    BY DEF IInv, Typed
  <2>2. cmdq' = [cmdq EXCEPT !.card = Drop(c, 1)]
    BY <1>1, <1>4 DEF c
  <2>3. cmdq'.host = h /\ cmdq'.card = Drop(c, 1) /\ cmdq' \in [host: Seq(CmdDesc), card: Seq(CmdDesc)]
    BY <1>5, <2>1, <2>2 DEF h
  <2> QED BY <1>5, <2>3 DEF Cmds, h, c
<1> HIDE DEF d, fits
<1>8. notq \in [host: Seq(NotDesc), card: Seq(NotDesc)]
  BY DEF IInv, Typed
<1>9. CASE d.resp /\ fits
  <2> DEFINE s == Answer(d, ok)
             a == notq.host
             b == notq.card
  <2>1. s \in Seq(NotDesc)
    <3>1. PICK x \in NotDesc, y \in NotDesc : s = <<x, y>>
      BY <1>2, <1>6, AnswerIs
    <3> QED BY <3>1
  <2>2. a \in Seq(NotDesc) /\ b \in Seq(NotDesc) /\ notq' = [notq EXCEPT !.card = b \o s] /\ lost' = lost
    BY <1>1, <1>8, <1>9
  <2> HIDE DEF a, b, s
  <2>3. a \o (b \o s) = (a \o b) \o s /\ b \o s \in Seq(NotDesc)
    <3>1. a \o (b \o s) = (a \o b) \o s
      BY <2>1, <2>2, ConcatAssociative
    <3>2. b \o s \in Seq(NotDesc)
      BY <2>1, <2>2, ConcatProperties
    <3> QED BY <3>1, <3>2
  <2>4. notq'.host = a /\ notq'.card = b \o s /\ notq' \in [host: Seq(NotDesc), card: Seq(NotDesc)]
    BY <1>8, <2>2, <2>3 DEF a
  <2>5. Notes' = Notes \o Answer(Cmds[1], ok)
    BY <2>3, <2>4, <1>6 DEF Notes, a, b, s
  <2>6. Executed(ok)
    BY <1>1, <1>6, <1>7, <1>9, <2>2, <2>4, <2>5 DEF Executed, a
  <2> QED BY <2>6
<1>10. CASE ~(d.resp /\ fits)
  <2>1. notq' = notq /\ Notes' = Notes /\ (d.resp => lost' = lost \cup {d.call}) /\ (~d.resp => lost' = lost)
    BY <1>1, <1>10 DEF Notes
  <2>2. Executed(ok)
    BY <1>1, <1>6, <1>7, <1>8, <2>1 DEF Executed
  <2> QED BY <2>2
<1> QED BY <1>9, <1>10

\* A command executed adds an answer at most.
LEMMA OneMore ==
  ASSUME IInv, NEW ok \in BOOLEAN, Executed(ok)
  PROVE  \A i \in Mids(Notes') : \/ Cmds[1].resp /\ Notes'[i].call = Cmds[1].call
                               \/ \E j \in Mids(Notes) : Notes'[i] = Notes[j]
<1> DEFINE d == Cmds[1]
<1>1. d \in CmdDesc /\ (Notes' = Notes \/ (d.resp /\ Notes' = Notes \o Answer(d, ok)))
  BY DEF Executed
<1>2. Notes \in Seq(NotDesc)
  BY Rings DEF Core
<1>3. CASE d.resp /\ Notes' = Notes \o Answer(d, ok)
  <2>1. PICK a \in NotDesc, b \in NotDesc :
          /\ Answer(d, ok) = <<a, b>> /\ a.pos = "mid" /\ b.pos = "last"
          /\ a.idx = d.idx /\ b.idx = d.idx /\ a.call = d.call
    <3>1. d \in CmdDesc
      BY <1>1
    <3> HIDE DEF d
    <3> QED BY <3>1, AnswerIs
  <2> DEFINE N == Notes
             N2 == N \o <<a, b>>
  <2>2. N \in Seq(NotDesc) /\ Len(N) \in Nat
    BY <1>2, LenProperties
  <2> HIDE DEF N
  <2>3. /\ Len(N2) = Len(N) + 2 /\ (\A i \in 1 .. Len(N) : N2[i] = N[i])
        /\ N2[Len(N) + 1] = a /\ N2[Len(N) + 2] = b
    BY <2>2, TwoMore
  <2> HIDE DEF N2
  <2>4. \A i \in Mids(N2) : N2[i] = a \/ (i \in Mids(N) /\ N2[i] = N[i])
    <3> SUFFICES ASSUME NEW i \in Mids(N2) PROVE N2[i] = a \/ (i \in Mids(N) /\ N2[i] = N[i])
      OBVIOUS
    <3>1. i \in 1 .. Len(N) + 2 /\ N2[i].pos = "mid"
      BY <2>3 DEF Mids
    <3>2. i \in 1 .. Len(N) \/ i = Len(N) + 1 \/ i = Len(N) + 2
      BY <2>2, <3>1
    <3>3. i # Len(N) + 2
      BY <2>1, <2>3, <3>1
    <3> QED BY <2>3, <3>1, <3>2, <3>3 DEF Mids
  <2>5. Notes' = N2 /\ Notes = N
    BY <1>3, <2>1 DEF N, N2
  <2> QED BY <1>3, <2>1, <2>4, <2>5
<1>4. CASE Notes' = Notes
  BY <1>4
<1> QED BY <1>1, <1>3, <1>4

LEMMA DispatchStep == ASSUME IInv, Dispatch PROVE IInv'
<1>1. PICK ok \in BOOLEAN : Executed(ok)
  BY DispatchIs
<1>2. Core(Notes, Cmds, cookie, calls, lost) /\ Cmds # <<>> /\ Cmds[1] \in CmdDesc
  BY <1>1, Rings DEF Executed
<1>3. Core(Notes', Drop(Cmds, 1), cookie, calls, lost')
  <2>1. CASE Cmds[1].resp /\ Notes' = Notes \o Answer(Cmds[1], ok) /\ lost' = lost
    <3>1. PICK a \in NotDesc, b \in NotDesc :
            /\ Answer(Cmds[1], ok) = <<a, b>> /\ a.pos = "mid" /\ b.pos = "last"
            /\ a.idx = Cmds[1].idx /\ b.idx = Cmds[1].idx /\ a.call = Cmds[1].call
      BY <1>2, AnswerIs
    <3>2. Core(Notes \o <<a, b>>, Drop(Cmds, 1), cookie, calls, lost)
      BY <1>2, <2>1, <3>1, CoreAnswer
    <3> QED BY <2>1, <3>1, <3>2
  <2>2. CASE Notes' = Notes /\ lost' = lost \cup {Cmds[1].call}
    <3>1. lost \subseteq lost' /\ Cmds[1].call \in lost'
      BY <2>2
    <3> QED BY <1>2, <2>2, <3>1, CoreTail
  <2>3. CASE ~Cmds[1].resp /\ Notes' = Notes /\ lost' = lost
    BY <1>2, <2>3, CoreTail
  <2> QED BY <1>1, <2>1, <2>2, <2>3 DEF Executed
<1>4. Core(Notes, Cmds, cookie, calls, lost)'
  BY <1>1, <1>3 DEF Executed
<1>5. conf' \in [host: [Threads -> Calls \cup {NoCall}], card: [Threads -> Calls \cup {NoCall}]]
  <2> DEFINE t == Cmds[1].by
             v == IF Cmds[1].resp /\ ok THEN Cmds[1].call ELSE conf.card[t]
  <2>1. conf \in [host: [Threads -> Calls \cup {NoCall}], card: [Threads -> Calls \cup {NoCall}]]
    BY DEF IInv, Typed
  <2>2. t \in Threads /\ v \in Calls \cup {NoCall}
    BY <1>2, <2>1 DEF CmdDesc
  <2>3. conf' = [conf EXCEPT !.card = [conf.card EXCEPT ![t] = v]]
    BY <1>1, <2>1 DEF Executed
  <2> HIDE DEF t, v
  <2> QED BY <2>1, <2>2, <2>3
<1>6. Typed'
  BY <1>1, <1>5 DEF IInv, Typed, Executed
<1>7. Polling(poll', notq'.host) /\ \A u \in Threads : Calling(thread'[u], cookie')
  BY <1>1 DEF IInv, Executed
<1> QED BY <1>4, <1>6, <1>7, Parts

LEMMA NoteIs ==
  ASSUME NEW code \in {"link", "alive"}, NEW ok \in BOOLEAN
  PROVE  Note(code, ok) \in NotDesc /\ Note(code, ok).pos = "single" /\ Note(code, ok).idx = NOTIFICATION
<1>1. 0 \in 0 .. Cookies - 1
  BY MgmtAssumption
<1> QED BY <1>1 DEF Note, NotDesc, NOTIFICATION, NoCall

\* A notification that finds room is the last in the stream.
LEMMA PutNote ==
  ASSUME NEW h \in Seq(NotDesc), NEW r \in Seq(NotDesc), NEW C, NEW K, NEW n, NEW gone,
         Core(h \o r, C, K, n, gone), NEW e \in NotDesc, e.pos = "single", e.idx = NOTIFICATION
  PROVE  /\ Core(h \o Put(r, e), C, K, n, gone) /\ Put(r, e) \in Seq(NotDesc)
         /\ Mids(h \o Put(r, e)) = Mids(h \o r)
         /\ \A i \in Mids(h \o r) : (h \o Put(r, e))[i] = (h \o r)[i]
<1>2. CASE Room(r, LocalLen) >= 1
  <2>1. h \o Append(r, e) = Append(h \o r, e) /\ Append(r, e) \in Seq(NotDesc)
    BY AppendCat
  <2>2. Core(Append(h \o r, e), C, K, n, gone)
    BY CoreNote
  <2> DEFINE s == h \o r
  <2>3. s \in Seq(NotDesc)
    BY ConcatProperties
  <2> HIDE DEF s
  <2>4. Mids(Append(s, e)) = Mids(s) /\ \A i \in Mids(s) : Append(s, e)[i] = s[i]
    <3>1. Len(s) \in Nat /\ Len(Append(s, e)) = Len(s) + 1 /\ (\A i \in 1 .. Len(s) : Append(s, e)[i] = s[i])
          /\ Append(s, e)[Len(s) + 1] = e
      BY <2>3, AppendProperties, LenProperties
    <3> QED BY <3>1 DEF Mids
  <2>5. Put(r, e) = Append(r, e)
    BY <1>2 DEF Put
  <2> QED BY <2>1, <2>2, <2>4, <2>5 DEF s
<1>3. CASE ~(Room(r, LocalLen) >= 1)
  <2>1. Put(r, e) = r
    BY <1>3 DEF Put
  <2> QED BY <2>1
<1> QED BY <1>2, <1>3

\* The maintenance leaves the answers of the stream as they are.
LEMMA MaintenanceIs ==
  ASSUME IInv, Linked, Maintenance
  PROVE  /\ Core(Notes, Cmds, cookie, calls, lost)' /\ notq' \in [host: Seq(NotDesc), card: Seq(NotDesc)]
         /\ notq'.host = notq.host
         /\ Mids(Notes') = Mids(Notes) /\ \A i \in Mids(Notes) : Notes'[i] = Notes[i]
         /\ UNCHANGED <<cmdq, cookie, cmd_idx, thread, poll, calls, lost, conf>>
<1> DEFINE r == notq.card
           told == IF link.up # link.last THEN Put(r, Note("link", link.up)) ELSE r
<1>1. PICK alive \in BOOLEAN :
        /\ notq' = [notq EXCEPT !.card = IF alive THEN Put(told, Note("alive", TRUE)) ELSE told]
        /\ UNCHANGED <<cmdq, cookie, cmd_idx, thread, poll, calls, lost, conf>>
  BY DEF Maintenance
<1> DEFINE h == notq.host
           new == IF alive THEN Put(told, Note("alive", TRUE)) ELSE told
<1>2. r \in Seq(NotDesc) /\ h \in Seq(NotDesc) /\ Core(h \o r, Cmds, cookie, calls, lost)
  BY Rings DEF Notes
<1>3. PICK up \in BOOLEAN : told = r \/ told = Put(r, Note("link", up))
  BY DEF Linked
<1> HIDE DEF r, told, h
<1>4. /\ Core(h \o told, Cmds, cookie, calls, lost) /\ told \in Seq(NotDesc)
      /\ Mids(h \o told) = Mids(h \o r) /\ \A i \in Mids(h \o r) : (h \o told)[i] = (h \o r)[i]
  <2>1. CASE told = r
    BY <1>2, <2>1
  <2>2. CASE told = Put(r, Note("link", up))
    <3> DEFINE e == Note("link", up)
    <3>1. e \in NotDesc /\ e.pos = "single" /\ e.idx = NOTIFICATION
      BY <1>3, NoteIs
    <3>2. told = Put(r, e)
      BY <2>2
    <3> HIDE DEF e
    <3> QED BY <1>2, <3>1, <3>2, PutNote
  <2> QED BY <1>3, <2>1, <2>2
<1>5. /\ Core(h \o new, Cmds, cookie, calls, lost) /\ new \in Seq(NotDesc)
      /\ Mids(h \o new) = Mids(h \o told) /\ \A i \in Mids(h \o told) : (h \o new)[i] = (h \o told)[i]
  <2>1. CASE ~alive
    BY <1>4, <2>1
  <2>2. CASE alive
    <3> DEFINE e == Note("alive", TRUE)
    <3>1. e \in NotDesc /\ e.pos = "single" /\ e.idx = NOTIFICATION
      BY NoteIs
    <3>2. new = Put(told, e)
      BY <2>2
    <3> HIDE DEF e, new
    <3>3. h \in Seq(NotDesc) /\ told \in Seq(NotDesc) /\ Core(h \o told, Cmds, cookie, calls, lost)
      BY <1>2, <1>4
    <3> QED BY <3>1, <3>2, <3>3, PutNote
  <2> QED BY <2>1, <2>2
<1> HIDE DEF new
<1>6. notq' = [notq EXCEPT !.card = new] /\ notq \in [host: Seq(NotDesc), card: Seq(NotDesc)]
  BY <1>1 DEF new, IInv, Typed
<1>7. notq'.host = h /\ notq'.card = new /\ notq' \in [host: Seq(NotDesc), card: Seq(NotDesc)]
  BY <1>5, <1>6 DEF h
<1>8. Notes' = h \o new /\ Notes = h \o r /\ Cmds' = Cmds
  BY <1>1, <1>7 DEF Notes, Cmds, h, r
<1> QED BY <1>1, <1>4, <1>5, <1>7, <1>8 DEF h

LEMMA MaintenanceStep == ASSUME IInv, Linked, Maintenance PROVE IInv'
<1>1. /\ Core(Notes, Cmds, cookie, calls, lost)' /\ notq' \in [host: Seq(NotDesc), card: Seq(NotDesc)]
      /\ notq'.host = notq.host /\ UNCHANGED <<cmdq, cookie, cmd_idx, thread, poll, calls, lost, conf>>
  BY MaintenanceIs
<1>2. Typed'
  BY <1>1 DEF IInv, Typed
<1> QED BY <1>1, <1>2, Parts DEF IInv

LEMMA LinkStep ==
  ASSUME IInv, Linked, Untorn, Next
  PROVE  Linked'
<1>1. ASSUME NEW t \in Threads, PollEnd(t) PROVE Linked'
  <2> DEFINE e == notq.host[Taken(poll[t], notq.host)]
  <2>1. link' = (IF Whole(poll[t], notq.host) /\ e.idx = NOTIFICATION THEN Notified(e) ELSE link) /\ ~Free(t)
    BY <1>1 DEF PollEnd
  <2>2. \/ Taken(poll[t], notq.host) = 1 /\ Notes[1] = notq.host[1] /\ notq.host # <<>>
        \/ e.idx # NOTIFICATION
    <3>1. Cookies \in Nat
      BY MgmtAssumption
    <3> QED BY <2>1, <3>1, PollTakes DEF NOTIFICATION
  <2>3. CASE Taken(poll[t], notq.host) = 1 /\ Notes[1] = notq.host[1] /\ notq.host # <<>>
    <3>1. e = Notes[1] /\ Notes[1] \in NotDesc
      BY <2>3, RingHead
    <3>2. e.ok \in BOOLEAN
      BY <3>1 DEF NotDesc
    <3> HIDE DEF e
    <3>3. Notified(e) \in [up: BOOLEAN, last: BOOLEAN, host: BOOLEAN]
      BY <3>2 DEF Notified, Linked
    <3> QED BY <2>1, <3>3 DEF Linked
  <2>4. CASE e.idx # NOTIFICATION
    BY <2>1, <2>4 DEF Linked
  <2> QED BY <2>2, <2>3, <2>4
<1>2. CASE LinkFlips
  BY <1>2 DEF LinkFlips, Linked
<1>3. CASE Maintenance
  BY <1>3 DEF Maintenance, Linked
<1>4. CASE Dispatch
  BY <1>4 DEF Dispatch, Linked
<1>5. ASSUME NEW t \in Threads,
             (\E resp \in BOOLEAN : Send(t, resp)) \/ SendRefused(t) \/ Return(t) \/ Timeout(t) \/ PollBegin(t)
      PROVE  Linked'
  BY <1>5 DEF Send, SendRefused, Return, Timeout, PollBegin, Linked
<1>6. CASE PollSkip \/ CopyCommands \/ CopyAnswers
  BY <1>6 DEF PollSkip, CopyCommands, CopyAnswers, Linked
<1> QED BY <1>1, <1>2, <1>3, <1>4, <1>5, <1>6 DEF Next

LEMMA NextStep ==
  ASSUME ~Overlap, IInv, AnswersKept, Linked, Untorn, [Next]_vars
  PROVE  IInv' /\ Linked'
<1>1. CASE Next
  <2>1. ASSUME NEW t \in Threads PROVE \A resp \in BOOLEAN : Send(t, resp) => IInv'
    BY SendStep
  <2>2. ASSUME NEW t \in Threads PROVE SendRefused(t) \/ Return(t) \/ Timeout(t) \/ PollBegin(t) \/ PollEnd(t) => IInv'
    BY SendRefusedStep, ReturnStep, TimeoutStep, PollBeginStep, PollEndStep
  <2>3. PollSkip \/ CopyCommands \/ CopyAnswers \/ Dispatch \/ LinkFlips \/ Maintenance => IInv'
    BY PollSkipStep, CopyCommandsStep, CopyAnswersStep, DispatchStep, LinkFlipsStep, MaintenanceStep
  <2> QED BY <1>1, <2>1, <2>2, <2>3, LinkStep DEF Next
<1>2. CASE UNCHANGED vars
  <2>1. UNCHANGED <<cmdq, notq, cookie, cmd_idx, thread, poll, calls, lost, conf, link>>
    BY <1>2 DEF vars
  <2>2. Core(Notes, Cmds, cookie, calls, lost)' /\ Typed' /\ Linked'
    BY <2>1, Rings DEF Notes, Cmds, IInv, Typed, Linked
  <2> QED BY <2>1, <2>2, Parts DEF IInv
<1> QED BY <1>1, <1>2

LEMMA InitStep == ASSUME Init PROVE IInv /\ Linked
<1>1. /\ cmdq = [host |-> <<>>, card |-> <<>>] /\ notq = [host |-> <<>>, card |-> <<>>]
      /\ cookie = [i \in 0 .. Cookies - 1 |-> [buf |-> NoCall, cond |-> "sent", ok |-> TRUE]]
      /\ cmd_idx = 0 /\ calls = 0 /\ lost = {}
      /\ thread = [t \in Threads |-> [pc |-> "idle", call |-> NoCall, idx |-> 0, answer |-> NoCall, ret |-> "none"]]
      /\ poll = [t \in Threads |-> NotFound]
      /\ conf = [host |-> [t \in Threads |-> NoCall], card |-> [t \in Threads |-> NoCall]]
      /\ link = [up |-> FALSE, last |-> FALSE, host |-> FALSE]
  BY DEF Init
<1>2. 0 \in 0 .. Cookies - 1 /\ MaxCalls \in Nat
  BY MgmtAssumption
<1>3. Notes = <<>> /\ Cmds = <<>>
  BY <1>1 DEF Notes, Cmds
<1>4. cookie \in CookieLists
  BY <1>1 DEF CookieLists, Cookie
<1>5. Core(Notes, Cmds, cookie, calls, lost)
  <2>1. Core(<<>>, <<>>, cookie, 0, {})
    BY <1>1, <1>4 DEF Core, Joined, InOrder, Finds, Awaits, Mids, Asks
  <2> QED BY <1>1, <1>3, <2>1
<1>6. Typed
  <2>1. [pc |-> "idle", call |-> NoCall, idx |-> 0, answer |-> NoCall, ret |-> "none"] \in Callers
    BY <1>2 DEF Callers
  <2>2. thread \in [Threads -> Callers] /\ poll \in [Threads -> Found \cup {NotFound}]
    BY <1>1, <2>1
  <2>3. conf \in [host: [Threads -> Calls \cup {NoCall}], card: [Threads -> Calls \cup {NoCall}]]
    BY <1>1
  <2>4. cmdq \in [host: Seq(CmdDesc), card: Seq(CmdDesc)] /\ notq \in [host: Seq(NotDesc), card: Seq(NotDesc)]
    BY <1>1
  <2> QED BY <1>1, <1>2, <1>4, <2>2, <2>3, <2>4 DEF Typed
<1>7. (\A t \in Threads : Calling(thread[t], cookie)) /\ Polling(poll, notq.host)
  BY <1>1 DEF Calling, Polling
<1>8. Linked
  BY <1>1 DEF Linked
<1> QED BY <1>5, <1>6, <1>7, <1>8 DEF IInv

\* Nobody waits.
LEMMA InitKept == ASSUME Init PROVE AnswersKept
<1>1. /\ thread = [t \in Threads |-> [pc |-> "idle", call |-> NoCall, idx |-> 0, answer |-> NoCall, ret |-> "none"]]
      /\ calls = 0
  BY DEF Init
<1> QED BY <1>1 DEF AnswersKept, Kept, NoCall

-----------------------------------------------------------------------------
(* A caller that has its answer keeps it *)

\* The numbers of the calls.
LEMMA CallNumbers == ASSUME IInv PROVE calls \in Nat /\ \A u \in Threads : thread[u] \in Callers /\ thread[u].call \in Nat
<1>1. calls \in Nat /\ MaxCalls \in Nat
  BY MgmtAssumption DEF IInv, Typed
<1>2. \A u \in Threads : thread[u] \in Callers
  BY Rings
<1> QED BY <1>1, <1>2 DEF Callers, Calls, NoCall

\* A step that sends nothing and gives nobody an answer.
LEMMA KeptBy ==
  ASSUME IInv, AnswersKept, calls' \in Nat, calls <= calls',
         \A u \in Threads : /\ thread'[u].call = thread[u].call
                            /\ thread'[u].pc = "waiting" => thread[u].pc = "waiting"
                            /\ thread'[u].answer = thread[u].answer,
         \A i \in Mids(Notes') : \E j \in Mids(Notes) : Notes'[i] = Notes[j],
         \A k \in 1 .. Len(Cmds') : \E l \in 1 .. Len(Cmds) : Cmds'[k] = Cmds[l]
  PROVE  AnswersKept'
<1>1. ASSUME NEW u \in Threads PROVE Kept(thread'[u], Notes', Cmds', calls')
  <2> DEFINE r == thread[u]
             r2 == thread'[u]
             N2 == Notes'
             C2 == Cmds'
             n2 == calls'
  <2>1. Kept(r, Notes, Cmds, calls) /\ calls \in Nat /\ r.call \in Nat
    BY CallNumbers DEF AnswersKept
  <2>2. /\ r2.call = r.call /\ n2 \in Nat /\ calls <= n2
        /\ r2.pc = "waiting" /\ r2.answer = r2.call => r.pc = "waiting" /\ r.answer = r.call
        /\ \A i \in Mids(N2) : \E j \in Mids(Notes) : N2[i] = Notes[j]
        /\ \A k \in 1 .. Len(C2) : \E l \in 1 .. Len(Cmds) : C2[k] = Cmds[l]
    OBVIOUS
  <2> HIDE DEF r, r2, N2, C2, n2
  <2>3. Kept(r2, N2, C2, n2)
    BY <2>1, <2>2 DEF Kept
  <2> QED BY <2>3 DEF r2, N2, C2, n2
<1> QED BY <1>1 DEF AnswersKept

LEMMA KeptSend ==
  ASSUME IInv, AnswersKept, NEW t \in Threads, NEW resp \in BOOLEAN, Send(t, resp)
  PROVE  AnswersKept'
<1> DEFINE c == calls + 1
           d == [idx |-> NextIdx, call |-> c, by |-> t, resp |-> resp]
           D == Append(Cmds, d)
           M == Len(Cmds)
<1>1. /\ thread' = [thread EXCEPT ![t] =
           [pc |-> IF resp THEN "waiting" ELSE "idle", call |-> c, idx |-> NextIdx,
            answer |-> NoCall, ret |-> IF resp THEN "none" ELSE "unanswered"]]
      /\ calls' = c
  BY DEF Send
<1>2. calls \in Nat /\ c \in Nat /\ c # NoCall
  BY CallNumbers DEF NoCall
<1>3. Cmds' = D /\ Notes' = Notes /\ d \in CmdDesc
  BY Sent
<1>4. Cmds \in Seq(CmdDesc) /\ M \in Nat
  BY Rings, Elements DEF Core
<1>5. d.call = c
  OBVIOUS
<1> HIDE DEF c, d
<1>6. Len(D) = M + 1 /\ (\A k \in 1 .. M : D[k] = Cmds[k]) /\ D[M + 1] = d
  BY <1>3, <1>4, AppendProperties
<1> HIDE DEF D, M
<1>7. ASSUME NEW u \in Threads PROVE Kept(thread'[u], Notes, D, c)
  <2>1. CASE u = t
    <3>1. thread'[t].call = c /\ thread'[t].answer = NoCall
      BY <1>1, Rings
    <3> QED BY <1>2, <2>1, <3>1 DEF Kept
  <2>2. CASE u # t
    <3> DEFINE r == thread[u]
    <3>1. thread'[u] = r
      BY <1>1, <2>2, Rings
    <3>2. Kept(r, Notes, Cmds, calls) /\ r.call \in Nat
      BY CallNumbers DEF AnswersKept
    <3> HIDE DEF r
    <3>3. r.call <= calls /\ r.call < c
      BY <1>2, <3>2 DEF Kept, c
    <3>4. ASSUME r.pc = "waiting", r.answer = r.call, NEW k \in 1 .. Len(D) PROVE r.call < D[k].call
      <4>1. k \in 1 .. M \/ k = M + 1
        BY <1>4, <1>6
      <4>2. CASE k \in 1 .. M
        BY <1>6, <3>2, <3>4, <4>2 DEF Kept, M
      <4>3. CASE k = M + 1
        BY <1>5, <1>6, <3>3, <4>3
      <4> QED BY <4>1, <4>2, <4>3
    <3>5. r.call <= c
      BY <1>2, <3>2, <3>3
    <3> QED BY <3>1, <3>2, <3>4, <3>5 DEF Kept
  <2> QED BY <2>1, <2>2
<1> QED BY <1>1, <1>3, <1>7 DEF AnswersKept

LEMMA KeptPollEnd ==
  ASSUME IInv, AnswersKept, Untorn, NEW t \in Threads, PollEnd(t)
  PROVE  AnswersKept'
<1>1. PICK m \in {1, 2} : EndsWith(m)
  BY PollEnds
<1>2. Cmds' = Cmds /\ calls' = calls
  BY <1>1 DEF EndsWith, Cmds
<1>3. \A i \in Mids(Notes') : \E j \in Mids(Notes) : j > m /\ Notes'[i] = Notes[j]
  BY <1>1, Fewer
<1>4. CASE m = 1
  <2>1. thread' = thread
    BY <1>1, <1>4 DEF EndsWith
  <2>2. \A i \in Mids(Notes') : \E j \in Mids(Notes) : Notes'[i] = Notes[j]
    BY <1>3
  <2>3. calls' \in Nat /\ calls <= calls'
    BY <1>2, CallNumbers
  <2> QED BY <1>2, <2>1, <2>2, <2>3, KeptBy
<1>5. CASE m = 2
  <2> DEFINE c == Notes[1].call
  <2>1. PICK hit \in Written(c) : thread' = Told(hit, c)
    BY <1>1, <1>5 DEF EndsWith
  <2>2. 1 \in Mids(Notes) /\ InOrder(Notes, Cmds, calls)
    BY <1>1, <1>5, Rings DEF EndsWith, Core
  <2>3. (\A i \in Mids(Notes') : c < Notes'[i].call) /\ (\A k \in 1 .. Len(Cmds) : c < Cmds[k].call) /\ c \in Nat
    <3>1. \A j \in Mids(Notes) : j > 2 => c < Notes[j].call
      <4>1. \A j \in Mids(Notes) : j > 2 => 1 < j
        BY Rings, Elements DEF Mids
      <4> QED BY <2>2, <4>1 DEF InOrder
    <3>2. \A k \in 1 .. Len(Cmds) : c < Cmds[k].call
      BY <2>2 DEF InOrder
    <3>3. c \in 1 .. calls /\ calls \in Nat
      BY <2>2, CallNumbers DEF InOrder
    <3> HIDE DEF c
    <3> QED BY <1>3, <1>5, <3>1, <3>2, <3>3
  <2>4. ASSUME NEW u \in Threads PROVE Kept(thread'[u], Notes', Cmds, calls)
    <3> DEFINE r == thread[u]
    <3>1. Kept(r, Notes, Cmds, calls) /\ r \in Callers /\ r.call \in Nat /\ calls \in Nat
      BY CallNumbers DEF AnswersKept
    <3>2. thread'[u] = IF u \in hit THEN [r EXCEPT !.answer = c] ELSE r
      BY <2>1 DEF Told
    <3>3. u \in hit => r.call = c \/ r.call > c
      BY WhoIsHit
    <3> HIDE DEF r, c
    <3>4. CASE u \in hit /\ r.call = c
      <4>1. thread'[u].call = c
        BY <3>1, <3>2, <3>4 DEF Callers
      <4> QED BY <2>3, <3>1, <3>4, <4>1 DEF Kept
    <3>5. CASE u \in hit /\ r.call > c
      <4>1. thread'[u].call = r.call /\ thread'[u].answer = c
        BY <3>1, <3>2, <3>5 DEF Callers
      <4>2. thread'[u].answer # thread'[u].call
        BY <2>3, <3>1, <3>5, <4>1
      <4> QED BY <3>1, <4>1, <4>2 DEF Kept
    <3>6. CASE u \notin hit
      <4>1. thread'[u] = r
        BY <3>2, <3>6
      <4>2. \A i \in Mids(Notes') : \E j \in Mids(Notes) : Notes'[i] = Notes[j]
        BY <1>3
      <4> QED BY <3>1, <4>1, <4>2 DEF Kept
    <3> QED BY <3>3, <3>4, <3>5, <3>6
  <2> QED BY <1>2, <2>4 DEF AnswersKept
<1> QED BY <1>4, <1>5

LEMMA KeptDispatch ==
  ASSUME IInv, AnswersKept, Dispatch
  PROVE  AnswersKept'
<1> DEFINE C == Cmds
           D == Drop(C, 1)
           d == C[1]
<1>1. PICK ok \in BOOLEAN : Executed(ok)
  BY DispatchIs
<1>2. C # <<>> /\ Cmds' = D /\ thread' = thread /\ calls' = calls
  BY <1>1 DEF Executed
<1>3. C \in Seq(CmdDesc)
  BY Rings DEF Core
<1>4. Len(C) \in Nat \ {0} /\ 1 \in 1 .. Len(C)
  BY <1>2, <1>3, EmptySeq, LenProperties
<1>5. \A k \in 1 .. Len(D) : D[k] = C[k + 1] /\ k + 1 \in 1 .. Len(C)
  <2>1. 1 \in 0 .. Len(C)
    BY <1>4
  <2>2. Len(D) = Len(C) - 1 /\ \A k \in 1 .. Len(C) - 1 : D[k] = C[k + 1]
    BY <1>3, <2>1, DropIs
  <2> HIDE DEF D, C
  <2> QED BY <1>4, <2>2
<1>6. \A i \in Mids(Notes') : Notes'[i].call = d.call \/ \E j \in Mids(Notes) : Notes'[i] = Notes[j]
  BY <1>1, OneMore
<1> HIDE DEF D, d
<1>7. ASSUME NEW u \in Threads PROVE Kept(thread[u], Notes', D, calls)
  <2> DEFINE r == thread[u]
  <2>1. Kept(r, Notes, C, calls)
    BY DEF AnswersKept
  <2> HIDE DEF r, C
  <2>2. ASSUME r.pc = "waiting", r.answer = r.call, NEW i \in Mids(Notes') PROVE r.call < Notes'[i].call
    <3>1. CASE Notes'[i].call = d.call
      BY <1>4, <2>1, <2>2, <3>1 DEF Kept, d
    <3>2. CASE \E j \in Mids(Notes) : Notes'[i] = Notes[j]
      BY <2>1, <2>2, <3>2 DEF Kept
    <3> QED BY <1>6, <3>1, <3>2
  <2>3. ASSUME r.pc = "waiting", r.answer = r.call, NEW k \in 1 .. Len(D) PROVE r.call < D[k].call
    BY <1>5, <2>1, <2>3 DEF Kept
  <2>4. Kept(r, Notes', D, calls)
    BY <2>1, <2>2, <2>3 DEF Kept
  <2> QED BY <2>4 DEF r
<1> QED BY <1>2, <1>7 DEF AnswersKept

LEMMA KeptStep ==
  ASSUME ~Overlap, IInv, AnswersKept, Linked, Untorn, [Next]_vars
  PROVE  AnswersKept'
<1>1. ASSUME UNCHANGED <<thread, calls>>, Cmds' = Cmds,
             \A i \in Mids(Notes') : \E j \in Mids(Notes) : Notes'[i] = Notes[j]
      PROVE  AnswersKept'
  <2>1. calls' \in Nat /\ calls <= calls'
    BY <1>1, CallNumbers
  <2> QED BY <1>1, <2>1, KeptBy
<1>2. CASE Next
  <2>1. ASSUME NEW t \in Threads PROVE \A resp \in BOOLEAN : Send(t, resp) => AnswersKept'
    BY KeptSend
  <2>2. ASSUME NEW t \in Threads, Return(t) \/ Timeout(t) \/ SendRefused(t) PROVE AnswersKept'
    <3>1. Notes' = Notes /\ Cmds' = Cmds /\ calls' \in {calls, calls + 1}
      BY <2>2 DEF Return, Timeout, SendRefused, Notes, Cmds
    <3>2. \A u \in Threads : /\ thread'[u].call = thread[u].call
                             /\ thread'[u].pc = "waiting" => thread[u].pc = "waiting"
                             /\ thread'[u].answer = thread[u].answer
      <4>1. PICK pc \in {"idle"}, ret \in {"ok", "error", "timeout", "refused"} :
              thread' = [thread EXCEPT ![t].ret = ret] \/ thread' = [thread EXCEPT ![t].pc = pc, ![t].ret = ret]
        BY <2>2 DEF Return, Timeout, SendRefused
      <4>2. thread \in [Threads -> Callers]
        BY Rings
      <4> QED BY <4>1, <4>2 DEF Callers
    <3>3. calls' \in Nat /\ calls <= calls'
      BY <3>1, CallNumbers
    <3> QED BY <3>1, <3>2, <3>3, KeptBy
  <2>3. ASSUME NEW t \in Threads PROVE PollBegin(t) => AnswersKept'
    BY <1>1 DEF PollBegin, Notes, Cmds
  <2>4. ASSUME NEW t \in Threads PROVE PollEnd(t) => AnswersKept'
    BY KeptPollEnd
  <2>5. CopyCommands \/ CopyAnswers => AnswersKept'
    BY <1>1, CommandsCopied, AnswersCopied
  <2>6. Maintenance => AnswersKept'
    <3> SUFFICES ASSUME Maintenance PROVE AnswersKept'
      OBVIOUS
    <3>1. /\ UNCHANGED <<thread, calls, cmdq>> /\ Mids(Notes') = Mids(Notes)
          /\ \A i \in Mids(Notes) : Notes'[i] = Notes[i]
      BY MaintenanceIs
    <3> QED BY <1>1, <3>1 DEF Cmds
  <2>7. LinkFlips => AnswersKept'
    BY <1>1 DEF LinkFlips, Notes, Cmds
  <2> QED BY <1>2, <2>1, <2>2, <2>3, <2>4, <2>5, <2>6, <2>7, KeptDispatch, PollSkipStep DEF Next
<1>3. CASE UNCHANGED vars
  BY <1>1, <1>3 DEF vars, Notes, Cmds
<1> QED BY <1>2, <1>3

-----------------------------------------------------------------------------
(* What a thread has set, if the card does not fail *)

\* A thread that does nothing, while the answers of the stream stay, or leave it.
LEMMA OwnedStays ==
  ASSUME NEW t, NEW r, NEW host, NEW card, NEW N, NEW C, NEW n,
         Owned(t, r, host, card, N, C, n), NEW N2,
         \A i \in Mids(N2) : \E j \in Mids(N) : N2[i] = N[j]
  PROVE  Owned(t, r, host, card, N2, C, n)
BY DEF Owned

LEMMA OwnedSend ==
  ASSUME IInv, ConfInv, NEW t \in Threads, NEW resp \in BOOLEAN, Send(t, resp)
  PROVE  ConfInv'
<1> DEFINE c == calls + 1
           d == [idx |-> NextIdx, call |-> c, by |-> t, resp |-> resp]
           M == Len(Cmds)
<1>1. /\ cmdq' = [cmdq EXCEPT !.host = Append(cmdq.host, d)] /\ calls' = c
      /\ thread' = [thread EXCEPT ![t] =
           [pc |-> IF resp THEN "waiting" ELSE "idle", call |-> c, idx |-> NextIdx,
            answer |-> NoCall, ret |-> IF resp THEN "none" ELSE "unanswered"]]
      /\ notq' = notq /\ conf' = conf /\ calls < MaxCalls
  BY DEF Send
<1>2. calls \in Nat /\ MaxCalls \in Nat /\ c \in Calls /\ c # NoCall
  BY <1>1, MgmtAssumption DEF IInv, Typed, Calls, NoCall
<1>3. d \in CmdDesc /\ d.by = t /\ d.call = c
  <2> HIDE DEF c
  <2> QED BY <1>2, NextIdxIs DEF CmdDesc
<1> HIDE DEF d, c
<1>4. Cmds \in Seq(CmdDesc) /\ M \in Nat /\ Len(Notes) \in Nat /\ Core(Notes, Cmds, cookie, calls, lost)
  BY Rings, Elements DEF Core
<1>5. Cmds' = Append(Cmds, d) /\ Notes' = Notes
  BY Sent DEF d, c
<1> DEFINE D == Append(Cmds, d)
<1>6. Len(D) = M + 1 /\ (\A k \in 1 .. M : D[k] = Cmds[k]) /\ D[M + 1] = d
  BY <1>3, <1>4, AppendProperties
<1>7. (\A k \in 1 .. M : Cmds[k].call \in 1 .. calls) /\ (\A i \in Mids(Notes) : Notes[i].call \in 1 .. calls)
  BY <1>4, Elements
<1>8. \A k \in 1 .. M + 1 : k \in 1 .. M \/ k = M + 1
  BY <1>4
<1> HIDE DEF D, M
<1>9. ASSUME NEW u \in Threads
      PROVE  Owned(u, thread'[u], conf.host[u], conf.card[u], Notes, D, c)
  <2>1. Owned(u, thread[u], conf.host[u], conf.card[u], Notes, Cmds, calls) /\ thread[u].call \in Nat
    BY Rings DEF ConfInv, Callers, Calls, NoCall
  <2>2. CASE u = t
    <3> DEFINE r == thread'[t]
    <3>1. r.call = c /\ r.answer = NoCall /\ r.ret # "ok"
      BY <1>1, Rings
    <3> HIDE DEF r
    <3>2. \A k \in 1 .. M + 1 : (D[k].by = t => D[k].call <= c) /\ (D[k].call = c => D[k].by = t)
      BY <1>2, <1>3, <1>6, <1>7, <1>8 DEF c
    <3>3. \A i \in Mids(Notes) : Notes[i].call # c
      BY <1>2, <1>7 DEF c
    <3> QED BY <1>2, <1>6, <2>2, <3>1, <3>2, <3>3 DEF Owned, c, r
  <2>3. CASE u # t
    <3>1. thread'[u] = thread[u]
      BY <1>1, <2>3, Rings
    <3>2. \A k \in 1 .. Len(D) : (D[k].by = u => D[k].call <= thread[u].call) /\ (D[k].call = thread[u].call => D[k].by = u)
      <4> SUFFICES ASSUME NEW k \in 1 .. M + 1
                   PROVE  (D[k].by = u => D[k].call <= thread[u].call) /\ (D[k].call = thread[u].call => D[k].by = u)
        BY <1>6
      <4>1. CASE k \in 1 .. M
        BY <1>6, <2>1, <4>1 DEF Owned, M
      <4>2. CASE k = M + 1
        BY <1>2, <1>3, <1>6, <2>1, <2>3, <4>2 DEF Owned, c
      <4> QED BY <1>8, <4>1, <4>2
    <3>3. Quiet(u, Cmds) => Quiet(u, D)
      <4> SUFFICES ASSUME Quiet(u, Cmds), NEW k \in Asks(D) PROVE D[k].by # u
        BY DEF Quiet
      <4>1. k \in 1 .. M + 1 /\ D[k].resp
        BY <1>6 DEF Asks
      <4>2. CASE k \in 1 .. M
        BY <1>6, <4>1, <4>2 DEF Quiet, Asks, M
      <4>3. CASE k = M + 1
        BY <1>3, <1>6, <2>3, <4>3
      <4> QED BY <1>8, <4>1, <4>2, <4>3
    <3>4. thread[u].call <= c
      BY <1>2, <2>1 DEF Owned, c
    <3> QED BY <2>1, <3>1, <3>2, <3>3, <3>4 DEF Owned
  <2> QED BY <2>2, <2>3
<1> QED BY <1>1, <1>5, <1>9 DEF ConfInv, D

LEMMA OwnedEnd ==
  ASSUME IInv, ConfInv, NEW t \in Threads, Return(t) \/ Timeout(t) \/ SendRefused(t)
  PROVE  ConfInv'
<1>1. Notes' = Notes /\ Cmds' = Cmds
  BY DEF Return, Timeout, SendRefused, Notes, Cmds
<1>2. thread \in [Threads -> Callers] /\ calls \in Nat
      /\ conf \in [host: [Threads -> Calls \cup {NoCall}], card: [Threads -> Calls \cup {NoCall}]]
  BY Rings DEF IInv, Typed
<1>3. ASSUME NEW u \in Threads PROVE Owned(u, thread[u], conf.host[u], conf.card[u], Notes, Cmds, calls) /\ thread[u].call \in Nat
  BY <1>2 DEF ConfInv, Callers, Calls, NoCall
<1>4. ASSUME Return(t), NEW u \in Threads
      PROVE  Owned(u, thread'[u], conf'.host[u], conf'.card[u], Notes, Cmds, calls')
  <2> DEFINE ok == cookie[thread[t].idx].ok
  <2>1. /\ thread[t].pc = "waiting" /\ cookie[thread[t].idx].cond = "rcv" /\ calls' = calls
        /\ thread' = [thread EXCEPT ![t].pc = "idle", ![t].ret = IF ok THEN "ok" ELSE "error"]
        /\ conf' = [conf EXCEPT !.host[t] = IF ok THEN thread[t].call ELSE @]
    BY <1>4 DEF Return
  <2>2. thread[t].answer = thread[t].call
    BY <2>1, Answers
  <2> HIDE DEF ok
  <2>3. conf'.card[u] = conf.card[u] /\ (u # t => conf'.host[u] = conf.host[u]) /\ (ok => conf'.host[t] = thread[t].call)
    BY <2>1, <1>2
  <2>4. CASE u = t
    <3>1. thread'[t].call = thread[t].call /\ thread'[t].pc = "idle" /\ thread'[t].ret = (IF ok THEN "ok" ELSE "error")
      BY <2>1, <1>2 DEF Callers
    <3>2. Owned(t, thread[t], conf.host[t], conf.card[t], Notes, Cmds, calls) /\ calls' = calls
      BY <1>3, <2>1
    <3>3. conf'.card[t] = thread[t].call /\ Quiet(t, Cmds)
      BY <2>1, <2>2, <2>3, <2>4, <3>2 DEF Owned
    <3>4. thread'[t].ret = "ok" => conf'.host[t] = thread[t].call
      BY <2>3, <3>1
    <3>5. Owned(t, thread'[t], conf'.host[t], conf'.card[t], Notes, Cmds, calls)
      BY <3>1, <3>2, <3>3, <3>4 DEF Owned
    <3> QED BY <2>4, <3>2, <3>5
  <2>5. CASE u # t
    <3>1. thread'[u] = thread[u]
      BY <2>1, <2>5, <1>2
    <3> QED BY <1>3, <2>1, <2>3, <2>5, <3>1
  <2> QED BY <2>4, <2>5
<1>5. ASSUME Timeout(t) \/ SendRefused(t), NEW u \in Threads
      PROVE  Owned(u, thread'[u], conf'.host[u], conf'.card[u], Notes, Cmds, calls')
  <2>1. /\ calls' \in {calls, calls + 1} /\ conf' = conf
        /\ thread'[u] = thread[u] \/ (thread'[u].call = thread[u].call /\ thread'[u].pc = "idle" /\ thread'[u].ret # "ok")
    <3>1. CASE Timeout(t)
      BY <1>2, <3>1 DEF Timeout, Callers
    <3>2. CASE SendRefused(t)
      BY <1>2, <3>2 DEF SendRefused, Callers
    <3> QED BY <1>5, <3>1, <3>2
  <2>2. thread[u].call <= calls'
    BY <1>2, <1>3, <2>1 DEF Owned
  <2> QED BY <1>3, <2>1, <2>2 DEF Owned
<1> QED BY <1>1, <1>4, <1>5 DEF ConfInv

LEMMA OwnedPollEnd ==
  ASSUME IInv, Untorn, ConfInv, NEW t \in Threads, PollEnd(t)
  PROVE  ConfInv'
<1>1. PICK m \in {1, 2} : EndsWith(m)
  BY PollEnds
<1>2. Notes' = Drop(Notes, m) /\ Cmds' = Cmds /\ calls' = calls /\ conf' = conf /\ Notes # <<>>
  BY <1>1 DEF EndsWith, Cmds
<1>3. \A i \in Mids(Notes') : \E j \in Mids(Notes) : j > m /\ Notes'[i] = Notes[j]
  BY <1>1, Fewer
<1>4. ASSUME NEW u \in Threads
      PROVE  Owned(u, thread'[u], conf.host[u], conf.card[u], Notes, Cmds, calls)
  <2>1. Owned(u, thread[u], conf.host[u], conf.card[u], Notes, Cmds, calls) /\ thread[u] \in Callers
    BY Rings DEF ConfInv
  <2>2. CASE m = 1
    BY <1>1, <2>1, <2>2 DEF EndsWith
  <2>3. CASE m = 2
    <3> DEFINE c == Notes[1].call
    <3>1. PICK hit \in Written(c) : thread' = Told(hit, c)
      BY <1>1, <2>3 DEF EndsWith
    <3>2. 1 \in Mids(Notes) /\ c \in Nat /\ thread[u].call \in Nat
      <4>1. 1 \in Mids(Notes) /\ c \in 1 .. calls /\ calls \in Nat /\ thread[u].call \in Nat
        BY <1>1, <2>3, Rings, Elements, CallNumbers DEF EndsWith
      <4> HIDE DEF c
      <4> QED BY <4>1
    <3>3. thread'[u] = IF u \in hit THEN [thread[u] EXCEPT !.answer = c] ELSE thread[u]
      BY <3>1 DEF Told
    <3>4. CASE u \in hit
      <4>1. thread[u].pc = "waiting" /\ (thread[u].call = c \/ thread[u].call > c)
        BY <3>4, WhoIsHit
      <4>2. thread[u].call = c => conf.card[u] = thread[u].call /\ Quiet(u, Cmds)
        BY <2>1, <3>2, <4>1 DEF Owned
      <4> HIDE DEF c
      <4>3. /\ thread'[u].call = thread[u].call /\ thread'[u].ret = thread[u].ret
            /\ thread'[u].pc = thread[u].pc /\ thread'[u].answer = c
        BY <2>1, <3>3, <3>4 DEF Callers
      <4>4. thread'[u].answer = thread'[u].call => thread[u].call = c
        BY <4>3
      <4> QED BY <2>1, <4>2, <4>3, <4>4 DEF Owned
    <3>5. CASE u \notin hit
      <4>1. thread'[u] = thread[u]
        BY <3>3, <3>5
      <4> QED BY <2>1, <4>1
    <3> QED BY <3>4, <3>5
  <2> QED BY <2>2, <2>3
<1>5. ASSUME NEW u \in Threads
      PROVE  Owned(u, thread'[u], conf.host[u], conf.card[u], Notes', Cmds, calls)
  <2>1. \A i \in Mids(Notes') : \E j \in Mids(Notes) : Notes'[i] = Notes[j]
    BY <1>3
  <2> QED BY <1>4, <2>1, OwnedStays
<1> QED BY <1>2, <1>5 DEF ConfInv

LEMMA OwnedDispatch ==
  ASSUME ~MayFail, IInv, ConfInv, Dispatch
  PROVE  ConfInv'
<1> DEFINE C == Cmds
           D == Drop(C, 1)
           d == C[1]
<1>1. Executed(TRUE)
  BY DispatchIs
<1>2. /\ C # <<>> /\ Cmds' = D /\ d \in CmdDesc /\ thread' = thread /\ calls' = calls
      /\ conf' = [conf EXCEPT !.card[d.by] = IF d.resp THEN d.call ELSE @]
      /\ \/ d.resp /\ Notes' = Notes \o Answer(d, TRUE)
         \/ Notes' = Notes
  BY <1>1 DEF Executed
<1>3. C \in Seq(CmdDesc) /\ Core(Notes, C, cookie, calls, lost) /\ Notes \in Seq(NotDesc)
  BY Rings DEF Core
<1>4. Len(C) \in Nat \ {0} /\ 1 \in 1 .. Len(C)
  BY <1>2, <1>3, EmptySeq, LenProperties
<1>5. Len(D) = Len(C) - 1 /\ \A k \in 1 .. Len(D) : D[k] = C[k + 1] /\ k + 1 \in 1 .. Len(C) /\ 1 < k + 1
  <2>1. 1 \in 0 .. Len(C)
    BY <1>4
  <2>2. Len(D) = Len(C) - 1 /\ \A k \in 1 .. Len(C) - 1 : D[k] = C[k + 1]
    BY <1>3, <2>1, DropIs
  <2> HIDE DEF D, C
  <2> QED BY <1>4, <2>2
<1>6. \A i \in Mids(Notes') : (d.resp /\ Notes'[i].call = d.call) \/ \E j \in Mids(Notes) : Notes'[i] = Notes[j]
  BY <1>1, OneMore
<1>7. \A k \in 1 .. Len(D) : d.call < D[k].call
  BY <1>4, <1>5, <1>3 DEF Core, InOrder
<1>8. \A k \in 1 .. Len(D) : D[k].call \in Nat /\ d.call \in Nat
  BY <1>3, <1>4, <1>5, Elements
<1> HIDE DEF D, d, C
<1>9. ASSUME NEW t \in Threads
      PROVE  Owned(t, thread[t], conf'.host[t], conf'.card[t], Notes', D, calls)
  <2> DEFINE r == thread[t]
             v == conf.card[t]
             w == conf'.card[t]
  <2>1. Owned(t, r, conf.host[t], v, Notes, C, calls) /\ r.call \in Nat
    BY Rings DEF ConfInv, Callers, Calls, NoCall, C
  <2>2. /\ conf'.host[t] = conf.host[t] /\ (d.by = t /\ d.resp => w = d.call)
        /\ (d.by # t \/ ~d.resp => w = v)
    <3>1. conf \in [host: [Threads -> Calls \cup {NoCall}], card: [Threads -> Calls \cup {NoCall}]]
      BY DEF IInv, Typed
    <3>2. d.by \in Threads
      BY <1>2 DEF CmdDesc
    <3> QED BY <1>2, <3>1, <3>2
  <2> HIDE DEF r, v, w
  <2>3. \A k \in 1 .. Len(D) : (D[k].by = t => D[k].call <= r.call) /\ (D[k].call = r.call => D[k].by = t)
    BY <1>5, <2>1 DEF Owned
  <2>4. Quiet(t, C) => Quiet(t, D) /\ w = v
    <3>1. \A k \in Asks(D) : k + 1 \in Asks(C) /\ D[k] = C[k + 1]
      BY <1>5 DEF Asks
    <3>2. d.resp => 1 \in Asks(C)
      BY <1>4 DEF Asks, d
    <3> QED BY <2>2, <3>1, <3>2 DEF Quiet, d
  <2>5. d.resp /\ r.call = d.call => w = r.call /\ Quiet(t, D)
    <3> SUFFICES ASSUME d.resp, r.call = d.call PROVE w = r.call /\ Quiet(t, D)
      OBVIOUS
    <3>1. d.by = t
      BY <1>4, <2>1 DEF Owned, d
    <3>2. \A k \in 1 .. Len(D) : D[k].by # t
      <4> SUFFICES ASSUME NEW k \in 1 .. Len(D), D[k].by = t PROVE FALSE
        OBVIOUS
      <4>1. D[k].call <= d.call /\ d.call < D[k].call /\ D[k].call \in Nat /\ d.call \in Nat
        BY <1>7, <1>8, <2>3
      <4> QED BY <4>1
    <3> QED BY <2>2, <3>1, <3>2 DEF Quiet, Asks
  <2>6. r.pc = "waiting" => \A i \in Mids(Notes') : Notes'[i].call = r.call => w = r.call /\ Quiet(t, D)
    <3> SUFFICES ASSUME r.pc = "waiting", NEW i \in Mids(Notes'), Notes'[i].call = r.call
                 PROVE  w = r.call /\ Quiet(t, D)
      OBVIOUS
    <3>1. CASE d.resp /\ Notes'[i].call = d.call
      BY <2>5, <3>1
    <3>2. CASE \E j \in Mids(Notes) : Notes'[i] = Notes[j]
      <4>1. v = r.call /\ Quiet(t, C)
        BY <2>1, <3>2 DEF Owned
      <4> QED BY <2>4, <4>1
    <3> QED BY <1>6, <3>1, <3>2
  <2>7. r.pc = "waiting" /\ r.answer = r.call => w = r.call /\ Quiet(t, D)
    BY <2>1, <2>4 DEF Owned
  <2>8. r.ret = "ok" => w = r.call /\ conf'.host[t] = r.call /\ Quiet(t, D)
    BY <2>1, <2>2, <2>4 DEF Owned
  <2>9. r.call <= calls
    BY <2>1 DEF Owned
  <2>10. Owned(t, r, conf'.host[t], w, Notes', D, calls)
    BY <2>3, <2>6, <2>7, <2>8, <2>9 DEF Owned
  <2> QED BY <2>10 DEF r, w
<1> QED BY <1>2, <1>9 DEF ConfInv

LEMMA ConfStep ==
  ASSUME ~MayFail, ~Overlap, IInv, Linked, Untorn, ConfInv, [Next]_vars
  PROVE  ConfInv'
<1>1. ASSUME UNCHANGED <<thread, conf, calls>>, Cmds' = Cmds,
             \A i \in Mids(Notes') : \E j \in Mids(Notes) : Notes'[i] = Notes[j]
      PROVE  ConfInv'
  <2>1. ASSUME NEW t \in Threads PROVE Owned(t, thread[t], conf.host[t], conf.card[t], Notes', Cmds, calls)
    BY <1>1, OwnedStays DEF ConfInv
  <2> QED BY <1>1, <2>1 DEF ConfInv
<1>2. CASE Next
  <2>1. ASSUME NEW t \in Threads PROVE \A resp \in BOOLEAN : Send(t, resp) => ConfInv'
    BY OwnedSend
  <2>2. ASSUME NEW t \in Threads PROVE SendRefused(t) \/ Return(t) \/ Timeout(t) \/ PollEnd(t) => ConfInv'
    BY OwnedEnd, OwnedPollEnd
  <2>3. ASSUME NEW t \in Threads PROVE PollBegin(t) => ConfInv'
    BY <1>1 DEF PollBegin, Notes, Cmds
  <2>4. CopyCommands \/ CopyAnswers => ConfInv'
    BY <1>1, CommandsCopied, AnswersCopied
  <2>5. Maintenance => ConfInv'
    <3> SUFFICES ASSUME Maintenance PROVE ConfInv'
      OBVIOUS
    <3>1. /\ UNCHANGED <<thread, conf, calls, cmdq>> /\ Mids(Notes') = Mids(Notes)
          /\ \A i \in Mids(Notes) : Notes'[i] = Notes[i]
      BY MaintenanceIs
    <3> QED BY <1>1, <3>1 DEF Cmds
  <2>6. LinkFlips => ConfInv'
    BY <1>1 DEF LinkFlips, Notes, Cmds
  <2> QED BY <1>2, <2>1, <2>2, <2>3, <2>4, <2>5, <2>6, OwnedDispatch, PollSkipStep DEF Next
<1>3. CASE UNCHANGED vars
  BY <1>1, <1>3 DEF vars, Notes, Cmds
<1> QED BY <1>2, <1>3

-----------------------------------------------------------------------------
(* When copies end where messages do *)

\* A copy can take all that the card has written.
Roomy == Len(notq.card) <= Batch /\ Len(notq.card) <= Room(notq.host, HostLen)

LEMMA UntornCopy ==
  ASSUME IInv, Roomy, CopyAnswers
  PROVE  Untorn'
<1> DEFINE a == notq.host
           b == notq.card
           r == Room(a, HostLen)
           most == Least({Len(b), Batch, r})
<1>1. PICK n \in 1 .. most : /\ n = most \/ b[n].pos # "mid"
                             /\ notq' = [host |-> a \o SubSeq(b, 1, n), card |-> Drop(b, n)]
  BY DEF CopyAnswers
<1>2. a \in Seq(NotDesc) /\ b \in Seq(NotDesc) /\ Len(a) \in Nat /\ Len(b) \in Nat
  BY Rings, LenProperties
<1>3. Batch \in Int /\ r \in Int /\ Len(b) <= Batch /\ Len(b) <= r
  BY <1>2, MgmtAssumption DEF Room, Roomy
<1>4. Joined(Notes) /\ Notes = a \o b
  BY Rings DEF Core, Notes
<1>5. notq'.host = a \o SubSeq(b, 1, n)
  BY <1>1
<1> HIDE DEF a, b, r
<1>6. most = Len(b)
  <2>1. most \in {Len(b), Batch, r} /\ most <= Len(b) /\ most <= Batch /\ most <= r
    <3>1. Len(b) \in Int /\ Batch \in Int /\ r \in Int
      BY <1>2, <1>3
    <3> QED BY <3>1, LeastOfThree
  <2> HIDE DEF most
  <2> QED BY <1>2, <1>3, <2>1
<1> HIDE DEF most
<1>7. n \in 0 .. Len(b) /\ n > 0 /\ n \in Nat
  BY <1>2, <1>6
<1> DEFINE g == a \o SubSeq(b, 1, n)
<1>8. Len(g) = Len(a) + n /\ g[Len(a) + n] = b[n]
  BY <1>2, <1>7, CopySame
<1>9. b[n].pos # "mid"
  <2>1. CASE n = Len(b)
    <3> DEFINE N == a \o b
    <3>1. /\ Len(N) = Len(a) + Len(b)
          /\ \A i \in 1 .. Len(a) + Len(b) : N[i] = IF i <= Len(a) THEN a[i] ELSE b[i - Len(a)]
      BY <1>2, ConcatProperties
    <3> HIDE DEF N
    <3>2. Len(N) \in 1 .. Len(N) /\ N[Len(N)] = b[n]
      BY <1>2, <1>7, <2>1, <3>1
    <3>3. ~(Len(N) < Len(N))
      BY <1>2, <3>1
    <3> QED BY <1>4, <3>2, <3>3 DEF Joined, Joins, N
  <2>2. CASE n # Len(b)
    BY <1>1, <1>6, <2>2
  <2> QED BY <2>1, <2>2
<1> HIDE DEF g
<1>10. g[Len(g)].pos # "mid"
  BY <1>8, <1>9
<1> QED BY <1>5, <1>10 DEF Untorn, g

LEMMA UntornPoll ==
  ASSUME IInv, Untorn, NEW t \in Threads, PollEnd(t)
  PROVE  Untorn'
<1> DEFINE r == notq.host
           m == Taken(poll[t], r)
<1>1. ~Free(t) /\ notq' = [notq EXCEPT !.host = Drop(r, m)]
  BY DEF PollEnd
<1>2. m \in {1, 2} /\ Len(r) >= m /\ r # <<>>
  BY <1>1, PollTakes
<1>3. r \in Seq(NotDesc) /\ Len(r) \in Nat
  BY Rings, LenProperties
<1>4. notq'.host = Drop(r, m)
  BY <1>1 DEF IInv, Typed
<1>5. r[Len(r)].pos # "mid"
  BY <1>2 DEF Untorn
<1> HIDE DEF r, m
<1> DEFINE D == Drop(r, m)
<1>6. D \in Seq(NotDesc) /\ Len(D) = Len(r) - m /\ \A i \in 1 .. Len(r) - m : D[i] = r[i + m]
  <2>1. m \in 0 .. Len(r)
    BY <1>2, <1>3
  <2> QED BY <1>3, <2>1, DropIs
<1> HIDE DEF D
<1>7. ASSUME D # <<>> PROVE D[Len(D)].pos # "mid"
  <2>1. Len(D) \in 1 .. Len(r) - m /\ Len(D) + m = Len(r)
    <3>1. Len(D) \in Nat \ {0}
      BY <1>6, <1>7, EmptySeq, LenProperties
    <3> QED BY <1>2, <1>3, <1>6, <3>1
  <2>2. D[Len(D)] = r[Len(r)]
    BY <1>6, <2>1
  <2> QED BY <1>5, <2>2
<1> QED BY <1>4, <1>7 DEF Untorn, D

LEMMA UntornStep ==
  ASSUME IInv, Linked, Untorn, Roomy, [Next]_vars
  PROVE  Untorn'
<1>1. notq'.host = notq.host => Untorn'
  BY DEF Untorn
<1>2. CASE Next
  <2>1. ASSUME NEW t \in Threads PROVE PollEnd(t) => Untorn'
    BY UntornPoll
  <2>2. CopyAnswers => Untorn'
    BY UntornCopy
  <2>3. Dispatch => Untorn'
    BY <1>1, DispatchIs DEF Executed
  <2>4. Maintenance => Untorn'
    BY <1>1, MaintenanceIs
  <2>5. ASSUME NEW t \in Threads,
               (\E resp \in BOOLEAN : Send(t, resp)) \/ SendRefused(t) \/ Return(t) \/ Timeout(t) \/ PollBegin(t)
        PROVE  Untorn'
    BY <1>1, <2>5 DEF Send, SendRefused, Return, Timeout, PollBegin
  <2>6. CopyCommands \/ LinkFlips => Untorn'
    BY <1>1 DEF CopyCommands, LinkFlips
  <2> QED BY <1>2, <2>1, <2>2, <2>3, <2>4, <2>5, <2>6, PollSkipStep DEF Next
<1>3. CASE UNCHANGED vars
  BY <1>1, <1>3 DEF vars
<1> QED BY <1>2, <1>3

-----------------------------------------------------------------------------
(* The theorems *)

\* IInv and Linked say what the properties do.
LEMMA Accounts == ASSUME IInv PROVE CookieAccounting
<1> DEFINE N == Notes
           C == Cmds
<1>1. Core(N, C, cookie, calls, lost) /\ cookie \in CookieLists
  BY Rings
<1>2. N \in Seq(NotDesc) /\ C \in Seq(CmdDesc) /\ Len(N) \in Nat /\ Len(C) \in Nat
  BY <1>1, LenProperties DEF Core
<1>3. Range(cmdq.host) \cup Range(cmdq.card) = Range(C)
  <2>1. cmdq.host \in Seq(CmdDesc) /\ cmdq.card \in Seq(CmdDesc)
    BY Rings
  <2> QED BY <2>1, RangeConcatenation DEF Cmds
<1>4. Range(notq.card) \cup Range(notq.host) = Range(N)
  <2>1. notq.host \in Seq(NotDesc) /\ notq.card \in Seq(NotDesc)
    BY Rings
  <2> QED BY <2>1, RangeConcatenation DEF Notes
<1> HIDE DEF N, C
<1>5. Range(C) = {C[k] : k \in 1 .. Len(C)} /\ Range(N) = {N[i] : i \in 1 .. Len(N)}
  BY <1>2 DEF Range
<1>6. \A x : x \in OnTheWay <=> \/ \E k \in Asks(C) : x = <<C[k].idx, C[k].call>>
                               \/ \E i \in Mids(N) : x = <<N[i].idx, N[i].call>>
  BY <1>3, <1>4, <1>5 DEF OnTheWay, Asks, Mids
<1>7. \A x \in OnTheWay : cookie[x[1]].buf = x[2]
  BY <1>1, <1>6 DEF Core, Finds
<1>8. \A i \in DOMAIN cookie : cookie[i].buf # NoCall => <<i, cookie[i].buf>> \in OnTheWay \/ cookie[i].buf \in lost
  <2> SUFFICES ASSUME NEW x \in 0 .. Cookies - 1, cookie[x].buf # NoCall
               PROVE  <<x, cookie[x].buf>> \in OnTheWay \/ cookie[x].buf \in lost
    BY <1>1 DEF CookieLists
  <2>1. \/ cookie[x].buf \in lost
        \/ \E i \in Mids(N) : N[i].idx = x /\ N[i].call = cookie[x].buf
        \/ \E k \in Asks(C) : C[k].idx = x /\ C[k].call = cookie[x].buf
    BY <1>1 DEF Core, Awaits
  <2> QED BY <1>6, <2>1
<1> QED BY <1>7, <1>8 DEF CookieAccounting

\* Every state of a behaviour in which one thread polls at a time and no copy ends
\* inside an answer satisfies the inductive invariant.
THEOREM ProtocolInvariance ==
  ASSUME ~Overlap
  PROVE  Spec /\ []Untorn => [](IInv /\ AnswersKept /\ Linked)
<1>1. Init => IInv /\ AnswersKept /\ Linked
  BY InitStep, InitKept
<1>2. IInv /\ AnswersKept /\ Linked /\ Untorn /\ [Next]_vars => (IInv /\ AnswersKept /\ Linked)'
  BY NextStep, KeptStep
<1> QED BY <1>1, <1>2, PTL DEF Spec

\* No copy ends inside an answer while a copy can take all that waits on the card.
THEOREM CopiesWhole ==
  ASSUME ~Overlap
  PROVE  Spec /\ []Roomy => []Untorn
<1>1. Init => IInv /\ AnswersKept /\ Linked /\ Untorn
  <2>1. Init => Untorn
    BY DEF Init, Untorn
  <2> QED BY <2>1, InitStep, InitKept
<1>2. IInv /\ AnswersKept /\ Linked /\ Untorn /\ Roomy /\ [Next]_vars => (IInv /\ AnswersKept /\ Linked /\ Untorn)'
  BY NextStep, KeptStep, UntornStep
<1> QED BY <1>1, <1>2, PTL DEF Spec

\* A call that succeeds has the answer to its own command (agnic_pfio_mng.c:269).
THEOREM AnswersOwn ==
  ASSUME ~Overlap
  PROVE  Spec /\ []Untorn => []OwnAnswer
<1>1. IInv => OwnAnswer
  BY DEF IInv, Calling, OwnAnswer
<1> QED BY <1>1, ProtocolInvariance, PTL

\* What is on its way finds its cookie, and a cookie in use waits
\* (agnic_pfio_mng.c:843-844).
THEOREM CookiesAccounted ==
  ASSUME ~Overlap
  PROVE  Spec /\ []Untorn => []CookieAccounting
<1>1. IInv => CookieAccounting
  BY Accounts
<1> QED BY <1>1, ProtocolInvariance, PTL

\* If no command fails on the card, a call that succeeds leaves the host and the
\* card with the same setting (agnic_pfio_mng.c:952, 983).
THEOREM SettingsAgree ==
  ASSUME ~Overlap, ~MayFail
  PROVE  Spec /\ []Untorn => []ConfAgrees
<1>1. Init => ConfInv
  <2> SUFFICES ASSUME Init PROVE ConfInv
    OBVIOUS
  <2>1. cmdq = [host |-> <<>>, card |-> <<>>] /\ notq = [host |-> <<>>, card |-> <<>>] /\ calls = 0
        /\ thread = [t \in Threads |-> [pc |-> "idle", call |-> NoCall, idx |-> 0, answer |-> NoCall, ret |-> "none"]]
    BY DEF Init
  <2>2. Cmds = <<>>
    BY <2>1 DEF Cmds
  <2> QED BY <2>1, <2>2 DEF ConfInv, Owned, NoCall
<1>2. IInv /\ Linked /\ Untorn /\ ConfInv /\ [Next]_vars => ConfInv'
  BY ConfStep
<1>3. ConfInv => ConfAgrees
  BY DEF ConfInv, Owned, ConfAgrees
<1> QED BY <1>1, <1>2, <1>3, ProtocolInvariance, PTL DEF Spec
=============================================================================
