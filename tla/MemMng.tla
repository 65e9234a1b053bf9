------------------------------- MODULE MemMng -------------------------------
(***************************************************************************)
(* The memory manager of the DMA memory (lib/mem_mng.c).  One list of free *)
(* blocks is kept per alignment, the powers of 2 up to Greatest, each a    *)
(* view of the same free memory: every allocation is cut out of, and every *)
(* release added to, all of them.  Each call is under the manager's lock.  *)
(***************************************************************************)
EXTENDS Integers, Sequences, FiniteSets, SequencesExt

CONSTANTS
  Base,      \* the memory: its base and its end
  Top,
  Greatest,  \* 2 ^ MEM_MNG_MAX_ALIGNMENT, the greatest alignment that has a list
  Clients,   \* who uses it: the calls of mem_mng_get [size, align] it makes, and
             \* whether it ever calls mem_mng_put
  Drift      \* bound of the model on how far free_mem_size is off

Aligns == {a \in 1 .. Greatest : Greatest % a = 0}  \* the powers of 2 up to Greatest
Blk == [base: Base .. Top, end: Base .. Top]
MakeAligned(addr, a) == ((addr + a - 1) \div a) * a

ASSUME MemAssumption ==
  /\ {Base, Top, Drift} \subseteq Nat /\ Greatest \in Nat \ {0}
  /\ \E i \in 0 .. Greatest : Greatest = 2 ^ i
  /\ MakeAligned(Base, Greatest) < Top
  /\ \A c \in Clients :
       /\ c.requests \subseteq [size: Nat \ {0}, align: Nat \ {0}]
       /\ \A r \in c.requests : r.align \in Aligns \/ r.align % Greatest = 0
       /\ c.puts \in BOOLEAN

VARIABLES
  client,
  free,  \* free_blks: of each alignment, the free blocks in order
  busy,  \* busy_blks
  avail  \* free_mem_size

vars == <<client, free, busy, avail>>

Init ==
  /\ client \in Clients
  /\ free = [a \in Aligns |-> <<[base |-> MakeAligned(Base, a), end |-> Top]>>]
  /\ busy = <<>>
  /\ avail = Top - Base

-----------------------------------------------------------------------------
Disjoint(b, c) == b.end <= c.base \/ c.end <= b.base

\* What is left of a block when [base, end) is taken from it: the part before
\* and the aligned part after, each if it is at least as long as the alignment.
Before(b, base, a) ==
  IF base - b.base >= a THEN <<[base |-> b.base, end |-> base]>> ELSE <<>>
After(b, end, a) ==
  LET up == MakeAligned(end, a)
  IN IF b.end - up >= a THEN <<[base |-> up, end |-> b.end]>> ELSE <<>>

Cut_Head(list, a, base, end) ==  \* (mutant)
  LET k == SelectInSeq(list, LAMBDA b : b.base < end /\ end <= b.end)
  IN IF k = 0 THEN list
     ELSE SubSeq(list, 1, k - 1) \o Before(list[k], base, a) \o SubSeq(list, k + 1, Len(list))
\* cut_free_blk on one list: the first block that holds the end of [base, end).
Cut(list, a, base, end) ==
  LET k == SelectInSeq(list, LAMBDA b : b.base < end /\ end <= b.end)
  IN IF k = 0 THEN list
     ELSE SubSeq(list, 1, k - 1) \o Before(list[k], base, a)
            \o After(list[k], end, a) \o SubSeq(list, k + 1, Len(list))

Merge_One(list, k, base, end) ==  \* (mutant)
  [list EXCEPT ![k] = [base |-> IF base < @.base THEN base ELSE @.base, end |-> end]]
\* [base, end) joins the block at k, and with it the blocks it reaches.
Merge(list, k, base, end) ==
  LET tail == SelectInSubSeq(list, k + 1, Len(list), LAMBDA b : end <= b.end)
      next == IF tail = 0 THEN Len(list) + 1 ELSE tail
      joins == tail # 0 /\ list[tail].base <= end
      blk == [base |-> IF base < list[k].base THEN base ELSE list[k].base,
              end |-> IF joins THEN list[tail].end ELSE end]
  IN SubSeq(list, 1, k - 1) \o <<blk>>
       \o SubSeq(list, IF joins THEN next + 1 ELSE next, Len(list))

\* The end of add_free_blk's turn when no block was found to be updated, or the
\* one found was deleted: a block as long as the released one, from its aligned
\* base on, becomes the last of the list.
AddLast(before, rest, a, base, end) ==
  LET up == MakeAligned(base, a)
  IN IF (end - base) % a = 0
     THEN Append(before, [base |-> up, end |-> up + (end - base)])
     ELSE before \o rest

\* add_free_blk on one list
AddTo(list, a, base, end) ==
  LET up == MakeAligned(base, a)
      k == SelectInSeq(list, LAMBDA b : up <= b.end)
      blk == list[k]
      before == SubSeq(list, 1, k - 1)
      rest == SubSeq(list, k + 1, Len(list))
      grown == [base |-> IF up < blk.base /\ end >= blk.base THEN up ELSE blk.base,
                end |-> blk.end]
  IN IF up >= end THEN list
     ELSE IF k = 0 THEN AddLast(list, <<>>, a, base, end)
     ELSE IF end > blk.end THEN Merge(list, k, up, end)
     ELSE IF end < blk.base /\ end - up >= a
          THEN InsertAt(list, k, [base |-> up, end |-> end])
     ELSE IF grown.end - grown.base < a THEN AddLast(before, rest, a, base, end)
     ELSE before \o <<grown>> \o rest

\* Having joined its neighbours in the first list, the block is released to the
\* other lists as the whole free block it is now part of.
Widened(base, end) ==
  LET list == AddTo(free[1], 1, base, end)
      k == SelectInSeq(list, LAMBDA b : b.base <= base /\ end <= b.end)
  IN list[k]

-----------------------------------------------------------------------------
Find_NoAlign(r) ==  \* (mutant)
  LET list == free[Greatest]
      k == SelectInSeq(list, LAMBDA b : r.size <= b.end - b.base)
  IN IF k = 0 THEN -1 ELSE MakeAligned(list[k].base, r.align)
\* The address mem_mng_get finds, in the list of the alignment or, for a greater
\* alignment (get_greater_align), in the last list; -1 if there is none.
Find(r) ==
  IF r.align \in Aligns
  THEN LET k == SelectInSeq(free[r.align], LAMBDA b : b.end - b.base >= r.size)
       IN IF k = 0 THEN -1 ELSE free[r.align][k].base
  ELSE LET list == free[Greatest]
           k == SelectInSeq(list, LAMBDA b :
                  LET up == MakeAligned(b.base, r.align)
                  IN up < b.end /\ r.size <= b.end - up)
       IN IF k = 0 THEN -1 ELSE MakeAligned(list[k].base, r.align)

\* add_busy_blk keeps the list in order.
AddBusy(b) ==
  LET k == SelectInSeq(busy, LAMBDA c : c.base >= b.base)
  IN IF k = 0 THEN Append(busy, b) ELSE InsertAt(busy, k, b)

Held == FoldSeq(LAMBDA b, n : n + b.end - b.base, 0, busy)

\* mem_mng_get; get_greater_align leaves free_mem_size alone.
Get(r) ==
  LET base == Find(r)
      end == base + r.size
  IN /\ base # -1
     /\ free' = [a \in Aligns |-> Cut(free[a], a, base, end)]
     /\ busy' = AddBusy([base |-> base, end |-> end])
     /\ IF r.align \in Aligns THEN avail' = avail - r.size
        ELSE /\ avail + Held + r.size <= Top - Base + Drift
             /\ UNCHANGED avail

\* mem_mng_put; a base that is not busy changes nothing.
Put(base) ==
  LET k == SelectInSeq(busy, LAMBDA b : b.base = base)
      whole == Widened(busy[k].base, busy[k].end)
  IN /\ k # 0
     /\ free' = [a \in Aligns |-> IF a = 1 THEN AddTo(free[1], 1, base, busy[k].end)
                                  ELSE AddTo(free[a], a, whole.base, whole.end)]
     /\ busy' = RemoveAt(busy, k)
     /\ avail' = avail + (busy[k].end - base)

Next ==
  /\ \/ \E r \in client.requests : Get(r)
     \/ client.puts /\ \E base \in Base .. Top : Put(base)
  /\ UNCHANGED client

Spec == Init /\ [][Next]_vars

-----------------------------------------------------------------------------
\* No memory is handed out twice (mem_mng.h:155-156, the cut keeps "a just
\* allocated block" out of every list), and none outside of the memory.
BusyDisjoint ==
  /\ \A i \in DOMAIN busy : busy[i].base >= Base /\ busy[i].end <= Top
  /\ \A i, j \in DOMAIN busy : i # j => Disjoint(busy[i], busy[j])

\* Nothing is lost either: each list is made of the gaps between the busy blocks,
\* from their aligned base on and as long as at least the alignment is left,
\* each gap as one block whatever the order of the calls was.
Gap(b) ==
  /\ b.base < b.end
  /\ b.base = Base \/ \E i \in DOMAIN busy : busy[i].end = b.base
  /\ b.end = Top \/ \E i \in DOMAIN busy : busy[i].base = b.end
  /\ \A i \in DOMAIN busy : Disjoint(b, busy[i])
GapsAreFree ==
  LET gaps == {b \in Blk : Gap(b)}
  IN \A a \in Aligns :
       LET aligned == {[b EXCEPT !.base = MakeAligned(@, a)] : b \in gaps}
       IN /\ ToSet(free[a]) = {b \in aligned : b.end - b.base >= a}
          /\ \A i \in 1 .. Len(free[a]) - 1 : free[a][i].end <= free[a][i + 1].base

\* A request fails only when no aligned stretch of free memory is long enough.
GrantsWhatFits ==
  \A r \in client.requests :
    Find(r) = -1 =>
      \A base \in Base .. Top - r.size :
        base % r.align = 0 =>
          \E i \in DOMAIN busy : ~Disjoint(busy[i], [base |-> base, end |-> base + r.size])

\* mem_mng.h:201, "Returns the size (in bytes) of free memory".
AvailIsFree ==
  avail + Held = Top - Base
=============================================================================
