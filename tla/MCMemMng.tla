------------------------------ MODULE MCMemMng ------------------------------
EXTENDS MemMng

Sizes(s, a) == [size: s, align: a]

\* One client never releases and asks for any size and alignment; the other one
\* also releases, and asks for multiples of the greatest alignment of the lists
\* (4), with alignments below, at and above it.
KeepOrWhole ==
  {[requests |-> Sizes({1, 3, 4}, {1, 2, 4, 8}), puts |-> FALSE],
   [requests |-> {[size |-> 4, align |-> 1], [size |-> 8, align |-> 4], [size |-> 4, align |-> 8]},
    puts |-> TRUE]}

\* Each block is as long as its alignment: natural alignment.
Natural ==
  {[requests |-> {[size |-> 2, align |-> 2], [size |-> 4, align |-> 4]}, puts |-> TRUE]}
=============================================================================
