--------------------------- MODULE BlockAllocator ---------------------------
(***************************************************************************)
(* What an arena promises its users, with nothing of how it keeps it: a    *)
(* set of blocks that share no byte, each owned by the scope it was taken  *)
(* in.  A block is taken, given back, or exchanged for one of another size *)
(* with the same alignment in the same scope; the end of a scope gives     *)
(* back what was taken in it and nothing else.                             *)
(***************************************************************************)
EXTENDS Naturals

VARIABLES blocks,  \* records with base, size, align and depth
          depth    \* scopes open

Overlap(b, c) ==
    /\ b.size > 0 /\ c.size > 0
    /\ b.base < c.base + c.size
    /\ c.base < b.base + b.size

Free(b, held) == \A c \in held : c # b => ~ Overlap(b, c)

Init == blocks = {} /\ depth = 0

Take ==
    \E b \in blocks' :
        /\ b.depth = depth
        /\ Free(b, blocks)
        /\ blocks' = blocks \cup {b}
        /\ UNCHANGED depth

Give == \E b \in blocks : blocks' = blocks \ {b} /\ UNCHANGED depth

Exchange ==
    \E b \in blocks, c \in blocks' :
        /\ c.align = b.align /\ c.depth = b.depth
        /\ Free(c, blocks \ {b})
        /\ blocks' = (blocks \ {b}) \cup {c}
        /\ UNCHANGED depth

Open == depth' = depth + 1 /\ UNCHANGED blocks

Close ==
    /\ depth > 0
    /\ depth' = depth - 1
    /\ blocks' = {b \in blocks : b.depth < depth}

GiveAll == depth = 0 /\ blocks' = {} /\ UNCHANGED depth

Next == Take \/ Give \/ Exchange \/ Open \/ Close \/ GiveAll

Spec == Init /\ [][Next]_<<blocks, depth>>
=============================================================================
