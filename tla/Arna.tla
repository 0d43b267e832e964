-------------------------------- MODULE Arna --------------------------------
(***************************************************************************)
(* The bump allocator of utils/arna/arna.odin.  An arena is the record     *)
(* [pos, commited, reserved] of the struct Allocator (`ptr' is the origin  *)
(* all offsets are relative to, so it does not appear).  Addresses are     *)
(* counted in units, PAGE_SIZE and the 1 MB commit step are parameters.    *)
(*                                                                         *)
(* A block is what alloc hands out: [base, size, align].  The operators    *)
(* are shared by ArnaHeap (one arena) and Scratch (the two temporaries).   *)
(***************************************************************************)
EXTENDS Integers

CONSTANTS PageSize,    \* mem.PAGE_SIZE
          CommitChunk, \* the 1024 * 1024 of alloc
          Sizes,       \* block sizes requested by the callers
          Aligns       \* alignments requested by the callers

(* alloc asserts that an alignment is a power of two of at most a page; a   *)
(* divisor of the page size is all that is needed of it.                    *)
ASSUME ArnaAssumption ==
    /\ PageSize \in Nat \ {0}
    /\ CommitChunk \in Nat \ {0}
    /\ Sizes \subseteq Nat
    /\ Aligns \subseteq Nat \ {0}
    /\ \A al \in Aligns : PageSize % al = 0

Arena == [pos : Nat, commited : Nat, reserved : Nat]

Larger(x, y) == IF x >= y THEN x ELSE y

Smaller(x, y) == IF x =< y THEN x ELSE y

(* mem.align_forward_uint *)
AlignForward(x, al) == x + ((al - (x % al)) % al)

(* init: a fresh reservation, nothing of it committed.                      *)
InitVirtual(size) == [pos |-> 0, commited |-> 0, reserved |-> size]

(* init_from_buffer: all of the borrowed memory is usable, which the code   *)
(* marks by commited > reserved.                                            *)
InitFromBuffer(len) == [pos |-> 0, commited |-> len + 1, reserved |-> len]

Borrowed(a) == a.commited > a.reserved

(* Variant: the alignment is ignored. *)
AllocBaseUnaligned(a, al) == a.pos

AllocBase(a, al) == AlignForward(a.pos, al)

AllocEnd(a, size, al) == AllocBase(a, al) + size

OutOfMemory(a, size, al) == AllocEnd(a, size, al) > a.reserved

(* Variant: the size of the block is forgotten. *)
CommitChunkOnly(a, size) == AlignForward(Smaller(CommitChunk, a.reserved - a.commited), PageSize)

(* How much alloc commits when the block ends beyond the committed part.    *)
CommitSize(a, size) ==
    AlignForward(Larger(Smaller(CommitChunk, a.reserved - a.commited), size),
                 PageSize)

CommitedAfter(a, size, al) ==
    IF AllocEnd(a, size, al) > a.commited
    THEN a.commited + CommitSize(a, size)
    ELSE a.commited

(* The two assertions after the commit: the committed part stays inside the *)
(* reservation, and it covers the new block.                                *)
CommitFits(a, size, al) ==
    AllocEnd(a, size, al) > a.commited =>
        CommitedAfter(a, size, al) =< a.reserved

CommitCovers(a, size, al) ==
    AllocEnd(a, size, al) =< CommitedAfter(a, size, al)

AfterAlloc(a, size, al) ==
    [pos |-> AllocEnd(a, size, al), commited |-> CommitedAfter(a, size, al),
     reserved |-> a.reserved]

(* allocator_proc: Free and Resize act in place only on the last block.     *)
IsLast(a, b) == b.base = a.pos - b.size

(* Variants: the size is subtracted from the base; any block is taken for   *)
(* the last one.                                                            *)
AfterFreeFromBase(a, b) ==
    IF IsLast(a, b) THEN [a EXCEPT !.pos = b.base - b.size] ELSE a

AfterFreeAny(a, b) == [a EXCEPT !.pos = a.pos - b.size]

AfterFree(a, b) ==
    IF IsLast(a, b) THEN [a EXCEPT !.pos = a.pos - b.size] ELSE a

AfterShrink(a, b, size) == [a EXCEPT !.pos = a.pos - (b.size - size)]

AfterReset(a, decommit) ==
    [pos |-> 0,
     commited |-> IF a.commited =< a.reserved /\ decommit THEN 0 ELSE a.commited,
     reserved |-> a.reserved]

(* scrath_end and scrath_existing_end. *)
AfterScope(a, mark) == [a EXCEPT !.pos = mark]

-----------------------------------------------------------------------------

BlockEnd(b) == b.base + b.size

Disjoint(b, c) == BlockEnd(b) =< c.base \/ BlockEnd(c) =< b.base

(* The bytes of b are usable memory below the bump pointer. *)
InUse(a, b) == BlockEnd(b) =< a.pos /\ a.pos =< a.reserved /\ a.pos =< a.commited
=============================================================================
