------------------------------ MODULE ArnaHeap ------------------------------
(***************************************************************************)
(* One arena and its users: blocks are allocated, freed and resized        *)
(* through allocator_proc, scrath_existing scopes nest on it, and it is    *)
(* reset between uses.  `blocks' are the blocks some caller still uses;    *)
(* a block's depth is the number of scopes open when it was allocated.     *)
(*                                                                         *)
(* Callers keep two rules.  A block is not resized inside a scope opened   *)
(* after it was allocated, and the arena is reset only with no scope open  *)
(* (odinc/typecheck/typecheck.odin:1411, odinc/mini/wasm.odin:60).         *)
(*                                                                         *)
(* A failed allocation (out of memory, or the operating system refusing    *)
(* the commit) returns an error and changes nothing: it is a stutter.      *)
(***************************************************************************)
EXTENDS Arna, Sequences, FiniteSets

CONSTANTS Reservations, \* sizes the arena may be created with
          MaxBlocks,    \* bound: blocks in use at a time
          MaxScopes     \* bound: scopes nested

ASSUME ArnaHeapAssumption ==
    Reservations \subseteq Nat /\ MaxBlocks \in Nat /\ MaxScopes \in Nat

VARIABLES arena,   \* the Allocator
          blocks,  \* the blocks in use
          marks,   \* arena.pos saved by each open scope, innermost last
          failed   \* the assertion that stopped the program, or "none"

vars == <<arena, blocks, marks, failed>>

Block == [base : Nat, size : Nat, align : Nat, depth : Nat]

Failures == {"none", "commited <= reserved", "end <= commited"}

(* The types of the arena, the blocks in use and the saved positions: no    *)
(* Free, shrink or end of a scope takes pos below zero.                     *)
TypeOK ==
    /\ arena \in Arena
    /\ blocks \subseteq Block
    /\ marks \in Seq(Nat)
    /\ failed \in Failures

Init ==
    /\ \E n \in Reservations : arena = InitVirtual(n) \/ arena = InitFromBuffer(n)
    /\ blocks = {}
    /\ marks = <<>>
    /\ failed = "none"

Depth == Len(marks)

AllocFailure(size, al) ==
    CASE ~ CommitFits(arena, size, al) -> "commited <= reserved"
      [] CommitFits(arena, size, al) /\ ~ CommitCovers(arena, size, al) -> "end <= commited"
      [] OTHER -> "none"

(* alloc: an assertion stops the program, or the arena advances and the     *)
(* callers hold `newBlocks'.                                                *)
Bump(size, al, newBlocks) ==
    /\ failed = "none"
    /\ ~ OutOfMemory(arena, size, al)
    /\ failed' = AllocFailure(size, al)
    /\ IF failed' = "none"
       THEN arena' = AfterAlloc(arena, size, al) /\ blocks' = newBlocks
       ELSE UNCHANGED <<arena, blocks>>
    /\ UNCHANGED marks

NewBlock(size, al) ==
    [base |-> AllocBase(arena, al), size |-> size, align |-> al, depth |-> Depth]

Alloc(size, al) == Bump(size, al, blocks \cup {NewBlock(size, al)})

Free(b) ==
    /\ failed = "none"
    /\ arena' = AfterFree(arena, b)
    /\ blocks' = blocks \ {b}
    /\ UNCHANGED <<marks, failed>>

(* Variant: the moved block is asked for without its alignment. *)
ResizeMovesUnaligned(b, size) ==
    /\ ~ IsLast(arena, b)
    /\ Bump(size, 1, (blocks \ {b}) \cup {NewBlock(size, 1)})

ResizeMoves(b, size) ==
    /\ ~ IsLast(arena, b)
    /\ Bump(size, b.align, (blocks \ {b}) \cup {NewBlock(size, b.align)})

ResizeShrinks(b, size) ==
    /\ failed = "none"
    /\ IsLast(arena, b)
    /\ size < b.size
    /\ arena' = AfterShrink(arena, b, size)
    /\ blocks' = (blocks \ {b}) \cup {[b EXCEPT !.size = size]}
    /\ UNCHANGED <<marks, failed>>

ResizeGrows(b, size) ==
    /\ IsLast(arena, b)
    /\ size >= b.size
    /\ Bump(size - b.size, 1, (blocks \ {b}) \cup {[b EXCEPT !.size = size]})

Resize(b, size) ==
    /\ b.depth = Depth
    /\ \/ ResizeMoves(b, size)
       \/ ResizeShrinks(b, size)
       \/ ResizeGrows(b, size)

Reset(decommit) ==
    /\ failed = "none"
    /\ marks = <<>>
    /\ arena' = AfterReset(arena, decommit)
    /\ blocks' = {}
    /\ UNCHANGED <<marks, failed>>

(* Variant: the scope does not save where it began. *)
ScopeBeginUnmarked ==
    /\ failed = "none"
    /\ Depth < MaxScopes
    /\ marks' = Append(marks, 0)
    /\ UNCHANGED <<arena, blocks, failed>>

ScopeBegin ==
    /\ failed = "none"
    /\ Depth < MaxScopes
    /\ marks' = Append(marks, arena.pos)
    /\ UNCHANGED <<arena, blocks, failed>>

ScopeEnd ==
    /\ failed = "none"
    /\ marks # <<>>
    /\ arena' = AfterScope(arena, marks[Depth])
    /\ marks' = SubSeq(marks, 1, Depth - 1)
    /\ blocks' = {b \in blocks : b.depth < Depth}
    /\ UNCHANGED failed

AllocStep ==
    \E size \in Sizes, al \in Aligns : Cardinality(blocks) < MaxBlocks /\ Alloc(size, al)

FreeStep == \E b \in blocks : Free(b)

ResizeStep == \E b \in blocks, size \in Sizes : Resize(b, size)

ResetStep == \E decommit \in BOOLEAN : Reset(decommit)

Next == AllocStep \/ FreeStep \/ ResizeStep \/ ResetStep \/ ScopeBegin \/ ScopeEnd

Spec == Init /\ [][Next]_vars

-----------------------------------------------------------------------------

(* Blocks in use never overlap and stay inside the usable part of the arena *)
(* below the bump pointer, whatever is freed, resized, scoped or reset in   *)
(* between: a later alloc cannot hand out their bytes (alloc, Free and      *)
(* Resize of allocator_proc, scrath_existing_end).                          *)
BlocksSafe ==
    /\ \A b \in blocks : b.size > 0 => InUse(arena, b)
    /\ \A b, c \in blocks :
          b # c /\ b.size > 0 /\ c.size > 0 => Disjoint(b, c)

(* Every block keeps the alignment it was requested with, through every     *)
(* in-place Resize, which itself allocates with alignment 1.                *)
BlocksAligned == \A b \in blocks : b.base % b.align = 0

(* When the scopes now open end, every block that outlives them is still    *)
(* below the bump pointer they restore (scrath_existing_end).               *)
ScopesKeepOuterBlocks ==
    \A b \in blocks, d \in DOMAIN marks :
        b.depth < d /\ b.size > 0 => BlockEnd(b) =< marks[d]

(* The assertion that the committed part covers the block never fires: the  *)
(* chunk alloc commits is large enough for any alignment up to a page.      *)
CommitAlwaysCovers == failed # "end <= commited"

(* What the assertion `arena.commited <= arena.reserved' of alloc says: no  *)
(* chunk is committed past the end of the reservation.                      *)
CommitStaysReserved == failed # "commited <= reserved"

Users == INSTANCE BlockAllocator WITH depth <- Depth

(* To its users the arena is an allocator of disjoint blocks: every alloc,  *)
(* Free, Resize, reset and scope of the bump pointer is one step of         *)
(* BlockAllocator or none, whatever was committed and where pos went.       *)
IsBlockAllocator == Users!Spec

=============================================================================
