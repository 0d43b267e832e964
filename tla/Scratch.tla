------------------------------ MODULE Scratch -------------------------------
(***************************************************************************)
(* The scratch temporaries of utils/arna/arna.odin: two arenas shared by   *)
(* every procedure of the compiler.  A procedure opens a scratch scope on  *)
(* entry and the scope restores the arena's pos when it returns.           *)
(*                                                                         *)
(*   scrath(temps)           takes temps[0];                               *)
(*   scrath(temps, clobber)  takes the temporary `clobber' is not, so the  *)
(*                           procedure can build its result in `clobber'   *)
(*                           and its garbage in the other one.             *)
(*                                                                         *)
(* A call frame is [own, mark, out, home]: the temporary it took, the pos  *)
(* it restores, the temporary its result goes to (NoOut when the result    *)
(* does not live in a temporary) and the frame that scope belongs to.      *)
(* `home' is bookkeeping: it says until when the result is needed.         *)
(***************************************************************************)
EXTENDS Arna, Sequences, FiniteSets

CONSTANTS Reserved,  \* size of each temporary (init_scratch)
          MaxFrames, \* bound: call depth
          MaxBlocks  \* bound: blocks in use at a time

ASSUME ScratchAssumption ==
    Reserved \in Nat /\ MaxFrames \in Nat /\ MaxBlocks \in Nat

VARIABLES temps,  \* arna.Temps
          frames, \* the call stack, innermost last
          blocks  \* the blocks in use: [temp, base, size, align, owner]

vars == <<temps, frames, blocks>>

TempIds == {0, 1}

NoOut == 2

Frame == [own : TempIds, mark : Nat, out : TempIds \cup {NoOut}, home : Nat]

Block == [temp : TempIds, base : Nat, size : Nat, align : Nat, owner : Nat]

(* The types of the temporaries, the call stack and the blocks in use: no   *)
(* Free or scrath_end takes a pos below zero.                               *)
TypeOK ==
    /\ temps \in [TempIds -> Arena]
    /\ frames \in Seq(Frame)
    /\ blocks \subseteq Block

Init ==
    /\ temps = [t \in TempIds |-> InitVirtual(Reserved)]
    /\ frames = <<>>
    /\ blocks = {}

Depth == Len(frames)

Top == frames[Depth]

(* scrath_temps_no_clobber; the result, if any, is not in a temporary.      *)
CallNoClobber ==
    /\ Depth < MaxFrames
    /\ frames' = Append(frames, [own |-> 0, mark |-> temps[0].pos,
                                 out |-> NoOut, home |-> 0])
    /\ UNCHANGED <<temps, blocks>>

(* Variant: the clobbered temporary is not avoided. *)
TempForAny(clobber) == 0

TempFor(clobber) == IF clobber = 0 THEN 1 ELSE 0

(* scrath_temps_with_clobber: the caller passes on its own scratch          *)
(* allocator, or the one it was itself given for its result.                *)
CallWithClobber(clobber, home) ==
    /\ Depth < MaxFrames
    /\ LET t == TempFor(clobber)
       IN  frames' = Append(frames, [own |-> t, mark |-> temps[t].pos,
                                     out |-> clobber, home |-> home])
    /\ UNCHANGED <<temps, blocks>>

CallStep ==
    /\ Depth > 0
    /\ \/ CallWithClobber(Top.own, Depth)
       \/ Top.out # NoOut /\ CallWithClobber(Top.out, Top.home)

(* Where the running procedure may allocate, and who needs it. *)
Targets ==
    {[temp |-> Top.own, owner |-> Depth]} \cup
    (IF Top.out = NoOut THEN {} ELSE {[temp |-> Top.out, owner |-> Top.home]})

(* alloc succeeds: it neither runs out of memory nor trips an assertion.    *)
Succeeds(t, size, al) ==
    /\ ~ OutOfMemory(temps[t], size, al)
    /\ CommitFits(temps[t], size, al)
    /\ CommitCovers(temps[t], size, al)

NewBlock(target, size, al) ==
    [temp |-> target.temp, base |-> AllocBase(temps[target.temp], al),
     size |-> size, align |-> al, owner |-> target.owner]

Alloc(target, size, al) ==
    /\ Succeeds(target.temp, size, al)
    /\ temps' = [temps EXCEPT ![target.temp] = AfterAlloc(@, size, al)]
    /\ blocks' = blocks \cup {NewBlock(target, size, al)}
    /\ UNCHANGED frames

Mine(b) == [temp |-> b.temp, owner |-> b.owner] \in Targets

Free(b) ==
    /\ Mine(b)
    /\ temps' = [temps EXCEPT ![b.temp] = AfterFree(@, b)]
    /\ blocks' = blocks \ {b}
    /\ UNCHANGED frames

(* A growing dynamic array: in place when it is the last block of its       *)
(* arena, moved otherwise.                                                  *)
Grow(b, size) ==
    /\ Mine(b)
    /\ size > b.size
    /\ IF IsLast(temps[b.temp], b)
       THEN /\ Succeeds(b.temp, size - b.size, 1)
            /\ temps' = [temps EXCEPT ![b.temp] = AfterAlloc(@, size - b.size, 1)]
            /\ blocks' = (blocks \ {b}) \cup {[b EXCEPT !.size = size]}
       ELSE /\ Succeeds(b.temp, size, b.align)
            /\ temps' = [temps EXCEPT ![b.temp] = AfterAlloc(@, size, b.align)]
            /\ blocks' = (blocks \ {b}) \cup
                         {NewBlock([temp |-> b.temp, owner |-> b.owner], size, b.align)}
    /\ UNCHANGED frames

(* scrath_end: the procedure returns and what it owns is gone.              *)
Return ==
    /\ Depth > 0
    /\ temps' = [temps EXCEPT ![Top.own] = AfterScope(@, Top.mark)]
    /\ blocks' = {b \in blocks : b.owner # Depth}
    /\ frames' = SubSeq(frames, 1, Depth - 1)

AllocStep ==
    /\ Depth > 0
    /\ Cardinality(blocks) < MaxBlocks
    /\ \E target \in Targets, size \in Sizes, al \in Aligns : Alloc(target, size, al)

FreeStep == Depth > 0 /\ \E b \in blocks : Free(b)

GrowStep == Depth > 0 /\ \E b \in blocks, size \in Sizes : Grow(b, size)

Next ==
    \/ CallNoClobber
    \/ CallStep
    \/ AllocStep
    \/ FreeStep
    \/ GrowStep
    \/ Return

Spec == Init /\ [][Next]_vars

-----------------------------------------------------------------------------

(* No procedure clobbers memory another one still uses: the blocks of every *)
(* frame of the call stack, results built in a caller's scratch included,   *)
(* are disjoint and below the bump pointer of their temporary, through any  *)
(* nesting of scrath scopes with and without clobber.                       *)
NoClobber ==
    /\ \A b \in blocks : b.size > 0 => InUse(temps[b.temp], b)
    /\ \A b, c \in blocks :
          b # c /\ b.temp = c.temp /\ b.size > 0 /\ c.size > 0 => Disjoint(b, c)

(* Returning from any of the procedures on the stack keeps what its callers *)
(* need: their blocks in its temporary end below the pos scrath_end puts    *)
(* back, including results the procedure grew on their behalf.              *)
ReturnsKeepCallers ==
    \A k \in DOMAIN frames, b \in blocks :
        b.temp = frames[k].own /\ b.owner < k /\ b.size > 0
            => BlockEnd(b) =< frames[k].mark

=============================================================================
