--------------------------- MODULE ArnaHeapProofs ---------------------------
(***************************************************************************)
(* An arena never hands out memory that is in use, for any reservation,    *)
(* page size, commit step and nesting of scopes.  The invariant adds to    *)
(* BlocksSafe that the scopes' marks lie below everything they outlive and *)
(* inside the committed reservation, for scrath_existing_end makes a mark  *)
(* the bump pointer.  From the same invariant every step is a step of      *)
(* BlockAllocator.                                                         *)
(***************************************************************************)
EXTENDS ArnaHeap, SequenceTheorems, TLAPS

-----------------------------------------------------------------------------
(* The operators of Arna. *)

(* align_forward never moves backwards. *)
LEMMA AlignForwardUp ==
    ASSUME NEW x \in Nat, NEW al \in Nat \ {0}
    PROVE  AlignForward(x, al) \in Nat /\ AlignForward(x, al) >= x
<1>1. x % al \in 0 .. (al - 1)
  OBVIOUS
<1>2. (al - (x % al)) % al \in 0 .. (al - 1)
  BY <1>1
<1> QED
  BY <1>1, <1>2 DEF AlignForward

(* What an alloc that trips neither assertion does to the arena: the new    *)
(* block starts at or above the old pos and ends at the new one, which is   *)
(* inside the reservation and committed.                                    *)
LEMMA AllocFacts ==
    ASSUME ArnaAssumption,
           NEW a \in Arena, NEW size \in Nat, NEW al \in Nat \ {0},
           ~ OutOfMemory(a, size, al), CommitCovers(a, size, al)
    PROVE  /\ AllocBase(a, al) \in Nat
           /\ AllocBase(a, al) >= a.pos
           /\ AfterAlloc(a, size, al) \in Arena
           /\ AfterAlloc(a, size, al).pos = AllocBase(a, al) + size
           /\ AfterAlloc(a, size, al).pos =< a.reserved
           /\ AfterAlloc(a, size, al).pos =< AfterAlloc(a, size, al).commited
           /\ AfterAlloc(a, size, al).reserved = a.reserved
           /\ AfterAlloc(a, size, al).commited >= a.commited
<1>1. AllocBase(a, al) \in Nat /\ AllocBase(a, al) >= a.pos
  BY AlignForwardUp DEF AllocBase, Arena
<1> DEFINE wanted == Larger(Smaller(CommitChunk, a.reserved - a.commited), size)
<1>2. wanted \in Nat
  BY DEF Larger, Smaller, Arena, ArnaAssumption
<1>3. CommitSize(a, size) \in Nat
  BY <1>2, AlignForwardUp DEF CommitSize, ArnaAssumption
<1>4. /\ CommitedAfter(a, size, al) \in Nat
      /\ CommitedAfter(a, size, al) >= a.commited
  BY <1>1, <1>3 DEF CommitedAfter, Arena
<1>5. AllocEnd(a, size, al) = AllocBase(a, al) + size
  BY DEF AllocEnd
<1>6. a.reserved \in Nat /\ AllocEnd(a, size, al) \in Nat
  BY <1>1, <1>5 DEF Arena
<1>7. AllocEnd(a, size, al) =< a.reserved
  BY <1>6 DEF OutOfMemory
<1>8. AfterAlloc(a, size, al) \in Arena
  BY <1>4, <1>6 DEF AfterAlloc, Arena
<1> QED
  BY <1>1, <1>4, <1>5, <1>7, <1>8 DEF AfterAlloc, CommitCovers

-----------------------------------------------------------------------------

PosSound(p) == p =< arena.reserved /\ p =< arena.commited

MarksSound == \A d \in 1 .. Len(marks) : PosSound(marks[d])

MarksKeep ==
    \A b \in blocks, d \in 1 .. Len(marks) :
        b.depth < d /\ b.size > 0 => BlockEnd(b) =< marks[d]

Below == \A b \in blocks : b.size > 0 => BlockEnd(b) =< arena.pos

Apart ==
    \A b, c \in blocks : b # c /\ b.size > 0 /\ c.size > 0 => Disjoint(b, c)

AlignsPositive == \A b \in blocks : b.align # 0

IInv ==
    /\ TypeOK /\ PosSound(arena.pos) /\ MarksSound
    /\ MarksKeep /\ Below /\ Apart /\ AlignsPositive

-----------------------------------------------------------------------------

(* Handing out a block `nb' of the innermost scope that ends at the new pos *)
(* and touches none of the blocks kept preserves the invariant.             *)
LEMMA HandOutKeeps ==
    ASSUME IInv, NEW nb \in Block, NEW a \in Arena,
           nb.depth = Len(marks), nb.align # 0,
           BlockEnd(nb) = a.pos, a.pos >= arena.pos,
           a.pos =< a.reserved, a.pos =< a.commited,
           a.reserved = arena.reserved, a.commited >= arena.commited,
           \A c \in blocks' :
               c # nb => /\ c \in blocks
                         /\ c.size > 0 => BlockEnd(c) =< nb.base,
           arena' = a, marks' = marks, failed' \in Failures
    PROVE  IInv'
<1>1. arena \in Arena /\ Len(marks) \in Nat /\ \A d \in 1 .. Len(marks) : marks[d] \in Nat
  BY DEF IInv, TypeOK
<1>2. TypeOK'
  BY DEF IInv, TypeOK
<1>3. PosSound(arena.pos)' /\ MarksSound'
  BY <1>1 DEF IInv, PosSound, MarksSound, Arena
<1>4. MarksKeep'
  <2> SUFFICES ASSUME NEW b \in blocks', NEW d \in 1 .. Len(marks), b.depth < d, b.size > 0
               PROVE  BlockEnd(b) =< marks[d]
    BY DEF MarksKeep
  <2>1. CASE b \in blocks /\ b # nb
    BY <2>1 DEF IInv, MarksKeep
  <2>2. CASE b = nb
    BY <1>1, <2>2
  <2> QED
    BY <2>1, <2>2
<1>5. Below'
  <2> SUFFICES ASSUME NEW b \in blocks', b.size > 0
               PROVE  BlockEnd(b) =< a.pos
    BY DEF Below
  <2>1. CASE b \in blocks /\ b # nb
    <3>1. b \in Block /\ BlockEnd(b) =< arena.pos
      BY <2>1 DEF IInv, TypeOK, Below
    <3> QED
      BY <1>1, <3>1 DEF Block, Arena, BlockEnd
  <2>2. CASE b = nb
    BY <2>2 DEF Arena
  <2> QED
    BY <2>1, <2>2
<1>6. Apart'
  BY DEF IInv, Apart, Disjoint
<1>7. AlignsPositive'
  BY DEF IInv, AlignsPositive
<1> QED
  BY <1>2, <1>3, <1>4, <1>5, <1>6, <1>7 DEF IInv

(* A Bump that trips an assertion changes nothing but `failed'.             *)
LEMMA FailKeeps ==
    ASSUME IInv, arena' = arena, blocks' = blocks, marks' = marks, failed' \in Failures
    PROVE  IInv'
  BY DEF IInv, TypeOK, PosSound, MarksSound, MarksKeep, Below, Apart, AlignsPositive

(* One that does not passes both assertions. *)
LEMMA BumpCovers ==
    ASSUME NEW size, NEW al
    PROVE  /\ AllocFailure(size, al) \in Failures
           /\ AllocFailure(size, al) = "none" => CommitCovers(arena, size, al)
  BY DEF AllocFailure, Failures

(* Alloc, and the Resize that moves a block: `kept' are the other blocks.   *)
LEMMA AllocKeeps ==
    ASSUME ArnaAssumption, IInv, NEW size \in Nat, NEW al \in Nat \ {0},
           NEW kept \in SUBSET blocks,
           Bump(size, al, kept \cup {NewBlock(size, al)})
    PROVE  IInv'
<1> DEFINE nb == NewBlock(size, al)
           a  == AfterAlloc(arena, size, al)
<1>1. arena \in Arena /\ Len(marks) \in Nat
  BY DEF IInv, TypeOK
<1>2. failed' = AllocFailure(size, al) /\ marks' = marks /\ ~ OutOfMemory(arena, size, al)
  BY DEF Bump
<1>3. CASE failed' # "none"
  BY <1>2, <1>3, BumpCovers, FailKeeps DEF Bump
<1>4. CASE failed' = "none"
  <2>1. arena' = a /\ blocks' = kept \cup {nb}
    BY <1>4 DEF Bump
  <2>2. CommitCovers(arena, size, al)
    BY <1>2, <1>4, BumpCovers
  <2>3. /\ AllocBase(arena, al) \in Nat
        /\ AllocBase(arena, al) >= arena.pos
        /\ a \in Arena
        /\ a.pos = AllocBase(arena, al) + size
        /\ a.pos =< arena.reserved
        /\ a.pos =< a.commited
        /\ a.reserved = arena.reserved
        /\ a.commited >= arena.commited
    BY <1>1, <1>2, <2>2, AllocFacts
  <2>4. /\ nb \in Block /\ nb.depth = Len(marks) /\ nb.align # 0
        /\ nb.base = AllocBase(arena, al) /\ BlockEnd(nb) = a.pos
    BY <1>1, <2>3 DEF NewBlock, Block, BlockEnd, Depth
  <2>5. \A c \in blocks' :
            c # nb => c \in blocks /\ (c.size > 0 => BlockEnd(c) =< nb.base)
    <3> SUFFICES ASSUME NEW c \in blocks, c.size > 0
                 PROVE  BlockEnd(c) =< nb.base
      BY <2>1
    <3>1. c \in Block /\ BlockEnd(c) =< arena.pos
      BY DEF IInv, TypeOK, Below
    <3>2. BlockEnd(c) \in Nat /\ arena.pos \in Nat
      BY <1>1, <3>1 DEF Block, BlockEnd, Arena
    <3>3. nb.base \in Nat /\ nb.base >= arena.pos
      BY <2>3, <2>4
    <3> HIDE DEF nb, a
    <3> QED
      BY <3>1, <3>2, <3>3
  <2>6. a.pos >= arena.pos /\ a.pos =< a.reserved /\ failed' \in Failures
    BY <1>1, <1>4, <2>3 DEF Arena, Failures
  <2> HIDE DEF nb, a
  <2> QED
    BY <1>2, <2>1, <2>3, <2>4, <2>5, <2>6, HandOutKeeps
<1> QED
  BY <1>3, <1>4

(* Below the last block, every other one ends at or before its base.        *)
LEMMA LastIsAlone ==
    ASSUME IInv, NEW b \in blocks, IsLast(arena, b), NEW c \in blocks, c # b, c.size > 0
    PROVE  BlockEnd(c) =< b.base
<1>1. b \in Block /\ c \in Block /\ arena \in Arena /\ BlockEnd(c) =< arena.pos
  BY DEF IInv, TypeOK, Below
<1>2. CASE b.size = 0
  BY <1>1, <1>2 DEF IsLast, Arena, Block, BlockEnd
<1>3. CASE b.size > 0
  <2>1. Disjoint(c, b)
    BY <1>3 DEF IInv, Apart
  <2> QED
    BY <1>1, <1>3, <2>1 DEF IsLast, Arena, Block, BlockEnd, Disjoint
<1> QED
  BY <1>1, <1>2, <1>3 DEF Block

(* Growing the last block in place. *)
LEMMA GrowsKeeps ==
    ASSUME ArnaAssumption, IInv, NEW b \in blocks, NEW size \in Nat,
           b.depth = Len(marks), ResizeGrows(b, size)
    PROVE  IInv'
<1> DEFINE extra == size - b.size
           nb == [b EXCEPT !.size = size]
           a  == AfterAlloc(arena, extra, 1)
<1>1. arena \in Arena /\ b \in Block /\ b.align # 0
  BY DEF IInv, TypeOK, AlignsPositive
<1>2. extra \in Nat /\ IsLast(arena, b)
  BY <1>1 DEF ResizeGrows, Block
<1>3. /\ failed' = AllocFailure(extra, 1) /\ marks' = marks
      /\ ~ OutOfMemory(arena, extra, 1)
  BY DEF ResizeGrows, Bump
<1>4. CASE failed' # "none"
  <2>1. arena' = arena /\ blocks' = blocks
    BY <1>4 DEF ResizeGrows, Bump
  <2> QED
    BY <1>3, <2>1, BumpCovers, FailKeeps
<1>5. CASE failed' = "none"
  <2>1. arena' = a /\ blocks' = (blocks \ {b}) \cup {nb}
    BY <1>5 DEF ResizeGrows, Bump
  <2>2. CommitCovers(arena, extra, 1)
    BY <1>3, <1>5, BumpCovers
  <2>3. AllocBase(arena, 1) = arena.pos
    BY <1>1 DEF AllocBase, AlignForward, Arena
  <2>4. /\ nb \in Block /\ nb.depth = Len(marks) /\ nb.align # 0
        /\ nb.base = b.base /\ nb.size = size
    BY <1>1 DEF Block
  <2> HIDE DEF extra
  <2>5. /\ a \in Arena
        /\ a.pos = arena.pos + extra
        /\ a.pos =< arena.reserved
        /\ a.pos =< a.commited
        /\ a.reserved = arena.reserved
        /\ a.commited >= arena.commited
    BY <1>1, <1>2, <1>3, <2>2, <2>3, AllocFacts
  <2>6. BlockEnd(nb) = a.pos /\ a.pos >= arena.pos /\ a.pos =< a.reserved
    <3>1. /\ b.base \in Nat /\ b.size \in Nat /\ arena.pos \in Nat
          /\ b.base = arena.pos - b.size
      BY <1>1, <1>2 DEF IsLast, Arena, Block
    <3>2. BlockEnd(nb) = b.base + size /\ extra = size - b.size
      BY <2>4 DEF BlockEnd, extra
    <3> HIDE DEF nb, a
    <3> QED
      BY <1>2, <2>5, <3>1, <3>2
  <2>7. \A c \in blocks' :
            c # nb => c \in blocks /\ (c.size > 0 => BlockEnd(c) =< nb.base)
    BY <1>2, <2>1, <2>4, LastIsAlone
  <2>8. failed' \in Failures
    BY <1>5 DEF Failures
  <2> HIDE DEF nb, a
  <2> QED
    BY <1>3, <2>1, <2>4, <2>5, <2>6, <2>7, <2>8, HandOutKeeps
<1> QED
  BY <1>4, <1>5

(* Giving back the end of the last block, down to `p'; what is left of it,  *)
(* if anything, ends there.                                                 *)
LEMMA GiveBackKeeps ==
    ASSUME IInv, NEW b \in blocks, IsLast(arena, b), NEW p \in Nat,
           b.base =< p, p =< arena.pos,
           arena' = [arena EXCEPT !.pos = p],
           NEW nb \in Block, nb.base = b.base, nb.depth = b.depth, nb.align = b.align,
           BlockEnd(nb) = p, nb.size =< b.size,
           blocks' \subseteq (blocks \ {b}) \cup {nb},
           marks' = marks, failed' = failed
    PROVE  IInv'
<1>1. b \in Block /\ arena \in Arena /\ arena.pos \in Nat
  BY DEF IInv, TypeOK, Arena
<1>2. /\ arena' \in Arena /\ arena'.pos = p
      /\ arena'.reserved = arena.reserved /\ arena'.commited = arena.commited
  BY <1>1 DEF Arena
<1>3. \A c \in blocks' : c # nb => /\ c \in blocks /\ c # b /\ c \in Block
                                   /\ c.size > 0 => BlockEnd(c) =< b.base
  BY LastIsAlone DEF IInv, TypeOK
<1>4. TypeOK'
  BY <1>2, <1>3 DEF IInv, TypeOK
<1>5. PosSound(arena.pos)'
  BY <1>1, <1>2 DEF IInv, PosSound, Arena
<1>6. MarksSound'
  BY <1>2 DEF IInv, PosSound, MarksSound
<1>7. MarksKeep'
  <2> SUFFICES ASSUME NEW c \in blocks', NEW d \in 1 .. Len(marks), c.depth < d, c.size > 0
               PROVE  BlockEnd(c) =< marks[d]
    BY DEF MarksKeep
  <2>1. CASE c # nb
    BY <1>3, <2>1 DEF IInv, MarksKeep
  <2>2. CASE c = nb
    <3>1. b.size > 0 /\ b.depth < d
      BY <1>1, <2>2 DEF Block
    <3>2. BlockEnd(b) =< marks[d] /\ marks[d] \in Nat
      BY <3>1 DEF IInv, TypeOK, MarksKeep
    <3> QED
      BY <1>1, <2>2, <3>2 DEF BlockEnd, Block
  <2> QED
    BY <2>1, <2>2
<1>8. Below'
  <2> SUFFICES ASSUME NEW c \in blocks', c.size > 0
               PROVE  BlockEnd(c) =< p
    BY <1>2 DEF Below
  <2>1. CASE c # nb
    BY <1>1, <1>3, <2>1 DEF Block, BlockEnd
  <2>2. CASE c = nb
    BY <2>2
  <2> QED
    BY <2>1, <2>2
<1>9. Apart'
  BY <1>3 DEF IInv, Apart, Disjoint
<1>10. AlignsPositive'
  BY <1>3 DEF IInv, AlignsPositive
<1> QED
  BY <1>4, <1>5, <1>6, <1>7, <1>8, <1>9, <1>10 DEF IInv

(* Free of the last block gives all of it back, of any other one nothing.   *)
LEMMA FreeKeeps ==
    ASSUME IInv, NEW b \in blocks, Free(b)
    PROVE  IInv'
<1>1. /\ arena' = AfterFree(arena, b) /\ blocks' = blocks \ {b}
      /\ marks' = marks /\ failed' = failed
  BY DEF Free
<1>2. b \in Block /\ arena \in Arena
  BY DEF IInv, TypeOK
<1>3. CASE IsLast(arena, b)
  <2> DEFINE nb == [b EXCEPT !.size = 0]
  <2>1. arena' = [arena EXCEPT !.pos = b.base]
    BY <1>1, <1>3 DEF AfterFree, IsLast
  <2>2. b.base \in Nat /\ b.base =< arena.pos
    BY <1>2, <1>3 DEF IsLast, Block, Arena
  <2>3. /\ nb \in Block /\ nb.base = b.base /\ nb.depth = b.depth /\ nb.align = b.align
        /\ BlockEnd(nb) = b.base /\ nb.size =< b.size
    BY <1>2 DEF Block, BlockEnd
  <2> HIDE DEF nb
  <2> QED
    BY <1>1, <1>3, <2>1, <2>2, <2>3, GiveBackKeeps
<1>4. CASE ~ IsLast(arena, b)
  <2>1. arena' = arena
    BY <1>1, <1>4 DEF AfterFree
  <2> QED
    BY <1>1, <2>1 DEF IInv, TypeOK, PosSound, MarksSound, MarksKeep, Below, Apart, AlignsPositive
<1> QED
  BY <1>3, <1>4

(* Shrinking the last block gives its end back. *)
LEMMA ShrinksKeeps ==
    ASSUME IInv, NEW b \in blocks, NEW size \in Nat, ResizeShrinks(b, size)
    PROVE  IInv'
<1> DEFINE nb == [b EXCEPT !.size = size]
           p  == arena.pos - (b.size - size)
<1>1. /\ IsLast(arena, b) /\ size < b.size
      /\ arena' = [arena EXCEPT !.pos = p]
      /\ blocks' = (blocks \ {b}) \cup {nb}
      /\ marks' = marks /\ failed' = failed
  BY DEF ResizeShrinks, AfterShrink
<1>2. b \in Block /\ arena \in Arena
  BY DEF IInv, TypeOK
<1>3. /\ b.base \in Nat /\ b.size \in Nat /\ arena.pos \in Nat
      /\ b.base = arena.pos - b.size
  BY <1>1, <1>2 DEF IsLast, Arena, Block
<1>4. p \in Nat /\ b.base =< p /\ p =< arena.pos /\ p = b.base + size
  BY <1>1, <1>3
<1>5. /\ nb \in Block /\ nb.base = b.base /\ nb.depth = b.depth /\ nb.align = b.align
      /\ nb.size = size
  BY <1>2 DEF Block
<1>6. BlockEnd(nb) = p /\ nb.size =< b.size
  BY <1>1, <1>3, <1>4, <1>5 DEF BlockEnd
<1> HIDE DEF nb, p
<1> QED
  BY <1>1, <1>4, <1>5, <1>6, GiveBackKeeps

(* Resize: a block is moved, shrunk or grown. *)
LEMMA ResizeKeeps ==
    ASSUME ArnaAssumption, IInv, NEW b \in blocks, NEW size \in Nat, Resize(b, size)
    PROVE  IInv'
<1>1. b \in Block /\ b.align \in Nat \ {0} /\ b.depth = Len(marks)
  BY DEF IInv, TypeOK, AlignsPositive, Resize, Depth, Block
<1>2. CASE ResizeMoves(b, size)
  <2>1. blocks \ {b} \in SUBSET blocks
    OBVIOUS
  <2> QED
    BY <1>1, <1>2, <2>1, AllocKeeps DEF ResizeMoves
<1>3. CASE ResizeShrinks(b, size)
  BY <1>3, ShrinksKeeps
<1>4. CASE ResizeGrows(b, size)
  BY <1>1, <1>4, GrowsKeeps
<1> QED
  BY <1>2, <1>3, <1>4 DEF Resize

(* reset: nothing is in use. *)
LEMMA ResetKeeps ==
    ASSUME IInv, NEW decommit \in BOOLEAN, Reset(decommit)
    PROVE  IInv'
<1>1. /\ arena' = AfterReset(arena, decommit) /\ blocks' = {}
      /\ marks' = <<>> /\ failed' = failed
  BY DEF Reset
<1>2. arena' \in Arena /\ arena'.pos = 0
  BY <1>1 DEF IInv, TypeOK, AfterReset, Arena
<1>3. TypeOK' /\ PosSound(arena.pos)'
  BY <1>1, <1>2 DEF IInv, TypeOK, PosSound, Arena
<1>4. Len(marks') = 0
  BY <1>1
<1> QED
  BY <1>1, <1>3, <1>4 DEF IInv, MarksSound, MarksKeep, Below, Apart, AlignsPositive

(* scrath_existing: the new mark is above everything in use. *)
LEMMA ScopeBeginKeeps ==
    ASSUME IInv, ScopeBegin
    PROVE  IInv'
<1> DEFINE n == Len(marks)
<1>1. marks \in Seq(Nat) /\ n \in Nat /\ arena.pos \in Nat
  BY DEF IInv, TypeOK, Arena
<1>2. /\ marks' = Append(marks, arena.pos) /\ arena' = arena
      /\ blocks' = blocks /\ failed' = failed
  BY DEF ScopeBegin
<1>3. /\ marks' \in Seq(Nat) /\ Len(marks') = n + 1
      /\ \A d \in 1 .. n : marks'[d] = marks[d]
      /\ marks'[n + 1] = arena.pos
  BY <1>1, <1>2
<1>4. TypeOK' /\ PosSound(arena.pos)' /\ Below' /\ Apart' /\ AlignsPositive'
  BY <1>2, <1>3 DEF IInv, TypeOK, PosSound, Below, Apart, AlignsPositive
<1>5. \A d \in 1 .. (n + 1) : d \in 1 .. n \/ d = n + 1
  BY <1>1
<1>6. MarksSound'
  BY <1>2, <1>3, <1>5 DEF IInv, MarksSound, PosSound
<1>7. MarksKeep'
  BY <1>2, <1>3, <1>5 DEF IInv, MarksKeep, Below
<1> QED
  BY <1>4, <1>6, <1>7 DEF IInv

(* The end of a scope removes the innermost mark and keeps the others. *)
LEMMA ScopeEndMarks ==
    ASSUME IInv, ScopeEnd
    PROVE  /\ Len(marks) > 0 /\ marks' \in Seq(Nat)
           /\ Len(marks') = Len(marks) - 1
           /\ \A d \in 1 .. (Len(marks) - 1) :
                 marks'[d] = marks[d] /\ d \in 1 .. Len(marks)
<1> DEFINE n == Len(marks)
<1>1. marks \in Seq(Nat) /\ n \in Nat /\ n > 0
  BY DEF IInv, TypeOK, ScopeEnd
<1>2. marks' = SubSeq(marks, 1, n - 1)
  BY DEF ScopeEnd, Depth
<1>3. \A i \in 1 .. (n - 1) : marks[i] \in Nat
  BY <1>1
<1>4. /\ SubSeq(marks, 1, n - 1) \in Seq(Nat)
      /\ Len(SubSeq(marks, 1, n - 1)) = IF 1 =< n - 1 THEN (n - 1) - 1 + 1 ELSE 0
      /\ \A i \in 1 .. ((n - 1) - 1 + 1) : SubSeq(marks, 1, n - 1)[i] = marks[1 + i - 1]
  BY <1>1, <1>3, SubSeqProperties
<1>5. \A d \in 1 .. (n - 1) : SubSeq(marks, 1, n - 1)[d] = marks[d] /\ d \in 1 .. n
  <2> TAKE d \in 1 .. (n - 1)
  <2>1. d \in 1 .. ((n - 1) - 1 + 1) /\ 1 + d - 1 = d /\ d \in 1 .. n
    BY <1>1
  <2> QED
    BY <1>4, <2>1
<1> HIDE DEF n
<1>6. (IF 1 =< n - 1 THEN (n - 1) - 1 + 1 ELSE 0) = n - 1
  BY <1>1
<1>7. marks' \in Seq(Nat) /\ Len(marks') = n - 1
      /\ \A d \in 1 .. (n - 1) : marks'[d] = marks[d] /\ d \in 1 .. n
  BY <1>2, <1>4, <1>5, <1>6, Zenon
<1> QED
  BY <1>1, <1>7 DEF n

(* scrath_existing_end: what outlives the scope is below its mark. *)
LEMMA ScopeEndKeeps ==
    ASSUME IInv, ScopeEnd
    PROVE  IInv'
<1> DEFINE n == Len(marks)
           p == marks[n]
<1>1. marks \in Seq(Nat) /\ n \in Nat /\ n > 0 /\ p \in Nat
  BY DEF IInv, TypeOK, ScopeEnd
<1>2. /\ arena' = [arena EXCEPT !.pos = p] /\ failed' = failed
      /\ marks' = SubSeq(marks, 1, n - 1)
      /\ blocks' = {b \in blocks : b.depth < n}
  BY DEF ScopeEnd, Depth, AfterScope
<1>3. /\ marks' \in Seq(Nat) /\ Len(marks') = n - 1
      /\ \A d \in 1 .. (n - 1) : marks'[d] = marks[d] /\ d \in 1 .. n
  BY ScopeEndMarks
<1>4. /\ arena' \in Arena /\ arena'.pos = p
      /\ arena'.reserved = arena.reserved /\ arena'.commited = arena.commited
  BY <1>1, <1>2 DEF IInv, TypeOK, Arena
<1>5. n \in 1 .. n
  BY <1>1
<1>6. TypeOK'
  BY <1>2, <1>3, <1>4 DEF IInv, TypeOK
<1>7. PosSound(arena.pos)' /\ MarksSound'
  BY <1>3, <1>4, <1>5 DEF IInv, MarksSound, PosSound
<1>8. MarksKeep'
  BY <1>2, <1>3 DEF IInv, MarksKeep
<1>9. Below'
  BY <1>2, <1>4, <1>5 DEF IInv, MarksKeep, Below
<1>10. Apart' /\ AlignsPositive'
  BY <1>2 DEF IInv, Apart, AlignsPositive
<1> QED
  BY <1>6, <1>7, <1>8, <1>9, <1>10 DEF IInv

(* The invariant is inductive. *)
LEMMA StepKeeps ==
    ASSUME ArnaAssumption, IInv, [Next]_vars
    PROVE  IInv'
<1>1. CASE AllocStep
  <2> PICK size \in Sizes, al \in Aligns : Alloc(size, al)
    BY <1>1 DEF AllocStep
  <2>1. size \in Nat /\ al \in Nat \ {0} /\ blocks \in SUBSET blocks
    BY DEF ArnaAssumption
  <2> QED
    BY <2>1, AllocKeeps DEF Alloc
<1>2. CASE FreeStep
  BY <1>2, FreeKeeps DEF FreeStep
<1>3. CASE ResizeStep
  BY <1>3, ResizeKeeps DEF ResizeStep, ArnaAssumption
<1>4. CASE ResetStep
  BY <1>4, ResetKeeps DEF ResetStep
<1>5. CASE ScopeBegin
  BY <1>5, ScopeBeginKeeps
<1>6. CASE ScopeEnd
  BY <1>6, ScopeEndKeeps
<1>7. CASE UNCHANGED vars
  BY <1>7 DEF vars, IInv, TypeOK, PosSound, MarksSound, MarksKeep, Below, Apart, AlignsPositive
<1> QED
  BY <1>1, <1>2, <1>3, <1>4, <1>5, <1>6, <1>7 DEF Next

(* init and init_from_buffer establish the invariant. *)
LEMMA InitKeeps ==
    ASSUME ArnaHeapAssumption, Init
    PROVE  IInv
<1>1. marks = <<>> /\ Len(marks) = 0 /\ blocks = {} /\ failed \in Failures
  BY DEF Init, Failures
<1>2. PICK n \in Reservations : arena = InitVirtual(n) \/ arena = InitFromBuffer(n)
  BY DEF Init
<1>3. n \in Nat
  BY DEF ArnaHeapAssumption
<1>4. arena \in Arena /\ PosSound(arena.pos)
  BY <1>2, <1>3 DEF InitVirtual, InitFromBuffer, Arena, PosSound
<1> QED
  BY <1>1, <1>4 DEF IInv, TypeOK, MarksSound, MarksKeep, Below, Apart, AlignsPositive

(* The arena's positions stay natural numbers and its blocks well formed    *)
(* under alloc, Free, Resize, reset and the scopes.                         *)
THEOREM ArenaTypeCorrect == Spec => []TypeOK
<1>1. Init => IInv
  BY InitKeeps, ArnaHeapAssumption
<1>2. IInv /\ [Next]_vars => IInv'
  BY StepKeeps, ArnaAssumption
<1>3. IInv => TypeOK
  BY DEF IInv
<1> QED
  BY <1>1, <1>2, <1>3, PTL DEF Spec

(* No two blocks in use share a byte and all of them are committed memory   *)
(* below the bump pointer, so the next alloc returns none of their bytes.   *)
THEOREM ArenaBlocksSafe == Spec => []BlocksSafe
<1>1. Init => IInv
  BY InitKeeps, ArnaHeapAssumption
<1>2. IInv /\ [Next]_vars => IInv'
  BY StepKeeps, ArnaAssumption
<1>3. IInv => BlocksSafe
  BY DEF IInv, PosSound, Below, Apart, BlocksSafe, InUse
<1> QED
  BY <1>1, <1>2, <1>3, PTL DEF Spec

(* Ending the open scopes, in any number, keeps every block that outlives   *)
(* them below the restored bump pointer (scrath_existing_end).              *)
THEOREM ArenaScopesKeepOuterBlocks == Spec => []ScopesKeepOuterBlocks
<1>1. Init => IInv
  BY InitKeeps, ArnaHeapAssumption
<1>2. IInv /\ [Next]_vars => IInv'
  BY StepKeeps, ArnaAssumption
<1>3. IInv => ScopesKeepOuterBlocks
  BY DEF IInv, TypeOK, MarksKeep, ScopesKeepOuterBlocks
<1> QED
  BY <1>1, <1>2, <1>3, PTL DEF Spec

-----------------------------------------------------------------------------

(* Two different blocks held after a step do not overlap in                *)
(* BlockAllocator's sense.                                                  *)
LEMMA HeldApart ==
    ASSUME IInv', NEW b \in blocks'
    PROVE  \A c \in blocks' : c # b => ~ Users!Overlap(b, c)
<1> SUFFICES ASSUME NEW c \in blocks', c # b, b.size > 0, c.size > 0
             PROVE  ~ (b.base < c.base + c.size /\ c.base < b.base + b.size)
  BY DEF Users!Overlap
<1>1. (blocks \subseteq Block)' /\ Apart'
  BY DEF IInv, TypeOK
<1>2. Disjoint(b, c) /\ b \in Block /\ c \in Block
  BY <1>1 DEF Apart
<1> QED
  BY <1>2 DEF Disjoint, BlockEnd, Block

(* A block replaced by one of its alignment and scope is an exchange. *)
LEMMA Exchanges ==
    ASSUME IInv', NEW b \in blocks, NEW c, c.align = b.align, c.depth = b.depth,
           blocks' = (blocks \ {b}) \cup {c}, Depth' = Depth
    PROVE  Users!Exchange
<1>1. c \in blocks' /\ blocks \ {b} \subseteq blocks'
  OBVIOUS
<1>2. Users!Free(c, blocks \ {b})
  BY <1>1, HeldApart DEF Users!Free
<1> QED
  BY <1>1, <1>2 DEF Users!Exchange

(* alloc leaves the scopes alone and either hands out a block or stops the  *)
(* program at an assertion.                                                 *)
LEMMA BumpHolds ==
    ASSUME NEW size, NEW al, NEW new, Bump(size, al, new)
    PROVE  Depth' = Depth /\ (blocks' = new \/ blocks' = blocks)
  BY DEF Bump, Depth

LEMMA AllocRefines ==
    ASSUME IInv', NEW size, NEW al, Alloc(size, al)
    PROVE  Users!Take \/ UNCHANGED <<blocks, Depth>>
<1> DEFINE nb == NewBlock(size, al)
<1>1. Depth' = Depth /\ (blocks' = blocks \cup {nb} \/ blocks' = blocks)
  BY BumpHolds DEF Alloc
<1>2. ASSUME blocks' = blocks \cup {nb}
      PROVE  Users!Take
  <2>1. nb \in blocks' /\ blocks \subseteq blocks' /\ nb.depth = Depth
    BY <1>2 DEF NewBlock
  <2>2. Users!Free(nb, blocks)
    BY <2>1, HeldApart DEF Users!Free
  <2> HIDE DEF nb
  <2> QED
    BY <1>1, <1>2, <2>1, <2>2 DEF Users!Take
<1> QED
  BY <1>1, <1>2

LEMMA ResizeRefines ==
    ASSUME IInv, IInv', NEW b \in blocks, NEW size, Resize(b, size)
    PROVE  Users!Exchange \/ UNCHANGED <<blocks, Depth>>
<1> DEFINE moved == NewBlock(size, b.align)
           sized == [b EXCEPT !.size = size]
<1>1. /\ moved.align = b.align /\ moved.depth = b.depth
      /\ sized.align = b.align /\ sized.depth = b.depth
  BY DEF NewBlock, Resize, IInv, TypeOK, Block
<1>2. Depth' = Depth /\ (blocks' = blocks \/ blocks' = (blocks \ {b}) \cup {moved}
                           \/ blocks' = (blocks \ {b}) \cup {sized})
  <2>1. CASE ResizeMoves(b, size)
    BY <2>1, BumpHolds DEF ResizeMoves
  <2>2. CASE ResizeShrinks(b, size)
    BY <2>2 DEF ResizeShrinks, Depth
  <2>3. CASE ResizeGrows(b, size)
    BY <2>3, BumpHolds DEF ResizeGrows
  <2> QED
    BY <2>1, <2>2, <2>3 DEF Resize
<1> HIDE DEF moved, sized
<1> QED
  BY <1>1, <1>2, Exchanges

(* Every step of the arena is a step of the allocator its users see. *)
LEMMA StepRefines ==
    ASSUME IInv, IInv', [Next]_vars
    PROVE  [Users!Next]_<<blocks, Depth>>
<1> USE DEF Users!Next
<1>1. CASE AllocStep
  BY <1>1, AllocRefines DEF AllocStep
<1>2. CASE FreeStep
  BY <1>2 DEF FreeStep, Free, Users!Give, Depth
<1>3. CASE ResizeStep
  BY <1>3, ResizeRefines DEF ResizeStep
<1>4. CASE ResetStep
  BY <1>4 DEF ResetStep, Reset, Users!GiveAll, Depth
<1>5. CASE ScopeBegin
  BY <1>5 DEF ScopeBegin, Users!Open, Depth, IInv, TypeOK, Arena
<1>6. CASE ScopeEnd
  <2>1. Len(marks) > 0 /\ Len(marks') = Len(marks) - 1
    BY <1>6, ScopeEndMarks
  <2>2. blocks' = {b \in blocks : b.depth < Len(marks)}
    BY <1>6 DEF ScopeEnd, Depth
  <2> QED
    BY <2>1, <2>2 DEF Users!Close, Depth
<1>7. CASE UNCHANGED vars
  BY <1>7 DEF vars, Depth
<1> QED
  BY <1>1, <1>2, <1>3, <1>4, <1>5, <1>6, <1>7 DEF Next

(* The arena implements BlockAllocator: whatever its users do through       *)
(* allocator_proc, reset and scrath_existing, they see blocks that share no *)
(* byte, that a Resize exchanges for one of the same scope and requested    *)
(* alignment, and that the end of a scope gives back with it.               *)
THEOREM ArenaIsBlockAllocator == Spec => IsBlockAllocator
<1>1. Init => IInv
  BY InitKeeps, ArnaHeapAssumption
<1>2. IInv /\ [Next]_vars => IInv'
  BY StepKeeps, ArnaAssumption
<1>3. Init => Users!Init
  BY DEF Init, Users!Init, Depth
<1>4. IInv /\ IInv' /\ [Next]_vars => [Users!Next]_<<blocks, Depth>>
  BY StepRefines
<1> QED
  BY <1>1, <1>2, <1>3, <1>4, PTL DEF Spec, IsBlockAllocator, Users!Spec

-----------------------------------------------------------------------------

(* What align_forward computes, for any alignment.  Multiples are written   *)
(* as products here: the remainder itself is hard on the provers.           *)
Multiple(x, al) == \E k \in Nat : x = al * k

LEMMA NextMultiple ==
    ASSUME NEW al \in Nat \ {0}, NEW q \in Nat, NEW k \in Nat, q < k
    PROVE  al * q + al =< al * k
<1>1. PICK d \in Nat : k = q + 1 + d
  <2>1. k - q - 1 \in Nat /\ k = q + 1 + (k - q - 1)
    OBVIOUS
  <2> QED
    BY <2>1
<1>2. al * k = al * q + al + al * d
  BY <1>1
<1>3. al * d \in Nat /\ al * q \in Nat
  OBVIOUS
<1> QED
  BY <1>2, <1>3

LEMMA Division ==
    ASSUME NEW x \in Nat, NEW al \in Nat \ {0}
    PROVE  /\ x % al \in 0 .. (al - 1) /\ x \div al \in Nat
           /\ x = al * (x \div al) + (x % al)
  OBVIOUS

LEMMA MultipleMod ==
    ASSUME NEW x \in Nat, NEW al \in Nat \ {0}
    PROVE  Multiple(x, al) <=> x % al = 0
<1>1. /\ x % al \in 0 .. (al - 1) /\ x \div al \in Nat
      /\ x = al * (x \div al) + (x % al)
  BY Division
<1>2. ASSUME x % al = 0
      PROVE  Multiple(x, al)
  <2>1. x = al * (x \div al)
    BY <1>1, <1>2
  <2> QED
    BY <1>1, <2>1, Zenon DEF Multiple
<1>3. ASSUME NEW k \in Nat, x = al * k
      PROVE  x % al = 0
  <2> DEFINE q == x \div al
             r == x % al
  <2>1. q \in Nat /\ r \in 0 .. (al - 1) /\ al * k = al * q + r
    BY <1>1, <1>3
  <2> HIDE DEF q, r
  <2>2. al * q \in Nat /\ al * k \in Nat
    BY <2>1
  <2>3. ~ (q < k)
    BY <2>1, <2>2, NextMultiple
  <2>4. ~ (k < q)
    BY <2>1, <2>2, NextMultiple
  <2>5. r = 0
    BY <2>1, <2>2, <2>3, <2>4
  <2> QED
    BY <2>5 DEF r
<1> QED
  BY <1>2, <1>3 DEF Multiple

LEMMA Rounded ==
    ASSUME NEW x \in Nat, NEW al \in Nat \ {0}
    PROVE  AlignForward(x, al) = IF x % al = 0 THEN x ELSE al * (x \div al) + al
<1> DEFINE q == x \div al
           r == x % al
<1>1. q \in Nat /\ r \in 0 .. (al - 1) /\ x = al * q + r
  BY Division
<1>2. AlignForward(x, al) = x + ((al - r) % al)
  BY DEF AlignForward
<1> HIDE DEF q, r
<1>3. al * q \in Nat
  BY <1>1
<1>4. CASE r = 0
  <2>1. al % al = 0
    BY MultipleMod DEF Multiple
  <2> QED
    BY <1>1, <1>2, <1>4, <2>1 DEF r
<1>5. CASE r # 0
  <2>1. al - r \in 0 .. (al - 1)
    BY <1>1, <1>5
  <2>2. (al - r) % al = al - r
    BY <2>1
  <2>3. AlignForward(x, al) = al * q + al
    BY <1>1, <1>2, <1>3, <2>2
  <2> QED
    BY <1>5, <2>3 DEF r, q
<1> QED
  BY <1>4, <1>5

(* align_forward returns a multiple of the alignment ... *)
LEMMA AlignForwardMultiple ==
    ASSUME NEW x \in Nat, NEW al \in Nat \ {0}
    PROVE  Multiple(AlignForward(x, al), al)
<1>1. CASE x % al = 0
  BY <1>1, Rounded, MultipleMod
<1>2. CASE x % al # 0
  <2> DEFINE q == x \div al
  <2>1. q \in Nat /\ AlignForward(x, al) = al * q + al
    BY <1>2, Division, Rounded
  <2> HIDE DEF q
  <2>2. al * q + al = al * (q + 1)
    BY <2>1
  <2> QED
    BY <2>1, <2>2 DEF Multiple
<1> QED
  BY <1>1, <1>2

(* ... and the least one that is not below x. *)
LEMMA AlignForwardLeast ==
    ASSUME NEW x \in Nat, NEW al \in Nat \ {0}, NEW c \in Nat, Multiple(c, al), x =< c
    PROVE  AlignForward(x, al) =< c
<1> DEFINE q == x \div al
           r == x % al
<1>1. q \in Nat /\ r \in 0 .. (al - 1) /\ x = al * q + r
  BY Division
<1>2. AlignForward(x, al) = IF r = 0 THEN x ELSE al * q + al
  BY Rounded
<1>3. PICK k \in Nat : c = al * k
  BY DEF Multiple
<1> HIDE DEF q, r
<1>4. al * q \in Nat /\ al * k \in Nat
  BY <1>1
<1>5. CASE r = 0
  BY <1>2, <1>5
<1>6. CASE r # 0
  <2>1. ~ (k < q)
    BY <1>1, <1>3, <1>4, NextMultiple
  <2>2. k # q
    BY <1>1, <1>3, <1>4, <1>6
  <2> QED
    BY <1>1, <1>2, <1>3, <1>6, <2>1, <2>2, NextMultiple
<1> QED
  BY <1>5, <1>6

LEMMA MultipleTrans ==
    ASSUME NEW a, NEW b, NEW c \in Nat, Multiple(a, b), Multiple(b, c)
    PROVE  Multiple(a, c)
<1>1. PICK i \in Nat : a = b * i
  BY DEF Multiple
<1>2. PICK j \in Nat : b = c * j
  BY DEF Multiple
<1>3. a = c * (j * i) /\ j * i \in Nat
  BY <1>1, <1>2
<1> QED
  BY <1>3 DEF Multiple

LEMMA MultipleSum ==
    ASSUME NEW a, NEW b, NEW c \in Nat, Multiple(a, c), Multiple(b, c)
    PROVE  Multiple(a + b, c)
<1>1. PICK i \in Nat : a = c * i
  BY DEF Multiple
<1>2. PICK j \in Nat : b = c * j
  BY DEF Multiple
<1>3. a + b = c * (i + j) /\ i + j \in Nat
  BY <1>1, <1>2
<1> QED
  BY <1>3 DEF Multiple

-----------------------------------------------------------------------------

(* The committed part ends at a page, unless the memory is borrowed and     *)
(* nothing is ever committed; blocks keep the alignment they were asked     *)
(* with.  Both are needed for the assertion on the committed part.          *)
PagesCommited == Borrowed(arena) \/ arena.commited % PageSize = 0

AlignsRequested == \A b \in blocks : b.align \in Aligns

CInv == IInv /\ PagesCommited /\ AlignsRequested /\ BlocksAligned /\ CommitAlwaysCovers

(* alloc with an alignment that divides the page: the commit covers the     *)
(* block and ends at a page again.                                          *)
LEMMA CommitFacts ==
    ASSUME ArnaAssumption, NEW a \in Arena, a.pos =< a.commited,
           Borrowed(a) \/ a.commited % PageSize = 0,
           NEW size \in Nat, NEW al \in Nat \ {0}, PageSize % al = 0,
           ~ OutOfMemory(a, size, al)
    PROVE  /\ CommitCovers(a, size, al)
           /\ \/ CommitedAfter(a, size, al) > a.reserved
              \/ CommitedAfter(a, size, al) % PageSize = 0
<1> DEFINE base == AllocBase(a, al)
           wanted == Larger(Smaller(CommitChunk, a.reserved - a.commited), size)
           more == CommitSize(a, size)
<1>1. PageSize \in Nat \ {0} /\ a.pos \in Nat /\ a.commited \in Nat /\ a.reserved \in Nat
  BY DEF ArnaAssumption, Arena
<1>2. base \in Nat /\ AllocEnd(a, size, al) = base + size
  BY <1>1, AlignForwardUp DEF AllocBase, AllocEnd
<1>3. base + size =< a.reserved
  BY <1>1, <1>2 DEF OutOfMemory
<1>4. wanted \in Nat /\ wanted >= size
  BY <1>1 DEF Larger, Smaller, ArnaAssumption
<1>5. more \in Nat /\ more >= size /\ Multiple(more, PageSize)
  <2>1. more = AlignForward(wanted, PageSize)
    BY DEF CommitSize
  <2> HIDE DEF wanted, more
  <2> QED
    BY <1>1, <1>4, <2>1, AlignForwardUp, AlignForwardMultiple
<1> HIDE DEF base, wanted, more
<1>6. CASE Borrowed(a)
  <2>1. CommitedAfter(a, size, al) = a.commited /\ a.commited > a.reserved
    BY <1>1, <1>2, <1>3, <1>6 DEF CommitedAfter, Borrowed
  <2> QED
    BY <1>1, <1>2, <1>3, <2>1 DEF CommitCovers
<1>7. CASE a.commited % PageSize = 0
  <2>1. Multiple(a.commited, PageSize) /\ Multiple(PageSize, al)
    BY <1>1, <1>7, MultipleMod
  <2>2. base =< a.commited
    BY <1>1, <2>1, MultipleTrans, AlignForwardLeast DEF base, AllocBase
  <2>3. CASE base + size > a.commited
    <3>1. CommitedAfter(a, size, al) = a.commited + more
      BY <1>2, <2>3 DEF CommitedAfter, more
    <3>2. a.commited + more \in Nat /\ Multiple(a.commited + more, PageSize)
      BY <1>1, <1>5, <2>1, MultipleSum
    <3>3. (a.commited + more) % PageSize = 0
      BY <1>1, <3>2, MultipleMod
    <3>4. base + size =< a.commited + more
      BY <1>1, <1>2, <1>5, <2>2
    <3> QED
      BY <1>2, <3>1, <3>3, <3>4 DEF CommitCovers
  <2>4. CASE ~ (base + size > a.commited)
    BY <1>1, <1>2, <1>7, <2>4 DEF CommitCovers, CommitedAfter
  <2> QED
    BY <2>3, <2>4
<1> QED
  BY <1>6, <1>7

(* Every Bump: the assertion on the committed part holds, and what is       *)
(* committed ends at a page.                                                *)
LEMMA BumpCommits ==
    ASSUME ArnaAssumption, CInv, NEW size \in Nat, NEW al \in Nat \ {0},
           PageSize % al = 0, NEW new, Bump(size, al, new)
    PROVE  PagesCommited' /\ CommitAlwaysCovers'
<1>1. /\ arena \in Arena /\ arena.pos =< arena.commited
      /\ Borrowed(arena) \/ arena.commited % PageSize = 0
  BY DEF CInv, IInv, TypeOK, PosSound, PagesCommited
<1>2. /\ failed' = AllocFailure(size, al) /\ ~ OutOfMemory(arena, size, al)
      /\ arena' = arena \/ arena' = AfterAlloc(arena, size, al)
  BY DEF Bump
<1>3. /\ CommitCovers(arena, size, al)
      /\ \/ CommitedAfter(arena, size, al) > arena.reserved
         \/ CommitedAfter(arena, size, al) % PageSize = 0
  BY <1>1, <1>2, CommitFacts
<1>4. CommitAlwaysCovers'
  BY <1>2, <1>3 DEF AllocFailure, CommitAlwaysCovers
<1>5. PagesCommited'
  BY <1>1, <1>2, <1>3 DEF PagesCommited, AfterAlloc, Borrowed
<1> QED
  BY <1>4, <1>5

(* Alloc and the Resize that moves a block hand out aligned blocks. *)
LEMMA BumpAligns ==
    ASSUME ArnaAssumption, CInv, NEW size \in Nat, NEW al \in Aligns,
           NEW kept \in SUBSET blocks, Bump(size, al, kept \cup {NewBlock(size, al)})
    PROVE  AlignsRequested' /\ BlocksAligned'
<1> DEFINE nb == NewBlock(size, al)
<1>1. al \in Nat \ {0} /\ arena \in Arena /\ arena.pos \in Nat
  BY DEF ArnaAssumption, CInv, IInv, TypeOK, Arena
<1>2. AllocBase(arena, al) % al = 0
  BY <1>1, AlignForwardUp, AlignForwardMultiple, MultipleMod DEF AllocBase
<1>3. nb.base % nb.align = 0 /\ nb.align \in Aligns
  BY <1>2 DEF NewBlock
<1>4. blocks' = kept \cup {nb} \/ blocks' = blocks
  BY DEF Bump
<1> HIDE DEF nb
<1> QED
  BY <1>3, <1>4 DEF CInv, AlignsRequested, BlocksAligned

(* Nothing committed, no block moved. *)
LEMMA QuietKeeps ==
    ASSUME CInv, arena'.commited = arena.commited, arena'.reserved = arena.reserved,
           failed' = failed,
           \A c \in blocks' : \E b \in blocks : c.base = b.base /\ c.align = b.align
    PROVE  PagesCommited' /\ AlignsRequested' /\ BlocksAligned' /\ CommitAlwaysCovers'
  BY DEF CInv, PagesCommited, Borrowed, AlignsRequested, BlocksAligned, CommitAlwaysCovers

LEMMA ResizeCommits ==
    ASSUME ArnaAssumption, CInv, NEW b \in blocks, NEW size \in Nat, Resize(b, size)
    PROVE  PagesCommited' /\ AlignsRequested' /\ BlocksAligned' /\ CommitAlwaysCovers'
<1>1. /\ b.align \in Aligns /\ b \in Block /\ arena \in Arena
      /\ b.align \in Nat \ {0} /\ PageSize % b.align = 0
  BY DEF CInv, IInv, TypeOK, AlignsRequested, ArnaAssumption
<1> DEFINE sized == [b EXCEPT !.size = size]
<1>2. sized.base = b.base /\ sized.align = b.align
  BY <1>1 DEF Block
<1>3. CASE ResizeMoves(b, size)
  <2>1. blocks \ {b} \in SUBSET blocks
    OBVIOUS
  <2>2. Bump(size, b.align, (blocks \ {b}) \cup {NewBlock(size, b.align)})
    BY <1>3 DEF ResizeMoves
  <2> QED
    BY <1>1, <2>1, <2>2, BumpCommits, BumpAligns
<1>4. CASE ResizeShrinks(b, size)
  <2>1. /\ arena' = AfterShrink(arena, b, size) /\ failed' = failed
        /\ blocks' = (blocks \ {b}) \cup {sized}
    BY <1>4 DEF ResizeShrinks
  <2>2. arena'.commited = arena.commited /\ arena'.reserved = arena.reserved
    BY <1>1, <2>1 DEF AfterShrink, Arena
  <2> HIDE DEF sized
  <2> QED
    BY <1>2, <2>1, <2>2, QuietKeeps
<1>5. CASE ResizeGrows(b, size)
  <2>1. size - b.size \in Nat /\ PageSize % 1 = 0
    BY <1>1, <1>5 DEF ResizeGrows, Block, ArnaAssumption
  <2>2. Bump(size - b.size, 1, (blocks \ {b}) \cup {sized})
    BY <1>5 DEF ResizeGrows
  <2>3. blocks' = (blocks \ {b}) \cup {sized} \/ blocks' = blocks
    BY <2>2 DEF Bump
  <2>4. PagesCommited' /\ CommitAlwaysCovers'
    BY <2>1, <2>2, BumpCommits
  <2> HIDE DEF sized
  <2> QED
    BY <1>2, <2>3, <2>4 DEF CInv, AlignsRequested, BlocksAligned
<1> QED
  BY <1>3, <1>4, <1>5 DEF Resize

(* The invariant with what is committed is inductive. *)
LEMMA StepCommits ==
    ASSUME ArnaAssumption, CInv, [Next]_vars
    PROVE  CInv'
<1>1. IInv'
  BY StepKeeps DEF CInv
<1>2. arena \in Arena
  BY DEF CInv, IInv, TypeOK
<1> SUFFICES PagesCommited' /\ AlignsRequested' /\ BlocksAligned' /\ CommitAlwaysCovers'
  BY <1>1 DEF CInv
<1>3. CASE AllocStep
  <2> PICK size \in Sizes, al \in Aligns : Alloc(size, al)
    BY <1>3 DEF AllocStep
  <2>1. size \in Nat /\ al \in Nat \ {0} /\ PageSize % al = 0 /\ blocks \in SUBSET blocks
    BY DEF ArnaAssumption
  <2> QED
    BY <2>1, BumpCommits, BumpAligns DEF Alloc
<1>4. CASE FreeStep
  <2> PICK b \in blocks : Free(b)
    BY <1>4 DEF FreeStep
  <2>1. arena'.commited = arena.commited /\ arena'.reserved = arena.reserved
    BY <1>2 DEF Free, AfterFree, Arena
  <2> QED
    BY <2>1, QuietKeeps DEF Free
<1>5. CASE ResizeStep
  BY <1>5, ResizeCommits DEF ResizeStep, ArnaAssumption
<1>6. CASE ResetStep
  <2> PICK decommit \in BOOLEAN : Reset(decommit)
    BY <1>6 DEF ResetStep
  <2>1. PagesCommited'
    <3>1. 0 % PageSize = 0
      BY MultipleMod DEF Multiple, ArnaAssumption
    <3> QED
      BY <1>2, <3>1 DEF CInv, PagesCommited, Reset, AfterReset, Borrowed, Arena
  <2> QED
    BY <2>1 DEF CInv, Reset, AlignsRequested, BlocksAligned, CommitAlwaysCovers
<1>7. CASE ScopeBegin
  BY <1>7, QuietKeeps DEF ScopeBegin
<1>8. CASE ScopeEnd
  <2>1. arena'.commited = arena.commited /\ arena'.reserved = arena.reserved
    BY <1>2, <1>8 DEF ScopeEnd, AfterScope, Arena
  <2> QED
    BY <1>8, <2>1, QuietKeeps DEF ScopeEnd
<1>9. CASE UNCHANGED vars
  BY <1>9, QuietKeeps DEF vars
<1> QED
  BY <1>3, <1>4, <1>5, <1>6, <1>7, <1>8, <1>9 DEF Next

LEMMA InitCommits ==
    ASSUME ArnaAssumption, ArnaHeapAssumption, Init
    PROVE  CInv
<1>1. PICK n \in Reservations : arena = InitVirtual(n) \/ arena = InitFromBuffer(n)
  BY DEF Init
<1>2. n \in Nat
  BY DEF ArnaHeapAssumption
<1>3. 0 % PageSize = 0
  BY MultipleMod DEF Multiple, ArnaAssumption
<1>4. PagesCommited
  BY <1>1, <1>2, <1>3 DEF InitVirtual, InitFromBuffer, Borrowed, PagesCommited
<1> QED
  BY <1>4, InitKeeps DEF Init, CInv, AlignsRequested, BlocksAligned, CommitAlwaysCovers

(* A block keeps the alignment it was requested with, whatever is freed,    *)
(* moved, shrunk or grown in place around it (alloc's align_forward, Resize *)
(* of allocator_proc).                                                      *)
THEOREM ArenaBlocksAligned == Spec => []BlocksAligned
<1>1. Init => CInv
  BY InitCommits, ArnaAssumption, ArnaHeapAssumption
<1>2. CInv /\ [Next]_vars => CInv'
  BY StepCommits, ArnaAssumption
<1>3. CInv => BlocksAligned
  BY DEF CInv
<1> QED
  BY <1>1, <1>2, <1>3, PTL DEF Spec

(* The assertion of alloc that the committed part covers the new block      *)
(* never fires, for any page size, commit step, block size and alignment    *)
(* that divides the page: the committed part always ends at a page.         *)
THEOREM ArenaCommitCovers == Spec => []CommitAlwaysCovers
<1>1. Init => CInv
  BY InitCommits, ArnaAssumption, ArnaHeapAssumption
<1>2. CInv /\ [Next]_vars => CInv'
  BY StepCommits, ArnaAssumption
<1>3. CInv => CommitAlwaysCovers
  BY DEF CInv
<1> QED
  BY <1>1, <1>2, <1>3, PTL DEF Spec
=============================================================================
