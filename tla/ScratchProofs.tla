---------------------------- MODULE ScratchProofs ---------------------------
(***************************************************************************)
(* Scratch memory is never clobbered, for any size of the temporaries and  *)
(* any nesting of calls.  NoClobber is not inductive by itself: it needs   *)
(* to know that the frame whose scratch a result goes to is the innermost  *)
(* one using that temporary (FramesSound), so that no scope opened above   *)
(* it gives the result's memory back (ReturnsKeepCallers).                 *)
(***************************************************************************)
EXTENDS Scratch, SequenceTheorems, TLAPS

-----------------------------------------------------------------------------
(* The operators of Arna. *)

(* align_forward never moves backwards. *)
LEMMA AlignForwardUp ==
    ASSUME NEW x \in Nat, NEW al \in Nat \ {0}
    PROVE  AlignForward(x, al) \in Nat /\ AlignForward(x, al) >= x
<1>1. x % al \in 0 .. (al - 1)
  OBVIOUS
<1>2. (al - (x % al)) % al \in 0 .. (al - 1)
  BY <1>1
<1> QED
  BY <1>1, <1>2 DEF AlignForward

(* What an alloc that trips neither assertion does to the arena: the new    *)
(* block starts at or above the old pos and ends at the new one, which is   *)
(* inside the reservation and committed.                                    *)
LEMMA AllocFacts ==
    ASSUME ArnaAssumption,
           NEW a \in Arena, NEW size \in Nat, NEW al \in Nat \ {0},
           ~ OutOfMemory(a, size, al), CommitCovers(a, size, al)
    PROVE  /\ AllocBase(a, al) \in Nat
           /\ AllocBase(a, al) >= a.pos
           /\ AfterAlloc(a, size, al) \in Arena
           /\ AfterAlloc(a, size, al).pos = AllocBase(a, al) + size
           /\ AfterAlloc(a, size, al).pos =< a.reserved
           /\ AfterAlloc(a, size, al).pos =< AfterAlloc(a, size, al).commited
           /\ AfterAlloc(a, size, al).reserved = a.reserved
           /\ AfterAlloc(a, size, al).commited >= a.commited
<1>1. AllocBase(a, al) \in Nat /\ AllocBase(a, al) >= a.pos
  BY AlignForwardUp DEF AllocBase, Arena
<1> DEFINE wanted == Larger(Smaller(CommitChunk, a.reserved - a.commited), size)
<1>2. wanted \in Nat
  BY DEF Larger, Smaller, Arena, ArnaAssumption
<1>3. CommitSize(a, size) \in Nat
  BY <1>2, AlignForwardUp DEF CommitSize, ArnaAssumption
<1>4. /\ CommitedAfter(a, size, al) \in Nat
      /\ CommitedAfter(a, size, al) >= a.commited
  BY <1>1, <1>3 DEF CommitedAfter, Arena
<1>5. AllocEnd(a, size, al) = AllocBase(a, al) + size
  BY DEF AllocEnd
<1>6. a.reserved \in Nat /\ AllocEnd(a, size, al) \in Nat
  BY <1>1, <1>5 DEF Arena
<1>7. AllocEnd(a, size, al) =< a.reserved
  BY <1>6 DEF OutOfMemory
<1>8. AfterAlloc(a, size, al) \in Arena
  BY <1>4, <1>6 DEF AfterAlloc, Arena
<1> QED
  BY <1>1, <1>4, <1>5, <1>7, <1>8 DEF AfterAlloc, CommitCovers

-----------------------------------------------------------------------------

(* scrath_temps_with_clobber hands out the temporary the result is not in,  *)
(* and passing `out' on keeps it the innermost use of that temporary.       *)
FramesSound ==
    \A k \in 1 .. Len(frames) :
        /\ frames[k].mark =< temps[frames[k].own].reserved
        /\ frames[k].mark =< temps[frames[k].own].commited
        /\ frames[k].out # NoOut =>
              /\ frames[k].home \in 1 .. (k - 1)
              /\ frames[frames[k].home].own = frames[k].out
              /\ \A j \in (frames[k].home + 1) .. k : frames[j].own # frames[k].out

(* Every block lies in the scratch of a frame that has not returned. *)
BlocksOwned ==
    \A b \in blocks : b.owner \in 1 .. Len(frames) /\ frames[b.owner].own = b.temp

TempsSound ==
    \A t \in TempIds : temps[t].pos =< temps[t].reserved /\ temps[t].pos =< temps[t].commited

MarksKeep ==
    \A k \in 1 .. Len(frames), b \in blocks :
        b.temp = frames[k].own /\ b.owner < k /\ b.size > 0
            => BlockEnd(b) =< frames[k].mark

Below == \A b \in blocks : b.size > 0 => BlockEnd(b) =< temps[b.temp].pos

Apart ==
    \A b, c \in blocks :
        b # c /\ b.temp = c.temp /\ b.size > 0 /\ c.size > 0 => Disjoint(b, c)

AlignsPositive == \A b \in blocks : b.align # 0

IInv ==
    /\ TypeOK /\ TempsSound /\ FramesSound /\ BlocksOwned
    /\ MarksKeep /\ Below /\ Apart /\ AlignsPositive

-----------------------------------------------------------------------------

(* The target of an allocation is the innermost frame using its temporary.  *)
LEMMA TargetInnermost ==
    ASSUME IInv, Depth > 0, NEW target \in Targets
    PROVE  /\ target.temp \in TempIds
           /\ target.owner \in 1 .. Len(frames)
           /\ frames[target.owner].own = target.temp
           /\ \A k \in (target.owner + 1) .. Len(frames) : frames[k].own # target.temp
<1>1. Len(frames) \in Nat /\ Depth \in 1 .. Len(frames) /\ frames[Depth] \in Frame
  BY DEF IInv, TypeOK, Depth
<1>2. CASE target = [temp |-> Top.own, owner |-> Depth]
  BY <1>1, <1>2 DEF Top, Depth, Frame
<1>3. CASE Top.out # NoOut /\ target = [temp |-> Top.out, owner |-> Top.home]
  <2>1. /\ Top.home \in 1 .. (Depth - 1)
        /\ frames[Top.home].own = Top.out
        /\ \A j \in (Top.home + 1) .. Depth : frames[j].own # Top.out
    BY <1>1, <1>3 DEF IInv, FramesSound, Top, Depth
  <2> QED
    BY <1>1, <1>3, <2>1 DEF Top, Depth, Frame
<1> QED
  BY <1>2, <1>3 DEF Targets

(* Handing out a block `nb' that ends at the new pos and touches none of the *)
(* blocks kept preserves the invariant.                                      *)
LEMMA BumpKeeps ==
    ASSUME IInv, Depth > 0, NEW target \in Targets,
           NEW nb \in Block, NEW a \in Arena,
           nb.temp = target.temp, nb.owner = target.owner, nb.align # 0,
           BlockEnd(nb) = a.pos,
           a.pos >= temps[target.temp].pos,
           a.pos =< a.reserved, a.pos =< a.commited,
           a.reserved = temps[target.temp].reserved,
           a.commited >= temps[target.temp].commited,
           \A c \in blocks' :
               c # nb => /\ c \in blocks
                         /\ c.temp = nb.temp /\ c.size > 0 => BlockEnd(c) =< nb.base,
           temps' = [temps EXCEPT ![target.temp] = a],
           frames' = frames
    PROVE  IInv'
<1> USE DEF TempIds
<1>1. /\ target.temp \in TempIds
      /\ target.owner \in 1 .. Len(frames)
      /\ frames[target.owner].own = target.temp
      /\ \A k \in (target.owner + 1) .. Len(frames) : frames[k].own # target.temp
  BY TargetInnermost
<1>2. TypeOK'
  BY <1>1 DEF IInv, TypeOK
<1>3. TempsSound'
  BY <1>1 DEF IInv, TypeOK, TempsSound
<1>4. /\ \A t \in TempIds : /\ temps[t] \in Arena /\ temps'[t] \in Arena
                            /\ temps'[t].pos >= temps[t].pos
                            /\ temps'[t].reserved = temps[t].reserved
                            /\ temps'[t].commited >= temps[t].commited
      /\ temps'[target.temp] = a
  BY <1>1 DEF IInv, TypeOK, Arena
<1>5. FramesSound'
  <2> SUFFICES ASSUME NEW k \in 1 .. Len(frames)
               PROVE  /\ frames[k].mark =< temps'[frames[k].own].reserved
                      /\ frames[k].mark =< temps'[frames[k].own].commited
    BY DEF IInv, FramesSound
  <2>1. frames[k] \in Frame
    BY DEF IInv, TypeOK
  <2>2. /\ frames[k].mark =< temps[frames[k].own].reserved
        /\ frames[k].mark =< temps[frames[k].own].commited
    BY DEF IInv, FramesSound
  <2>3. frames[k].own \in TempIds /\ frames[k].mark \in Nat
    BY <2>1 DEF Frame
  <2> DEFINE old == temps[frames[k].own]
             new == temps'[frames[k].own]
  <2>4. /\ old \in Arena /\ new \in Arena
        /\ new.reserved = old.reserved /\ new.commited >= old.commited
    BY <1>4, <2>3
  <2>5. old.commited \in Nat /\ new.commited \in Nat
    BY <2>4 DEF Arena
  <2> HIDE DEF old, new
  <2>6. frames[k].mark =< new.reserved /\ frames[k].mark =< new.commited
    BY <2>2, <2>3, <2>4, <2>5 DEF old
  <2> QED
    BY <2>6 DEF new
<1>6. BlocksOwned'
  BY <1>1 DEF IInv, BlocksOwned
<1>7. MarksKeep'
  <2> SUFFICES ASSUME NEW k \in 1 .. Len(frames), NEW b \in blocks',
                      b.temp = frames[k].own, b.owner < k, b.size > 0
               PROVE  BlockEnd(b) =< frames[k].mark
    BY DEF MarksKeep
  <2>1. CASE b \in blocks /\ b # nb
    BY <2>1 DEF IInv, MarksKeep
  <2>2. CASE b = nb
    BY <1>1, <2>2
  <2> QED
    BY <2>1, <2>2
<1>8. Below'
  <2> SUFFICES ASSUME NEW b \in blocks', b.size > 0
               PROVE  BlockEnd(b) =< temps'[b.temp].pos
    BY DEF Below
  <2>1. CASE b \in blocks /\ b # nb
    <3>1. b \in Block /\ BlockEnd(b) =< temps[b.temp].pos
      BY <2>1 DEF IInv, TypeOK, Below
    <3> QED
      BY <1>4, <3>1 DEF Block, Arena, BlockEnd
  <2>2. CASE b = nb
    BY <1>4, <2>2 DEF Arena
  <2> QED
    BY <2>1, <2>2
<1>9. Apart'
  BY DEF IInv, Apart, Disjoint
<1>10. AlignsPositive'
  BY DEF IInv, AlignsPositive
<1> QED
  BY <1>2, <1>3, <1>5, <1>6, <1>7, <1>8, <1>9, <1>10 DEF IInv

(* alloc hands out memory above everything in its temporary. *)
LEMMA AllocKeeps ==
    ASSUME ArnaAssumption, IInv, Depth > 0,
           NEW target \in Targets, NEW size \in Sizes, NEW al \in Aligns,
           Alloc(target, size, al)
    PROVE  IInv'
<1> DEFINE t == target.temp
           nb == NewBlock(target, size, al)
           a  == AfterAlloc(temps[t], size, al)
<1>1. t \in TempIds /\ target.owner \in 1 .. Len(frames)
  BY TargetInnermost
<1>2. temps[t] \in Arena /\ size \in Nat /\ al \in Nat \ {0}
  BY <1>1 DEF IInv, TypeOK, ArnaAssumption
<1>3. /\ AllocBase(temps[t], al) \in Nat
      /\ AllocBase(temps[t], al) >= temps[t].pos
      /\ a \in Arena
      /\ a.pos = AllocBase(temps[t], al) + size
      /\ a.pos =< temps[t].reserved
      /\ a.pos =< a.commited
      /\ a.reserved = temps[t].reserved
      /\ a.commited >= temps[t].commited
  BY <1>2, AllocFacts DEF Alloc, Succeeds
<1>4. /\ nb \in Block /\ nb.temp = t /\ nb.owner = target.owner /\ nb.align = al
      /\ nb.base = AllocBase(temps[t], al) /\ BlockEnd(nb) = a.pos
  BY <1>1, <1>2, <1>3 DEF NewBlock, Block, BlockEnd
<1>5. \A c \in blocks' :
          c # nb => /\ c \in blocks
                    /\ c.temp = nb.temp /\ c.size > 0 => BlockEnd(c) =< nb.base
  <2> SUFFICES ASSUME NEW c \in blocks, c.temp = t, c.size > 0
               PROVE  BlockEnd(c) =< nb.base
    BY <1>4 DEF Alloc
  <2>1. c \in Block /\ BlockEnd(c) =< temps[t].pos
    BY DEF IInv, TypeOK, Below
  <2> QED
    BY <1>2, <1>3, <1>4, <2>1 DEF Block, BlockEnd, Arena
<1>6. temps' = [temps EXCEPT ![t] = a] /\ frames' = frames
  BY DEF Alloc
<1>7. a.pos >= temps[t].pos /\ a.pos =< a.reserved
  BY <1>2, <1>3 DEF Arena
<1> HIDE DEF t, nb, a
<1> QED
  BY <1>2, <1>3, <1>4, <1>5, <1>6, <1>7, BumpKeeps DEF t

(* Growing in place moves pos, growing elsewhere allocates. *)
LEMMA GrowKeeps ==
    ASSUME ArnaAssumption, IInv, Depth > 0,
           NEW b \in blocks, NEW size \in Sizes, Grow(b, size)
    PROVE  IInv'
<1> DEFINE target == [temp |-> b.temp, owner |-> b.owner]
           t == target.temp
<1>1. target \in Targets /\ t = b.temp /\ target.owner = b.owner
  BY DEF Grow, Mine
<1>2. t \in TempIds /\ temps[t] \in Arena /\ b \in Block
  BY DEF IInv, TypeOK, Block
<1>3. size \in Nat /\ b.align \in Nat \ {0} /\ b.size \in Nat /\ size > b.size
  BY <1>2 DEF IInv, AlignsPositive, Block, ArnaAssumption, Grow
<1>4. CASE IsLast(temps[t], b)
  <2> DEFINE a  == AfterAlloc(temps[t], size - b.size, 1)
             nb == [b EXCEPT !.size = size]
  <2>1. /\ Succeeds(t, size - b.size, 1)
        /\ temps' = [temps EXCEPT ![t] = a]
        /\ blocks' = (blocks \ {b}) \cup {nb}
        /\ frames' = frames
    BY <1>4 DEF Grow
  <2>2. AllocBase(temps[t], 1) = temps[t].pos
    BY <1>2 DEF AllocBase, AlignForward, Arena
  <2>3. /\ a \in Arena
        /\ a.pos = temps[t].pos + (size - b.size)
        /\ a.pos =< temps[t].reserved
        /\ a.pos =< a.commited
        /\ a.reserved = temps[t].reserved
        /\ a.commited >= temps[t].commited
    <3> DEFINE extra == size - b.size
    <3>1. extra \in Nat
      BY <1>3
    <3>2. ~ OutOfMemory(temps[t], extra, 1) /\ CommitCovers(temps[t], extra, 1)
      BY <2>1 DEF Succeeds
    <3> HIDE DEF extra
    <3>3. /\ AfterAlloc(temps[t], extra, 1) \in Arena
          /\ AfterAlloc(temps[t], extra, 1).pos = temps[t].pos + extra
          /\ AfterAlloc(temps[t], extra, 1).pos =< temps[t].reserved
          /\ AfterAlloc(temps[t], extra, 1).pos =< AfterAlloc(temps[t], extra, 1).commited
          /\ AfterAlloc(temps[t], extra, 1).reserved = temps[t].reserved
          /\ AfterAlloc(temps[t], extra, 1).commited >= temps[t].commited
      BY <1>2, <2>2, <3>1, <3>2, AllocFacts
    <3> QED
      BY <3>3 DEF extra
  <2>4. /\ nb \in Block /\ nb.temp = t /\ nb.owner = b.owner
        /\ nb.align = b.align /\ nb.base = b.base /\ nb.size = size
    BY <1>2, <1>3 DEF Block
  <2>5. BlockEnd(nb) = a.pos /\ a.pos >= temps[t].pos /\ a.pos =< a.reserved
    BY <1>2, <1>3, <1>4, <2>3, <2>4 DEF BlockEnd, IsLast, Arena, Block
  <2>6. \A c \in blocks' :
            c # nb => /\ c \in blocks
                      /\ c.temp = nb.temp /\ c.size > 0 => BlockEnd(c) =< nb.base
    <3> SUFFICES ASSUME NEW c \in blocks, c # b, c.temp = t, c.size > 0
                 PROVE  BlockEnd(c) =< b.base
      BY <2>1, <2>4
    <3>1. c \in Block /\ BlockEnd(c) =< temps[t].pos
      BY DEF IInv, TypeOK, Below
    <3>2. CASE b.size = 0
      BY <1>2, <1>4, <3>1, <3>2 DEF IsLast, Arena, Block, BlockEnd
    <3>3. CASE b.size > 0
      <4>1. Disjoint(c, b)
        BY <3>3 DEF IInv, Apart
      <4> QED
        BY <1>2, <1>4, <3>1, <3>3, <4>1 DEF IsLast, Arena, Block, BlockEnd, Disjoint
    <3> QED
      BY <1>3, <3>2, <3>3
  <2> HIDE DEF a, nb, target, t
  <2>7. nb.align # 0 /\ frames' = frames /\ temps' = [temps EXCEPT ![target.temp] = a]
    BY <1>3, <2>1, <2>4 DEF t
  <2> QED
    BY <1>1, <2>3, <2>4, <2>5, <2>6, <2>7, BumpKeeps DEF t
<1>5. CASE ~ IsLast(temps[t], b)
  <2> DEFINE a  == AfterAlloc(temps[t], size, b.align)
             nb == NewBlock(target, size, b.align)
  <2>1. /\ Succeeds(t, size, b.align)
        /\ temps' = [temps EXCEPT ![t] = a]
        /\ blocks' = (blocks \ {b}) \cup {nb}
        /\ frames' = frames
    BY <1>5 DEF Grow
  <2>2. /\ AllocBase(temps[t], b.align) \in Nat
        /\ AllocBase(temps[t], b.align) >= temps[t].pos
        /\ a \in Arena
        /\ a.pos = AllocBase(temps[t], b.align) + size
        /\ a.pos =< temps[t].reserved
        /\ a.pos =< a.commited
        /\ a.reserved = temps[t].reserved
        /\ a.commited >= temps[t].commited
    BY <1>2, <1>3, <2>1, AllocFacts DEF Succeeds
  <2>3. /\ nb \in Block /\ nb.temp = t /\ nb.owner = b.owner
        /\ nb.align = b.align /\ nb.base = AllocBase(temps[t], b.align)
        /\ BlockEnd(nb) = a.pos
    BY <1>2, <1>3, <2>2 DEF NewBlock, Block, BlockEnd
  <2>4. a.pos >= temps[t].pos /\ a.pos =< a.reserved
    BY <1>2, <1>3, <2>2 DEF Arena
  <2>5. \A c \in blocks' :
            c # nb => /\ c \in blocks
                      /\ c.temp = nb.temp /\ c.size > 0 => BlockEnd(c) =< nb.base
    <3> SUFFICES ASSUME NEW c \in blocks, c.temp = t, c.size > 0
                 PROVE  BlockEnd(c) =< nb.base
      BY <2>1, <2>3
    <3>1. c \in Block /\ BlockEnd(c) =< temps[t].pos
      BY DEF IInv, TypeOK, Below
    <3> QED
      BY <1>2, <2>2, <2>3, <3>1 DEF Block, BlockEnd, Arena
  <2> HIDE DEF a, nb, target, t
  <2>6. nb.align # 0 /\ frames' = frames /\ temps' = [temps EXCEPT ![target.temp] = a]
    BY <1>3, <2>1, <2>3 DEF t
  <2> QED
    BY <1>1, <2>2, <2>3, <2>4, <2>5, <2>6, BumpKeeps DEF t
<1> QED
  BY <1>4, <1>5

(* Free gives memory back only from the end, where no other block is. *)
LEMMA FreeKeeps ==
    ASSUME IInv, Depth > 0, NEW b \in blocks, Free(b)
    PROVE  IInv'
<1> DEFINE t == b.temp
<1>1. t \in TempIds /\ temps[t] \in Arena /\ b \in Block
  BY DEF IInv, TypeOK, Block
<1>2. /\ frames' = frames /\ blocks' = blocks \ {b}
      /\ temps' = [temps EXCEPT ![t] = AfterFree(temps[t], b)]
  BY DEF Free
<1>3. /\ AfterFree(temps[t], b) \in Arena
      /\ AfterFree(temps[t], b).pos =< temps[t].pos
      /\ AfterFree(temps[t], b).reserved = temps[t].reserved
      /\ AfterFree(temps[t], b).commited = temps[t].commited
  BY <1>1 DEF AfterFree, IsLast, Arena, Block
<1>4. \A u \in TempIds : /\ temps'[u] \in Arena
                         /\ temps'[u].pos =< temps[u].pos
                         /\ temps'[u].reserved = temps[u].reserved
                         /\ temps'[u].commited = temps[u].commited
  BY <1>1, <1>2, <1>3 DEF IInv, TypeOK, Arena
<1>5. TypeOK'
  BY <1>1, <1>2, <1>3 DEF IInv, TypeOK
<1>6. TempsSound'
  BY <1>4 DEF IInv, TempsSound, TypeOK, Arena
<1>7. FramesSound'
  <2> SUFFICES ASSUME NEW k \in 1 .. Len(frames)
               PROVE  /\ frames[k].mark =< temps'[frames[k].own].reserved
                      /\ frames[k].mark =< temps'[frames[k].own].commited
    BY <1>2 DEF IInv, FramesSound
  <2>1. frames[k] \in Frame
    BY DEF IInv, TypeOK
  <2> QED
    BY <1>4, <2>1 DEF IInv, FramesSound, Frame
<1>8. BlocksOwned' /\ MarksKeep' /\ Apart' /\ AlignsPositive'
  BY <1>2 DEF IInv, BlocksOwned, MarksKeep, Apart, AlignsPositive
<1>9. Below'
  <2> SUFFICES ASSUME NEW c \in blocks, c # b, c.size > 0
               PROVE  BlockEnd(c) =< temps'[c.temp].pos
    BY <1>2 DEF Below
  <2>1. c \in Block /\ c.temp \in TempIds /\ BlockEnd(c) =< temps[c.temp].pos
    BY DEF IInv, TypeOK, Below, Block
  <2>2. CASE c.temp # t
    BY <1>1, <1>2, <2>1, <2>2 DEF IInv, TypeOK
  <2>3. CASE c.temp = t
    <3>1. temps'[t] = AfterFree(temps[t], b)
      BY <1>1, <1>2 DEF IInv, TypeOK
    <3>2. CASE ~ IsLast(temps[t], b) \/ b.size = 0
      BY <1>1, <2>1, <2>3, <3>1, <3>2 DEF AfterFree, Arena
    <3>3. CASE IsLast(temps[t], b) /\ b.size # 0
      <4>1. Disjoint(c, b)
        BY <1>1, <2>3, <3>3 DEF IInv, Apart, Block
      <4>2. temps'[t].pos = b.base
        BY <1>1, <3>1, <3>3 DEF AfterFree, IsLast, Arena, Block
      <4> QED
        BY <1>1, <2>1, <2>3, <3>3, <4>1, <4>2
           DEF Disjoint, BlockEnd, IsLast, Arena, Block
    <3> QED
      BY <3>2, <3>3
  <2> QED
    BY <2>2, <2>3
<1> QED
  BY <1>5, <1>6, <1>7, <1>8, <1>9 DEF IInv

(* A call pushes a frame that is sound, whichever way it was made. *)
LEMMA PushKeeps ==
    ASSUME IInv, NEW f \in Frame,
           f.mark = temps[f.own].pos,
           f.out # NoOut =>
              /\ f.own # f.out
              /\ f.home \in 1 .. Len(frames)
              /\ frames[f.home].own = f.out
              /\ \A j \in (f.home + 1) .. Len(frames) : frames[j].own # f.out,
           frames' = Append(frames, f), temps' = temps, blocks' = blocks
    PROVE  IInv'
<1> DEFINE n == Len(frames)
<1>1. frames \in Seq(Frame) /\ n \in Nat
  BY DEF IInv, TypeOK
<1>2. /\ frames' \in Seq(Frame) /\ Len(frames') = n + 1
      /\ \A k \in 1 .. n : frames'[k] = frames[k]
      /\ frames'[n + 1] = f
  BY <1>1
<1>3. TypeOK' /\ TempsSound' /\ Below' /\ Apart' /\ AlignsPositive'
  BY <1>2 DEF IInv, TypeOK, TempsSound, Below, Apart, AlignsPositive
<1>4. FramesSound'
  <2> SUFFICES ASSUME NEW k \in 1 .. (n + 1)
               PROVE  /\ frames'[k].mark =< temps[frames'[k].own].reserved
                      /\ frames'[k].mark =< temps[frames'[k].own].commited
                      /\ frames'[k].out # NoOut =>
                            /\ frames'[k].home \in 1 .. (k - 1)
                            /\ frames'[frames'[k].home].own = frames'[k].out
                            /\ \A j \in (frames'[k].home + 1) .. k :
                                  frames'[j].own # frames'[k].out
    BY <1>2 DEF FramesSound
  <2>1. CASE k \in 1 .. n
    <3>1. /\ frames[k] \in Frame
          /\ frames[k].mark =< temps[frames[k].own].reserved
          /\ frames[k].mark =< temps[frames[k].own].commited
          /\ frames[k].out # NoOut =>
                /\ frames[k].home \in 1 .. (k - 1)
                /\ frames[frames[k].home].own = frames[k].out
                /\ \A j \in (frames[k].home + 1) .. k : frames[j].own # frames[k].out
      BY <1>1, <2>1 DEF IInv, FramesSound
    <3> QED
      BY <1>1, <1>2, <2>1, <3>1
  <2>2. CASE k = n + 1
    <3>1. temps[f.own].pos =< temps[f.own].reserved /\ temps[f.own].pos =< temps[f.own].commited
      BY DEF IInv, TempsSound, Frame
    <3>2. ASSUME f.out # NoOut
          PROVE  /\ f.home \in 1 .. (k - 1)
                 /\ frames'[f.home].own = f.out
                 /\ \A j \in (f.home + 1) .. k : frames'[j].own # f.out
      <4>1. f.home \in 1 .. n /\ frames[f.home].own = f.out
        BY <3>2
      <4>2. ASSUME NEW j \in (f.home + 1) .. k
            PROVE  frames'[j].own # f.out
        <5>1. CASE j = n + 1
          BY <1>2, <3>2, <5>1
        <5>2. CASE j # n + 1
          <6>1. j \in 1 .. n /\ j \in (f.home + 1) .. Len(frames)
            BY <1>1, <2>2, <4>1, <5>2
          <6> QED
            BY <1>2, <3>2, <6>1
        <5> QED
          BY <5>1, <5>2
      <4> QED
        BY <1>1, <1>2, <2>2, <4>1, <4>2
    <3> QED
      BY <1>2, <2>2, <3>1, <3>2
  <2> QED
    BY <1>1, <2>1, <2>2
<1>5. BlocksOwned'
  BY <1>1, <1>2 DEF IInv, BlocksOwned
<1>6. MarksKeep'
  <2> SUFFICES ASSUME NEW k \in 1 .. (n + 1), NEW b \in blocks,
                      b.temp = frames'[k].own, b.owner < k, b.size > 0
               PROVE  BlockEnd(b) =< frames'[k].mark
    BY <1>2 DEF MarksKeep
  <2>1. CASE k \in 1 .. n
    BY <1>2, <2>1 DEF IInv, MarksKeep
  <2>2. CASE k = n + 1
    BY <1>2, <2>2 DEF IInv, Below
  <2> QED
    BY <1>1, <2>1, <2>2
<1> QED
  BY <1>3, <1>4, <1>5, <1>6 DEF IInv

(* scrath, with and without clobber, pushes a sound frame. *)
LEMMA CallKeeps ==
    ASSUME IInv, CallNoClobber \/ CallStep
    PROVE  IInv'
<1> USE DEF TempIds, NoOut
<1>1. \A t \in TempIds : temps[t].pos \in Nat
  BY DEF IInv, TypeOK, Arena
<1>2. CASE CallNoClobber
  <2> DEFINE f == [own |-> 0, mark |-> temps[0].pos, out |-> NoOut, home |-> 0]
  <2>1. f \in Frame /\ f.mark = temps[f.own].pos /\ f.out = NoOut
    BY <1>1 DEF Frame
  <2>2. frames' = Append(frames, f) /\ temps' = temps /\ blocks' = blocks
    BY <1>2 DEF CallNoClobber
  <2> HIDE DEF f
  <2> QED
    BY <2>1, <2>2, PushKeeps
<1>3. ASSUME NEW target \in Targets, Depth > 0,
             CallWithClobber(target.temp, target.owner)
      PROVE  IInv'
  <2> DEFINE t == TempFor(target.temp)
             f == [own |-> t, mark |-> temps[t].pos, out |-> target.temp,
                   home |-> target.owner]
  <2>1. /\ target.temp \in TempIds
        /\ target.owner \in 1 .. Len(frames)
        /\ frames[target.owner].own = target.temp
        /\ \A k \in (target.owner + 1) .. Len(frames) : frames[k].own # target.temp
    BY <1>3, TargetInnermost
  <2>2. t \in TempIds /\ t # target.temp
    BY <2>1 DEF TempFor
  <2>3. /\ f \in Frame /\ f.mark = temps[f.own].pos /\ f.own # f.out
        /\ f.out = target.temp /\ f.home = target.owner
    BY <1>1, <2>1, <2>2 DEF Frame
  <2>4. frames' = Append(frames, f) /\ temps' = temps /\ blocks' = blocks
    BY <1>3 DEF CallWithClobber
  <2> HIDE DEF f, t
  <2> QED
    BY <2>1, <2>3, <2>4, PushKeeps
<1>4. CASE CallStep
  <2>1. CASE CallWithClobber(Top.own, Depth)
    <3> DEFINE target == [temp |-> Top.own, owner |-> Depth]
    <3>1. target \in Targets /\ target.temp = Top.own /\ target.owner = Depth
      BY DEF Targets
    <3> HIDE DEF target
    <3> QED
      BY <1>3, <1>4, <2>1, <3>1 DEF CallStep
  <2>2. CASE Top.out # NoOut /\ CallWithClobber(Top.out, Top.home)
    <3> DEFINE target == [temp |-> Top.out, owner |-> Top.home]
    <3>1. target \in Targets /\ target.temp = Top.out /\ target.owner = Top.home
      BY <2>2 DEF Targets
    <3> HIDE DEF target
    <3> QED
      BY <1>3, <1>4, <2>2, <3>1 DEF CallStep
  <2> QED
    BY <1>4, <2>1, <2>2 DEF CallStep
<1> QED
  BY <1>2, <1>4

(* scrath_end gives back only memory its own frame used. *)
LEMMA ReturnKeeps ==
    ASSUME IInv, Return
    PROVE  IInv'
<1> DEFINE n == Len(frames)
<1>1. frames \in Seq(Frame) /\ n \in Nat /\ n > 0 /\ frames[n] \in Frame
  BY DEF IInv, TypeOK, Return, Depth
<1>2. /\ frames' \in Seq(Frame) /\ Len(frames') = n - 1
      /\ \A k \in 1 .. (n - 1) : frames'[k] = frames[k]
  <2>1. frames' = SubSeq(frames, 1, n - 1)
    BY DEF Return, Depth
  <2>2. \A i \in 1 .. (n - 1) : frames[i] \in Frame
    BY <1>1
  <2>3. /\ SubSeq(frames, 1, n - 1) \in Seq(Frame)
        /\ Len(SubSeq(frames, 1, n - 1)) = IF 1 =< n - 1 THEN (n - 1) - 1 + 1 ELSE 0
        /\ \A i \in 1 .. ((n - 1) - 1 + 1) : SubSeq(frames, 1, n - 1)[i] = frames[1 + i - 1]
    BY <1>1, <2>2, SubSeqProperties
  <2>4. \A k \in 1 .. (n - 1) : SubSeq(frames, 1, n - 1)[k] = frames[k]
    <3> TAKE k \in 1 .. (n - 1)
    <3>1. k \in 1 .. ((n - 1) - 1 + 1) /\ 1 + k - 1 = k
      BY <1>1
    <3> QED
      BY <2>3, <3>1
  <2>5. n \in Nat /\ n > 0
    BY <1>1
  <2> HIDE DEF n
  <2>6. (IF 1 =< n - 1 THEN (n - 1) - 1 + 1 ELSE 0) = n - 1
    BY <2>5
  <2> DEFINE s == SubSeq(frames, 1, n - 1)
             m == IF 1 =< n - 1 THEN (n - 1) - 1 + 1 ELSE 0
  <2>7. s \in Seq(Frame) /\ Len(s) = m
    BY <2>3, Zenon
  <2>8. m = n - 1
    BY <2>6, Zenon
  <2>9. frames' = s /\ \A k \in 1 .. (n - 1) : s[k] = frames[k]
    BY <2>1, <2>4, Zenon
  <2> HIDE DEF s, m
  <2> QED
    BY <2>7, <2>8, <2>9, Zenon
<1> DEFINE t == frames[n].own
<1>3. t \in TempIds /\ temps[t] \in Arena /\ frames[n].mark \in Nat
  BY <1>1 DEF IInv, TypeOK, Frame
<1>4. /\ temps' = [temps EXCEPT ![t] = AfterScope(temps[t], frames[n].mark)]
      /\ blocks' = {b \in blocks : b.owner # n}
  BY DEF Return, Top, Depth
<1>5. /\ AfterScope(temps[t], frames[n].mark) \in Arena
      /\ AfterScope(temps[t], frames[n].mark).pos = frames[n].mark
      /\ AfterScope(temps[t], frames[n].mark).reserved = temps[t].reserved
      /\ AfterScope(temps[t], frames[n].mark).commited = temps[t].commited
  BY <1>3 DEF AfterScope, Arena
<1>6. \A u \in TempIds : /\ temps'[u] \in Arena
                         /\ temps'[u].pos = IF u = t THEN frames[n].mark ELSE temps[u].pos
                         /\ temps'[u].reserved = temps[u].reserved
                         /\ temps'[u].commited = temps[u].commited
  BY <1>3, <1>4, <1>5 DEF IInv, TypeOK
<1>7. TypeOK'
  BY <1>2, <1>3, <1>4, <1>5 DEF IInv, TypeOK
<1>8. TempsSound'
  BY <1>1, <1>3, <1>6 DEF IInv, TempsSound, FramesSound
<1>9. FramesSound'
  <2> SUFFICES ASSUME NEW k \in 1 .. (n - 1)
               PROVE  /\ frames[k].mark =< temps'[frames[k].own].reserved
                      /\ frames[k].mark =< temps'[frames[k].own].commited
                      /\ frames[k].out # NoOut =>
                            /\ frames[k].home \in 1 .. (k - 1)
                            /\ frames'[frames[k].home].own = frames[k].out
                            /\ \A j \in (frames[k].home + 1) .. k :
                                  frames'[j].own # frames[k].out
    BY <1>2 DEF FramesSound
  <2>1. /\ frames[k] \in Frame
        /\ frames[k].mark =< temps[frames[k].own].reserved
        /\ frames[k].mark =< temps[frames[k].own].commited
        /\ frames[k].out # NoOut =>
              /\ frames[k].home \in 1 .. (k - 1)
              /\ frames[frames[k].home].own = frames[k].out
              /\ \A j \in (frames[k].home + 1) .. k : frames[j].own # frames[k].out
    BY <1>1 DEF IInv, FramesSound
  <2>2. frames[k].own \in TempIds
    BY <2>1 DEF Frame
  <2>3. \A j \in 1 .. k : frames'[j] = frames[j]
    BY <1>1, <1>2
  <2> HIDE DEF n
  <2>4. ASSUME frames[k].out # NoOut
        PROVE  /\ frames[k].home \in 1 .. (k - 1)
               /\ frames'[frames[k].home].own = frames[k].out
               /\ \A j \in (frames[k].home + 1) .. k : frames'[j].own # frames[k].out
    <3>1. /\ frames[k].home \in 1 .. (k - 1)
          /\ frames[frames[k].home].own = frames[k].out
          /\ \A j \in (frames[k].home + 1) .. k : frames[j].own # frames[k].out
      BY <2>1, <2>4
    <3>2. frames[k].home \in 1 .. k /\ (frames[k].home + 1) .. k \subseteq 1 .. k
      BY <3>1
    <3> QED
      BY <2>3, <3>1, <3>2
  <2>5. /\ frames[k].mark =< temps'[frames[k].own].reserved
        /\ frames[k].mark =< temps'[frames[k].own].commited
    BY <1>6, <2>1, <2>2
  <2> QED
    BY <2>4, <2>5
<1>10. \A b \in blocks' : b \in blocks /\ b.owner \in 1 .. (n - 1)
  BY <1>1, <1>4 DEF IInv, BlocksOwned
<1>11. BlocksOwned' /\ MarksKeep' /\ Apart' /\ AlignsPositive'
  BY <1>1, <1>2, <1>10 DEF IInv, BlocksOwned, MarksKeep, Apart, AlignsPositive
<1>12. Below'
  <2> SUFFICES ASSUME NEW b \in blocks', b.size > 0
               PROVE  BlockEnd(b) =< temps'[b.temp].pos
    BY DEF Below
  <2>1. b.temp \in TempIds /\ BlockEnd(b) =< temps[b.temp].pos
    BY <1>10 DEF IInv, TypeOK, Below, Block
  <2>2. CASE b.temp = t
    BY <1>1, <1>6, <1>10, <2>1, <2>2 DEF IInv, MarksKeep
  <2>3. CASE b.temp # t
    BY <1>6, <2>1, <2>3
  <2> QED
    BY <2>2, <2>3
<1> QED
  BY <1>7, <1>8, <1>9, <1>11, <1>12 DEF IInv

(* The invariant is inductive. *)
LEMMA StepKeeps ==
    ASSUME ArnaAssumption, IInv, [Next]_vars
    PROVE  IInv'
<1>1. CASE CallNoClobber \/ CallStep
  BY <1>1, CallKeeps
<1>2. CASE AllocStep
  BY <1>2, AllocKeeps DEF AllocStep
<1>3. CASE FreeStep
  BY <1>3, FreeKeeps DEF FreeStep
<1>4. CASE GrowStep
  BY <1>4, GrowKeeps DEF GrowStep
<1>5. CASE Return
  BY <1>5, ReturnKeeps
<1>6. CASE UNCHANGED vars
  <2>1. temps' = temps /\ frames' = frames /\ blocks' = blocks
    BY <1>6 DEF vars
  <2>2. TypeOK' /\ TempsSound' /\ BlocksOwned' /\ Below' /\ AlignsPositive'
    BY <2>1 DEF IInv, TypeOK, TempsSound, BlocksOwned, Below, AlignsPositive
  <2>3. FramesSound'
    BY <2>1 DEF IInv, FramesSound
  <2>4. MarksKeep' /\ Apart'
    BY <2>1 DEF IInv, MarksKeep, Apart
  <2> QED
    BY <2>2, <2>3, <2>4 DEF IInv
<1> QED
  BY <1>1, <1>2, <1>3, <1>4, <1>5, <1>6 DEF Next

(* init_scratch establishes the invariant. *)
LEMMA InitKeeps ==
    ASSUME ScratchAssumption, Init
    PROVE  IInv
<1>1. frames = <<>> /\ Len(frames) = 0 /\ blocks = {}
  BY DEF Init
<1>2. \A t \in TempIds : temps[t] = InitVirtual(Reserved)
  BY DEF Init
<1>3. TypeOK /\ TempsSound
  BY <1>1, <1>2 DEF Init, TypeOK, TempsSound, InitVirtual, Arena, ScratchAssumption
<1> QED
  BY <1>1, <1>3 DEF IInv, FramesSound, BlocksOwned, MarksKeep, Below, Apart, AlignsPositive

(* The scratch discipline is sound: no nesting of scrath scopes lets one    *)
(* procedure overwrite memory another one on the stack still uses.          *)
THEOREM ScratchNeverClobbers == Spec => []NoClobber
<1>1. Init => IInv
  BY InitKeeps, ScratchAssumption
<1>2. IInv /\ [Next]_vars => IInv'
  BY StepKeeps, ArnaAssumption
<1>3. IInv => NoClobber
  <2> SUFFICES ASSUME IInv PROVE NoClobber
    OBVIOUS
  <2>1. \A b \in blocks : b.temp \in TempIds
    BY DEF IInv, TypeOK, Block
  <2> QED
    BY <2>1 DEF IInv, TempsSound, Below, Apart, NoClobber, InUse
<1> QED
  BY <1>1, <1>2, <1>3, PTL DEF Spec

(* The bump pointers and marks of the scratch temporaries stay natural      *)
(* numbers: no Free or scrath_end ever takes pos below zero.                *)
THEOREM ScratchTypeCorrect == Spec => []TypeOK
<1>1. Init => IInv
  BY InitKeeps, ScratchAssumption
<1>2. IInv /\ [Next]_vars => IInv'
  BY StepKeeps, ArnaAssumption
<1>3. IInv => TypeOK
  BY DEF IInv
<1> QED
  BY <1>1, <1>2, <1>3, PTL DEF Spec

(* Every scrath_end on the stack puts back a pos above all the memory its   *)
(* callers use.                                                             *)
THEOREM ScratchReturnsKeepCallers == Spec => []ReturnsKeepCallers
<1>1. Init => IInv
  BY InitKeeps, ScratchAssumption
<1>2. IInv /\ [Next]_vars => IInv'
  BY StepKeeps, ArnaAssumption
<1>3. IInv => ReturnsKeepCallers
  BY DEF IInv, TypeOK, MarksKeep, ReturnsKeepCallers
<1> QED
  BY <1>1, <1>2, <1>3, PTL DEF Spec
=============================================================================
