------------------------- MODULE GraphSubsumeProofs -------------------------
(***************************************************************************)
(* Proofs about the node graph, part 2: the steps of subsume, by another   *)
(* node and by nil, keep the invariant of GraphDeleteProofs.               *)
(***************************************************************************)
EXTENDS GraphDeleteProofs

(* subsume starts: it remembers the uses to move.                            *)
LEMMA SubsumeBeginKeeps ==
    ASSUME Core(g, todo), PinsHeld(g, todo), SubsumeBegin
    PROVE  Core(g', todo') /\ PinsHeld(g', todo')
<1>1. PICK f : f = Head(todo)
  OBVIOUS
<1>2. PICK r : r = Tail(todo)
  OBVIOUS
<1>3. PICK f2 : f2 = [op |-> "move", with |-> f.with, target |-> f.target,
                      left |-> g.outs[f.target]]
  OBVIOUS
<1>4. /\ f.op = "subsume" /\ todo # <<>>
      /\ IF Alive(g, f.target) /\ (f.with = 0 \/ Alive(g, f.with))
         THEN g' = g /\ todo' = <<f2>> \o r
         ELSE g' = g /\ todo' = todo
  BY <1>1, <1>2, <1>3 DEF SubsumeBegin, Running, Frame, Fail
<1>5. CASE ~ (Alive(g, f.target) /\ (f.with = 0 \/ Alive(g, f.with)))
  BY <1>4, <1>5
<1>6. CASE Alive(g, f.target) /\ (f.with = 0 \/ Alive(g, f.with))
  <2>1. todo = <<f>> \o r /\ IsFrame(f) /\ StackTyped(r) /\ GraphTyped(g)
    BY <1>1, <1>2, <1>4, Top
  <2>2. Silent(f)
    BY <1>4 DEF Silent
  <2> DEFINE R == Range(r)
             F2 == {f2} \cup R
  <2>3. Core(g, r) /\ FrameOK(g, R, f) /\ \A b \in R : MayCall(f, b)
    BY <2>1, <2>2, SilentPop
  <2>4. PinsHeld(g, r)
    BY <1>4, <2>1, PinsSkip
  <2>5. f.with \in IdsOrNil /\ f.target \in Ids
    BY <1>4, <2>1 DEF IsFrame
  <2>6. /\ f2.op = "move" /\ f2.with = f.with /\ f2.target = f.target
        /\ f2.left = g.outs[f.target] /\ IsFrame(f2)
    <3>1. g.outs[f.target] \in SUBSET Uses
      BY <2>1, <2>5 DEF GraphTyped
    <3> QED BY <3>1, <2>5, <1>3 DEF IsFrame
  <2>7. \A b \in R : MayCall(f2, b)
    BY <1>4, <2>3, <2>6 DEF MayCall
  <2>8. \A u : Gone(F2, u) <=> Gone(R, u)
    BY <2>6 DEF Gone
  <2>9. \A m : Nilled(F2, m) <=> Nilled(R, m)
    BY <2>6 DEF Nilled
  <2>10. \A m \in Ids : \A u \in g.outs[m] : ~ Moves(f2, m, u)
    BY <2>6 DEF Moves
  <2>11. FramesOK(g, F2)
    <3>1. FrameOK(g, F2, f2)
      BY <1>4, <1>6, <2>3, <2>6 DEF FrameOK
    <3>2. ASSUME NEW b \in R PROVE FrameOK(g, F2, b)
      <4>1. FrameOK(g, R, b)
        BY <2>3 DEF Core, FramesOK
      <4> HIDE DEF F2, R
      <4> QED BY <4>1, <2>8 DEF FrameOK
    <3> QED BY <3>1, <3>2 DEF FramesOK
  <2>12. SlotsOK(g, F2)
    <3>1. \A m, i : Redirected(g, R, m, i) => Redirected(g, F2, m, i)
      BY DEF Redirected
    <3>2. SlotsOK(g, R)
      BY <2>3 DEF Core
    <3> HIDE DEF F2, R
    <3> QED BY <3>1, <3>2, <2>8 DEF SlotsOK
  <2>13. UsesOK(g, F2)
    <3>1. UsesOK(g, R)
      BY <2>3 DEF Core
    <3> SUFFICES ASSUME NEW m \in Ids, ~ Nilled(F2, m), NEW u \in g.outs[m]
                 PROVE  /\ Alive(g, u[1]) /\ u[2] \in DOMAIN g.inps[u[1]]
                        /\ ~ Gone(F2, u)
                        /\ \A b \in F2 : Moves(b, m, u) => Slot(g, u) = b.with
                        /\ (\A b \in F2 : ~ Moves(b, m, u)) => Slot(g, u) = m
      BY DEF UsesOK
    <3>2. /\ Alive(g, u[1]) /\ u[2] \in DOMAIN g.inps[u[1]]
          /\ ~ Gone(R, u)
          /\ \A b \in R : Moves(b, m, u) => Slot(g, u) = b.with
          /\ (\A b \in R : ~ Moves(b, m, u)) => Slot(g, u) = m
      BY <3>1, <2>9 DEF UsesOK
    <3>3. ~ Moves(f2, m, u)
      BY <2>10
    <3> QED BY <3>2, <3>3, <2>8
  <2>14. Core(g, <<f2>> \o r)
    BY <2>1, <2>3, <2>6, <2>7, <2>11, <2>12, <2>13, CoreCons DEF Core
  <2>15. PinsHeld(g, <<f2>> \o r)
    BY <2>1, <2>4, <2>6, PinsSkip
  <2> QED BY <1>4, <1>6, <2>14, <2>15
<1> QED BY <1>5, <1>6

(* subsume redirects one slot; the use stays with the target until all are   *)
(* redirected.                                                               *)
LEMMA SubsumeMoveKeeps ==
    ASSUME Core(g, todo), PinsHeld(g, todo), NEW use \in Frame.left, SubsumeMove(use)
    PROVE  Core(g', todo') /\ PinsHeld(g', todo')
<1>1. PICK f : f = Head(todo)
  OBVIOUS
<1>2. PICK r : r = Tail(todo)
  OBVIOUS
<1>3. PICK f2 : f2 = [f EXCEPT !.left = f.left \ {use}]
  OBVIOUS
<1>4. PICK q : q = Unintern(g, use[1])
  OBVIOUS
<1>5. PICK h2 : h2 = SetSlot(q, use, f.with)
  OBVIOUS
<1>6. /\ f.op = "move" /\ todo # <<>> /\ use \in f.left
      /\ g' = h2 /\ todo' = <<f2>> \o r
  BY <1>1, <1>2, <1>3, <1>4, <1>5 DEF SubsumeMove, Running, Frame
<1>7. todo = <<f>> \o r /\ IsFrame(f) /\ StackTyped(r) /\ GraphTyped(g)
  BY <1>1, <1>2, <1>6, Top
<1>8. GraphTyped(q) /\ SameEdges(g, q)
  BY <1>4, <1>7, UninternTyped
<1>9. Core(q, <<f>> \o r) /\ PinsHeld(q, <<f>> \o r)
  BY <1>7, <1>8, SameCore
<1> DEFINE R == Range(r)
           F == {f} \cup R
           F2 == {f2} \cup R
<1>10. /\ SinksUnused(q) /\ Nested(r) /\ (\A b \in R : MayCall(f, b))
       /\ FramesOK(q, F) /\ SlotsOK(q, F) /\ UsesOK(q, F)
  BY <1>7, <1>9, CoreCons
<1>11. f \in [op : {"move"}, with : IdsOrNil, target : Ids, left : SUBSET Uses]
  BY <1>6, <1>7 DEF IsFrame
<1>12. /\ f2.op = "move" /\ f2.with = f.with /\ f2.target = f.target
       /\ f2.left = f.left \ {use} /\ IsFrame(f2)
  <2>1. f2 \in [op : {"move"}, with : IdsOrNil, target : Ids, left : SUBSET Uses]
    BY <1>3, <1>11
  <2> QED BY <2>1, <1>3, <1>11 DEF IsFrame
<1>13. use \in Uses /\ f.with \in IdsOrNil /\ f.target \in Ids
  BY <1>6, <1>11
<1>14. /\ GraphTyped(h2)
       /\ h2.kind = q.kind /\ h2.outs = q.outs /\ h2.pins = q.pins
       /\ \A m \in Ids : /\ DOMAIN h2.inps[m] = DOMAIN q.inps[m]
                         /\ \A i \in DOMAIN q.inps[m] :
                              /\ <<m, i>> = use => h2.inps[m][i] = f.with
                              /\ <<m, i>> # use => h2.inps[m][i] = q.inps[m][i]
  <2>1. PICK v : v = f.with
    OBVIOUS
  <2>2. /\ GraphTyped(h2)
        /\ h2.kind = q.kind /\ h2.outs = q.outs /\ h2.pins = q.pins
        /\ \A m \in Ids : /\ DOMAIN h2.inps[m] = DOMAIN q.inps[m]
                          /\ \A i \in DOMAIN q.inps[m] :
                               h2.inps[m][i] = IF <<m, i>> = use THEN v ELSE q.inps[m][i]
    BY <2>1, <1>5, <1>8, <1>13, SetSlotTyped
  <2> QED BY <2>1, <2>2
<1>15. \A b \in R : b.op \in {"rehash", "nil"}
  BY <1>6, <1>7, <1>10, Waiting
<1>16. \A u : ~ Gone(F, u) /\ ~ Gone(F2, u)
  BY <1>6, <1>12, <1>15 DEF Gone
<1>17. \A m : Alive(h2, m) <=> Alive(q, m)
  BY <1>14 DEF Alive
<1>18. /\ Alive(q, f.target) /\ (f.with # 0 => Alive(q, f.with))
       /\ f.left \subseteq q.outs[f.target] /\ f.with # f.target
       /\ (f.with = 0 => q.kind[f.target] \notin Interned)
       /\ (f.with # 0 => q.kind[f.with] \notin Sinks)
  BY <1>6, <1>10 DEF FramesOK, FrameOK
<1>19. \A b \in R : b.op = "nil" => f.target # b.target /\ f.with # b.target
  BY <1>6, <1>10 DEF MayCall
<1>20. /\ Alive(q, use[1]) /\ use[2] \in DOMAIN q.inps[use[1]] /\ Slot(q, use) = f.target
  <2>1. ~ Nilled(F, f.target)
    BY <1>6, <1>19 DEF Nilled
  <2>2. use \in q.outs[f.target]
    BY <1>6, <1>18
  <2>3. \A b \in F : ~ Moves(b, f.target, use)
    BY <1>6, <1>15 DEF Moves
  <2> QED BY <2>1, <2>2, <2>3, <1>10, <1>13 DEF UsesOK
<1>21. FramesOK(h2, F2)
  <2>1. FrameOK(h2, F2, f2)
    BY <1>12, <1>14, <1>17, <1>18 DEF FrameOK
  <2>2. ASSUME NEW b \in R PROVE FrameOK(h2, F2, b)
    <3>1. FrameOK(q, F, b) /\ b.op \in {"rehash", "nil"}
      BY <1>10, <1>15 DEF FramesOK
    <3>2. ASSUME b.op = "nil", NEW m \in Ids, Alive(h2, m), NEW i \in DOMAIN h2.inps[m]
          PROVE  h2.inps[m][i] # b.target
      <4>1. q.inps[m][i] # b.target /\ i \in DOMAIN q.inps[m]
        BY <3>1, <3>2, <1>14, <1>17 DEF FrameOK
      <4>2. f.with # b.target
        BY <3>2, <1>19
      <4> QED BY <4>1, <4>2, <1>14
    <3>3. b.op = "nil" => h2.kind[b.target] \notin Interned
      BY <3>1, <1>14 DEF FrameOK
    <3> QED BY <3>1, <3>2, <3>3 DEF FrameOK
  <2> QED BY <2>1, <2>2 DEF FramesOK
<1>22. SlotsOK(h2, F2)
  <2> SUFFICES ASSUME NEW m \in Ids, Alive(h2, m), NEW i \in DOMAIN h2.inps[m]
               PROVE  \/ h2.inps[m][i] = 0
                      \/ Redirected(h2, F2, m, i) \/ Listed(h2, m, i)
    BY DEF SlotsOK
  <2>1. Alive(q, m) /\ i \in DOMAIN q.inps[m]
    BY <1>14, <1>17
  <2>2. CASE <<m, i>> = use
    <3>1. h2.inps[m][i] = f2.with
      BY <2>1, <2>2, <1>12, <1>14
    <3>2. <<m, i>> \in h2.outs[f2.target] \ f2.left
      BY <2>2, <1>6, <1>12, <1>14, <1>18
    <3> QED BY <3>1, <3>2, <1>12 DEF Redirected
  <2>3. CASE <<m, i>> # use
    <3>1. h2.inps[m][i] = q.inps[m][i]
      BY <2>1, <2>3, <1>14
    <3>2. q.inps[m][i] = 0 \/ Redirected(q, F, m, i) \/ Listed(q, m, i)
      BY <2>1, <1>10, <1>16 DEF SlotsOK
    <3>3. CASE Redirected(q, F, m, i)
      <4>1. q.inps[m][i] = f.with /\ <<m, i>> \in q.outs[f.target] \ f.left
        BY <3>3, <1>15 DEF Redirected
      <4> QED BY <4>1, <3>1, <1>12, <1>14 DEF Redirected
    <3>4. CASE Listed(q, m, i)
      BY <3>1, <3>4, <1>14, <1>17 DEF Listed
    <3> QED BY <3>1, <3>2, <3>3, <3>4
  <2> QED BY <2>2, <2>3
<1>23. UsesOK(h2, F2)
  <2>1. \A m : Nilled(F, m) => Nilled(F2, m)
    BY <1>6 DEF Nilled
  <2>2. \A b \in R : \A m, u : ~ Moves(b, m, u)
    BY <1>15 DEF Moves
  <2> SUFFICES ASSUME NEW m \in Ids, ~ Nilled(F2, m), NEW u \in h2.outs[m]
               PROVE  /\ Alive(h2, u[1]) /\ u[2] \in DOMAIN h2.inps[u[1]]
                      /\ Moves(f2, m, u) => Slot(h2, u) = f2.with
                      /\ ~ Moves(f2, m, u) => Slot(h2, u) = m
    BY <2>2, <1>16 DEF UsesOK
  <2>3. /\ Alive(q, u[1]) /\ u[2] \in DOMAIN q.inps[u[1]]
        /\ Moves(f, m, u) => Slot(q, u) = f.with
        /\ ~ Moves(f, m, u) => Slot(q, u) = m
    <3>1. u \in q.outs[m] /\ ~ Nilled(F, m)
      BY <2>1, <1>14
    <3>2. /\ Alive(q, u[1]) /\ u[2] \in DOMAIN q.inps[u[1]]
          /\ \A b \in F : Moves(b, m, u) => Slot(q, u) = b.with
          /\ (\A b \in F : ~ Moves(b, m, u)) => Slot(q, u) = m
      BY <3>1, <1>10 DEF UsesOK
    <3> QED BY <3>2, <2>2
  <2>4. u[1] \in Ids /\ u = <<u[1], u[2]>>
    <3>1. u \in Uses
      BY <1>14 DEF GraphTyped
    <3> QED BY <3>1 DEF Uses
  <2>5. Alive(h2, u[1]) /\ u[2] \in DOMAIN h2.inps[u[1]]
    BY <2>3, <2>4, <1>14, <1>17
  <2>6. CASE u = use
    <3>1. Slot(h2, u) = f.with
      BY <2>3, <2>4, <2>6, <1>14 DEF Slot
    <3>2. m = f.target
      <4> SUFFICES ASSUME m # f.target PROVE FALSE
        OBVIOUS
      <4>1. ~ Moves(f, m, u)
        BY DEF Moves
      <4> QED BY <4>1, <2>3, <2>6, <1>20
    <3>3. Moves(f2, m, u)
      BY <3>2, <2>6, <1>12 DEF Moves
    <3> QED BY <3>1, <3>3, <2>5, <1>12
  <2>7. CASE u # use
    <3>1. Slot(h2, u) = Slot(q, u)
      BY <2>3, <2>4, <2>7, <1>14 DEF Slot
    <3>2. Moves(f2, m, u) <=> Moves(f, m, u)
      BY <2>7, <1>6, <1>12 DEF Moves
    <3> QED BY <3>1, <3>2, <2>3, <2>5, <1>12
  <2> QED BY <2>6, <2>7
<1>24. SinksUnused(h2)
  BY <1>10, <1>14 DEF SinksUnused
<1>25. \A b \in R : MayCall(f2, b)
  BY <1>6, <1>10, <1>12 DEF MayCall
<1>26. Core(h2, <<f2>> \o r)
  BY <1>7, <1>10, <1>12, <1>14, <1>21, <1>22, <1>23, <1>24, <1>25, CoreCons
<1>27. PinsHeld(h2, <<f2>> \o r)
  <2>1. PinsHeld(q, r)
    BY <1>6, <1>7, <1>8, <1>9, PinsSkip
  <2>2. PinsHeld(h2, r)
    BY <2>1, <1>14, <1>17 DEF PinsHeld
  <2> QED BY <2>2, <1>7, <1>12, <1>14, PinsSkip
<1> QED BY <1>6, <1>26, <1>27

(* All slots are redirected: the new node takes over the uses and pins, with *)
(* one pin more, and the target is deleted.                                  *)
LEMMA SubsumeDeleteKeeps ==
    ASSUME Core(g, todo), PinsHeld(g, todo), SubsumeDelete
    PROVE  Core(g', todo') /\ PinsHeld(g', todo')
<1>1. PICK f : f = Head(todo)
  OBVIOUS
<1>2. PICK r : r = Tail(todo)
  OBVIOUS
<1>3. PICK w : w = f.with
  OBVIOUS
<1>4. PICK d : d = f.target
  OBVIOUS
<1>5. PICK T : T = g.outs[d]
  OBVIOUS
<1>6. PICK o : o = [g.outs EXCEPT ![w] = g.outs[w] \cup T, ![d] = {}]
  OBVIOUS
<1>7. PICK p : p = [g.pins EXCEPT ![w] = g.pins[w] + g.pins[d] + 1, ![d] = 0]
  OBVIOUS
<1>8. PICK h2 : h2 = [g EXCEPT !.outs = o, !.pins = p]
  OBVIOUS
<1>9. PICK k : k = [op |-> "keep", with |-> w, left |-> T]
  OBVIOUS
<1>10. /\ f.op = "move" /\ todo # <<>> /\ f.left = {} /\ w # 0
       /\ g' = h2 /\ todo' = Deleting(h2, d, <<k>> \o r)
  BY <1>1, <1>2, <1>3, <1>4, <1>5, <1>6, <1>7, <1>8, <1>9
     DEF SubsumeDelete, Running, Frame
<1>11. todo = <<f>> \o r /\ IsFrame(f) /\ StackTyped(r) /\ GraphTyped(g)
  BY <1>1, <1>2, <1>10, Top
<1> DEFINE R == Range(r)
           F == {f} \cup R
           K == {k} \cup R
<1>12. /\ SinksUnused(g) /\ Nested(r) /\ (\A b \in R : MayCall(f, b))
       /\ FramesOK(g, F) /\ SlotsOK(g, F) /\ UsesOK(g, F)
  BY <1>11, CoreCons
<1>13. /\ Alive(g, d) /\ Alive(g, w) /\ w # d /\ g.kind[w] \notin Sinks
  BY <1>3, <1>4, <1>10, <1>12 DEF FramesOK, FrameOK
<1>14. d \in Ids /\ w \in Ids
  BY <1>13 DEF Alive
<1>15. /\ h2.kind = g.kind /\ h2.inps = g.inps /\ h2.outs = o /\ h2.pins = p
       /\ h2.table = g.table /\ IsGraph(h2)
  BY <1>8, <1>11 DEF GraphTyped, IsGraph
<1>16. /\ o = [m \in Ids |-> IF m = d THEN {} ELSE IF m = w THEN g.outs[w] \cup T ELSE g.outs[m]]
  BY <1>6, <1>11, <1>13, <1>14 DEF GraphTyped
<1>17. /\ p = [m \in Ids |-> IF m = d THEN 0
                             ELSE IF m = w THEN g.pins[w] + g.pins[d] + 1 ELSE g.pins[m]]
  BY <1>7, <1>11, <1>13, <1>14 DEF GraphTyped
<1>18. GraphTyped(h2)
  <2>1. o \in [Ids -> SUBSET Uses]
    BY <1>5, <1>11, <1>14, <1>16 DEF GraphTyped
  <2>2. p \in [Ids -> Nat]
    <3>1. g.pins[w] + g.pins[d] + 1 \in Nat
      BY <1>11, <1>14 DEF GraphTyped
    <3> QED BY <3>1, <1>11, <1>17 DEF GraphTyped
  <2> QED BY <2>1, <2>2, <1>11, <1>15 DEF GraphTyped
<1>19. /\ k.op = "keep" /\ k.with = w /\ IsFrame(k)
  <2>1. T \in SUBSET Uses
    BY <1>5, <1>11, <1>14 DEF GraphTyped
  <2>2. k \in [op : {"keep", "rehash"}, with : Ids, left : SUBSET Uses]
    BY <2>1, <1>9, <1>14
  <2> QED BY <2>2, <1>9 DEF IsFrame
<1>20. \A b \in R : b.op \in {"rehash", "nil"}
  BY <1>10, <1>11, <1>12, Waiting
<1>21. \A u : ~ Gone(F, u) /\ ~ Gone(K, u)
  BY <1>10, <1>19, <1>20 DEF Gone
<1>22. \A m : Alive(h2, m) <=> Alive(g, m)
  BY <1>15 DEF Alive
<1>23. ~ Nilled(F, d) /\ \A m : Nilled(F, m) <=> Nilled(K, m)
  <2>1. \A b \in R : b.op = "nil" => b.target # d
    BY <1>4, <1>10, <1>12 DEF MayCall
  <2> QED BY <2>1, <1>10, <1>19 DEF Nilled
<1>24. \A u \in T : /\ Alive(g, u[1]) /\ u[2] \in DOMAIN g.inps[u[1]] /\ Slot(g, u) = w
  <2> TAKE u \in T
  <2>1. u \in g.outs[d]
    BY <1>5
  <2>2. Moves(f, d, u)
    BY <1>4, <1>10 DEF Moves
  <2> QED BY <2>1, <2>2, <1>3, <1>12, <1>14, <1>23 DEF UsesOK
<1>25. \A m \in Ids : m # d => \A u \in g.outs[m] : ~ Nilled(F, m) =>
          Alive(g, u[1]) /\ u[2] \in DOMAIN g.inps[u[1]] /\ Slot(g, u) = m
  <2> SUFFICES ASSUME NEW m \in Ids, m # d, NEW u \in g.outs[m], ~ Nilled(F, m)
               PROVE  Alive(g, u[1]) /\ u[2] \in DOMAIN g.inps[u[1]] /\ Slot(g, u) = m
    OBVIOUS
  <2>1. \A b \in F : ~ Moves(b, m, u)
    BY <1>4, <1>20 DEF Moves
  <2> QED BY <2>1, <1>12 DEF UsesOK
<1>26. FramesOK(h2, K)
  <2>1. FrameOK(h2, K, k)
    BY <1>19 DEF FrameOK
  <2>2. ASSUME NEW b \in R PROVE FrameOK(h2, K, b)
    <3>1. FrameOK(g, F, b) /\ b.op \in {"rehash", "nil"}
      BY <1>12, <1>20 DEF FramesOK
    <3>2. b.op = "nil" =>
            /\ h2.kind[b.target] \notin Interned
            /\ \A m \in Ids : Alive(h2, m) =>
                  \A i \in DOMAIN h2.inps[m] : h2.inps[m][i] # b.target
      BY <3>1, <1>15, <1>22 DEF FrameOK
    <3> QED BY <3>1, <3>2 DEF FrameOK
  <2> QED BY <2>1, <2>2 DEF FramesOK
<1>27. SlotsOK(h2, K)
  <2> SUFFICES ASSUME NEW m \in Ids, Alive(h2, m), NEW i \in DOMAIN h2.inps[m]
               PROVE  h2.inps[m][i] = 0 \/ Listed(h2, m, i)
    BY DEF SlotsOK
  <2>1. g.inps[m][i] = 0 \/ Redirected(g, F, m, i) \/ Listed(g, m, i)
    BY <1>12, <1>15, <1>21, <1>22 DEF SlotsOK
  <2>2. CASE Redirected(g, F, m, i)
    <3>1. g.inps[m][i] = w /\ <<m, i>> \in g.outs[d]
      BY <2>2, <1>3, <1>4, <1>20 DEF Redirected
    <3>2. <<m, i>> \in h2.outs[w]
      BY <3>1, <1>5, <1>13, <1>14, <1>15, <1>16
    <3> QED BY <3>1, <3>2, <1>13, <1>15, <1>22 DEF Listed
  <2>3. CASE Listed(g, m, i)
    <3>1. PICK v : v = g.inps[m][i]
      OBVIOUS
    <3>2. Alive(g, v) /\ v \in Ids /\ <<m, i>> \in g.outs[v]
      BY <2>3, <3>1 DEF Listed, Alive
    <3>3. v # d
      <4> SUFFICES ASSUME v = d PROVE FALSE
        OBVIOUS
      <4>1. Slot(g, <<m, i>>) = w
        BY <3>2, <1>5, <1>24
      <4> QED BY <4>1, <3>1, <1>13 DEF Slot
    <3>4. <<m, i>> \in h2.outs[v]
      BY <3>2, <3>3, <1>15, <1>16
    <3> QED BY <3>1, <3>2, <3>4, <1>15, <1>22 DEF Listed
  <2> QED BY <2>1, <2>2, <2>3, <1>15
<1>28. UsesOK(h2, K)
  <2>1. \A b \in K : \A m, u : ~ Moves(b, m, u)
    BY <1>19, <1>20 DEF Moves
  <2> SUFFICES ASSUME NEW m \in Ids, ~ Nilled(F, m), NEW u \in h2.outs[m]
               PROVE  /\ Alive(h2, u[1]) /\ u[2] \in DOMAIN h2.inps[u[1]]
                      /\ Slot(h2, u) = m
    BY <2>1, <1>21, <1>23 DEF UsesOK
  <2>2. m # d
    BY <1>15, <1>16
  <2>3. u \in g.outs[m] \/ (m = w /\ u \in T)
    BY <2>2, <1>14, <1>15, <1>16
  <2>4. Alive(g, u[1]) /\ u[2] \in DOMAIN g.inps[u[1]] /\ Slot(g, u) = m
    BY <2>2, <2>3, <1>24, <1>25
  <2> QED BY <2>4, <1>15, <1>22 DEF Slot
<1>29. SinksUnused(h2)
  <2>1. \A m \in Ids : m # w => h2.outs[m] \subseteq g.outs[m]
    BY <1>15, <1>16
  <2> QED BY <2>1, <1>12, <1>13, <1>15 DEF SinksUnused
<1>30. \A b \in R : MayCall(k, b)
  BY <1>19, <1>20 DEF MayCall
<1>31. Core(h2, <<k>> \o r)
  BY <1>11, <1>12, <1>18, <1>19, <1>26, <1>27, <1>28, <1>29, <1>30, CoreCons
<1>32. Deletable(h2, d)
  <2>1. h2.outs[d] = {} /\ h2.pins[d] = 0
    BY <1>14, <1>15, <1>16, <1>17
  <2> QED BY <2>1, <1>13, <1>22 DEF Deletable
<1>33. PICK t : t = <<k>> \o r
  OBVIOUS
<1>34. Range(t) = K /\ StackTyped(t)
  BY <1>11, <1>19, <1>33, StackCons
<1>35. DeleteFits(d, t)
  BY <1>19, <1>20, <1>34 DEF DeleteFits
<1>36. Core(h2, <<DeleteFrame(d)>> \o t)
  BY <1>31, <1>32, <1>33, <1>35, PushDelete
<1>37. PinsHeld(h2, <<DeleteFrame(d)>> \o t)
  <2>1. PICK e : e = DeleteFrame(d)
    OBVIOUS
  <2>2. e.op = "delete" /\ e.node = d /\ IsFrame(e)
    BY <2>1, <1>14 DEF DeleteFrame, IsFrame
  <2>3. PinsHeld(g, r)
    BY <1>10, <1>11, PinsSkip
  <2>4. ASSUME NEW m \in Ids, Alive(h2, m), m # d
        PROVE  Held(t, m, h2.pins[m])
    <3>1. g.pins[m] \in Nat /\ g.pins[d] \in Nat /\ h2.pins[m] \in Nat
      BY <1>11, <1>14, <1>18 DEF GraphTyped
    <3>2. Held(r, m, g.pins[m])
      BY <2>3, <2>4, <1>20, <1>22 DEF PinsHeld
    <3>3. Held(t, m, h2.pins[m]) <=> HeldOver(k, r, m, h2.pins[m])
      BY <3>1, <1>11, <1>19, <1>33, HeldCons
    <3>4. CASE m = w
      <4>1. h2.pins[m] = g.pins[m] + g.pins[d] + 1
        BY <3>4, <1>13, <1>14, <1>15, <1>17
      <4>2. Holds(k, m)
        BY <3>4, <1>19 DEF Holds
      <4>3. h2.pins[m] # 0 /\ h2.pins[m] - 1 \in Nat /\ g.pins[m] =< h2.pins[m] - 1
        BY <4>1, <3>1
      <4>4. Len(r) \in Nat
        BY <1>11, <1>19, StackCons
      <4>5. Held(r, m, h2.pins[m] - 1)
        BY <4>3, <4>4, <3>1, <3>2, HeldMore
      <4> QED BY <4>2, <4>3, <4>5, <3>3 DEF HeldOver
    <3>5. CASE m # w
      <4>1. h2.pins[m] = g.pins[m]
        BY <3>5, <2>4, <1>15, <1>17
      <4>2. ~ Holds(k, m)
        BY <3>5, <1>19 DEF Holds
      <4> QED BY <4>1, <4>2, <3>2, <3>3 DEF HeldOver
    <3> QED BY <3>4, <3>5
  <2>5. \A m : ~ Holds(e, m)
    BY <2>2 DEF Holds
  <2>6. PinsHeld(h2, <<e>> \o t)
    <3> SUFFICES ASSUME NEW m \in Ids, Alive(h2, m)
                 PROVE  \/ \E b \in {e} \cup Range(t) : b.op = "delete" /\ b.node = m
                        \/ HeldOver(e, t, m, h2.pins[m])
      BY <2>2, <1>18, <1>34, PinsCons
    <3>1. CASE m = d
      BY <3>1, <2>2
    <3>2. CASE m # d
      BY <3>2, <2>4, <2>5 DEF HeldOver
    <3> QED BY <3>1, <3>2
  <2> QED BY <2>1, <2>6
<1> QED BY <1>10, <1>32, <1>33, <1>36, <1>37 DEF Deleting

(* Going on to another use does not change what the call holds.              *)
LEMMA Rehold ==
    ASSUME NEW h, NEW f, NEW f2, NEW r, IsFrame(f), IsFrame(f2), StackTyped(r),
           Core(h, <<f>> \o r), PinsHeld(h, <<f>> \o r),
           f.op \in {"keep", "rehash"}, f2.op \in {"keep", "rehash"}, f2.with = f.with
    PROVE  Core(h, <<f2>> \o r) /\ PinsHeld(h, <<f2>> \o r)
<1>1. Silent(f) /\ Silent(f2)
  BY DEF Silent
<1>2. Core(h, r) /\ FrameOK(h, Range(r), f) /\ \A b \in Range(r) : MayCall(f, b)
  BY <1>1, SilentPop
<1>3. \A b \in Range(r) : b.op \in {"rehash", "nil"}
  BY <1>2, Waiting
<1>4. \A b \in Range(r) : MayCall(f2, b)
  BY <1>3 DEF MayCall
<1>5. FrameOK(h, Range(r), f2)
  BY DEF FrameOK
<1>6. Core(h, <<f2>> \o r)
  BY <1>1, <1>2, <1>4, <1>5, SilentPush
<1>7. \A n : Holds(f, n) <=> Holds(f2, n)
  BY DEF Holds
<1>8. \A n : (\E b \in {f} \cup Range(r) : b.op = "delete" /\ b.node = n) =>
             \E b \in {f2} \cup Range(r) : b.op = "delete" /\ b.node = n
  OBVIOUS
<1>9. PinsHeld(h, <<f2>> \o r)
  <2>1. \A n \in Ids : HeldOver(f, r, n, h.pins[n]) <=> HeldOver(f2, r, n, h.pins[n])
    BY <1>7 DEF HeldOver
  <2>2. GraphTyped(h)
    BY <1>2 DEF Core
  <2> QED BY <2>1, <2>2, <1>8, PinsCons
<1> QED BY <1>6, <1>9

(* Going on to another user does not change the node being nilled.           *)
LEMMA Renil ==
    ASSUME NEW h, NEW f, NEW f2, NEW r, IsFrame(f), IsFrame(f2), StackTyped(r),
           Core(h, <<f>> \o r), PinsHeld(h, <<f>> \o r),
           f.op = "nil", f2.op = "nil", f2.target = f.target
    PROVE  Core(h, <<f2>> \o r) /\ PinsHeld(h, <<f2>> \o r)
<1> DEFINE R == Range(r)
           F == {f} \cup R
           F2 == {f2} \cup R
<1>1. /\ GraphTyped(h) /\ SinksUnused(h) /\ Nested(r) /\ (\A b \in R : MayCall(f, b))
      /\ FramesOK(h, F) /\ SlotsOK(h, F) /\ UsesOK(h, F)
  BY CoreCons
<1>2. \A b \in R : MayCall(f2, b)
  BY <1>1 DEF MayCall
<1>3. \A u : Gone(F2, u) <=> Gone(F, u)
  BY DEF Gone
<1>4. \A n : Nilled(F2, n) <=> Nilled(F, n)
  BY DEF Nilled
<1>5. \A n, i : Redirected(h, F2, n, i) <=> Redirected(h, F, n, i)
  BY DEF Redirected
<1>6. \A n, u : ~ Moves(f, n, u) /\ ~ Moves(f2, n, u)
  BY DEF Moves
<1>7. FramesOK(h, F2)
  <2>1. FrameOK(h, F, f) /\ \A b \in R : FrameOK(h, F, b)
    BY <1>1 DEF FramesOK
  <2>2. FrameOK(h, F2, f2)
    <3>1. /\ h.kind[f.target] \notin Interned
          /\ \A n \in Ids : Alive(h, n) =>
                \A j \in DOMAIN h.inps[n] : h.inps[n][j] # f.target
      BY <2>1 DEF FrameOK
    <3> HIDE DEF F, F2, R
    <3> QED BY <3>1 DEF FrameOK
  <2>3. ASSUME NEW b \in R PROVE FrameOK(h, F2, b)
    <3>1. FrameOK(h, F, b)
      BY <2>1
    <3> HIDE DEF F, F2, R
    <3> QED BY <3>1, <1>3 DEF FrameOK
  <2> QED BY <2>2, <2>3 DEF FramesOK
<1>8. SlotsOK(h, F2)
  <2> HIDE DEF F, F2, R
  <2> QED BY <1>1, <1>3, <1>5 DEF SlotsOK
<1>9. UsesOK(h, F2)
  <2>1. \A n, u : (\A b \in F : ~ Moves(b, n, u)) <=> (\A b \in F2 : ~ Moves(b, n, u))
    BY <1>6
  <2>2. \A n, u : (\A b \in F : Moves(b, n, u) => Slot(h, u) = b.with)
                    <=> (\A b \in F2 : Moves(b, n, u) => Slot(h, u) = b.with)
    BY <1>6
  <2> HIDE DEF F, F2, R
  <2> SUFFICES ASSUME NEW n \in Ids, ~ Nilled(F2, n), NEW use \in h.outs[n]
               PROVE  /\ Alive(h, use[1]) /\ use[2] \in DOMAIN h.inps[use[1]]
                      /\ ~ Gone(F2, use)
                      /\ \A b \in F2 : Moves(b, n, use) => Slot(h, use) = b.with
                      /\ (\A b \in F2 : ~ Moves(b, n, use)) => Slot(h, use) = n
    BY DEF UsesOK
  <2>3. /\ Alive(h, use[1]) /\ use[2] \in DOMAIN h.inps[use[1]]
        /\ ~ Gone(F, use)
        /\ \A b \in F : Moves(b, n, use) => Slot(h, use) = b.with
        /\ (\A b \in F : ~ Moves(b, n, use)) => Slot(h, use) = n
    BY <1>1, <1>4 DEF UsesOK
  <2> QED BY <2>1, <2>2, <2>3, <1>3
<1>10. Core(h, <<f2>> \o r)
  BY <1>1, <1>2, <1>7, <1>8, <1>9, CoreCons
<1>11. PinsHeld(h, <<f2>> \o r)
  BY <1>1, PinsSkip
<1> QED BY <1>10, <1>11

(* The target's deletion has returned; rehashing starts.                     *)
LEMMA SubsumeKeepKeeps ==
    ASSUME Core(g, todo), PinsHeld(g, todo), SubsumeKeep
    PROVE  Core(g', todo') /\ PinsHeld(g', todo')
<1>1. PICK f : f = Head(todo)
  OBVIOUS
<1>2. PICK r : r = Tail(todo)
  OBVIOUS
<1>3. PICK f2 : f2 = [f EXCEPT !.op = "rehash", !.left = f.left \cap g.outs[f.with]]
  OBVIOUS
<1>4. f.op = "keep" /\ todo # <<>> /\ g' = g /\ todo' = <<f2>> \o r
  BY <1>1, <1>2, <1>3 DEF SubsumeKeep, Running, Frame
<1>5. todo = <<f>> \o r /\ IsFrame(f) /\ StackTyped(r) /\ GraphTyped(g)
  BY <1>1, <1>2, <1>4, Top
<1>6. f \in [op : {"keep", "rehash"}, with : Ids, left : SUBSET Uses]
  BY <1>4, <1>5 DEF IsFrame
<1>7. f2 \in [op : {"keep", "rehash"}, with : Ids, left : SUBSET Uses] /\ f2.with = f.with
  BY <1>3, <1>6
<1>8. IsFrame(f2) /\ f2.op \in {"keep", "rehash"}
  BY <1>7 DEF IsFrame
<1>9. Core(g, <<f2>> \o r) /\ PinsHeld(g, <<f2>> \o r)
  BY <1>4, <1>5, <1>7, <1>8, Rehold
<1> QED BY <1>4, <1>9

(* subsume rehashes a moved user, which may be equal to another node now and *)
(* is then subsumed in turn.                                                 *)
LEMMA SubsumeRehashKeeps ==
    ASSUME Core(g, todo), PinsHeld(g, todo), NEW use \in Frame.left, SubsumeRehash(use)
    PROVE  Core(g', todo') /\ PinsHeld(g', todo')
<1>1. PICK f : f = Head(todo)
  OBVIOUS
<1>2. PICK r : r = Tail(todo)
  OBVIOUS
<1>3. PICK f2 : f2 = [f EXCEPT !.left = f.left \ {use}]
  OBVIOUS
<1>4. PICK n : n = use[1]
  OBVIOUS
<1>5. PICK id : id = InternId(g, n)
  OBVIOUS
<1>6. PICK t : t = <<f2>> \o r
  OBVIOUS
<1>7. /\ f.op = "rehash" /\ todo # <<>>
      /\ IF ~ Alive(g, n) THEN g' = g /\ todo' = t
         ELSE /\ g' = Intern(g, n)
              /\ todo' = (IF id = n THEN t ELSE <<SubsumeFrame(id, n)>> \o t)
  BY <1>1, <1>2, <1>3, <1>4, <1>5, <1>6 DEF SubsumeRehash, Running, Frame
<1>8. todo = <<f>> \o r /\ IsFrame(f) /\ StackTyped(r) /\ GraphTyped(g)
  BY <1>1, <1>2, <1>7, Top
<1>9. f \in [op : {"keep", "rehash"}, with : Ids, left : SUBSET Uses]
  BY <1>7, <1>8 DEF IsFrame
<1>10. f2 \in [op : {"keep", "rehash"}, with : Ids, left : SUBSET Uses]
       /\ f2.with = f.with /\ f2.op = "rehash"
  BY <1>3, <1>7, <1>9
<1>11. IsFrame(f2) /\ f2.op \in {"keep", "rehash"}
  BY <1>10 DEF IsFrame
<1>12. Core(g, <<f2>> \o r) /\ PinsHeld(g, <<f2>> \o r)
  BY <1>7, <1>8, <1>10, <1>11, Rehold
<1>13. Core(g, t) /\ PinsHeld(g, t)
  BY <1>6, <1>12
<1>14. CASE ~ Alive(g, n)
  BY <1>7, <1>13, <1>14
<1>15. CASE Alive(g, n)
  <2>1. n \in Ids
    BY <1>15 DEF Alive
  <2>2. PICK h2 : h2 = Intern(g, n)
    OBVIOUS
  <2>3. GraphTyped(h2) /\ SameEdges(g, h2)
    BY <2>1, <2>2, <1>8, InternTyped
  <2>4. Core(h2, t) /\ PinsHeld(h2, t)
    BY <2>3, <1>13, SameCore
  <2>5. id \in Ids /\ (id # n => h2.kind[n] \in Interned /\ h2.kind[id] = h2.kind[n])
    BY <2>1, <2>3, <1>5, <1>8, InternIdTyped DEF SameEdges
  <2>6. \A b \in Range(t) : b.op \in {"rehash", "nil"}
    <3>1. Range(t) = {f2} \cup Range(r)
      BY <1>6, <1>8, <1>11, StackCons
    <3>2. \A b \in Range(r) : MayCall(f2, b)
      BY <1>8, <1>11, <1>12, CoreCons
    <3>3. \A b \in Range(r) : b.op \in {"rehash", "nil"}
      BY <3>2, <1>8, <1>10, Waiting
    <3> QED BY <3>1, <3>3, <1>10
  <2>7. id # n => /\ Core(h2, <<SubsumeFrame(id, n)>> \o t)
                  /\ PinsHeld(h2, <<SubsumeFrame(id, n)>> \o t)
    BY <2>1, <2>4, <2>5, <2>6, PushSubsume
  <2> QED BY <2>2, <2>4, <2>7, <1>7, <1>15
<1> QED BY <1>14, <1>15

(* subsume unpins what it kept, and deletes it if nothing uses it.           *)
LEMMA SubsumeUnpinKeeps ==
    ASSUME Core(g, todo), PinsHeld(g, todo), SubsumeUnpin
    PROVE  Core(g', todo') /\ PinsHeld(g', todo')
<1>1. PICK f : f = Head(todo)
  OBVIOUS
<1>2. PICK r : r = Tail(todo)
  OBVIOUS
<1>3. PICK n : n = f.with
  OBVIOUS
<1>4. PICK p : p = [g.pins EXCEPT ![n] = g.pins[n] - 1]
  OBVIOUS
<1>5. PICK h2 : h2 = [g EXCEPT !.pins = p]
  OBVIOUS
<1>6. /\ f.op = "rehash" /\ todo # <<>>
      /\ IF ~ Alive(g, n) THEN g' = g /\ todo' = todo
         ELSE g' = h2 /\ todo' = Deleting(h2, n, r)
  BY <1>1, <1>2, <1>3, <1>4, <1>5 DEF SubsumeUnpin, Running, Frame, Fail
<1>7. CASE ~ Alive(g, n)
  BY <1>6, <1>7
<1>8. CASE Alive(g, n)
  <2>1. todo = <<f>> \o r /\ IsFrame(f) /\ StackTyped(r) /\ GraphTyped(g)
    BY <1>1, <1>2, <1>6, Top
  <2>2. Silent(f) /\ n \in Ids
    BY <1>6, <1>8 DEF Silent, Alive
  <2> DEFINE R == Range(r)
  <2>3. Core(g, r) /\ \A b \in R : MayCall(f, b)
    BY <2>1, <2>2, SilentPop
  <2>4. \A b \in R : b.op \in {"rehash", "nil"}
    BY <2>1, <2>3, <1>6, Waiting
  <2>5. /\ h2.kind = g.kind /\ h2.inps = g.inps /\ h2.outs = g.outs /\ h2.pins = p
        /\ h2.table = g.table /\ IsGraph(h2)
    BY <2>1, <1>5 DEF GraphTyped, IsGraph
  <2>6. \A m : Holds(f, m) <=> m = n
    BY <1>3, <1>6 DEF Holds
  <2>7. ASSUME NEW m \in Ids, Alive(g, m)
        PROVE  IF m = n THEN g.pins[m] # 0 /\ Held(r, m, g.pins[m] - 1) ELSE Held(r, m, g.pins[m])
    <3>1. ~ \E b \in {f} \cup R : b.op = "delete" /\ b.node = m
      BY <2>4, <1>6
    <3>2. HeldOver(f, r, m, g.pins[m])
      BY <2>1, <2>7, <3>1, PinsCons
    <3> QED BY <3>2, <2>6 DEF HeldOver
  <2>8. \A m \in Ids : p[m] = IF m = n THEN g.pins[m] - 1 ELSE g.pins[m]
    BY <2>1, <1>4 DEF GraphTyped
  <2>9. p \in [Ids -> Nat]
    <3>1. g.pins[n] \in Nat /\ g.pins[n] # 0
      BY <2>1, <2>2, <2>7, <1>8 DEF GraphTyped
    <3>2. g.pins[n] - 1 \in Nat
      BY <3>1
    <3> QED BY <3>2, <2>1, <1>4 DEF GraphTyped
  <2>10. GraphTyped(h2)
    BY <2>1, <2>5, <2>9 DEF GraphTyped
  <2>11. Core(h2, r)
    <3>1. \A m : Alive(h2, m) <=> Alive(g, m)
      BY <2>5 DEF Alive
    <3>2. SinksUnused(h2) /\ Nested(r) /\ StackTyped(r)
      BY <2>3, <2>5 DEF Core, SinksUnused
    <3>3. FramesOK(h2, R)
      <4>1. ASSUME NEW b \in R PROVE FrameOK(h2, R, b)
        <5>1. FrameOK(g, R, b) /\ b.op \in {"rehash", "nil"}
          BY <2>3, <2>4 DEF Core, FramesOK
        <5>2. b.op = "nil" =>
                /\ h2.kind[b.target] \notin Interned
                /\ \A m \in Ids : Alive(h2, m) =>
                      \A i \in DOMAIN h2.inps[m] : h2.inps[m][i] # b.target
          BY <5>1, <3>1, <2>5 DEF FrameOK
        <5> QED BY <5>1, <5>2 DEF FrameOK
      <4> QED BY <4>1 DEF FramesOK
    <3>4. SlotsOK(h2, R)
      BY <3>1, <2>3, <2>5 DEF Core, SlotsOK, Redirected, Listed
    <3>5. UsesOK(h2, R)
      <4> SUFFICES ASSUME NEW m \in Ids, ~ Nilled(R, m), NEW use \in h2.outs[m]
                   PROVE  /\ Alive(h2, use[1]) /\ use[2] \in DOMAIN h2.inps[use[1]]
                          /\ ~ Gone(R, use)
                          /\ \A b \in R : Moves(b, m, use) => Slot(h2, use) = b.with
                          /\ (\A b \in R : ~ Moves(b, m, use)) => Slot(h2, use) = m
        BY DEF UsesOK
      <4>1. use \in g.outs[m] /\ UsesOK(g, R)
        BY <2>3, <2>5 DEF Core
      <4>2. Slot(h2, use) = Slot(g, use)
        BY <2>5 DEF Slot
      <4> HIDE DEF R
      <4>3. /\ Alive(g, use[1]) /\ use[2] \in DOMAIN g.inps[use[1]]
            /\ ~ Gone(R, use)
            /\ \A b \in R : Moves(b, m, use) => Slot(g, use) = b.with
            /\ (\A b \in R : ~ Moves(b, m, use)) => Slot(g, use) = m
        BY <4>1 DEF UsesOK
      <4> QED BY <4>2, <4>3, <3>1, <2>5
    <3> QED BY <3>2, <3>3, <3>4, <3>5, <2>10 DEF Core
  <2>12. PinsHeld(h2, r)
    <3> SUFFICES ASSUME NEW m \in Ids, Alive(h2, m)
                 PROVE  Held(r, m, h2.pins[m])
      BY DEF PinsHeld
    <3>1. Alive(g, m) /\ g.pins[m] \in Nat
      BY <2>1, <2>5 DEF Alive, GraphTyped
    <3>2. h2.pins[m] = IF m = n THEN g.pins[m] - 1 ELSE g.pins[m]
      BY <2>5, <2>8
    <3> QED BY <3>1, <3>2, <2>7
  <2>13. DeleteFits(n, r)
    BY <2>4 DEF DeleteFits
  <2> QED BY <2>11, <2>12, <2>13, <1>6, <1>8, DeletingKeeps
<1> QED BY <1>7, <1>8

(* All slots are nil: subsume by nil starts to rehash the users.             *)
LEMMA NilBeginKeeps ==
    ASSUME Core(g, todo), PinsHeld(g, todo), NilBegin
    PROVE  Core(g', todo') /\ PinsHeld(g', todo')
<1>1. PICK f : f = Head(todo)
  OBVIOUS
<1>2. PICK r : r = Tail(todo)
  OBVIOUS
<1>3. PICK d : d = f.target
  OBVIOUS
<1>4. PICK T : T = g.outs[d]
  OBVIOUS
<1>5. PICK f2 : f2 = [op |-> "nil", target |-> d, left |-> T, changed |-> FALSE,
                      user |-> [use \in T |-> use[1]]]
  OBVIOUS
<1>6. /\ f.op = "move" /\ todo # <<>> /\ f.left = {} /\ f.with = 0
      /\ g' = g /\ todo' = <<f2>> \o r
  BY <1>1, <1>2, <1>3, <1>4, <1>5 DEF NilBegin, Running, Frame
<1>7. todo = <<f>> \o r /\ IsFrame(f) /\ StackTyped(r) /\ GraphTyped(g)
  BY <1>1, <1>2, <1>6, Top
<1> DEFINE R == Range(r)
           F == {f} \cup R
           F2 == {f2} \cup R
<1>8. /\ SinksUnused(g) /\ Nested(r) /\ (\A b \in R : MayCall(f, b))
      /\ FramesOK(g, F) /\ SlotsOK(g, F) /\ UsesOK(g, F)
  BY <1>7, CoreCons
<1>9. Alive(g, d) /\ d \in Ids /\ d # 0 /\ g.kind[d] \notin Interned
  BY <1>3, <1>6, <1>8 DEF FramesOK, FrameOK, Alive, Ids
<1>10. f2.op = "nil" /\ f2.target = d /\ IsFrame(f2)
  BY <1>5, <1>9 DEF IsFrame
<1>11. \A b \in R : b.op \in {"rehash", "nil"}
  BY <1>6, <1>7, <1>8, Waiting
<1>12. \A u : ~ Gone(F, u) /\ ~ Gone(F2, u)
  BY <1>6, <1>10, <1>11 DEF Gone
<1>13. ~ Nilled(F, d)
  BY <1>3, <1>6, <1>8 DEF Nilled, MayCall
<1>14. \A m \in Ids : Alive(g, m) => \A i \in DOMAIN g.inps[m] :
          g.inps[m][i] = 0 \/ Listed(g, m, i)
  <2>1. \A m, i : Redirected(g, F, m, i) => g.inps[m][i] = 0
    BY <1>6, <1>11 DEF Redirected
  <2> QED BY <2>1, <1>8, <1>12 DEF SlotsOK
<1>15. FramesOK(g, F2)
  <2>1. ASSUME NEW m \in Ids, Alive(g, m), NEW i \in DOMAIN g.inps[m], g.inps[m][i] = d
        PROVE  FALSE
    <3>1. <<m, i>> \in g.outs[d]
      BY <2>1, <1>9, <1>14 DEF Listed
    <3>2. Moves(f, d, <<m, i>>)
      BY <1>3, <1>6 DEF Moves
    <3>3. Slot(g, <<m, i>>) = 0
      BY <3>1, <3>2, <1>6, <1>8, <1>9, <1>13 DEF UsesOK
    <3> QED BY <3>3, <2>1, <1>9 DEF Slot
  <2>2. FrameOK(g, F2, f2)
    BY <2>1, <1>9, <1>10 DEF FrameOK
  <2>3. ASSUME NEW b \in R PROVE FrameOK(g, F2, b)
    <3>1. FrameOK(g, F, b) /\ b.op \in {"rehash", "nil"}
      BY <1>8, <1>11 DEF FramesOK
    <3> QED BY <3>1 DEF FrameOK
  <2> QED BY <2>2, <2>3 DEF FramesOK
<1>16. SlotsOK(g, F2)
  BY <1>14 DEF SlotsOK
<1>17. UsesOK(g, F2)
  <2>1. \A b \in F2 : \A m, u : ~ Moves(b, m, u)
    BY <1>10, <1>11 DEF Moves
  <2> SUFFICES ASSUME NEW m \in Ids, ~ Nilled(F2, m), NEW u \in g.outs[m]
               PROVE  /\ Alive(g, u[1]) /\ u[2] \in DOMAIN g.inps[u[1]]
                      /\ Slot(g, u) = m
    BY <2>1, <1>12 DEF UsesOK
  <2>2. m # d /\ ~ Nilled(F, m)
    BY <1>6, <1>10 DEF Nilled
  <2>3. \A b \in F : ~ Moves(b, m, u)
    BY <2>2, <1>3, <1>11 DEF Moves
  <2> QED BY <2>2, <2>3, <1>8 DEF UsesOK
<1>18. \A b \in R : MayCall(f2, b)
  BY <1>10, <1>11 DEF MayCall
<1>19. Core(g, <<f2>> \o r)
  BY <1>7, <1>8, <1>10, <1>15, <1>16, <1>17, <1>18, CoreCons
<1>20. PinsHeld(g, r)
  BY <1>6, <1>7, PinsSkip
<1>21. PinsHeld(g, <<f2>> \o r)
  BY <1>7, <1>10, <1>20, PinsSkip
<1> QED BY <1>6, <1>19, <1>21

(* It rehashes one user, which may be subsumed in turn.                      *)
LEMMA NilRehashKeeps ==
    ASSUME Core(g, todo), PinsHeld(g, todo), NEW use, NilRehash(use)
    PROVE  Core(g', todo') /\ PinsHeld(g', todo')
<1>1. PICK f : f = Head(todo)
  OBVIOUS
<1>2. PICK r : r = Tail(todo)
  OBVIOUS
<1>3. PICK n : n = f.user[use]
  OBVIOUS
<1>4. PICK id : id = InternId(g, n)
  OBVIOUS
<1>5. PICK f2 : f2 = [f EXCEPT !.left = f.left \ {use}, !.user = [f.user EXCEPT ![use] = id],
                               !.changed = f.changed \/ id # n]
  OBVIOUS
<1>6. PICK t : t = <<f2>> \o r
  OBVIOUS
<1>7. f.op = "nil" /\ todo # <<>>
  BY <1>1 DEF NilRehash, Running
<1>8. todo = <<f>> \o r /\ IsFrame(f) /\ StackTyped(r) /\ GraphTyped(g)
  BY <1>1, <1>2, <1>7, Top
<1>9. f = [op |-> "nil", target |-> f.target, left |-> f.left,
           changed |-> f.changed, user |-> f.user] /\ f.target \in Ids
  BY <1>7, <1>8 DEF IsFrame
<1>10. IF ~ Alive(g, n) THEN g' = g /\ todo' = todo
       ELSE /\ g' = Intern(g, n)
            /\ todo' = (IF id = n THEN t ELSE <<SubsumeFrame(id, n)>> \o t)
  BY <1>1, <1>2, <1>3, <1>4, <1>5, <1>6, <1>9 DEF NilRehash, Running, Frame, Fail
<1>11. CASE ~ Alive(g, n)
  BY <1>10, <1>11
<1>12. CASE Alive(g, n)
  <2>1. f2.op = "nil" /\ f2.target = f.target /\ IsFrame(f2)
    <3>1. PICK tg, lf, ch, us : tg = f.target /\ lf = f.left /\ ch = f.changed /\ us = f.user
      OBVIOUS
    <3>2. f = [op |-> "nil", target |-> tg, left |-> lf, changed |-> ch, user |-> us]
      BY <3>1, <1>9
    <3>3. PICK lf2, ch2, us2 : /\ lf2 = f.left \ {use} /\ ch2 = (f.changed \/ id # n)
                               /\ us2 = [f.user EXCEPT ![use] = id]
      OBVIOUS
    <3>4. f2 = [f EXCEPT !.left = lf2, !.user = us2, !.changed = ch2]
      BY <3>3, <1>5
    <3>5. f2 = [op |-> "nil", target |-> tg, left |-> lf2, changed |-> ch2, user |-> us2]
      BY <3>2, <3>4
    <3>6. f2 = [op |-> "nil", target |-> f2.target, left |-> f2.left,
                changed |-> f2.changed, user |-> f2.user]
      BY <3>5
    <3> QED BY <3>1, <3>5, <3>6, <1>9 DEF IsFrame
  <2>2. Core(g, <<f2>> \o r) /\ PinsHeld(g, <<f2>> \o r)
    BY <2>1, <1>7, <1>8, Renil
  <2>3. n \in Ids
    BY <1>12 DEF Alive
  <2>4. PICK h2 : h2 = Intern(g, n)
    OBVIOUS
  <2>5. GraphTyped(h2) /\ SameEdges(g, h2)
    BY <2>3, <2>4, <1>8, InternTyped
  <2>6. Core(h2, t) /\ PinsHeld(h2, t)
    BY <2>2, <2>5, <1>6, SameCore
  <2>7. id \in Ids /\ (id # n => h2.kind[n] \in Interned /\ h2.kind[id] = h2.kind[n])
    BY <2>3, <2>5, <1>4, <1>8, InternIdTyped DEF SameEdges
  <2>8. \A b \in Range(t) : b.op \in {"rehash", "nil"}
    <3>1. Range(t) = {f2} \cup Range(r)
      BY <2>1, <1>6, <1>8, StackCons
    <3>2. \A b \in Range(r) : MayCall(f2, b)
      BY <2>1, <2>2, <1>8, CoreCons
    <3>3. \A b \in Range(r) : b.op \in {"rehash", "nil"}
      BY <3>2, <2>1, <1>8, Waiting
    <3> QED BY <3>1, <3>3, <2>1
  <2>9. id # n => /\ Core(h2, <<SubsumeFrame(id, n)>> \o t)
                  /\ PinsHeld(h2, <<SubsumeFrame(id, n)>> \o t)
    BY <2>3, <2>6, <2>7, <2>8, PushSubsume
  <2> QED BY <2>4, <2>6, <2>9, <1>10, <1>12
<1> QED BY <1>11, <1>12

(* It starts another round, or clears the target's outputs and deletes it.   *)
LEMMA NilRoundKeeps ==
    ASSUME Core(g, todo), PinsHeld(g, todo), NilRound
    PROVE  Core(g', todo') /\ PinsHeld(g', todo')
<1>1. PICK f : f = Head(todo)
  OBVIOUS
<1>2. PICK r : r = Tail(todo)
  OBVIOUS
<1>3. PICK d : d = f.target
  OBVIOUS
<1>4. PICK o : o = [g.outs EXCEPT ![d] = {}]
  OBVIOUS
<1>5. PICK h2 : h2 = [g EXCEPT !.outs = o]
  OBVIOUS
<1>6. PICK f2 : f2 = [f EXCEPT !.left = DOMAIN f.user, !.changed = FALSE]
  OBVIOUS
<1>7. /\ f.op = "nil" /\ todo # <<>>
      /\ IF f.changed THEN g' = g /\ todo' = <<f2>> \o r
         ELSE g' = h2 /\ todo' = Deleting(h2, d, r)
  BY <1>1, <1>2, <1>3, <1>4, <1>5, <1>6 DEF NilRound, Running, Frame
<1>8. todo = <<f>> \o r /\ IsFrame(f) /\ StackTyped(r) /\ GraphTyped(g)
  BY <1>1, <1>2, <1>7, Top
<1>9. f = [op |-> "nil", target |-> f.target, left |-> f.left,
           changed |-> f.changed, user |-> f.user] /\ d \in Ids
  BY <1>3, <1>7, <1>8 DEF IsFrame
<1>10. CASE f.changed
  <2>1. f2.op = "nil" /\ f2.target = f.target /\ IsFrame(f2)
    <3>1. PICK tg, lf, ch, us : tg = f.target /\ lf = f.left /\ ch = f.changed /\ us = f.user
      OBVIOUS
    <3>2. f = [op |-> "nil", target |-> tg, left |-> lf, changed |-> ch, user |-> us]
      BY <3>1, <1>9
    <3>3. PICK lf2 : lf2 = DOMAIN f.user
      OBVIOUS
    <3>4. f2 = [f EXCEPT !.left = lf2, !.changed = FALSE]
      BY <3>3, <1>6
    <3>5. f2 = [op |-> "nil", target |-> tg, left |-> lf2, changed |-> FALSE, user |-> us]
      BY <3>2, <3>4
    <3>6. f2 = [op |-> "nil", target |-> f2.target, left |-> f2.left,
                changed |-> f2.changed, user |-> f2.user]
      BY <3>5
    <3> QED BY <3>1, <3>5, <3>6, <1>3, <1>9 DEF IsFrame
  <2>2. Core(g, <<f2>> \o r) /\ PinsHeld(g, <<f2>> \o r)
    BY <2>1, <1>7, <1>8, Renil
  <2> QED BY <2>2, <1>7, <1>10
<1>11. CASE ~ f.changed
  <2> DEFINE R == Range(r)
             F == {f} \cup R
  <2>1. /\ SinksUnused(g) /\ Nested(r) /\ (\A b \in R : MayCall(f, b))
        /\ FramesOK(g, F) /\ SlotsOK(g, F) /\ UsesOK(g, F)
    BY <1>8, CoreCons
  <2>2. \A b \in R : b.op \in {"rehash", "nil"}
    BY <2>1, <1>7, <1>8, Waiting
  <2>3. /\ h2.kind = g.kind /\ h2.inps = g.inps /\ h2.outs = o /\ h2.pins = g.pins
        /\ h2.table = g.table /\ IsGraph(h2)
    BY <1>5, <1>8 DEF GraphTyped, IsGraph
  <2>4. o = [m \in Ids |-> IF m = d THEN {} ELSE g.outs[m]]
    BY <1>4, <1>8, <1>9 DEF GraphTyped
  <2>5. GraphTyped(h2)
    <3>1. o \in [Ids -> SUBSET Uses]
      BY <2>4, <1>8 DEF GraphTyped
    <3> QED BY <3>1, <2>3, <1>8 DEF GraphTyped
  <2>6. \A m : Alive(h2, m) <=> Alive(g, m)
    BY <2>3 DEF Alive
  <2>7. \A u : ~ Gone(F, u) /\ ~ Gone(R, u)
    BY <2>2, <1>7 DEF Gone
  <2>8. \A m \in Ids : Alive(g, m) => \A i \in DOMAIN g.inps[m] : g.inps[m][i] # d
    BY <2>1, <1>3, <1>7 DEF FramesOK, FrameOK
  <2>9. FramesOK(h2, R)
    <3>1. ASSUME NEW b \in R PROVE FrameOK(h2, R, b)
      <4>1. FrameOK(g, F, b) /\ b.op \in {"rehash", "nil"}
        BY <2>1, <2>2 DEF FramesOK
      <4>2. b.op = "nil" =>
              /\ h2.kind[b.target] \notin Interned
              /\ \A m \in Ids : Alive(h2, m) =>
                    \A i \in DOMAIN h2.inps[m] : h2.inps[m][i] # b.target
        BY <4>1, <2>3, <2>6 DEF FrameOK
      <4> QED BY <4>1, <4>2 DEF FrameOK
    <3> QED BY <3>1 DEF FramesOK
  <2>10. SlotsOK(h2, R)
    <3> SUFFICES ASSUME NEW m \in Ids, Alive(h2, m), NEW i \in DOMAIN h2.inps[m]
                 PROVE  h2.inps[m][i] = 0 \/ Listed(h2, m, i)
      BY DEF SlotsOK
    <3>1. ~ Redirected(g, F, m, i)
      BY <2>2, <1>7 DEF Redirected
    <3>2. g.inps[m][i] = 0 \/ Listed(g, m, i)
      BY <3>1, <2>1, <2>3, <2>6, <2>7 DEF SlotsOK
    <3>3. g.inps[m][i] # d
      BY <2>3, <2>6, <2>8
    <3>4. Listed(g, m, i) => Listed(h2, m, i)
      BY <3>3, <2>3, <2>4, <2>6 DEF Listed, Alive
    <3> QED BY <3>2, <3>4, <2>3
  <2>11. UsesOK(h2, R)
    <3>1. \A b \in F : \A m, u : ~ Moves(b, m, u)
      BY <2>2, <1>7 DEF Moves
    <3> SUFFICES ASSUME NEW m \in Ids, ~ Nilled(R, m), NEW u \in h2.outs[m]
                 PROVE  /\ Alive(h2, u[1]) /\ u[2] \in DOMAIN h2.inps[u[1]]
                        /\ Slot(h2, u) = m
      BY <3>1, <2>7 DEF UsesOK
    <3>2. m # d /\ u \in g.outs[m]
      BY <2>3, <2>4
    <3>3. ~ Nilled(F, m)
      BY <3>2, <1>3 DEF Nilled
    <3>4. Alive(g, u[1]) /\ u[2] \in DOMAIN g.inps[u[1]] /\ Slot(g, u) = m
      BY <3>1, <3>2, <3>3, <2>1 DEF UsesOK
    <3> QED BY <3>4, <2>3, <2>6 DEF Slot
  <2>12. SinksUnused(h2)
    BY <2>1, <2>3, <2>4 DEF SinksUnused
  <2>13. Core(h2, r)
    BY <1>8, <2>1, <2>5, <2>9, <2>10, <2>11, <2>12 DEF Core
  <2>14. PinsHeld(h2, r)
    <3>1. PinsHeld(g, r)
      BY <1>7, <1>8, PinsSkip
    <3> QED BY <3>1, <2>3, <2>6 DEF PinsHeld
  <2>15. DeleteFits(d, r)
    BY <2>2 DEF DeleteFits
  <2> QED BY <2>13, <2>14, <2>15, <1>7, <1>11, DeletingKeeps
<1> QED BY <1>10, <1>11
=============================================================================
