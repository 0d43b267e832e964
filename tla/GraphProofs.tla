----------------------------- MODULE GraphProofs ----------------------------
(***************************************************************************)
(* Proofs about the node graph, part 3: truncate_inputs and the operations *)
(* that start a call keep the invariant of GraphDeleteProofs; TypeOK and   *)
(* UseDefConsistent follow.                                                *)
(***************************************************************************)
EXTENDS GraphSubsumeProofs

(* truncate_inputs removes its use of the next slot, which may start a       *)
(* deletion.                                                                 *)
LEMMA TruncateSlotKeeps ==
    ASSUME Core(g, todo), PinsHeld(g, todo), TruncateSlot
    PROVE  Core(g', todo') /\ PinsHeld(g', todo')
<1>1. PICK f : f = Head(todo)
  OBVIOUS
<1>2. PICK r : r = Tail(todo)
  OBVIOUS
<1>3. PICK n : n = f.node
  OBVIOUS
<1>4. PICK use : use = <<n, f.at>>
  OBVIOUS
<1>5. PICK def : def = g.inps[n][f.at]
  OBVIOUS
<1>6. PICK h2 : h2 = DropOutput(g, def, use)
  OBVIOUS
<1>7. PICK c : c = [op |-> "clear", use |-> use]
  OBVIOUS
<1>8. PICK f2 : f2 = [f EXCEPT !.at = f.at + 1]
  OBVIOUS
<1>9. /\ f.op = "truncate" /\ todo # <<>> /\ f.at =< Len(g.inps[n])
      /\ g' = h2 /\ todo' = Deleting(h2, def, <<c>> \o <<f2>> \o r)
  BY <1>1, <1>2, <1>3, <1>4, <1>5, <1>6, <1>7, <1>8 DEF TruncateSlot, Running, Frame
<1>10. todo = <<f>> \o r /\ IsFrame(f) /\ StackTyped(r) /\ GraphTyped(g)
  BY <1>1, <1>2, <1>9, Top
<1>11. PICK t : t = <<f2>> \o r
  OBVIOUS
<1>12. <<c>> \o <<f2>> \o r = <<c>> \o t
  <2>1. PICK S : r \in Seq(S)
    BY <1>10 DEF StackTyped
  <2>2. r \in Seq(S \cup {c, f2})
    BY <2>1
  <2> QED BY <2>2, <1>11
<1> DEFINE R == Range(r)
           F == {f} \cup R
           F2 == {c} \cup ({f2} \cup R)
<1>13. /\ SinksUnused(g) /\ Nested(r) /\ (\A b \in R : MayCall(f, b))
       /\ FramesOK(g, F) /\ SlotsOK(g, F) /\ UsesOK(g, F)
  BY <1>10, CoreCons
<1>14. f \in [op : {"truncate"}, node : Ids, len : Nat, at : Nat \ {0}]
  BY <1>9, <1>10 DEF IsFrame
<1>15. /\ f2.op = "truncate" /\ f2.node = n /\ f2.len = f.len /\ f2.at = f.at + 1
       /\ IsFrame(f2) /\ n \in Ids /\ f.at \in Nat \ {0}
  <2>1. f2 \in [op : {"truncate"}, node : Ids, len : Nat, at : Nat \ {0}]
    BY <1>8, <1>14
  <2> QED BY <2>1, <1>3, <1>8, <1>14 DEF IsFrame
<1>16. f.at \in DOMAIN g.inps[n] /\ def \in IdsOrNil /\ use \in Uses
  <2>1. g.inps[n] \in Seq(IdsOrNil)
    BY <1>10, <1>15 DEF GraphTyped
  <2>2. f.at \in 1 .. Len(g.inps[n])
    BY <2>1, <1>9, <1>15
  <2> QED BY <2>1, <2>2, <1>4, <1>5, <1>15 DEF Uses
<1>17. c.op = "clear" /\ c.use = use /\ IsFrame(c)
  BY <1>7, <1>16 DEF IsFrame
<1>18. /\ GraphTyped(h2) /\ h2.kind = g.kind /\ h2.inps = g.inps /\ h2.pins = g.pins
       /\ h2.outs = [m \in Ids |-> IF m = def THEN g.outs[m] \ {use} ELSE g.outs[m]]
  BY <1>6, <1>10, <1>16, DropOutputTyped
<1>19. \A b \in R : b.op \in {"rehash", "nil"}
  BY <1>9, <1>10, <1>13, Waiting
<1>20. \A u : ~ Gone(F, u) /\ (Gone(F2, u) <=> u = use)
  BY <1>9, <1>15, <1>17, <1>19 DEF Gone
<1>21. \A m : Alive(h2, m) <=> Alive(g, m)
  BY <1>18 DEF Alive
<1>22. /\ Alive(g, n) /\ g.outs[n] = {} /\ f.len =< Len(g.inps[n])
       /\ \A i \in DOMAIN g.inps[n] : f.len < i /\ i < f.at => g.inps[n][i] = 0
  BY <1>3, <1>9, <1>13, <1>20 DEF FramesOK, FrameOK
<1>23. \A m \in Ids : h2.outs[m] \subseteq g.outs[m]
  BY <1>18
<1>24. FramesOK(h2, F2)
  <2>1. FrameOK(h2, F2, c)
    BY <1>17 DEF FrameOK
  <2>2. FrameOK(h2, F2, f2)
    <3>1. Alive(h2, n) /\ h2.outs[n] = {} /\ f2.len =< Len(h2.inps[n])
      BY <1>15, <1>18, <1>21, <1>22, <1>23
    <3>2. ASSUME NEW i \in DOMAIN h2.inps[n], f2.len < i, i < f2.at
          PROVE  h2.inps[n][i] = 0 \/ Gone(F2, <<n, i>>)
      <4>1. i \in Nat /\ i \in DOMAIN g.inps[n]
        BY <1>15, <1>18 DEF GraphTyped
      <4>2. CASE i = f.at
        BY <4>2, <1>4, <1>20
      <4>3. CASE i # f.at
        <5>1. i < f.at
          BY <4>1, <4>3, <3>2, <1>15
        <5> QED BY <5>1, <4>1, <3>2, <1>15, <1>18, <1>22
      <4> QED BY <4>2, <4>3
    <3> QED BY <3>1, <3>2, <1>15 DEF FrameOK
  <2>3. ASSUME NEW b \in R PROVE FrameOK(h2, F2, b)
    <3>1. FrameOK(g, F, b) /\ b.op \in {"rehash", "nil"}
      BY <1>13, <1>19 DEF FramesOK
    <3>2. b.op = "nil" =>
            /\ h2.kind[b.target] \notin Interned
            /\ \A m \in Ids : Alive(h2, m) =>
                  \A i \in DOMAIN h2.inps[m] : h2.inps[m][i] # b.target
      BY <3>1, <1>18, <1>21 DEF FrameOK
    <3> QED BY <3>1, <3>2 DEF FrameOK
  <2> QED BY <2>1, <2>2, <2>3 DEF FramesOK
<1>25. SlotsOK(h2, F2)
  <2> SUFFICES ASSUME NEW m \in Ids, Alive(h2, m), NEW i \in DOMAIN h2.inps[m]
               PROVE  h2.inps[m][i] = 0 \/ Gone(F2, <<m, i>>) \/ Listed(h2, m, i)
    BY DEF SlotsOK
  <2>1. ~ Redirected(g, F, m, i)
    BY <1>9, <1>19 DEF Redirected
  <2>2. g.inps[m][i] = 0 \/ Listed(g, m, i)
    BY <2>1, <1>13, <1>18, <1>20, <1>21 DEF SlotsOK
  <2>3. CASE <<m, i>> = use
    BY <2>3, <1>20
  <2>4. CASE <<m, i>> # use
    <3>1. Listed(g, m, i) => Listed(h2, m, i)
      BY <2>4, <1>18, <1>21 DEF Listed, Alive
    <3> QED BY <3>1, <2>2, <1>18
  <2> QED BY <2>3, <2>4
<1>26. UsesOK(h2, F2)
  <2>1. \A b \in F2 : \A m, u : ~ Moves(b, m, u)
    BY <1>15, <1>17, <1>19 DEF Moves
  <2>2. \A m : Nilled(F, m) => Nilled(F2, m)
    BY <1>9 DEF Nilled
  <2> SUFFICES ASSUME NEW m \in Ids, ~ Nilled(F2, m), NEW u \in h2.outs[m]
               PROVE  /\ Alive(h2, u[1]) /\ u[2] \in DOMAIN h2.inps[u[1]]
                      /\ u # use /\ Slot(h2, u) = m
    BY <2>1, <1>20 DEF UsesOK
  <2>3. u \in g.outs[m]
    BY <1>23
  <2>4. \A b \in F : ~ Moves(b, m, u)
    BY <1>9, <1>19 DEF Moves
  <2>5. Alive(g, u[1]) /\ u[2] \in DOMAIN g.inps[u[1]] /\ Slot(g, u) = m
    BY <2>2, <2>3, <2>4, <1>13 DEF UsesOK
  <2>6. u # use
    <3> SUFFICES ASSUME u = use PROVE FALSE
      OBVIOUS
    <3>1. m = def
      BY <2>5, <1>4, <1>5 DEF Slot
    <3> QED BY <3>1, <1>18
  <2> QED BY <2>5, <2>6, <1>18, <1>21 DEF Slot
<1>27. SinksUnused(h2)
  BY <1>13, <1>18, <1>23 DEF SinksUnused
<1>28. StackTyped(t) /\ Range(t) = {f2} \cup R
  <2>1. IsFrame(f2) /\ StackTyped(r)
    BY <1>10, <1>15
  <2>2. StackTyped(<<f2>> \o r) /\ Range(<<f2>> \o r) = {f2} \cup Range(r)
    BY <2>1, StackCons
  <2> QED BY <2>2, <1>11
<1>29. Nested(t)
  <2>1. \A b \in R : MayCall(f2, b)
    BY <1>15, <1>19 DEF MayCall
  <2> QED BY <2>1, <1>10, <1>11, <1>13, <1>15, NestedCons
<1>30. \A b \in Range(t) : MayCall(c, b)
  BY <1>15, <1>17, <1>19, <1>28 DEF MayCall
<1>31. Core(h2, <<c>> \o t)
  BY <1>17, <1>18, <1>24, <1>25, <1>26, <1>27, <1>28, <1>29, <1>30, CoreCons
<1>32. PinsHeld(h2, <<c>> \o t)
  <2>1. PinsHeld(g, r)
    BY <1>9, <1>10, PinsSkip
  <2>2. PinsHeld(h2, r)
    BY <2>1, <1>18, <1>21 DEF PinsHeld
  <2>3. PinsHeld(h2, t)
    BY <2>2, <1>10, <1>11, <1>15, <1>18, PinsSkip
  <2> QED BY <2>3, <1>17, <1>18, <1>28, PinsSkip
<1>33. ASSUME Deletable(h2, def) PROVE DeleteFits(def, <<c>> \o t)
  <2>1. def \in Ids /\ def # 0
    BY <1>33 DEF Deletable, Alive, Ids
  <2>2. ~ Redirected(g, F, n, f.at)
    BY <1>9, <1>19 DEF Redirected
  <2>3. Listed(g, n, f.at)
    BY <2>1, <2>2, <1>5, <1>13, <1>15, <1>16, <1>20, <1>22 DEF SlotsOK
  <2>4. def # n
    BY <2>3, <1>5, <1>22 DEF Listed
  <2>5. Range(<<c>> \o t) = F2
    <3>1. Range(<<c>> \o t) = {c} \cup Range(t)
      <4>1. IsFrame(c) /\ StackTyped(t)
        BY <1>17, <1>28
      <4> QED BY <4>1, StackCons
    <3> QED BY <3>1, <1>28
  <2> QED BY <2>4, <2>5, <1>15, <1>17, <1>19 DEF DeleteFits
<1> QED BY <1>9, <1>12, <1>31, <1>32, <1>33, DeletingKeeps

(* It then clears the slot, which was Gone in between.                       *)
LEMMA TruncateClearKeeps ==
    ASSUME Core(g, todo), PinsHeld(g, todo), TruncateClear
    PROVE  Core(g', todo') /\ PinsHeld(g', todo')
<1>1. PICK f : f = Head(todo)
  OBVIOUS
<1>2. PICK r : r = Tail(todo)
  OBVIOUS
<1>3. PICK use : use = f.use
  OBVIOUS
<1>4. PICK h2 : h2 = IF Alive(g, use[1]) THEN SetSlot(g, use, 0) ELSE g
  OBVIOUS
<1>5. f.op = "clear" /\ todo # <<>> /\ g' = h2 /\ todo' = r
  BY <1>1, <1>2, <1>3, <1>4 DEF TruncateClear, Running, Frame
<1>6. todo = <<f>> \o r /\ IsFrame(f) /\ StackTyped(r) /\ GraphTyped(g)
  BY <1>1, <1>2, <1>5, Top
<1> DEFINE R == Range(r)
           F == {f} \cup R
<1>7. /\ SinksUnused(g) /\ Nested(r) /\ (\A b \in R : MayCall(f, b))
      /\ FramesOK(g, F) /\ SlotsOK(g, F) /\ UsesOK(g, F)
  BY <1>6, CoreCons
<1>8. use \in Uses
  BY <1>3, <1>5, <1>6 DEF IsFrame
<1>9. \A b \in R : b.op \in {"rehash", "nil", "truncate"}
  BY <1>5, <1>6, <1>7, Waiting
<1>10. \A u : ~ Gone(R, u) /\ (Gone(F, u) <=> u = use)
  BY <1>3, <1>5, <1>9 DEF Gone
<1>11. /\ GraphTyped(h2)
       /\ h2.kind = g.kind /\ h2.outs = g.outs /\ h2.pins = g.pins
       /\ \A m \in Ids : /\ DOMAIN h2.inps[m] = DOMAIN g.inps[m]
                         /\ \A i \in DOMAIN g.inps[m] :
                              /\ <<m, i>> # use => h2.inps[m][i] = g.inps[m][i]
                              /\ <<m, i>> = use /\ Alive(g, m) => h2.inps[m][i] = 0
  <2>1. CASE Alive(g, use[1])
    <3>1. 0 \in IdsOrNil
      BY GraphAssumption DEF IdsOrNil
    <3>2. PICK v : v = 0
      OBVIOUS
    <3>3. h2 = SetSlot(g, use, v) /\ v \in IdsOrNil
      BY <2>1, <3>1, <3>2, <1>4
    <3>4. /\ GraphTyped(h2)
          /\ h2.kind = g.kind /\ h2.outs = g.outs /\ h2.pins = g.pins
          /\ \A m \in Ids : /\ DOMAIN h2.inps[m] = DOMAIN g.inps[m]
                            /\ \A i \in DOMAIN g.inps[m] :
                                 h2.inps[m][i] = IF <<m, i>> = use THEN v ELSE g.inps[m][i]
      BY <3>3, <1>6, <1>8, SetSlotTyped
    <3> QED BY <3>2, <3>4
  <2>2. CASE ~ Alive(g, use[1])
    <3>1. h2 = g
      BY <2>2, <1>4
    <3>2. \A m, i : <<m, i>> = use => ~ Alive(g, m)
      BY <2>2
    <3> QED BY <3>1, <3>2, <1>6
  <2> QED BY <2>1, <2>2
<1>12. \A m : Alive(h2, m) <=> Alive(g, m)
  BY <1>11 DEF Alive
<1>13. FramesOK(h2, R)
  <2> SUFFICES ASSUME NEW b \in R PROVE FrameOK(h2, R, b)
    BY DEF FramesOK
  <2>1. FrameOK(g, F, b) /\ b.op \in {"rehash", "nil", "truncate"} /\ IsFrame(b)
    BY <1>6, <1>7, <1>9, FramesTyped DEF FramesOK
  <2>2. CASE b.op = "rehash"
    BY <2>2 DEF FrameOK
  <2>3. CASE b.op = "nil"
    <3>1. b.target \in Ids /\ b.target # 0
      BY <2>1, <2>3 DEF IsFrame, Ids
    <3>2. ASSUME NEW m \in Ids, Alive(h2, m), NEW i \in DOMAIN h2.inps[m]
          PROVE  h2.inps[m][i] # b.target
      <4>1. Alive(g, m) /\ i \in DOMAIN g.inps[m] /\ g.inps[m][i] # b.target
        BY <3>2, <2>1, <2>3, <1>11, <1>12 DEF FrameOK
      <4> QED BY <4>1, <3>1, <1>11
    <3>3. h2.kind[b.target] \notin Interned
      BY <2>1, <2>3, <1>11 DEF FrameOK
    <3> QED BY <3>2, <3>3, <2>3 DEF FrameOK
  <2>4. CASE b.op = "truncate"
    <3>1. /\ Alive(g, b.node) /\ g.outs[b.node] = {} /\ b.len =< Len(g.inps[b.node])
          /\ \A i \in DOMAIN g.inps[b.node] : b.len < i /\ i < b.at =>
                g.inps[b.node][i] = 0 \/ <<b.node, i>> = use
      BY <2>1, <2>4, <1>10 DEF FrameOK
    <3>2. b.node \in Ids
      BY <3>1 DEF Alive
    <3>3. Len(h2.inps[b.node]) = Len(g.inps[b.node])
      <4>1. h2.inps[b.node] \in Seq(IdsOrNil) /\ g.inps[b.node] \in Seq(IdsOrNil)
        BY <3>2, <1>6, <1>11 DEF GraphTyped
      <4>2. DOMAIN h2.inps[b.node] = DOMAIN g.inps[b.node]
        BY <3>2, <1>11
      <4> QED BY <4>1, <4>2
    <3>4. ASSUME NEW i \in DOMAIN h2.inps[b.node], b.len < i, i < b.at
          PROVE  h2.inps[b.node][i] = 0
      <4>1. i \in DOMAIN g.inps[b.node]
        BY <3>2, <1>11
      <4>2. g.inps[b.node][i] = 0 \/ <<b.node, i>> = use
        BY <4>1, <3>1, <3>4
      <4> QED BY <4>1, <4>2, <3>1, <3>2, <1>11
    <3>5. Alive(h2, b.node) /\ h2.outs[b.node] = {}
      BY <3>1, <1>11, <1>12
    <3> QED BY <3>1, <3>3, <3>4, <3>5, <2>4 DEF FrameOK
  <2> QED BY <2>1, <2>2, <2>3, <2>4
<1>14. SlotsOK(h2, R)
  <2> SUFFICES ASSUME NEW m \in Ids, Alive(h2, m), NEW i \in DOMAIN h2.inps[m]
               PROVE  h2.inps[m][i] = 0 \/ Listed(h2, m, i)
    BY DEF SlotsOK
  <2>1. Alive(g, m) /\ i \in DOMAIN g.inps[m]
    BY <1>11, <1>12
  <2>2. ~ Redirected(g, F, m, i)
    BY <1>5, <1>9 DEF Redirected
  <2>3. CASE <<m, i>> = use
    BY <2>1, <2>3, <1>11
  <2>4. CASE <<m, i>> # use
    <3>1. g.inps[m][i] = 0 \/ Listed(g, m, i)
      BY <2>1, <2>2, <2>4, <1>7, <1>10 DEF SlotsOK
    <3>2. h2.inps[m][i] = g.inps[m][i]
      BY <2>1, <2>4, <1>11
    <3> QED BY <3>1, <3>2, <1>11, <1>12 DEF Listed
  <2> QED BY <2>3, <2>4
<1>15. UsesOK(h2, R)
  <2>1. \A b \in F : \A m, u : ~ Moves(b, m, u)
    BY <1>5, <1>9 DEF Moves
  <2>2. \A m : Nilled(F, m) => Nilled(R, m)
    BY <1>5 DEF Nilled
  <2> SUFFICES ASSUME NEW m \in Ids, ~ Nilled(R, m), NEW u \in h2.outs[m]
               PROVE  /\ Alive(h2, u[1]) /\ u[2] \in DOMAIN h2.inps[u[1]]
                      /\ Slot(h2, u) = m
    BY <2>1, <1>10 DEF UsesOK
  <2>3. u \in g.outs[m] /\ u \in Uses
    BY <1>6, <1>11 DEF GraphTyped
  <2>4. /\ Alive(g, u[1]) /\ u[2] \in DOMAIN g.inps[u[1]]
        /\ ~ Gone(F, u) /\ Slot(g, u) = m
    BY <2>1, <2>2, <2>3, <1>7 DEF UsesOK
  <2>5. u = <<u[1], u[2]>> /\ u[1] \in Ids /\ u # use
    BY <2>3, <2>4, <1>10 DEF Uses
  <2> QED BY <2>4, <2>5, <1>11, <1>12 DEF Slot
<1>16. SinksUnused(h2)
  BY <1>7, <1>11 DEF SinksUnused
<1>17. Core(h2, r)
  BY <1>6, <1>7, <1>11, <1>13, <1>14, <1>15, <1>16 DEF Core
<1>18. PinsHeld(h2, r)
  <2>1. PinsHeld(g, r)
    BY <1>5, <1>6, PinsSkip
  <2> QED BY <2>1, <1>11, <1>12 DEF PinsHeld
<1> QED BY <1>5, <1>17, <1>18

(* All slots above the new length are nil: cutting them off loses no use.    *)
LEMMA TruncateEndKeeps ==
    ASSUME Core(g, todo), PinsHeld(g, todo), TruncateEnd
    PROVE  Core(g', todo') /\ PinsHeld(g', todo')
<1>1. PICK f : f = Head(todo)
  OBVIOUS
<1>2. PICK r : r = Tail(todo)
  OBVIOUS
<1>3. PICK n : n = f.node
  OBVIOUS
<1>4. PICK s : s = SubSeq(g.inps[n], 1, f.len)
  OBVIOUS
<1>5. PICK h2 : h2 = [g EXCEPT !.inps = [g.inps EXCEPT ![n] = s]]
  OBVIOUS
<1>6. /\ f.op = "truncate" /\ todo # <<>> /\ f.at > Len(g.inps[n])
      /\ g' = h2 /\ todo' = r
  BY <1>1, <1>2, <1>3, <1>4, <1>5 DEF TruncateEnd, Running, Frame
<1>7. todo = <<f>> \o r /\ IsFrame(f) /\ StackTyped(r) /\ GraphTyped(g)
  BY <1>1, <1>2, <1>6, Top
<1> DEFINE R == Range(r)
           F == {f} \cup R
<1>8. /\ SinksUnused(g) /\ Nested(r) /\ (\A b \in R : MayCall(f, b))
      /\ FramesOK(g, F) /\ SlotsOK(g, F) /\ UsesOK(g, F)
  BY <1>7, CoreCons
<1>9. \A b \in R : b.op \in {"rehash", "nil"}
  BY <1>6, <1>7, <1>8, Waiting
<1>10. \A u : ~ Gone(R, u) /\ ~ Gone(F, u)
  BY <1>6, <1>9 DEF Gone
<1>11. f.len \in Nat /\ f.at \in Nat /\ n \in Ids
  BY <1>3, <1>6, <1>7 DEF IsFrame
<1>12. /\ Alive(g, n) /\ f.len =< Len(g.inps[n])
       /\ \A i \in DOMAIN g.inps[n] : f.len < i /\ i < f.at => g.inps[n][i] = 0
  BY <1>3, <1>6, <1>8, <1>10 DEF FramesOK, FrameOK
<1>13. /\ s \in Seq(IdsOrNil) /\ DOMAIN s = 1 .. f.len
       /\ \A i \in DOMAIN s : i \in DOMAIN g.inps[n] /\ s[i] = g.inps[n][i]
  <2>1. g.inps[n] \in Seq(IdsOrNil)
    BY <1>7, <1>11 DEF GraphTyped
  <2> QED BY <2>1, <1>4, <1>11, <1>12
<1>14. /\ h2.kind = g.kind /\ h2.outs = g.outs /\ h2.pins = g.pins /\ h2.table = g.table
       /\ h2.inps = [g.inps EXCEPT ![n] = s] /\ IsGraph(h2)
  BY <1>5, <1>7 DEF GraphTyped, IsGraph
<1>15. h2.inps[n] = s /\ \A m \in Ids : m # n => h2.inps[m] = g.inps[m]
  BY <1>7, <1>11, <1>14 DEF GraphTyped
<1>16. GraphTyped(h2)
  BY <1>7, <1>13, <1>14 DEF GraphTyped
<1>17. \A m : Alive(h2, m) <=> Alive(g, m)
  BY <1>14 DEF Alive
<1>18. \A m \in Ids : \A i \in DOMAIN h2.inps[m] :
          i \in DOMAIN g.inps[m] /\ h2.inps[m][i] = g.inps[m][i]
  BY <1>13, <1>15
<1>19. FramesOK(h2, R)
  <2>1. ASSUME NEW b \in R PROVE FrameOK(h2, R, b)
    <3>1. FrameOK(g, F, b) /\ b.op \in {"rehash", "nil"}
      BY <1>8, <1>9 DEF FramesOK
    <3>2. b.op = "nil" =>
            /\ h2.kind[b.target] \notin Interned
            /\ \A m \in Ids : Alive(h2, m) =>
                  \A i \in DOMAIN h2.inps[m] : h2.inps[m][i] # b.target
      BY <3>1, <1>14, <1>17, <1>18 DEF FrameOK
    <3> QED BY <3>1, <3>2 DEF FrameOK
  <2> QED BY <2>1 DEF FramesOK
<1>20. SlotsOK(h2, R)
  <2> SUFFICES ASSUME NEW m \in Ids, Alive(h2, m), NEW i \in DOMAIN h2.inps[m]
               PROVE  h2.inps[m][i] = 0 \/ Listed(h2, m, i)
    BY DEF SlotsOK
  <2>1. Alive(g, m) /\ i \in DOMAIN g.inps[m] /\ h2.inps[m][i] = g.inps[m][i]
    BY <1>17, <1>18
  <2>2. ~ Redirected(g, F, m, i)
    BY <1>6, <1>9 DEF Redirected
  <2>3. g.inps[m][i] = 0 \/ Listed(g, m, i)
    BY <2>1, <2>2, <1>8, <1>10 DEF SlotsOK
  <2> QED BY <2>1, <2>3, <1>14, <1>17 DEF Listed
<1>21. UsesOK(h2, R)
  <2>1. \A b \in F : \A m, u : ~ Moves(b, m, u)
    BY <1>6, <1>9 DEF Moves
  <2>2. \A m : Nilled(F, m) => Nilled(R, m)
    BY <1>6 DEF Nilled
  <2> SUFFICES ASSUME NEW m \in Ids, ~ Nilled(R, m), NEW u \in h2.outs[m]
               PROVE  /\ Alive(h2, u[1]) /\ u[2] \in DOMAIN h2.inps[u[1]]
                      /\ Slot(h2, u) = m
    BY <2>1, <1>10 DEF UsesOK
  <2>3. /\ Alive(g, u[1]) /\ u[2] \in DOMAIN g.inps[u[1]] /\ Slot(g, u) = m
    BY <2>1, <2>2, <1>8, <1>14 DEF UsesOK
  <2>4. u[1] \in Ids /\ m # 0
    BY <2>3 DEF Alive, Ids
  <2>5. u[2] \in DOMAIN h2.inps[u[1]]
    <3>1. CASE u[1] # n
      BY <3>1, <2>3, <2>4, <1>15
    <3>2. CASE u[1] = n
      <4>1. g.inps[n] \in Seq(IdsOrNil)
        BY <1>7, <1>11 DEF GraphTyped
      <4>2. u[2] \in Nat /\ u[2] >= 1 /\ u[2] < f.at
        BY <4>1, <3>2, <2>3, <1>6, <1>11
      <4>3. ~ (f.len < u[2])
        BY <4>2, <3>2, <2>3, <2>4, <1>12 DEF Slot
      <4>4. u[2] \in DOMAIN s
        BY <4>2, <4>3, <1>11, <1>13
      <4> QED BY <4>4, <3>2, <1>15
    <3> QED BY <3>1, <3>2
  <2> QED BY <2>3, <2>4, <2>5, <1>17, <1>18 DEF Slot
<1>22. SinksUnused(h2)
  BY <1>8, <1>14 DEF SinksUnused
<1>23. Core(h2, r)
  BY <1>7, <1>8, <1>16, <1>19, <1>20, <1>21, <1>22 DEF Core
<1>24. PinsHeld(h2, r)
  <2>1. PinsHeld(g, r)
    BY <1>6, <1>7, PinsSkip
  <2> QED BY <2>1, <1>14, <1>17 DEF PinsHeld
<1> QED BY <1>6, <1>23, <1>24

(* The first call of a stack.                                                *)
LEMMA SingleFrame ==
    ASSUME NEW f
    PROVE  <<f>> \o <<>> = <<f>>
OBVIOUS

(* add_raw makes a node of live inputs and lists it at each.                 *)
LEMMA AddNodeKeeps ==
    ASSUME Core(g, todo), todo = <<>>, NEW k \in Kinds \ Phis,
           NEW ins \in [DOMAIN Args[k] -> Usable], AddNode(k, ins)
    PROVE  Core(g', todo') /\ PinsHeld(g', todo')
<1>1. PICK n : n = FreeId(g)
  OBVIOUS
<1>2. PICK h1 : h1 = [g EXCEPT !.kind[n] = k, !.inps[n] = ins]
  OBVIOUS
<1>3. PICK h3 : h3 = Intern(h1, n)
  OBVIOUS
<1>4. PICK o : o = [m \in Ids |-> h3.outs[m] \cup
                       {<<n, i>> : i \in {j \in DOMAIN ins : ins[j] = m}}]
  OBVIOUS
<1>5. PICK h2 : h2 = [h3 EXCEPT !.outs = o]
  OBVIOUS
<1>6. GraphTyped(g) /\ SinksUnused(g) /\ Consistent(g)
  BY QuietCore
<1>7. n \in Ids /\ g.kind[n] = "free" /\ ~ Alive(g, n)
  <2>1. n \in NextIds(g)
    BY <1>1 DEF AddNode, HasFree, FreeId
  <2> QED BY <2>1, GraphAssumption DEF NextIds, Alive
<1>8. /\ ins \in Seq(Ids) /\ DOMAIN ins = 1 .. Len(ins) /\ Len(ins) \in Nat
      /\ \A i \in DOMAIN ins : /\ ins[i] \in Ids /\ ins[i] # n /\ Alive(g, ins[i])
                               /\ g.kind[ins[i]] \notin Sinks
  <2>1. Args[k] \in Seq({"ctrl", "value"})
    BY GraphAssumption
  <2>2. PICK l \in Nat : DOMAIN Args[k] = 1 .. l
    BY <2>1
  <2>3. \A i \in 1 .. l : ins[i] \in Usable
    BY <2>2
  <2>4. \A m \in Usable : m \in Ids /\ Alive(g, m) /\ g.kind[m] \notin Sinks
    BY DEF Usable, LiveIds
  <2>5. ins \in Seq(Ids) /\ DOMAIN ins = 1 .. l
    BY <2>2, <2>3, <2>4
  <2> QED BY <2>3, <2>4, <2>5, <1>7
<1>9. /\ h1.kind = [g.kind EXCEPT ![n] = k] /\ h1.inps = [g.inps EXCEPT ![n] = ins]
      /\ h1.outs = g.outs /\ h1.pins = g.pins /\ h1.table = g.table /\ IsGraph(h1)
  BY <1>2, <1>6 DEF GraphTyped, IsGraph
<1>10. GraphTyped(h1)
  <2>1. Ids \subseteq IdsOrNil
    BY GraphAssumption DEF Ids, IdsOrNil
  <2>2. ins \in Seq(IdsOrNil)
    BY <2>1, <1>8
  <2> QED BY <2>2, <1>6, <1>9 DEF GraphTyped
<1>11. GraphTyped(h3) /\ SameEdges(h1, h3)
  BY <1>3, <1>7, <1>10, InternTyped
<1>12. AddRaw(g, k, ins) = [graph |-> h2, id |-> n]
  <2>1. AddRaw(g, k, ins) = IF InternId(h1, n) # n THEN [graph |-> g, id |-> InternId(h1, n)]
                            ELSE [graph |-> h2, id |-> n]
    BY <1>1, <1>2, <1>3, <1>4, <1>5 DEF AddRaw
  <2>2. AddRaw(g, k, ins).id = n
    BY <1>1 DEF AddNode
  <2> QED BY <2>1, <2>2
<1>13. g' = h2 /\ todo' = <<>>
  BY <1>12 DEF AddNode
<1>14. \A m \in Ids : o[m] = g.outs[m] \cup {<<n, i>> : i \in {j \in DOMAIN ins : ins[j] = m}}
  BY <1>4, <1>9, <1>11 DEF SameEdges
<1>15. /\ h2.kind = [g.kind EXCEPT ![n] = k] /\ h2.inps = [g.inps EXCEPT ![n] = ins]
       /\ h2.outs = o /\ h2.pins = g.pins /\ h2.table = h3.table /\ IsGraph(h2)
  BY <1>5, <1>9, <1>11 DEF GraphTyped, IsGraph, SameEdges
<1>16. ASSUME NEW m \in Ids PROVE o[m] \subseteq Uses
  <2>1. PICK T : T = {<<n, i>> : i \in {j \in DOMAIN ins : ins[j] = m}}
    OBVIOUS
  <2>2. g.outs[m] \subseteq Uses
    BY <1>6 DEF GraphTyped
  <2>3. o[m] = g.outs[m] \cup T
    BY <2>1, <1>14
  <2>4. T \subseteq Uses
    BY <2>1, <1>7, <1>8 DEF Uses
  <2> QED BY <2>2, <2>3, <2>4
<1>17. GraphTyped(h2)
  <2>1. o \in [Ids -> SUBSET Uses]
    BY <1>4, <1>16
  <2>2. h2.kind = h3.kind /\ h2.inps = h3.inps /\ h2.pins = h3.pins
    BY <1>9, <1>11, <1>15 DEF SameEdges
  <2> QED BY <2>1, <2>2, <1>11, <1>15, <1>16 DEF GraphTyped
<1>18. /\ h2.kind[n] = k /\ \A m \in Ids : m # n => h2.kind[m] = g.kind[m]
       /\ h2.inps[n] = ins /\ \A m \in Ids : m # n => h2.inps[m] = g.inps[m]
  BY <1>6, <1>7, <1>15 DEF GraphTyped
<1>19. Alive(h2, n) /\ \A m : Alive(g, m) => Alive(h2, m) /\ m # n
  BY <1>7, <1>18 DEF Alive
<1>20. g.outs[n] = {}
  <2> SUFFICES ASSUME NEW u \in g.outs[n] PROVE FALSE
    OBVIOUS
  <2>1. Alive(g, u[1]) /\ u[2] \in DOMAIN g.inps[u[1]] /\ g.inps[u[1]][u[2]] = n
    BY <1>6, <1>7 DEF Consistent, Slot
  <2>2. u[1] \in Ids /\ n # 0
    BY <2>1, <1>7 DEF Alive, Ids
  <2>3. Listed(g, u[1], u[2])
    BY <2>1, <2>2, <1>6 DEF Consistent
  <2> QED BY <2>1, <2>3, <1>7 DEF Listed
<1>21. ASSUME NEW m \in Ids, NEW u \in o[m]
       PROVE  \/ u \in g.outs[m]
              \/ \E i \in DOMAIN ins : u = <<n, i>> /\ ins[i] = m
  BY <1>14, <1>21
<1>22. SinksUnused(h2)
  <2> SUFFICES ASSUME NEW m \in Ids, h2.kind[m] \in Sinks, NEW u \in o[m] PROVE FALSE
    BY <1>15 DEF SinksUnused
  <2>1. CASE m = n
    BY <2>1, <1>8, <1>20, <1>21
  <2>2. CASE m # n
    <3>1. g.kind[m] \in Sinks /\ g.outs[m] = {}
      BY <2>2, <1>6, <1>18 DEF SinksUnused
    <3> QED BY <3>1, <1>8, <1>21
  <2> QED BY <2>1, <2>2
<1>23. ASSUME NEW m \in Ids, Alive(h2, m), NEW i \in DOMAIN h2.inps[m], h2.inps[m][i] # 0
       PROVE  Listed(h2, m, i)
  <2>1. CASE m = n
    <3>1. i \in DOMAIN ins /\ h2.inps[m][i] = ins[i]
      BY <2>1, <1>18, <1>23
    <3>2. <<n, i>> \in o[ins[i]]
      BY <3>1, <1>8, <1>14
    <3> QED BY <2>1, <3>1, <3>2, <1>8, <1>15, <1>19 DEF Listed
  <2>2. CASE m # n
    <3>1. Alive(g, m) /\ i \in DOMAIN g.inps[m] /\ h2.inps[m][i] = g.inps[m][i]
      BY <2>2, <1>18, <1>23 DEF Alive
    <3>2. Listed(g, m, i)
      BY <3>1, <1>6, <1>23 DEF Consistent
    <3>3. Alive(g, g.inps[m][i]) /\ g.inps[m][i] \in Ids
      BY <3>2 DEF Listed, Alive
    <3>4. <<m, i>> \in o[g.inps[m][i]]
      BY <3>2, <3>3, <1>14 DEF Listed
    <3> QED BY <3>1, <3>3, <3>4, <1>15, <1>19 DEF Listed
  <2> QED BY <2>1, <2>2
<1>24. ASSUME NEW m \in Ids, NEW u \in o[m]
       PROVE  Alive(h2, u[1]) /\ u[2] \in DOMAIN h2.inps[u[1]] /\ Slot(h2, u) = m
  <2>1. CASE u \in g.outs[m]
    <3>1. Alive(g, u[1]) /\ u[2] \in DOMAIN g.inps[u[1]] /\ g.inps[u[1]][u[2]] = m
      BY <2>1, <1>6 DEF Consistent, Slot
    <3>2. u[1] \in Ids /\ u[1] # n
      BY <3>1, <1>7 DEF Alive
    <3> QED BY <3>1, <3>2, <1>18, <1>19 DEF Slot
  <2>2. CASE \E i \in DOMAIN ins : u = <<n, i>> /\ ins[i] = m
    BY <2>2, <1>18, <1>19 DEF Slot
  <2> QED BY <2>1, <2>2, <1>21, <1>24
<1>25. Consistent(h2)
  BY <1>15, <1>23, <1>24 DEF Consistent
<1> QED BY <1>13, <1>17, <1>22, <1>25, QuietCore

(* Pins are no edges.                                                        *)
LEMMA RepinCore ==
    ASSUME NEW h, Core(h, <<>>), NEW n \in Ids, NEW c \in Nat
    PROVE  LET h2 == [h EXCEPT !.pins[n] = c] IN Core(h2, <<>>) /\ PinsHeld(h2, <<>>)
<1>1. PICK h2 : h2 = [h EXCEPT !.pins[n] = c]
  OBVIOUS
<1>2. GraphTyped(h) /\ SinksUnused(h) /\ Consistent(h)
  BY QuietCore
<1>3. /\ h2.kind = h.kind /\ h2.inps = h.inps /\ h2.outs = h.outs /\ h2.table = h.table
      /\ h2.pins = [h.pins EXCEPT ![n] = c] /\ IsGraph(h2)
  BY <1>1, <1>2 DEF GraphTyped, IsGraph
<1>4. GraphTyped(h2)
  BY <1>2, <1>3 DEF GraphTyped
<1>5. SinksUnused(h2) /\ Consistent(h2)
  BY <1>2, <1>3 DEF SinksUnused, Consistent, Alive, Listed, Slot
<1> QED BY <1>1, <1>4, <1>5, QuietCore

(* pin.                                                                      *)
LEMMA PinKeeps ==
    ASSUME Core(g, todo), todo = <<>>, NEW n \in Ids, Pin(n)
    PROVE  Core(g', todo') /\ PinsHeld(g', todo')
<1>1. PICK c : c = g.pins[n] + 1
  OBVIOUS
<1>2. c \in Nat
  BY <1>1 DEF Core, GraphTyped
<1>3. g' = [g EXCEPT !.pins[n] = c] /\ todo' = <<>>
  BY <1>1 DEF Pin
<1> QED BY <1>2, <1>3, RepinCore

(* unpin, which deletes an unused node.                                      *)
LEMMA UnpinKeeps ==
    ASSUME Core(g, todo), todo = <<>>, NEW n \in Ids, Unpin(n)
    PROVE  Core(g', todo') /\ PinsHeld(g', todo')
<1>1. PICK c : c = g.pins[n] - 1
  OBVIOUS
<1>2. c \in Nat
  BY <1>1 DEF Core, GraphTyped, Unpin
<1>3. PICK h2 : h2 = [g EXCEPT !.pins[n] = c]
  OBVIOUS
<1>4. g' = h2 /\ todo' = Deleting(h2, n, <<>>)
  BY <1>1, <1>3 DEF Unpin
<1>5. Core(h2, <<>>) /\ PinsHeld(h2, <<>>)
  BY <1>2, <1>3, RepinCore
<1>6. DeleteFits(n, <<>>)
  BY EmptyStack DEF DeleteFits
<1> QED BY <1>4, <1>5, <1>6, DeletingKeeps

(* set_input writes the slot, lists the use at the new input and removes it  *)
(* from the old one, which may start its deletion.                           *)
LEMMA SetInputKeeps ==
    ASSUME Core(g, todo), todo = <<>>, NEW n \in LiveIds, NEW i \in DOMAIN g.inps[n],
           NEW value, value = 0 \/ value \in Usable, SetInput(n, i, value)
    PROVE  Core(g', todo') /\ PinsHeld(g', todo')
<1>1. PICK use : use = <<n, i>>
  OBVIOUS
<1>2. PICK prev : prev = g.inps[n][i]
  OBVIOUS
<1>3. PICK a : a = AddOutput(g, value, use)
  OBVIOUS
<1>4. PICK b : b = SetSlot(a, use, value)
  OBVIOUS
<1>5. PICK h2 : h2 = DropOutput(b, prev, use)
  OBVIOUS
<1>6. PICK s : s = [op |-> "set_done", use |-> use, prev |-> prev, value |-> value]
  OBVIOUS
<1>7. prev # value /\ g' = h2 /\ todo' = Deleting(h2, prev, <<s>>)
  BY <1>1, <1>2, <1>3, <1>4, <1>5, <1>6 DEF SetInput, Assigned, Assigning
<1>8. GraphTyped(g) /\ SinksUnused(g) /\ Consistent(g)
  BY QuietCore
<1>9. /\ n \in Ids /\ Alive(g, n) /\ i \in Nat \ {0} /\ use \in Uses /\ prev \in IdsOrNil
      /\ value \in IdsOrNil
      /\ value # 0 => value \in Ids /\ Alive(g, value) /\ g.kind[value] \notin Sinks
  <2>1. n \in Ids /\ Alive(g, n)
    BY DEF LiveIds
  <2>2. g.inps[n] \in Seq(IdsOrNil)
    BY <2>1, <1>8 DEF GraphTyped
  <2>3. i \in Nat \ {0} /\ prev \in IdsOrNil
    BY <2>2, <1>2
  <2>4. value \in Usable => value \in Ids /\ Alive(g, value) /\ g.kind[value] \notin Sinks
    BY DEF Usable, LiveIds
  <2>5. value \in IdsOrNil
    BY <2>4, GraphAssumption DEF Ids, IdsOrNil
  <2> QED BY <2>1, <2>3, <2>4, <2>5, <1>1 DEF Uses
<1>10. /\ GraphTyped(a) /\ a.kind = g.kind /\ a.inps = g.inps /\ a.pins = g.pins
       /\ a.outs = [m \in Ids |-> IF m = value THEN g.outs[m] \cup {use} ELSE g.outs[m]]
  BY <1>3, <1>8, <1>9, AddOutputTyped
<1>11. /\ GraphTyped(b) /\ b.kind = a.kind /\ b.outs = a.outs /\ b.pins = a.pins
       /\ \A m \in Ids : /\ DOMAIN b.inps[m] = DOMAIN a.inps[m]
                         /\ \A j \in DOMAIN a.inps[m] :
                              b.inps[m][j] = IF <<m, j>> = use THEN value ELSE a.inps[m][j]
  BY <1>4, <1>9, <1>10, SetSlotTyped
<1>12. /\ GraphTyped(h2) /\ h2.kind = b.kind /\ h2.inps = b.inps /\ h2.pins = b.pins
       /\ h2.outs = [m \in Ids |-> IF m = prev THEN b.outs[m] \ {use} ELSE b.outs[m]]
  BY <1>5, <1>9, <1>11, DropOutputTyped
<1>13. \A m \in Ids : \A u : u # use => (u \in h2.outs[m] <=> u \in g.outs[m])
  BY <1>10, <1>11, <1>12
<1>14. \A m \in Ids : use \in h2.outs[m] <=> m # prev /\ (m = value \/ use \in g.outs[m])
  BY <1>10, <1>11, <1>12
<1>15. \A m \in Ids : /\ DOMAIN h2.inps[m] = DOMAIN g.inps[m]
                      /\ \A j \in DOMAIN g.inps[m] :
                           /\ <<m, j>> = use => h2.inps[m][j] = value
                           /\ <<m, j>> # use => h2.inps[m][j] = g.inps[m][j]
  BY <1>10, <1>11, <1>12
<1>16. \A m : Alive(h2, m) <=> Alive(g, m)
  BY <1>10, <1>11, <1>12 DEF Alive
<1>17. \A m \in Ids : use \in g.outs[m] => m = prev
  BY <1>1, <1>2, <1>8 DEF Consistent, Slot
<1>18. SinksUnused(h2)
  <2> SUFFICES ASSUME NEW m \in Ids, g.kind[m] \in Sinks, NEW u \in h2.outs[m] PROVE FALSE
    BY <1>10, <1>11, <1>12 DEF SinksUnused
  <2>1. g.outs[m] = {} /\ m # value
    BY <1>8, <1>9 DEF SinksUnused, Ids
  <2> QED BY <2>1, <1>13, <1>14
<1>19. ASSUME NEW m \in Ids, Alive(h2, m), NEW j \in DOMAIN h2.inps[m], h2.inps[m][j] # 0
       PROVE  Listed(h2, m, j)
  <2>1. Alive(g, m) /\ j \in DOMAIN g.inps[m]
    BY <1>15, <1>16, <1>19
  <2>2. CASE <<m, j>> = use
    <3>1. h2.inps[m][j] = value
      BY <2>1, <2>2, <1>15
    <3> QED BY <3>1, <2>2, <1>7, <1>9, <1>14, <1>16, <1>19 DEF Listed
  <2>3. CASE <<m, j>> # use
    <3>1. h2.inps[m][j] = g.inps[m][j]
      BY <2>1, <2>3, <1>15
    <3>2. Listed(g, m, j)
      BY <3>1, <2>1, <1>8, <1>19 DEF Consistent
    <3>3. g.inps[m][j] \in Ids
      BY <3>2 DEF Listed, Alive
    <3> QED BY <3>1, <3>2, <3>3, <2>3, <1>13, <1>16 DEF Listed
  <2> QED BY <2>2, <2>3
<1>20. ASSUME NEW m \in Ids, NEW u \in h2.outs[m]
       PROVE  Alive(h2, u[1]) /\ u[2] \in DOMAIN h2.inps[u[1]] /\ Slot(h2, u) = m
  <2>1. u \in Uses
    BY <1>12, <1>20 DEF GraphTyped
  <2>2. u = <<u[1], u[2]>> /\ u[1] \in Ids
    BY <2>1 DEF Uses
  <2>3. CASE u = use
    <3>1. m = value
      BY <2>3, <1>14, <1>17, <1>20
    <3>2. u[1] = n /\ u[2] = i
      BY <2>3, <1>1
    <3> QED BY <3>1, <3>2, <2>3, <1>1, <1>9, <1>15, <1>16 DEF Slot
  <2>4. CASE u # use
    <3>1. Alive(g, u[1]) /\ u[2] \in DOMAIN g.inps[u[1]] /\ g.inps[u[1]][u[2]] = m
      BY <2>4, <1>8, <1>13, <1>20 DEF Consistent, Slot
    <3> QED BY <3>1, <2>2, <2>4, <1>15, <1>16 DEF Slot
  <2> QED BY <2>3, <2>4
<1>21. Core(h2, <<>>) /\ PinsHeld(h2, <<>>)
  <2>1. Consistent(h2)
    BY <1>19, <1>20 DEF Consistent
  <2> QED BY <2>1, <1>12, <1>18, QuietCore
<1>22. s.op = "set_done" /\ s.use = use /\ s.value = value /\ IsFrame(s) /\ Silent(s)
  BY <1>6, <1>9 DEF IsFrame, Silent
<1>23. FrameOK(h2, {}, s)
  <2>1. use[1] = n /\ use[2] = i
    BY <1>1
  <2>2. use[2] \in DOMAIN h2.inps[use[1]] /\ Slot(h2, use) = value
    BY <2>1, <1>1, <1>9, <1>15 DEF Slot
  <2> QED BY <2>2, <1>22 DEF FrameOK
<1>24. Core(h2, <<s>>)
  <2>1. Core(h2, <<s>> \o <<>>)
    BY <1>21, <1>22, <1>23, EmptyStack, SilentPush
  <2> QED BY <2>1, SingleFrame
<1>25. PinsHeld(h2, <<s>>)
  <2>1. PinsHeld(h2, <<s>> \o <<>>)
    BY <1>12, <1>21, <1>22, EmptyStack, PinsSkip
  <2> QED BY <2>1, SingleFrame
<1>26. DeleteFits(prev, <<s>>)
  <2>1. Range(<<s>>) = {s}
    BY DEF Range
  <2> QED BY <2>1, <1>22 DEF DeleteFits
<1> QED BY <1>7, <1>24, <1>25, <1>26, DeletingKeeps

(* add_input appends a slot and lists it.                                    *)
LEMMA ConnectedCore ==
    ASSUME NEW h, Core(h, <<>>), NEW n, Alive(h, n), NEW def, Alive(h, def),
           h.kind[def] \notin Sinks, NEW h2, h2 = Connected(h, n, def)
    PROVE  Core(h2, <<>>) /\ h2.kind = h.kind
<1>1. PICK s : s = Append(h.inps[n], def)
  OBVIOUS
<1>2. PICK use : use = <<n, Len(h.inps[n]) + 1>>
  OBVIOUS
<1>3. PICK a : a = [h EXCEPT !.inps[n] = s]
  OBVIOUS
<1>4. h2 = AddOutput(a, def, use)
  BY <1>1, <1>2, <1>3 DEF Connected
<1>5. GraphTyped(h) /\ SinksUnused(h) /\ Consistent(h) /\ n \in Ids /\ def \in Ids
  BY QuietCore DEF Alive
<1>6. /\ h.inps[n] \in Seq(IdsOrNil) /\ def \in IdsOrNil /\ def # 0
      /\ Len(h.inps[n]) \in Nat /\ DOMAIN h.inps[n] = 1 .. Len(h.inps[n])
  <2>1. h.inps[n] \in Seq(IdsOrNil)
    BY <1>5 DEF GraphTyped
  <2>2. def \in IdsOrNil /\ def # 0
    BY <1>5, GraphAssumption DEF Ids, IdsOrNil
  <2> QED BY <2>1, <2>2
<1>7. /\ s \in Seq(IdsOrNil) /\ DOMAIN s = 1 .. Len(h.inps[n]) + 1
      /\ s[Len(h.inps[n]) + 1] = def
      /\ \A i \in DOMAIN h.inps[n] : i \in DOMAIN s /\ s[i] = h.inps[n][i]
  BY <1>1, <1>6
<1>8. /\ a.kind = h.kind /\ a.outs = h.outs /\ a.pins = h.pins /\ a.table = h.table
      /\ a.inps = [h.inps EXCEPT ![n] = s] /\ IsGraph(a)
  BY <1>3, <1>5 DEF GraphTyped, IsGraph
<1>9. GraphTyped(a)
  BY <1>5, <1>7, <1>8 DEF GraphTyped
<1>10. use \in Uses /\ use[1] = n /\ use[2] = Len(h.inps[n]) + 1
  BY <1>2, <1>5, <1>6 DEF Uses
<1>11. /\ GraphTyped(h2) /\ h2.kind = h.kind /\ h2.inps = a.inps /\ h2.pins = h.pins
       /\ h2.outs = [m \in Ids |-> IF m = def THEN h.outs[m] \cup {use} ELSE h.outs[m]]
  BY <1>4, <1>6, <1>8, <1>9, <1>10, AddOutputTyped
<1>12. h2.inps[n] = s /\ \A m \in Ids : m # n => h2.inps[m] = h.inps[m]
  BY <1>5, <1>8, <1>11 DEF GraphTyped
<1>13. \A m : Alive(h2, m) <=> Alive(h, m)
  BY <1>11 DEF Alive
<1>14. \A m \in Ids : \A i \in DOMAIN h.inps[m] :
          i \in DOMAIN h2.inps[m] /\ h2.inps[m][i] = h.inps[m][i]
  BY <1>7, <1>12
<1>15. SinksUnused(h2)
  BY <1>5, <1>11 DEF SinksUnused
<1>16. ASSUME NEW m \in Ids, Alive(h2, m), NEW i \in DOMAIN h2.inps[m], h2.inps[m][i] # 0
       PROVE  Listed(h2, m, i)
  <2>1. CASE i \in DOMAIN h.inps[m]
    <3>1. Listed(h, m, i) /\ h2.inps[m][i] = h.inps[m][i]
      BY <2>1, <1>5, <1>13, <1>14, <1>16 DEF Consistent
    <3>2. h.inps[m][i] \in Ids
      BY <3>1 DEF Listed, Alive
    <3> QED BY <3>1, <3>2, <1>11, <1>13 DEF Listed
  <2>2. CASE i \notin DOMAIN h.inps[m]
    <3>1. m = n /\ i \in 1 .. Len(h.inps[n]) + 1 /\ i \notin 1 .. Len(h.inps[n])
      BY <2>2, <1>6, <1>7, <1>12, <1>16
    <3>2. i = Len(h.inps[n]) + 1
      BY <3>1, <1>6
    <3>3. h2.inps[m][i] = def /\ <<m, i>> = use
      BY <3>1, <3>2, <1>2, <1>7, <1>12
    <3> QED BY <3>3, <1>5, <1>11, <1>13 DEF Listed
  <2> QED BY <2>1, <2>2
<1>17. ASSUME NEW m \in Ids, NEW u \in h2.outs[m]
       PROVE  Alive(h2, u[1]) /\ u[2] \in DOMAIN h2.inps[u[1]] /\ Slot(h2, u) = m
  <2>1. CASE u \in h.outs[m]
    <3>1. Alive(h, u[1]) /\ u[2] \in DOMAIN h.inps[u[1]] /\ h.inps[u[1]][u[2]] = m
      BY <2>1, <1>5 DEF Consistent, Slot
    <3>2. u[1] \in Ids
      BY <3>1 DEF Alive
    <3> QED BY <3>1, <3>2, <1>13, <1>14 DEF Slot
  <2>2. CASE u \notin h.outs[m]
    <3>1. u = use /\ m = def
      BY <2>2, <1>11, <1>17
    <3>2. use[2] \in DOMAIN s /\ s[use[2]] = def
      BY <1>6, <1>7, <1>10
    <3> QED BY <3>1, <3>2, <1>10, <1>12, <1>13 DEF Slot
  <2> QED BY <2>1, <2>2
<1>18. Consistent(h2)
  BY <1>16, <1>17 DEF Consistent
<1> QED BY <1>11, <1>15, <1>18, QuietCore

(* connect.                                                                  *)
LEMMA ConnectKeeps ==
    ASSUME Core(g, todo), todo = <<>>, NEW use \in LiveIds, NEW def \in Usable,
           Connect(use, def)
    PROVE  Core(g', todo') /\ PinsHeld(g', todo')
<1>1. PICK h2 : h2 = Connected(g, use, def)
  OBVIOUS
<1>2. Alive(g, use) /\ Alive(g, def) /\ g.kind[def] \notin Sinks
  BY DEF Usable, LiveIds
<1>3. Core(h2, <<>>)
  BY <1>1, <1>2, ConnectedCore
<1>4. g' = h2 /\ todo' = <<>>
  BY <1>1 DEF Connect
<1> QED BY <1>3, <1>4, QuietCore

(* end_loop closes a lazy phi: its back edge is connected, then it is        *)
(* interned.                                                                 *)
LEMMA ClosePhiKeeps ==
    ASSUME Core(g, todo), todo = <<>>, NEW init \in Usable, NEW back \in Usable,
           ClosePhi(init, back)
    PROVE  Core(g', todo') /\ PinsHeld(g', todo')
<1>1. PICK h : h = Connected(g, init, back)
  OBVIOUS
<1>2. PICK k : k = PhiOf[h.kind[init]]
  OBVIOUS
<1>3. PICK x : x = [h EXCEPT !.kind[init] = k]
  OBVIOUS
<1>4. PICK h2 : h2 = Intern(x, init)
  OBVIOUS
<1>5. PICK id : id = InternId(x, init)
  OBVIOUS
<1>6. /\ g.kind[init] \in Lazy /\ g' = h2
      /\ todo' = IF id = init THEN <<>> ELSE <<SubsumeFrame(id, init)>>
  BY <1>1, <1>2, <1>3, <1>4, <1>5 DEF ClosePhi, WithBackEdge, Closing
<1>7. Alive(g, init) /\ init \in Ids /\ Alive(g, back) /\ g.kind[back] \notin Sinks
  BY DEF Usable, LiveIds
<1>8. Core(h, <<>>) /\ h.kind = g.kind
  BY <1>1, <1>7, ConnectedCore
<1>9. GraphTyped(h) /\ SinksUnused(h) /\ Consistent(h)
  BY <1>8, QuietCore
<1>10. k \in Interned /\ k \in Kinds /\ k \notin Sinks
  <2>1. k \in Phis
    BY <1>2, <1>6, <1>8 DEF Phis
  <2> QED BY <2>1, GraphAssumption
<1>11. /\ x.kind = [h.kind EXCEPT ![init] = k] /\ x.inps = h.inps /\ x.outs = h.outs
       /\ x.pins = h.pins /\ x.table = h.table /\ IsGraph(x)
  BY <1>3, <1>9 DEF GraphTyped, IsGraph
<1>12. GraphTyped(x)
  BY <1>9, <1>10, <1>11 DEF GraphTyped
<1>13. x.kind[init] = k /\ \A m \in Ids : m # init => x.kind[m] = h.kind[m]
  BY <1>7, <1>9, <1>11 DEF GraphTyped
<1>14. \A m : Alive(x, m) <=> Alive(h, m)
  BY <1>7, <1>8, <1>10, <1>13 DEF Alive
<1>15. SinksUnused(x)
  BY <1>9, <1>10, <1>11, <1>13 DEF SinksUnused
<1>16. Consistent(x)
  BY <1>9, <1>11, <1>14 DEF Consistent, Listed, Slot
<1>17. Core(x, <<>>)
  BY <1>12, <1>15, <1>16, QuietCore
<1>18. GraphTyped(h2) /\ SameEdges(x, h2)
  BY <1>4, <1>7, <1>12, InternTyped
<1>19. Core(h2, <<>>) /\ PinsHeld(h2, <<>>)
  BY <1>17, <1>18, SameCore, QuietCore
<1>20. CASE id = init
  BY <1>6, <1>19, <1>20
<1>21. CASE id # init
  <2>1. id \in Ids /\ h2.kind[init] \in Interned /\ h2.kind[id] = h2.kind[init]
    BY <1>5, <1>7, <1>12, <1>18, <1>21, InternIdTyped DEF SameEdges
  <2>2. \A b \in Range(<<>>) : b.op \in {"rehash", "nil"}
    BY EmptyStack
  <2>3. PICK r : r = <<>>
    OBVIOUS
  <2>4. Core(h2, <<SubsumeFrame(id, init)>> \o r) /\ PinsHeld(h2, <<SubsumeFrame(id, init)>> \o r)
    BY <2>1, <2>2, <2>3, <1>7, <1>19, <1>21, PushSubsume
  <2>5. <<SubsumeFrame(id, init)>> \o r = <<SubsumeFrame(id, init)>>
    BY <2>3, SingleFrame
  <2> QED BY <2>4, <2>5, <1>6, <1>21
<1> QED BY <1>20, <1>21

(* delete_node.                                                              *)
LEMMA DeleteNodeKeeps ==
    ASSUME Core(g, todo), todo = <<>>, NEW n \in LiveIds, DeleteNode(n)
    PROVE  Core(g', todo') /\ PinsHeld(g', todo')
<1>1. DeleteFits(n, <<>>)
  BY EmptyStack DEF DeleteFits
<1>2. PinsHeld(g, <<>>)
  BY QuietCore
<1>3. Core(g, Deleting(g, n, <<>>)) /\ PinsHeld(g, Deleting(g, n, <<>>))
  BY <1>1, <1>2, DeletingKeeps
<1>4. Deleting(g, n, <<>>) = <<DeleteFrame(n)>>
  BY SingleFrame DEF Deleting, DeleteNode
<1> QED BY <1>3, <1>4 DEF DeleteNode

(* subsume.                                                                  *)
LEMMA SubsumeKeeps ==
    ASSUME Core(g, todo), todo = <<>>, NEW with \in IdsOrNil, NEW target \in Ids,
           with = 0 => g.kind[target] \in Ctrl, with # 0 => g.kind[with] \notin Sinks,
           Subsume(with, target)
    PROVE  Core(g', todo') /\ PinsHeld(g', todo')
<1>1. PICK f : f = SubsumeFrame(with, target)
  OBVIOUS
<1>2. with # target /\ g' = g /\ todo' = <<f>>
  BY <1>1 DEF Subsume
<1>3. /\ f.op = "subsume" /\ f.with = with /\ f.target = target
      /\ IsFrame(f) /\ Silent(f)
  BY <1>1 DEF SubsumeFrame, IsFrame, Silent
<1>4. with = 0 => g.kind[target] \notin Interned
  BY GraphAssumption
<1>5. FrameOK(g, {}, f)
  BY <1>2, <1>3, <1>4 DEF FrameOK
<1>6. Core(g, <<f>> \o <<>>)
  BY <1>3, <1>5, EmptyStack, SilentPush
<1>7. PinsHeld(g, <<f>> \o <<>>)
  BY <1>3, EmptyStack, QuietCore, PinsSkip
<1> QED BY <1>2, <1>6, <1>7, SingleFrame

(* truncate_inputs.                                                          *)
LEMMA TruncateInputsKeeps ==
    ASSUME Core(g, todo), todo = <<>>, NEW scope \in LiveIds, NEW len \in Nat,
           TruncateInputs(scope, len)
    PROVE  Core(g', todo') /\ PinsHeld(g', todo')
<1>1. PICK f : f = TruncateFrame(scope, len)
  OBVIOUS
<1>2. /\ g.kind[scope] \in Sinks /\ len < Len(g.inps[scope])
      /\ g' = g /\ todo' = <<f>>
  BY <1>1 DEF TruncateInputs
<1>3. scope \in Ids /\ Alive(g, scope) /\ GraphTyped(g) /\ SinksUnused(g)
  BY QuietCore DEF LiveIds
<1>4. /\ f.op = "truncate" /\ f.node = scope /\ f.len = len /\ f.at = len + 1
      /\ IsFrame(f) /\ Silent(f)
  BY <1>1, <1>3 DEF TruncateFrame, IsFrame, Silent
<1>5. g.outs[scope] = {}
  BY <1>2, <1>3 DEF SinksUnused
<1>6. g.inps[scope] \in Seq(IdsOrNil)
  BY <1>3 DEF GraphTyped
<1>7. f.len =< Len(g.inps[f.node]) /\ \A i \in DOMAIN g.inps[f.node] : ~ (f.len < i /\ i < f.at)
  BY <1>2, <1>4, <1>6
<1>8. FrameOK(g, {}, f)
  BY <1>3, <1>4, <1>5, <1>7 DEF FrameOK
<1>9. Core(g, <<f>> \o <<>>)
  BY <1>4, <1>8, EmptyStack, SilentPush
<1>10. PinsHeld(g, <<f>> \o <<>>)
  BY <1>3, <1>4, EmptyStack, QuietCore, PinsSkip
<1> QED BY <1>2, <1>9, <1>10, SingleFrame

(* The graph starts consistent.                                              *)
LEMMA InitKeeps ==
    Init => GInv
<1> SUFFICES ASSUME Init PROVE GInv
  OBVIOUS
<1>1. PICK h : h = EmptyGraph
  OBVIOUS
<1>2. g = h /\ todo = <<>> /\ ops = 0
  BY <1>1 DEF Init
<1>3. /\ h.kind = [n \in Ids |-> "free"] /\ h.inps = [n \in Ids |-> <<>>]
      /\ h.outs = [n \in Ids |-> {}] /\ h.pins = [n \in Ids |-> 0]
      /\ h.table = <<>> /\ IsGraph(h)
  BY <1>1 DEF EmptyGraph, IsGraph
<1>4. GraphTyped(h)
  <2>1. TableTyped(h.table)
    BY <1>3 DEF TableTyped
  <2>2. /\ h.kind \in [Ids -> Kinds \cup {"free", "dead"}]
        /\ h.inps \in [Ids -> Seq(IdsOrNil)] /\ h.outs \in [Ids -> SUBSET Uses]
        /\ h.pins \in [Ids -> Nat]
    BY <1>3
  <2> QED BY <2>1, <2>2, <1>3 DEF GraphTyped
<1>5. SinksUnused(h) /\ Consistent(h)
  <2>1. \A n : ~ Alive(h, n)
    BY <1>3, GraphAssumption DEF Alive
  <2> QED BY <2>1, <1>3 DEF SinksUnused, Consistent
<1>6. ops \in 0 .. MaxOps
  BY <1>2, GraphAssumption
<1> QED BY <1>2, <1>4, <1>5, <1>6, QuietCore DEF GInv

(* Every operation keeps the invariant.                                      *)
LEMMA CallKeeps ==
    ASSUME GInv, Call
    PROVE  GInv'
<1>1. Core(g, todo) /\ todo = <<>> /\ ops \in 0 .. MaxOps
  BY DEF GInv, Call, Idle
<1>2. \A n \in LiveIds : n \in Ids
  BY DEF LiveIds
<1>3. \A n \in Usable : n \in Ids /\ n \in LiveIds /\ g.kind[n] \notin Sinks
  BY DEF Usable, LiveIds
<1>4. Core(g', todo') /\ PinsHeld(g', todo')
  <2>1. CASE AddNodeStep
    BY <2>1, <1>1, AddNodeKeeps DEF AddNodeStep
  <2>2. CASE PinStep
    BY <2>2, <1>1, <1>3, PinKeeps DEF PinStep
  <2>3. CASE UnpinStep
    BY <2>3, <1>1, <1>3, UnpinKeeps DEF UnpinStep
  <2>4. CASE ConnectStep
    BY <2>4, <1>1, ConnectKeeps DEF ConnectStep
  <2>5. CASE ClosePhiStep
    BY <2>5, <1>1, ClosePhiKeeps DEF ClosePhiStep
  <2>6. CASE DeleteNodeStep
    BY <2>6, <1>1, DeleteNodeKeeps DEF DeleteNodeStep
  <2>7. CASE SetInputStep
    <3>1. PICK n \in LiveIds : \E i \in DOMAIN g.inps[n] :
             \E v : (v = 0 \/ v \in Usable) /\ SetInput(n, i, v)
      BY <2>7 DEF SetInputStep
    <3>2. PICK i \in DOMAIN g.inps[n] : \E v : (v = 0 \/ v \in Usable) /\ SetInput(n, i, v)
      BY <3>1
    <3>3. PICK v : (v = 0 \/ v \in Usable) /\ SetInput(n, i, v)
      BY <3>2
    <3> QED BY <3>3, <1>1, SetInputKeeps
  <2>8. CASE SubsumeStep
    <3>1. PICK with \in Usable, target \in Usable : Subsume(with, target)
      BY <2>8 DEF SubsumeStep
    <3>2. with \in IdsOrNil /\ with # 0 /\ target \in Ids /\ g.kind[with] \notin Sinks
      BY <3>1, <1>3 DEF Ids, IdsOrNil
    <3> QED BY <3>1, <3>2, <1>1, SubsumeKeeps
  <2>9. CASE SubsumeNilStep
    <3>1. PICK target \in Usable : Class(target) = "ctrl" /\ Subsume(0, target)
      BY <2>9 DEF SubsumeNilStep
    <3>2. 0 \in IdsOrNil /\ target \in Ids /\ g.kind[target] \in Ctrl
      BY <3>1, <1>3, GraphAssumption DEF IdsOrNil, Class
    <3>3. PICK with : with = 0
      OBVIOUS
    <3> QED BY <3>1, <3>2, <3>3, <1>1, SubsumeKeeps
  <2>10. CASE TruncateStep
    <3>1. PICK n \in LiveIds : \E len \in 0 .. Len(g.inps[n]) : TruncateInputs(n, len)
      BY <2>10 DEF TruncateStep
    <3>2. PICK len \in 0 .. Len(g.inps[n]) : TruncateInputs(n, len)
      BY <3>1
    <3>3. len \in Nat
      <4>1. g.inps[n] \in Seq(IdsOrNil)
        BY <1>1, <1>2 DEF Core, GraphTyped
      <4> QED BY <4>1
    <3> QED BY <3>2, <3>3, <1>1, TruncateInputsKeeps
  <2> QED BY <2>1, <2>2, <2>3, <2>4, <2>5, <2>6, <2>7, <2>8, <2>9, <2>10 DEF Call
<1>5. ops' \in 0 .. MaxOps
  <2>1. ops' = ops \/ (ops < MaxOps /\ ops' = ops + 1)
    BY DEF Call, AddNodeStep, AddNode, PinStep, Pin, UnpinStep, Unpin, ConnectStep, Connect,
           ClosePhiStep, ClosePhi, DeleteNodeStep, DeleteNode, SetInputStep, SetInput,
           SubsumeStep, SubsumeNilStep, Subsume, TruncateStep, TruncateInputs, Start
  <2> QED BY <2>1, <1>1, GraphAssumption
<1> QED BY <1>4, <1>5 DEF GInv

(* So does every step of a running operation.                                *)
LEMMA RunKeeps ==
    ASSUME GInv, Run
    PROVE  GInv'
<1>1. Core(g, todo) /\ PinsHeld(g, todo) /\ ops \in 0 .. MaxOps
  BY DEF GInv
<1>2. Core(g', todo') /\ PinsHeld(g', todo')
  <2>1. CASE DeleteBegin
    BY <2>1, <1>1, DeleteBeginKeeps
  <2>2. CASE DeleteInput
    BY <2>2, <1>1, DeleteInputKeeps
  <2>3. CASE DeleteEnd
    BY <2>3, <1>1, DeleteEndKeeps
  <2>4. CASE SetDone
    BY <2>4, <1>1, SetDoneKeeps
  <2>5. CASE SubsumeBegin
    BY <2>5, <1>1, SubsumeBeginKeeps
  <2>6. CASE SubsumeMoveStep
    BY <2>6, <1>1, SubsumeMoveKeeps DEF SubsumeMoveStep
  <2>7. CASE SubsumeDelete
    BY <2>7, <1>1, SubsumeDeleteKeeps
  <2>8. CASE SubsumeKeep
    BY <2>8, <1>1, SubsumeKeepKeeps
  <2>9. CASE SubsumeRehashStep
    BY <2>9, <1>1, SubsumeRehashKeeps DEF SubsumeRehashStep
  <2>10. CASE SubsumeUnpin
    BY <2>10, <1>1, SubsumeUnpinKeeps
  <2>11. CASE NilBegin
    BY <2>11, <1>1, NilBeginKeeps
  <2>12. CASE NilRehashStep
    BY <2>12, <1>1, NilRehashKeeps DEF NilRehashStep
  <2>13. CASE NilRound
    BY <2>13, <1>1, NilRoundKeeps
  <2>14. CASE TruncateSlot
    BY <2>14, <1>1, TruncateSlotKeeps
  <2>15. CASE TruncateClear
    BY <2>15, <1>1, TruncateClearKeeps
  <2>16. CASE TruncateEnd
    BY <2>16, <1>1, TruncateEndKeeps
  <2> QED BY <2>1, <2>2, <2>3, <2>4, <2>5, <2>6, <2>7, <2>8, <2>9, <2>10, <2>11, <2>12,
             <2>13, <2>14, <2>15, <2>16 DEF Run
<1>3. ops' = ops
  BY DEF Run, DeleteBegin, DeleteInput, DeleteEnd, SetDone, SubsumeBegin, SubsumeMoveStep,
         SubsumeMove, SubsumeDelete, SubsumeKeep, SubsumeRehashStep, SubsumeRehash,
         SubsumeUnpin, NilBegin, NilRehashStep, NilRehash, NilRound, TruncateSlot,
         TruncateClear, TruncateEnd, Fail
<1> QED BY <1>1, <1>2, <1>3 DEF GInv

(* The invariant is inductive.                                               *)
LEMMA NextKeeps ==
    GInv /\ [Next]_vars => GInv'
<1> SUFFICES ASSUME GInv, [Next]_vars PROVE GInv'
  OBVIOUS
<1>1. CASE Call
  BY <1>1, CallKeeps
<1>2. CASE Run
  BY <1>2, RunKeeps
<1>3. CASE UNCHANGED vars
  BY <1>3 DEF GInv, vars
<1> QED BY <1>1, <1>2, <1>3 DEF Next, Rest

(* The invariant holds of the graph at every step of every operation: of     *)
(* delete_node, set_input, subsume and truncate_inputs with all their        *)
(* recursive calls.                                                          *)
THEOREM GraphAlwaysInv ==
    Spec => []GInv
BY InitKeeps, NextKeeps, PTL DEF Spec

(* TypeOK: inputs, uses, pins, interner entries and running calls keep their *)
(* types at every step; in particular subsume's unpin never takes a pin that *)
(* is not there.                                                             *)
THEOREM GraphTypeCorrect ==
    Spec => []TypeOK
<1>1. GInv => TypeOK
  <2> SUFFICES ASSUME GInv PROVE TypeOK
    OBVIOUS
  <2>1. GraphTyped(g) /\ StackTyped(todo)
    BY DEF GInv, Core
  <2>2. \A i \in DOMAIN g.table : g.table[i][2] \in Ids
    BY <2>1 DEF GraphTyped, TableTyped
  <2>3. \A k \in DOMAIN todo : todo[k].op \in FrameOps
    <3> SUFFICES ASSUME NEW k \in DOMAIN todo PROVE todo[k].op \in FrameOps
      OBVIOUS
    <3>1. todo[k] \in Range(todo)
      BY DEF Range
    <3> QED BY <3>1, <2>1, FramesTyped
  <2>4. \A n \in Ids : /\ g.inps[n] \in Seq(IdsOrNil)
                       /\ g.outs[n] \subseteq (Ids \X (Nat \ {0}))
                       /\ g.pins[n] \in Nat
    BY <2>1 DEF GraphTyped, Uses
  <2> QED BY <2>1, <2>2, <2>3, <2>4 DEF TypeOK, GInv, GraphTyped
<1> QED BY <1>1, GraphAlwaysInv, PTL

(* UseDefConsistent: whenever no operation runs, each input of a live node   *)
(* is nil or a live node that lists the use, and each use listed names a     *)
(* slot that holds the node, however deletions, merges and truncations       *)
(* nested to get there.                                                      *)
THEOREM InputsMirrorOutputs ==
    Spec => []UseDefConsistent
<1>1. GInv => UseDefConsistent
  <2> SUFFICES ASSUME GInv, Idle PROVE Consistent(g)
    BY DEF UseDefConsistent, Consistent, Listed, Slot
  <2> QED BY QuietCore DEF GInv, Idle
<1> QED BY <1>1, GraphAlwaysInv, PTL
=============================================================================
