-------------------------- MODULE GraphDeleteProofs -------------------------
(***************************************************************************)
(* Proofs about the node graph, part 1: the inductive invariant GInv, and  *)
(* that the steps of delete_node and set_input keep it.                    *)
(*                                                                         *)
(* UseDefConsistent holds between operations only: inside one, slots and   *)
(* outputs disagree in the places the operation has reached.  GInv says of *)
(* every running call exactly which slots and uses it excuses (Gone,       *)
(* Redirected, Nilled, Moves), which calls it may have been started by     *)
(* (Nested), what it will still rely on when it goes on (FrameOK), and     *)
(* that what it keeps by a pin is pinned (PinsHeld).  When the stack is    *)
(* empty nothing is excused, and UseDefConsistent is what is left.         *)
(***************************************************************************)
EXTENDS Graph, TLAPS

(* A use: the node and the slot of its inputs, counted from 1.               *)
Uses == Ids \X (Nat \ {0})

(* A graph is the record of its eight fields.                                *)
IsGraph(h) ==
    h = [kind |-> h.kind, inps |-> h.inps, outs |-> h.outs, pins |-> h.pins,
         table |-> h.table, peeping |-> h.peeping, queue |-> h.queue, trig |-> h.trig]

(* Every entry of the interner names a node.                                 *)
TableTyped(t) == t \in Seq({e \in Range(t) : e[2] \in Ids})

(* The types of a graph; a value for every id, free or not.                  *)
GraphTyped(h) ==
    /\ IsGraph(h)
    /\ h.kind \in [Ids -> Kinds \cup {"free", "dead"}]
    /\ h.inps \in [Ids -> Seq(IdsOrNil)]
    /\ h.outs \in [Ids -> SUBSET Uses]
    /\ h.pins \in [Ids -> Nat]
    /\ TableTyped(h.table)

(* The forms of a running call.                                              *)
IsFrame(f) ==
    \/ f \in [op : {"delete"}, node : Ids, at : Nat]
    \/ f \in [op : {"set_done"}, use : Uses, prev : IdsOrNil, value : IdsOrNil]
    \/ f \in [op : {"subsume"}, with : IdsOrNil, target : Ids]
    \/ f \in [op : {"move"}, with : IdsOrNil, target : Ids, left : SUBSET Uses]
    \/ f \in [op : {"keep", "rehash"}, with : Ids, left : SUBSET Uses]
    \/ /\ f.op = "nil"
       /\ f = [op |-> "nil", target |-> f.target, left |-> f.left,
               changed |-> f.changed, user |-> f.user]
       /\ f.target \in Ids
    \/ f \in [op : {"truncate"}, node : Ids, len : Nat, at : Nat \ {0}]
    \/ f \in [op : {"clear"}, use : Uses]

(* What may run on top of a call. *)
MayCall(f, below) ==
    /\ below.op \notin {"subsume", "move"}
    /\ below.op \in {"delete", "keep", "clear", "set_done"} => f.op = "delete"
    /\ below.op = "truncate" => f.op \in {"delete", "clear"}
    /\ f.op = "delete" /\ below.op \in {"delete", "truncate"} => f.node # below.node
    /\ f.op \in {"subsume", "move"} /\ below.op = "nil" =>
          f.target # below.target /\ f.with # below.target

(* A stack of running calls.                                                 *)
StackTyped(t) == t \in Seq({f \in Range(t) : IsFrame(f)})

(* Every call of the stack was started by one that may start it.             *)
Nested(t) == \A j, k \in 1 .. Len(t) : j < k => MayCall(t[j], t[k])

(* A running delete_node or truncate_inputs has taken the use off its        *)
(* input's outputs already, and the slot still names that input.             *)
Gone(F, use) ==
    \E f \in F : \/ f.op = "delete" /\ f.node = use[1] /\ use[2] < f.at
                 \/ f.op = "clear" /\ f.use = use

(* The input a use stands for.                                               *)
Slot(h, use) == h.inps[use[1]][use[2]]

(* What a running call still relies on.  A node being deleted is alive,      *)
(* unused and unpinned; the slot set_input wrote keeps its value while its   *)
(* node lives; subsume moves the uses it has left; a node subsumed by nil is *)
(* no node's input; truncate_inputs has cleared the slots it has passed.     *)
FrameOK(h, F, f) ==
    /\ f.op = "delete" =>
          Alive(h, f.node) /\ h.outs[f.node] = {} /\ h.pins[f.node] = 0
    /\ f.op = "set_done" /\ Alive(h, f.use[1]) =>
          f.use[2] \in DOMAIN h.inps[f.use[1]] /\ Slot(h, f.use) = f.value
    /\ f.op \in {"subsume", "move"} =>
          /\ f.with # f.target
          /\ f.with = 0 => h.kind[f.target] \notin Interned
          /\ f.with # 0 => h.kind[f.with] \notin Sinks
    /\ f.op = "move" =>
          /\ Alive(h, f.target)
          /\ f.with # 0 => Alive(h, f.with)
          /\ f.left \subseteq h.outs[f.target]
    /\ f.op = "nil" =>
          /\ h.kind[f.target] \notin Interned
          /\ \A n \in Ids : Alive(h, n) =>
                \A i \in DOMAIN h.inps[n] : h.inps[n][i] # f.target
    /\ f.op = "truncate" =>
          /\ Alive(h, f.node) /\ h.outs[f.node] = {} /\ f.len =< Len(h.inps[f.node])
          /\ \A i \in DOMAIN h.inps[f.node] :
                f.len < i /\ i < f.at => h.inps[f.node][i] = 0 \/ Gone(F, <<f.node, i>>)

(* The same of all running calls.                                            *)
FramesOK(h, F) == \A f \in F : FrameOK(h, F, f)

(* The slot's input is alive and lists the use.                              *)
Listed(h, n, i) == Alive(h, h.inps[n][i]) /\ <<n, i>> \in h.outs[h.inps[n][i]]

(* A running subsume has written the slot and not yet handed over the use.   *)
Redirected(h, F, n, i) ==
    \E f \in F : /\ f.op = "move" /\ h.inps[n][i] = f.with
                 /\ <<n, i>> \in h.outs[f.target] \ f.left

(* Every slot of a live node is nil or mirrored by its input's outputs, but  *)
(* for slots a running call is in the middle of.                             *)
SlotsOK(h, F) ==
    \A n \in Ids : Alive(h, n) => \A i \in DOMAIN h.inps[n] :
        \/ h.inps[n][i] = 0 \/ Gone(F, <<n, i>>)
        \/ Redirected(h, F, n, i) \/ Listed(h, n, i)

(* The node is being subsumed by nil, which leaves its outputs behind.       *)
Nilled(F, n) == \E f \in F : f.op = "nil" /\ f.target = n

(* The use is one of those subsume has redirected already.                   *)
Moves(f, n, use) == f.op = "move" /\ f.target = n /\ use \notin f.left

(* Every use names a slot of a live node that holds the used node, or what a *)
(* running subsume has put there.                                            *)
UsesOK(h, F) ==
    \A n \in Ids : ~ Nilled(F, n) => \A use \in h.outs[n] :
        /\ Alive(h, use[1]) /\ use[2] \in DOMAIN h.inps[use[1]]
        /\ ~ Gone(F, use)
        /\ \A f \in F : Moves(f, n, use) => Slot(h, use) = f.with
        /\ (\A f \in F : ~ Moves(f, n, use)) => Slot(h, use) = n

(* Scopes, whose inputs change in place, are inputs of nothing.              *)
SinksUnused(h) == \A n \in Ids : h.kind[n] \in Sinks => h.outs[n] = {}

(* The call has pinned n and will unpin it.                                  *)
Holds(f, n) == f.op \in {"keep", "rehash"} /\ f.with = n

(* At most k frames of a stack hold n, counted from its bottom. *)
Held(t, n, k) ==
    \E count \in [0 .. Len(t) -> Nat] :
        /\ count[0] = 0 /\ count[Len(t)] =< k
        /\ \A d \in 1 .. Len(t) :
              count[d] = count[d - 1] + (IF Holds(t[Len(t) - d + 1], n) THEN 1 ELSE 0)

(* The same of a frame on top of a stack. *)
HeldOver(f, r, n, k) == IF Holds(f, n) THEN k # 0 /\ Held(r, n, k - 1) ELSE Held(r, n, k)

(* A live node that is not being deleted has a pin for every call that holds *)
(* it.                                                                       *)
PinsHeld(h, t) ==
    \A n \in Ids : Alive(h, n) =>
        \/ \E f \in Range(t) : f.op = "delete" /\ f.node = n
        \/ Held(t, n, h.pins[n])

(* The inductive invariant of a graph and its running calls, without pins.   *)
Core(h, t) ==
    /\ GraphTyped(h) /\ SinksUnused(h)
    /\ StackTyped(t) /\ Nested(t)
    /\ FramesOK(h, Range(t)) /\ SlotsOK(h, Range(t)) /\ UsesOK(h, Range(t))

(* The inductive invariant.                                                  *)
GInv == Core(g, todo) /\ PinsHeld(g, todo) /\ ops \in 0 .. MaxOps

-----------------------------------------------------------------------------
(* A stack with a call pushed on it, taken apart.                            *)
LEMMA StackCons ==
    ASSUME NEW f, NEW r, IsFrame(f), StackTyped(r), NEW t, t = <<f>> \o r
    PROVE  /\ StackTyped(t) /\ Range(t) = {f} \cup Range(r)
           /\ Len(r) \in Nat /\ Len(t) = Len(r) + 1
           /\ t # <<>> /\ Head(t) = f /\ Tail(t) = r
           /\ t[1] = f /\ \A k \in 1 .. Len(r) : t[k + 1] = r[k]
<1> DEFINE S == {e \in Range(r) : IsFrame(e)} \cup {f}
<1>1. r \in Seq(S)
  BY DEF StackTyped
<1>2. /\ t \in Seq(S) /\ Len(r) \in Nat /\ Len(t) = Len(r) + 1
      /\ t[1] = f /\ \A k \in 1 .. Len(r) : t[k + 1] = r[k]
  BY <1>1
<1>3. Range(t) = {f} \cup Range(r)
  <2>1. DOMAIN t = 1 .. Len(r) + 1 /\ DOMAIN r = 1 .. Len(r)
    BY <1>1, <1>2
  <2>2. \A k \in DOMAIN t : t[k] \in {f} \cup Range(r)
    <3> TAKE k \in DOMAIN t
    <3>1. CASE k = 1
      BY <3>1, <1>2
    <3>2. CASE k # 1
      <4>1. k - 1 \in 1 .. Len(r) /\ (k - 1) + 1 = k
        BY <3>2, <2>1, <1>2
      <4>2. t[k] = r[k - 1]
        BY <4>1, <1>2
      <4> QED BY <4>1, <4>2, <2>1 DEF Range
    <3> QED BY <3>1, <3>2
  <2>3. \A k \in DOMAIN r : r[k] \in Range(t)
    <3> TAKE k \in DOMAIN r
    <3>1. t[k + 1] = r[k] /\ k + 1 \in DOMAIN t
      BY <1>2, <2>1
    <3> QED BY <3>1 DEF Range
  <2>4. f \in Range(t)
    BY <1>2, <2>1 DEF Range
  <2> QED BY <2>2, <2>3, <2>4 DEF Range
<1>4. StackTyped(t)
  <2>1. S \subseteq {e \in Range(t) : IsFrame(e)}
    BY <1>3
  <2> QED BY <2>1, <1>2 DEF StackTyped
<1>5. t # <<>> /\ Head(t) = f /\ Tail(t) = r
  <2>1. Tail(t) \in Seq(S) /\ Len(Tail(t)) = Len(r)
    BY <1>2
  <2>2. \A k \in 1 .. Len(r) : Tail(t)[k] = r[k]
    BY <1>2
  <2> QED BY <2>1, <2>2, <1>1, <1>2
<1> QED BY <1>2, <1>3, <1>4, <1>5

(* A stack that is not empty is its top pushed on the rest.                  *)
LEMMA Uncons ==
    ASSUME NEW t, StackTyped(t), t # <<>>
    PROVE  /\ t = <<Head(t)>> \o Tail(t)
           /\ IsFrame(Head(t)) /\ StackTyped(Tail(t))
<1> DEFINE S == {e \in Range(t) : IsFrame(e)}
<1>1. t \in Seq(S) /\ Len(t) \in Nat /\ Len(t) > 0
  BY DEF StackTyped
<1>2. Head(t) \in S /\ Tail(t) \in Seq(S) /\ Len(Tail(t)) = Len(t) - 1
  BY <1>1
<1>3. <<Head(t)>> \o Tail(t) \in Seq(S) /\ Len(<<Head(t)>> \o Tail(t)) = Len(t)
  BY <1>1, <1>2
<1>4. \A k \in 1 .. Len(t) : (<<Head(t)>> \o Tail(t))[k] = t[k]
  BY <1>1, <1>2
<1>5. t = <<Head(t)>> \o Tail(t)
  BY <1>1, <1>3, <1>4
<1>6. StackTyped(Tail(t))
  <2> DEFINE u == Tail(t)
  <2>1. \A k \in 1 .. Len(u) : u[k] \in {e \in Range(u) : IsFrame(e)}
    <3> TAKE k \in 1 .. Len(u)
    <3>1. u[k] \in S /\ k \in DOMAIN u
      BY <1>2
    <3> QED BY <3>1 DEF Range
  <2> HIDE DEF u
  <2>2. u \in Seq(S)
    BY <1>2 DEF u
  <2>3. u \in Seq({e \in Range(u) : IsFrame(e)})
    BY <2>1, <2>2
  <2> QED BY <2>3 DEF StackTyped, u
<1> QED BY <1>2, <1>5, <1>6

(* With no call running there is nothing to nest.                            *)
LEMMA EmptyStack ==
    StackTyped(<<>>) /\ Nested(<<>>) /\ Range(<<>>) = {}
BY DEF StackTyped, Nested, Range

(* A call pushed on a stack nests if every call below may start it.          *)
LEMMA NestedCons ==
    ASSUME NEW f, NEW r, IsFrame(f), StackTyped(r)
    PROVE  Nested(<<f>> \o r) <=> Nested(r) /\ \A b \in Range(r) : MayCall(f, b)
<1>1. PICK t : t = <<f>> \o r
  OBVIOUS
<1>2. /\ Len(r) \in Nat /\ Len(t) = Len(r) + 1 /\ t[1] = f
      /\ \A k \in 1 .. Len(r) : t[k + 1] = r[k]
  BY <1>1, StackCons
<1>3. Range(r) = {r[k] : k \in 1 .. Len(r)}
  BY DEF Range, StackTyped
<1>4. ASSUME Nested(t) PROVE Nested(r) /\ \A b \in Range(r) : MayCall(f, b)
  <2>1. ASSUME NEW j \in 1 .. Len(r), NEW k \in 1 .. Len(r), j < k
        PROVE  MayCall(r[j], r[k])
    <3>1. j + 1 \in 1 .. Len(t) /\ k + 1 \in 1 .. Len(t) /\ j + 1 < k + 1
      BY <2>1, <1>2
    <3>2. MayCall(t[j + 1], t[k + 1])
      BY <3>1, <1>4 DEF Nested
    <3> QED BY <3>2, <1>2
  <2>2. ASSUME NEW k \in 1 .. Len(r) PROVE MayCall(f, r[k])
    <3>1. 1 \in 1 .. Len(t) /\ k + 1 \in 1 .. Len(t) /\ 1 < k + 1
      BY <1>2
    <3>2. MayCall(t[1], t[k + 1])
      BY <3>1, <1>4 DEF Nested
    <3> QED BY <3>2, <1>2
  <2> QED BY <2>1, <2>2, <1>3 DEF Nested
<1>5. ASSUME Nested(r), \A b \in Range(r) : MayCall(f, b) PROVE Nested(t)
  <2>1. ASSUME NEW j \in 1 .. Len(t), NEW k \in 1 .. Len(t), j < k
        PROVE  MayCall(t[j], t[k])
    <3>1. k - 1 \in 1 .. Len(r) /\ t[k] = r[k - 1]
      <4>1. k - 1 \in 1 .. Len(r) /\ (k - 1) + 1 = k
        BY <2>1, <1>2
      <4> QED BY <4>1, <1>2
    <3>2. CASE j = 1
      BY <3>1, <3>2, <1>2, <1>3, <1>5
    <3>3. CASE j # 1
      <4>1. j - 1 \in 1 .. Len(r) /\ (j - 1) + 1 = j /\ j - 1 < k - 1
        BY <3>3, <2>1, <1>2
      <4>2. t[j] = r[j - 1]
        BY <4>1, <1>2
      <4>3. MayCall(r[j - 1], r[k - 1])
        BY <4>1, <3>1, <1>5 DEF Nested
      <4> QED BY <4>2, <4>3, <3>1
    <3> QED BY <3>2, <3>3
  <2> QED BY <2>1 DEF Nested
<1> QED BY <1>1, <1>4, <1>5

(* Counting the pins a stack holds, from its top.                            *)
LEMMA HeldCons ==
    ASSUME NEW f, NEW r, IsFrame(f), StackTyped(r), NEW n, NEW k \in Nat
    PROVE  Held(<<f>> \o r, n, k) <=> HeldOver(f, r, n, k)
<1>1. PICK t : t = <<f>> \o r
  OBVIOUS
<1>2. /\ Len(r) \in Nat /\ Len(t) = Len(r) + 1 /\ t[1] = f
      /\ \A i \in 1 .. Len(r) : t[i + 1] = r[i]
  BY <1>1, StackCons
<1>3. PICK l \in Nat : l = Len(r)
  BY <1>2
<1>4. \A d \in 1 .. l : t[Len(t) - d + 1] = r[l - d + 1]
  <2> TAKE d \in 1 .. l
  <2>1. l - d + 1 \in 1 .. l /\ Len(t) - d + 1 = (l - d + 1) + 1
    BY <1>2, <1>3
  <2> QED BY <2>1, <1>2, <1>3
<1>5. Len(t) = l + 1 /\ t[Len(t) - (l + 1) + 1] = f
  <2>1. Len(t) - (l + 1) + 1 = 1 /\ Len(t) = l + 1
    BY <1>2, <1>3
  <2> QED BY <2>1, <1>2
<1>6. PICK a \in 0 .. 1 : a = IF Holds(f, n) THEN 1 ELSE 0
  OBVIOUS
<1>7. HeldOver(f, r, n, k) <=> k >= a /\ Held(r, n, k - a)
  <2>1. k - 0 = k
    OBVIOUS
  <2> QED BY <1>6, <2>1 DEF HeldOver
<1>8. ASSUME Held(t, n, k) PROVE k >= a /\ Held(r, n, k - a)
  <2>1. PICK c \in [0 .. l + 1 -> Nat] :
           /\ c[0] = 0 /\ c[l + 1] =< k
           /\ \A d \in 1 .. l + 1 :
                 c[d] = c[d - 1] + (IF Holds(t[Len(t) - d + 1], n) THEN 1 ELSE 0)
    BY <1>5, <1>8 DEF Held
  <2>2. c[l + 1] = c[l] + a
    <3>1. l + 1 \in 1 .. l + 1 /\ (l + 1) - 1 = l
      OBVIOUS
    <3> QED BY <3>1, <2>1, <1>5, <1>6
  <2>3. c[l] \in Nat /\ c[l + 1] \in Nat
    BY <2>1
  <2>4. PICK e : e = [d \in 0 .. l |-> c[d]]
    OBVIOUS
  <2>5. e \in [0 .. l -> Nat] /\ e[0] = 0 /\ e[l] = c[l]
    BY <2>1, <2>4
  <2>6. \A d \in 1 .. l : e[d] = e[d - 1] + (IF Holds(r[l - d + 1], n) THEN 1 ELSE 0)
    <3> TAKE d \in 1 .. l
    <3>1. d \in 0 .. l /\ d - 1 \in 0 .. l /\ d \in 1 .. l + 1
      OBVIOUS
    <3>2. e[d] = c[d] /\ e[d - 1] = c[d - 1]
      BY <3>1, <2>4
    <3> QED BY <3>1, <3>2, <2>1, <1>4
  <2>7. k >= a /\ e[l] =< k - a
    BY <2>1, <2>2, <2>3, <2>5
  <2> QED BY <2>5, <2>6, <2>7, <1>3 DEF Held
<1>9. ASSUME k >= a, Held(r, n, k - a) PROVE Held(t, n, k)
  <2>1. PICK e \in [0 .. l -> Nat] :
           /\ e[0] = 0 /\ e[l] =< k - a
           /\ \A d \in 1 .. l : e[d] = e[d - 1] + (IF Holds(r[l - d + 1], n) THEN 1 ELSE 0)
    BY <1>3, <1>9 DEF Held
  <2>2. PICK c : c = [d \in 0 .. l + 1 |-> IF d = l + 1 THEN e[l] + a ELSE e[d]]
    OBVIOUS
  <2>3. e[l] \in Nat
    BY <2>1
  <2>4. \A d \in 0 .. l : c[d] = e[d]
    BY <2>2
  <2>5. c[l + 1] = e[l] + a
    BY <2>2
  <2>6. c \in [0 .. l + 1 -> Nat]
    BY <2>1, <2>2, <2>3
  <2>7. c[0] = 0 /\ c[l + 1] =< k
    BY <2>1, <2>3, <2>4, <2>5
  <2>8. ASSUME NEW d \in 1 .. l + 1
        PROVE  c[d] = c[d - 1] + (IF Holds(t[Len(t) - d + 1], n) THEN 1 ELSE 0)
    <3>1. CASE d = l + 1
      <4>1. d - 1 = l /\ c[l] = e[l]
        BY <3>1, <2>4
      <4> QED BY <4>1, <3>1, <2>5, <1>5, <1>6
    <3>2. CASE d # l + 1
      <4>1. d \in 1 .. l /\ d \in 0 .. l /\ d - 1 \in 0 .. l
        BY <3>2
      <4> QED BY <4>1, <2>1, <2>4, <1>4
    <3> QED BY <3>1, <3>2
  <2> QED BY <2>6, <2>7, <2>8, <1>5 DEF Held
<1> QED BY <1>1, <1>7, <1>8, <1>9

(* A bound on the pins held may be raised.                                   *)
LEMMA HeldMore ==
    ASSUME NEW t, NEW n, NEW j \in Nat, NEW k \in Nat, j =< k, Held(t, n, j), Len(t) \in Nat
    PROVE  Held(t, n, k)
<1>1. PICK count \in [0 .. Len(t) -> Nat] :
         /\ count[0] = 0 /\ count[Len(t)] =< j
         /\ \A d \in 1 .. Len(t) :
               count[d] = count[d - 1] + (IF Holds(t[Len(t) - d + 1], n) THEN 1 ELSE 0)
  BY DEF Held
<1>2. count[Len(t)] =< k
  BY <1>1
<1> QED BY <1>1, <1>2 DEF Held

(* A sequence of entries that name nodes is a table.                         *)
LEMMA TableIntro ==
    ASSUME NEW t, NEW S, t \in Seq(S), \A e \in S : e[2] \in Ids
    PROVE  TableTyped(t)
<1>1. \A k \in 1 .. Len(t) : t[k] \in {e \in Range(t) : e[2] \in Ids}
  BY DEF Range
<1> QED BY <1>1 DEF TableTyped

(* intern appends an entry.                                                  *)
LEMMA TableAppend ==
    ASSUME NEW t, TableTyped(t), NEW e, e[2] \in Ids
    PROVE  TableTyped(Append(t, e))
<1> DEFINE S == {d \in Range(t) : d[2] \in Ids} \cup {e}
<1>1. t \in Seq(S)
  BY DEF TableTyped
<1>2. Append(t, e) \in Seq(S)
  BY <1>1
<1>3. \A d \in S : d[2] \in Ids
  OBVIOUS
<1> HIDE DEF S
<1> QED BY <1>2, <1>3, TableIntro

(* unintern swap-removes an entry.                                           *)
LEMMA TableSwapRemove ==
    ASSUME NEW t, TableTyped(t), NEW i \in DOMAIN t
    PROVE  TableTyped(SwapRemove(t, i))
<1> DEFINE S == {d \in Range(t) : d[2] \in Ids}
<1>1. t \in Seq(S) /\ Len(t) \in Nat /\ Len(t) > 0
  BY DEF TableTyped
<1>2. \A d \in S : d[2] \in Ids
  OBVIOUS
<1> HIDE DEF S
<1>3. SwapRemove(t, i) \in Seq(S)
  BY <1>1 DEF SwapRemove
<1> QED BY <1>2, <1>3, TableIntro

(* Two graphs that differ in interner and worklist only.                     *)
SameEdges(h, h2) ==
    h2.kind = h.kind /\ h2.inps = h.inps /\ h2.outs = h.outs /\ h2.pins = h.pins

(* Changing the interner changes no edge.                                    *)
LEMMA TypedTable ==
    ASSUME NEW h, GraphTyped(h), NEW t, TableTyped(t)
    PROVE  GraphTyped([h EXCEPT !.table = t]) /\ SameEdges(h, [h EXCEPT !.table = t])
<1>1. PICK x : x = [h EXCEPT !.table = t]
  OBVIOUS
<1>2. IsGraph(x) /\ x.table = t /\ SameEdges(h, x)
  BY <1>1 DEF GraphTyped, IsGraph, SameEdges
<1> QED BY <1>1, <1>2 DEF GraphTyped, SameEdges

(* interner_find returns a node with equal contents.                         *)
LEMMA MatchTyped ==
    ASSUME NEW h, GraphTyped(h), NEW n, NEW hash, First(h, n, hash) # {}
    PROVE  /\ Place(h, n, hash) \in DOMAIN h.table
           /\ Found(h, n, hash) \in Ids
           /\ NodeEq(h, Found(h, n, hash), n)
<1>1. h.table \in Seq({e \in Range(h.table) : e[2] \in Ids})
  BY DEF GraphTyped, TableTyped
<1>2. Place(h, n, hash) \in Matches(h, n, hash)
  BY DEF Place, First
<1>3. \A i \in DOMAIN h.table : h.table[i][2] \in Ids
  BY <1>1
<1> QED BY <1>2, <1>3 DEF Matches, Found

(* The node intern answers is the node itself or one of the same, interned,  *)
(* kind.                                                                     *)
LEMMA InternIdTyped ==
    ASSUME NEW h, GraphTyped(h), NEW n \in Ids
    PROVE  /\ InternId(h, n) \in Ids
           /\ InternId(h, n) # n =>
                h.kind[n] \in Interned /\ h.kind[InternId(h, n)] = h.kind[n]
BY MatchTyped DEF InternId, NodeEq, HasInterned

(* intern changes no edge.                                                   *)
LEMMA InternTyped ==
    ASSUME NEW h, GraphTyped(h), NEW n \in Ids
    PROVE  GraphTyped(Intern(h, n)) /\ SameEdges(h, Intern(h, n))
<1>1. TableTyped(Append(h.table, <<NodeHash(h, n), n>>))
  BY TableAppend DEF GraphTyped
<1>2. GraphTyped([h EXCEPT !.table = Append(h.table, <<NodeHash(h, n), n>>)])
      /\ SameEdges(h, [h EXCEPT !.table = Append(h.table, <<NodeHash(h, n), n>>)])
  BY <1>1, TypedTable
<1> QED BY <1>2 DEF Intern, SameEdges

(* unintern changes no edge.                                                 *)
LEMMA UninternTyped ==
    ASSUME NEW h, GraphTyped(h), NEW n
    PROVE  GraphTyped(Unintern(h, n)) /\ SameEdges(h, Unintern(h, n))
<1>1. PICK hash : hash = NodeHash(h, n)
  OBVIOUS
<1>2. PICK i : i = Place(h, n, hash)
  OBVIOUS
<1>3. CASE First(h, n, hash) # {}
  <2>1. TableTyped(SwapRemove(h.table, i))
    BY <1>2, <1>3, MatchTyped, TableSwapRemove DEF GraphTyped
  <2>2. GraphTyped([h EXCEPT !.table = SwapRemove(h.table, i)])
        /\ SameEdges(h, [h EXCEPT !.table = SwapRemove(h.table, i)])
    BY <2>1, TypedTable
  <2> QED BY <2>2, <1>1, <1>2 DEF Unintern, UninternAs, SameEdges
<1>4. CASE First(h, n, hash) = {}
  BY <1>1, <1>4 DEF Unintern, UninternAs, SameEdges
<1> QED BY <1>3, <1>4

(* worklist_add changes no edge.                                             *)
LEMMA WorklistTyped ==
    ASSUME NEW h, GraphTyped(h), NEW ns
    PROVE  GraphTyped(WorklistAddAll(h, ns)) /\ SameEdges(h, WorklistAddAll(h, ns))
BY DEF GraphTyped, IsGraph, SameEdges, WorklistAddAll

(* Flushing triggers changes no edge.                                        *)
LEMMA FlushTyped ==
    ASSUME NEW h, GraphTyped(h), NEW n
    PROVE  GraphTyped(FlushTriggers(h, n)) /\ SameEdges(h, FlushTriggers(h, n))
<1>1. PICK q : q = WorklistAddAll(h, Listing(h.trig[n]))
  OBVIOUS
<1>2. GraphTyped(q) /\ SameEdges(h, q)
  BY <1>1, WorklistTyped
<1>3. FlushTriggers(h, n) = [q EXCEPT !.trig = [q.trig EXCEPT ![n] = {}]]
  BY <1>1 DEF FlushTriggers
<1> QED BY <1>2, <1>3 DEF GraphTyped, IsGraph, SameEdges

(* add_output adds one use to one node.                                      *)
LEMMA AddOutputTyped ==
    ASSUME NEW h, GraphTyped(h), NEW def \in IdsOrNil, NEW use \in Uses, NEW h2,
           h2 = AddOutput(h, def, use)
    PROVE  /\ GraphTyped(h2)
           /\ h2.kind = h.kind /\ h2.inps = h.inps /\ h2.pins = h.pins
           /\ h2.outs = [n \in Ids |-> IF n = def THEN h.outs[n] \cup {use} ELSE h.outs[n]]
<1>1. CASE def = 0
  <2>1. h2 = h
    BY <1>1 DEF AddOutput
  <2>2. \A n \in Ids : n # def
    BY <1>1 DEF Ids
  <2>3. h.outs = [n \in Ids |-> h.outs[n]]
    BY DEF GraphTyped
  <2> QED BY <2>1, <2>2, <2>3
<1>2. CASE def # 0
  <2>1. def \in Ids
    BY <1>2, GraphAssumption DEF Ids, IdsOrNil
  <2>2. h2 = [h EXCEPT !.outs = [h.outs EXCEPT ![def] = h.outs[def] \cup {use}]]
    BY <1>2 DEF AddOutput, GraphTyped, IsGraph
  <2>3. PICK o : o = [h.outs EXCEPT ![def] = h.outs[def] \cup {use}]
    OBVIOUS
  <2>4. o = [n \in Ids |-> IF n = def THEN h.outs[n] \cup {use} ELSE h.outs[n]]
    BY <2>3 DEF GraphTyped
  <2>5. o \in [Ids -> SUBSET Uses]
    BY <2>4 DEF GraphTyped
  <2>6. h2 = [kind |-> h.kind, inps |-> h.inps, outs |-> o, pins |-> h.pins,
              table |-> h.table, peeping |-> h.peeping, queue |-> h.queue, trig |-> h.trig]
    BY <2>2, <2>3 DEF GraphTyped, IsGraph
  <2>7. /\ h2.kind = h.kind /\ h2.inps = h.inps /\ h2.outs = o /\ h2.pins = h.pins
        /\ h2.table = h.table /\ IsGraph(h2)
    BY <2>6 DEF IsGraph
  <2>8. GraphTyped(h2)
    BY <2>5, <2>7 DEF GraphTyped
  <2> QED BY <2>4, <2>7, <2>8
<1> QED BY <1>1, <1>2

(* remove_output removes one use from one node.                              *)
LEMMA DropOutputTyped ==
    ASSUME NEW h, GraphTyped(h), NEW def \in IdsOrNil, NEW use, NEW h2,
           h2 = DropOutput(h, def, use)
    PROVE  /\ GraphTyped(h2)
           /\ h2.kind = h.kind /\ h2.inps = h.inps /\ h2.pins = h.pins
           /\ h2.outs = [n \in Ids |-> IF n = def THEN h.outs[n] \ {use} ELSE h.outs[n]]
<1>1. CASE def = 0
  <2>1. h2 = h
    BY <1>1 DEF DropOutput
  <2>2. \A n \in Ids : n # def
    BY <1>1 DEF Ids
  <2>3. h.outs = [n \in Ids |-> h.outs[n]]
    BY DEF GraphTyped
  <2> QED BY <2>1, <2>2, <2>3
<1>2. CASE def # 0
  <2>1. def \in Ids
    BY <1>2, GraphAssumption DEF Ids, IdsOrNil
  <2>2. h2 = [h EXCEPT !.outs = [h.outs EXCEPT ![def] = h.outs[def] \ {use}]]
    BY <1>2 DEF DropOutput, GraphTyped, IsGraph
  <2>3. PICK o : o = [h.outs EXCEPT ![def] = h.outs[def] \ {use}]
    OBVIOUS
  <2>4. o = [n \in Ids |-> IF n = def THEN h.outs[n] \ {use} ELSE h.outs[n]]
    BY <2>3 DEF GraphTyped
  <2>5. o \in [Ids -> SUBSET Uses]
    BY <2>4 DEF GraphTyped
  <2>6. h2 = [kind |-> h.kind, inps |-> h.inps, outs |-> o, pins |-> h.pins,
              table |-> h.table, peeping |-> h.peeping, queue |-> h.queue, trig |-> h.trig]
    BY <2>2, <2>3 DEF GraphTyped, IsGraph
  <2>7. /\ h2.kind = h.kind /\ h2.inps = h.inps /\ h2.outs = o /\ h2.pins = h.pins
        /\ h2.table = h.table /\ IsGraph(h2)
    BY <2>6 DEF IsGraph
  <2>8. GraphTyped(h2)
    BY <2>5, <2>7 DEF GraphTyped
  <2> QED BY <2>4, <2>7, <2>8
<1> QED BY <1>1, <1>2

(* Assigning a slot changes that slot alone.                                 *)
LEMMA SetSlotTyped ==
    ASSUME NEW h, GraphTyped(h), NEW use \in Uses, NEW value \in IdsOrNil, NEW h2,
           h2 = SetSlot(h, use, value)
    PROVE  /\ GraphTyped(h2)
           /\ h2.kind = h.kind /\ h2.outs = h.outs /\ h2.pins = h.pins
           /\ \A n \in Ids : /\ DOMAIN h2.inps[n] = DOMAIN h.inps[n]
                             /\ \A i \in DOMAIN h.inps[n] :
                                  h2.inps[n][i] = IF <<n, i>> = use THEN value ELSE h.inps[n][i]
<1>1. PICK u : u = use[1]
  OBVIOUS
<1>2. PICK k : k = use[2]
  OBVIOUS
<1>3. use = <<u, k>> /\ u \in Ids
  BY <1>1, <1>2 DEF Uses
<1>4. h2 = [h EXCEPT !.inps = [h.inps EXCEPT ![u] = [h.inps[u] EXCEPT ![k] = value]]]
  BY <1>1, <1>2 DEF SetSlot, GraphTyped, IsGraph
<1>5. PICK s : s = [h.inps[u] EXCEPT ![k] = value]
  OBVIOUS
<1>6. s \in Seq(IdsOrNil)
  <2>1. h.inps[u] \in Seq(IdsOrNil)
    BY <1>3 DEF GraphTyped
  <2>2. CASE k \in DOMAIN h.inps[u]
    BY <2>1, <2>2, <1>5
  <2>3. CASE k \notin DOMAIN h.inps[u]
    <3>1. s = h.inps[u]
      BY <2>1, <2>3, <1>5
    <3> QED BY <3>1, <2>1
  <2> QED BY <2>2, <2>3
<1>7. PICK p : p = [h.inps EXCEPT ![u] = s]
  OBVIOUS
<1>8. p \in [Ids -> Seq(IdsOrNil)]
  BY <1>6, <1>7 DEF GraphTyped
<1>9. h2.inps = p /\ h2.kind = h.kind /\ h2.outs = h.outs /\ h2.pins = h.pins
  BY <1>4, <1>5, <1>7 DEF GraphTyped, IsGraph
<1>10. GraphTyped(h2)
  BY <1>4, <1>5, <1>7, <1>8 DEF GraphTyped, IsGraph
<1>11. ASSUME NEW n \in Ids
       PROVE /\ DOMAIN p[n] = DOMAIN h.inps[n]
             /\ \A i \in DOMAIN h.inps[n] :
                  p[n][i] = IF <<n, i>> = use THEN value ELSE h.inps[n][i]
  <2>1. CASE n = u
    <3>1. p[n] = s
      BY <2>1, <1>3, <1>7 DEF GraphTyped
    <3>2. DOMAIN s = DOMAIN h.inps[u]
      BY <1>5
    <3>3. \A i \in DOMAIN h.inps[u] : s[i] = IF i = k THEN value ELSE h.inps[u][i]
      BY <1>5
    <3> QED BY <2>1, <3>1, <3>2, <3>3, <1>3
  <2>2. CASE n # u
    BY <2>2, <1>3, <1>7 DEF GraphTyped
  <2> QED BY <2>1, <2>2
<1> QED BY <1>9, <1>10, <1>11

(* The invariant speaks of edges and pins alone.                             *)
LEMMA SameCore ==
    ASSUME NEW h, NEW h2, NEW t, Core(h, t), GraphTyped(h2), SameEdges(h, h2)
    PROVE  Core(h2, t) /\ (PinsHeld(h, t) => PinsHeld(h2, t))
<1>1. \A n : Alive(h2, n) <=> Alive(h, n)
  BY DEF Alive, SameEdges
<1>2. SinksUnused(h2)
  BY DEF SinksUnused, Core, SameEdges
<1>3. ASSUME NEW F, NEW f \in F, FrameOK(h, F, f) PROVE FrameOK(h2, F, f)
  BY <1>1, <1>3 DEF FrameOK, SameEdges, Slot
<1>4. FramesOK(h2, Range(t))
  BY <1>3 DEF Core, FramesOK
<1>5. SlotsOK(h2, Range(t))
  BY <1>1 DEF Core, SlotsOK, SameEdges, Redirected, Listed
<1>6. UsesOK(h2, Range(t))
  BY <1>1 DEF Core, UsesOK, SameEdges, Slot
<1>7. PinsHeld(h, t) => PinsHeld(h2, t)
  BY <1>1 DEF PinsHeld, SameEdges
<1> QED BY <1>2, <1>4, <1>5, <1>6, <1>7 DEF Core

(* Use-def consistency of a graph on which no call runs.                     *)
Consistent(h) ==
    \A n \in Ids :
        /\ Alive(h, n) => \A i \in DOMAIN h.inps[n] : h.inps[n][i] = 0 \/ Listed(h, n, i)
        /\ \A use \in h.outs[n] :
              Alive(h, use[1]) /\ use[2] \in DOMAIN h.inps[use[1]] /\ Slot(h, use) = n

(* With no call running the invariant is use-def consistency.                *)
LEMMA QuietCore ==
    ASSUME NEW h
    PROVE  /\ Core(h, <<>>) <=> GraphTyped(h) /\ SinksUnused(h) /\ Consistent(h)
           /\ GraphTyped(h) => PinsHeld(h, <<>>)
<1>1. \A use : ~ Gone({}, use)
  BY DEF Gone
<1>2. FramesOK(h, {})
  BY DEF FramesOK
<1>3. SlotsOK(h, {}) /\ UsesOK(h, {}) <=> Consistent(h)
  BY <1>1 DEF SlotsOK, UsesOK, Consistent, Redirected, Nilled
<1>4. GraphTyped(h) => PinsHeld(h, <<>>)
  <2> SUFFICES ASSUME GraphTyped(h), NEW n \in Ids
               PROVE  Held(<<>>, n, h.pins[n])
    BY DEF PinsHeld
  <2>1. h.pins[n] \in Nat
    BY DEF GraphTyped
  <2>2. PICK count : count = [d \in 0 .. 0 |-> 0]
    OBVIOUS
  <2>3. count \in [0 .. Len(<<>>) -> Nat] /\ count[0] = 0 /\ Len(<<>>) = 0
    BY <2>2
  <2> QED BY <2>1, <2>3 DEF Held
<1> QED BY <1>2, <1>3, <1>4, EmptyStack DEF Core

(* A call that excuses no slot and no use.                                   *)
Silent(f) == f.op \notin {"clear", "nil", "move"} /\ (f.op = "delete" => f.at \in 0 .. 1)

(* Such a call may be pushed or popped without touching the edges.           *)
LEMMA SilentFrame ==
    ASSUME NEW h, GraphTyped(h), NEW f, Silent(f), NEW R
    PROVE  /\ SlotsOK(h, {f} \cup R) <=> SlotsOK(h, R)
           /\ UsesOK(h, {f} \cup R) <=> UsesOK(h, R)
           /\ \A b : FrameOK(h, {f} \cup R, b) <=> FrameOK(h, R, b)
<1>1. PICK F : F = {f} \cup R
  OBVIOUS
<1>2. \A use : use[2] \in Nat \ {0} => (Gone(F, use) <=> Gone(R, use))
  BY <1>1 DEF Gone, Silent
<1>3. \A n \in Ids : \A i \in DOMAIN h.inps[n] : <<n, i>>[2] \in Nat \ {0}
  BY DEF GraphTyped
<1>4. \A n \in Ids : \A use \in h.outs[n] : use[2] \in Nat \ {0}
  BY DEF GraphTyped, Uses
<1>5. \A n, i : Redirected(h, F, n, i) <=> Redirected(h, R, n, i)
  BY <1>1 DEF Redirected, Silent
<1>6. \A n : Nilled(F, n) <=> Nilled(R, n)
  BY <1>1 DEF Nilled, Silent
<1>7. \A n, use : ~ Moves(f, n, use)
  BY DEF Moves, Silent
<1>8. SlotsOK(h, F) <=> SlotsOK(h, R)
  <2>1. \A n \in Ids : \A i \in DOMAIN h.inps[n] : Gone(F, <<n, i>>) <=> Gone(R, <<n, i>>)
    BY <1>2, <1>3
  <2> QED BY <2>1, <1>5 DEF SlotsOK
<1>9. UsesOK(h, F) <=> UsesOK(h, R)
  <2>1. \A n \in Ids : \A use \in h.outs[n] : Gone(F, use) <=> Gone(R, use)
    BY <1>2, <1>4
  <2>2. \A n, use : (\A b \in F : ~ Moves(b, n, use)) <=> (\A b \in R : ~ Moves(b, n, use))
    BY <1>1, <1>7
  <2>3. \A n, use : (\A b \in F : Moves(b, n, use) => Slot(h, use) = b.with)
                      <=> (\A b \in R : Moves(b, n, use) => Slot(h, use) = b.with)
    BY <1>1, <1>7
  <2> QED BY <2>1, <2>2, <2>3, <1>6 DEF UsesOK
<1>10. ASSUME NEW b PROVE FrameOK(h, F, b) <=> FrameOK(h, R, b)
  <2>1. ASSUME Alive(h, b.node), NEW i \in DOMAIN h.inps[b.node]
        PROVE  Gone(F, <<b.node, i>>) <=> Gone(R, <<b.node, i>>)
    <3>1. b.node \in Ids
      BY <2>1 DEF Alive
    <3> QED BY <3>1, <1>2, <1>3
  <2> QED BY <2>1 DEF FrameOK
<1> QED BY <1>1, <1>8, <1>9, <1>10

(* The invariant with a call pushed.                                         *)
LEMMA CoreCons ==
    ASSUME NEW h, NEW f, NEW r, IsFrame(f), StackTyped(r)
    PROVE  Core(h, <<f>> \o r) <=>
             /\ GraphTyped(h) /\ SinksUnused(h)
             /\ Nested(r) /\ \A b \in Range(r) : MayCall(f, b)
             /\ FramesOK(h, {f} \cup Range(r))
             /\ SlotsOK(h, {f} \cup Range(r)) /\ UsesOK(h, {f} \cup Range(r))
<1>1. PICK t : t = <<f>> \o r
  OBVIOUS
<1>2. StackTyped(t) /\ Range(t) = {f} \cup Range(r)
  BY <1>1, StackCons
<1>3. Nested(t) <=> Nested(r) /\ \A b \in Range(r) : MayCall(f, b)
  BY <1>1, NestedCons
<1> QED BY <1>1, <1>2, <1>3 DEF Core

(* The pins held with a call pushed.                                         *)
LEMMA PinsCons ==
    ASSUME NEW h, GraphTyped(h), NEW f, NEW r, IsFrame(f), StackTyped(r)
    PROVE  PinsHeld(h, <<f>> \o r) <=>
             \A n \in Ids : Alive(h, n) =>
                \/ \E b \in {f} \cup Range(r) : b.op = "delete" /\ b.node = n
                \/ HeldOver(f, r, n, h.pins[n])
<1>1. PICK t : t = <<f>> \o r
  OBVIOUS
<1>2. Range(t) = {f} \cup Range(r)
  BY <1>1, StackCons
<1>3. \A n \in Ids : h.pins[n] \in Nat
  BY DEF GraphTyped
<1>4. \A n \in Ids : Held(t, n, h.pins[n]) <=> HeldOver(f, r, n, h.pins[n])
  BY <1>1, <1>3, HeldCons
<1> QED BY <1>1, <1>2, <1>4 DEF PinsHeld

(* A call that pins nothing may be pushed, and popped unless it is a         *)
(* deletion.                                                                 *)
LEMMA PinsSkip ==
    ASSUME NEW h, GraphTyped(h), NEW f, NEW r, IsFrame(f), StackTyped(r),
           f.op \notin {"keep", "rehash"}
    PROVE  /\ PinsHeld(h, r) => PinsHeld(h, <<f>> \o r)
           /\ f.op # "delete" => (PinsHeld(h, <<f>> \o r) => PinsHeld(h, r))
<1>1. \A n : ~ Holds(f, n)
  BY DEF Holds
<1>2. PinsHeld(h, <<f>> \o r) <=>
        \A n \in Ids : Alive(h, n) =>
           \/ \E b \in {f} \cup Range(r) : b.op = "delete" /\ b.node = n
           \/ Held(r, n, h.pins[n])
  <2>1. \A n \in Ids : HeldOver(f, r, n, h.pins[n]) <=> Held(r, n, h.pins[n])
    BY <1>1 DEF HeldOver
  <2> QED BY <2>1, PinsCons
<1> QED BY <1>2 DEF PinsHeld

(* Starting a silent call keeps the invariant.                               *)
LEMMA SilentPush ==
    ASSUME NEW h, NEW f, NEW r, Core(h, r), IsFrame(f), Silent(f),
           \A b \in Range(r) : MayCall(f, b), FrameOK(h, Range(r), f)
    PROVE  Core(h, <<f>> \o r)
<1>1. GraphTyped(h) /\ StackTyped(r) /\ Nested(r)
  BY DEF Core
<1>2. SlotsOK(h, {f} \cup Range(r)) /\ UsesOK(h, {f} \cup Range(r))
  BY <1>1, SilentFrame DEF Core
<1>3. FramesOK(h, {f} \cup Range(r))
  BY <1>1, SilentFrame DEF Core, FramesOK
<1> QED BY <1>1, <1>2, <1>3, CoreCons DEF Core

(* So does its return.                                                       *)
LEMMA SilentPop ==
    ASSUME NEW h, NEW f, NEW r, IsFrame(f), StackTyped(r), Core(h, <<f>> \o r), Silent(f)
    PROVE  /\ Core(h, r) /\ FrameOK(h, Range(r), f)
           /\ \A b \in Range(r) : MayCall(f, b)
<1>1. /\ GraphTyped(h) /\ SinksUnused(h) /\ Nested(r)
      /\ \A b \in Range(r) : MayCall(f, b)
      /\ FramesOK(h, {f} \cup Range(r))
      /\ SlotsOK(h, {f} \cup Range(r)) /\ UsesOK(h, {f} \cup Range(r))
  BY CoreCons
<1>2. SlotsOK(h, Range(r)) /\ UsesOK(h, Range(r))
  BY <1>1, SilentFrame
<1>3. FramesOK(h, Range(r)) /\ FrameOK(h, Range(r), f)
  BY <1>1, SilentFrame DEF FramesOK
<1> QED BY <1>1, <1>2, <1>3 DEF Core

(* What delete_node asks of a node before it deletes it.                     *)
LEMMA CountZero ==
    ASSUME NEW h, GraphTyped(h), NEW n, Deletable(h, n)
    PROVE  Alive(h, n) /\ n \in Ids /\ h.outs[n] = {} /\ h.pins[n] = 0
BY DEF Deletable, Alive

(* No running call is deleting or truncating n, and no subsume has uses      *)
(* left.                                                                     *)
DeleteFits(n, r) ==
    \A b \in Range(r) : /\ b.op \notin {"subsume", "move"}
                        /\ b.op \in {"delete", "truncate"} => b.node # n

(* delete_node of such a node may start.                                     *)
LEMMA PushDelete ==
    ASSUME NEW h, NEW r, Core(h, r), NEW n, Deletable(h, n), DeleteFits(n, r)
    PROVE  Core(h, <<DeleteFrame(n)>> \o r)
<1>1. GraphTyped(h)
  BY DEF Core
<1>2. Alive(h, n) /\ n \in Ids /\ h.outs[n] = {} /\ h.pins[n] = 0
  BY <1>1, CountZero
<1>3. PICK f : f = DeleteFrame(n)
  OBVIOUS
<1>4. f.op = "delete" /\ f.node = n /\ f.at = 0 /\ IsFrame(f)
  BY <1>2, <1>3 DEF DeleteFrame, IsFrame
<1>5. Silent(f) /\ FrameOK(h, Range(r), f)
  BY <1>2, <1>4 DEF Silent, FrameOK
<1>6. \A b \in Range(r) : MayCall(f, b)
  BY <1>4 DEF MayCall, DeleteFits
<1> QED BY <1>3, <1>4, <1>5, <1>6, SilentPush

(* remove_output and unpin end in delete_node, which starts or does nothing. *)
LEMMA DeletingKeeps ==
    ASSUME NEW h, NEW r, Core(h, r), PinsHeld(h, r), NEW n,
           Deletable(h, n) => DeleteFits(n, r)
    PROVE  Core(h, Deleting(h, n, r)) /\ PinsHeld(h, Deleting(h, n, r))
<1>1. CASE ~ Deletable(h, n)
  BY <1>1 DEF Deleting
<1>2. CASE Deletable(h, n)
  <2>1. Core(h, <<DeleteFrame(n)>> \o r)
    BY <1>2, PushDelete
  <2>2. GraphTyped(h) /\ StackTyped(r) /\ n \in Ids
    BY <1>2, CountZero DEF Core
  <2>3. IsFrame(DeleteFrame(n)) /\ DeleteFrame(n).op = "delete"
    BY <2>2 DEF DeleteFrame, IsFrame
  <2>4. PinsHeld(h, <<DeleteFrame(n)>> \o r)
    BY <2>2, <2>3, PinsSkip
  <2> QED BY <1>2, <2>1, <2>4 DEF Deleting
<1> QED BY <1>1, <1>2

(* intern answering another node starts a subsume of equal kinds.            *)
LEMMA PushSubsume ==
    ASSUME NEW h, NEW r, Core(h, r), PinsHeld(h, r),
           NEW n \in Ids, NEW id \in Ids, id # n,
           h.kind[n] \in Interned, h.kind[id] = h.kind[n],
           \A b \in Range(r) : b.op \in {"rehash", "nil"}
    PROVE  /\ Core(h, <<SubsumeFrame(id, n)>> \o r)
           /\ PinsHeld(h, <<SubsumeFrame(id, n)>> \o r)
<1>1. PICK f : f = SubsumeFrame(id, n)
  OBVIOUS
<1>2. id \in IdsOrNil /\ id # 0
  BY GraphAssumption DEF Ids, IdsOrNil
<1>3. f.op = "subsume" /\ f.with = id /\ f.target = n /\ IsFrame(f)
  BY <1>1, <1>2 DEF SubsumeFrame, IsFrame
<1>4. Silent(f)
  BY <1>3 DEF Silent
<1>5. FrameOK(h, Range(r), f)
  <2>1. h.kind[id] \notin Sinks
    BY GraphAssumption
  <2> QED BY <2>1, <1>2, <1>3 DEF FrameOK
<1>6. \A b \in Range(r) : MayCall(f, b)
  <2> TAKE b \in Range(r)
  <2>1. FrameOK(h, Range(r), b)
    BY DEF Core, FramesOK
  <2>2. b.op = "nil" => b.target # n /\ b.target # id
    BY <2>1 DEF FrameOK
  <2>3. b.op \in {"rehash", "nil"}
    OBVIOUS
  <2> QED BY <2>2, <2>3, <1>3 DEF MayCall
<1>7. Core(h, <<f>> \o r)
  BY <1>3, <1>4, <1>5, <1>6, SilentPush
<1>8. PinsHeld(h, <<f>> \o r)
  BY <1>3, PinsSkip DEF Core
<1> QED BY <1>1, <1>7, <1>8

(* The calls of a stack have one of the known forms.                         *)
LEMMA FramesTyped ==
    ASSUME NEW r, StackTyped(r), NEW b \in Range(r)
    PROVE  IsFrame(b) /\ b.op \in FrameOps
<1>1. IsFrame(b)
  BY DEF StackTyped, Range
<1> QED BY <1>1 DEF IsFrame, FrameOps

(* Only calls that rehash wait for anything but a deletion or a clearing.    *)
LEMMA Waiting ==
    ASSUME NEW f, NEW r, StackTyped(r), \A b \in Range(r) : MayCall(f, b)
    PROVE  /\ f.op \notin {"delete", "clear"} =>
                \A b \in Range(r) : b.op \in {"rehash", "nil"}
           /\ f.op = "clear" =>
                \A b \in Range(r) : b.op \in {"rehash", "nil", "truncate"}
<1>1. \A b \in Range(r) : b.op \in FrameOps
  BY FramesTyped
<1> QED BY <1>1 DEF MayCall, FrameOps

(* The running call on top of the stack.                                     *)
LEMMA Top ==
    ASSUME NEW h, NEW t, Core(h, t), t # <<>>
    PROVE  /\ t = <<Head(t)>> \o Tail(t)
           /\ IsFrame(Head(t)) /\ StackTyped(Tail(t)) /\ GraphTyped(h)
BY Uncons DEF Core

(* delete_node flushes the node's triggers: no edge changes.                 *)
LEMMA DeleteBeginKeeps ==
    ASSUME Core(g, todo), PinsHeld(g, todo), DeleteBegin
    PROVE  Core(g', todo') /\ PinsHeld(g', todo')
<1>1. PICK f : f = Head(todo)
  OBVIOUS
<1>2. PICK r : r = Tail(todo)
  OBVIOUS
<1>3. PICK f2 : f2 = [f EXCEPT !.at = 1]
  OBVIOUS
<1>4. /\ f.op = "delete" /\ f.at = 0 /\ todo # <<>>
      /\ g' = FlushTriggers(g, f.node) /\ todo' = <<f2>> \o r
  BY <1>1, <1>2, <1>3 DEF DeleteBegin, Running, Frame
<1>5. todo = <<f>> \o r /\ IsFrame(f) /\ StackTyped(r) /\ GraphTyped(g)
  BY <1>1, <1>2, <1>4, Top
<1>6. f2.op = "delete" /\ f2.node = f.node /\ f2.at = 1 /\ IsFrame(f2)
  BY <1>3, <1>4, <1>5 DEF IsFrame
<1>7. Silent(f) /\ Silent(f2)
  BY <1>4, <1>6 DEF Silent
<1>8. Core(g, r) /\ FrameOK(g, Range(r), f) /\ \A b \in Range(r) : MayCall(f, b)
  BY <1>5, <1>7, SilentPop
<1>9. FrameOK(g, Range(r), f2) /\ \A b \in Range(r) : MayCall(f2, b)
  BY <1>4, <1>6, <1>8 DEF FrameOK, MayCall
<1>10. Core(g, <<f2>> \o r)
  BY <1>6, <1>7, <1>8, <1>9, SilentPush
<1>11. PinsHeld(g, <<f2>> \o r)
  <2>1. \A n : ~ Holds(f, n) /\ ~ Holds(f2, n)
    BY <1>4, <1>6 DEF Holds
  <2>2. \A n : (\E b \in {f} \cup Range(r) : b.op = "delete" /\ b.node = n) =>
               \E b \in {f2} \cup Range(r) : b.op = "delete" /\ b.node = n
    BY <1>6
  <2>3. \A n \in Ids : HeldOver(f, r, n, g.pins[n]) <=> HeldOver(f2, r, n, g.pins[n])
    BY <2>1 DEF HeldOver
  <2> QED BY <2>2, <2>3, <1>5, <1>6, PinsCons
<1>12. GraphTyped(g') /\ SameEdges(g, g')
  BY <1>4, <1>5, FlushTyped
<1>13. PICK h2 : h2 = g'
  OBVIOUS
<1> QED BY <1>4, <1>10, <1>11, <1>12, SameCore

(* delete_node removes its use of the next input, which may start the        *)
(* deletion of that input: the slot is Gone from then on, and since the node *)
(* itself is unused it is not the input.                                     *)
LEMMA DeleteInputKeeps ==
    ASSUME Core(g, todo), PinsHeld(g, todo), DeleteInput
    PROVE  Core(g', todo') /\ PinsHeld(g', todo')
<1>1. PICK f : f = Head(todo)
  OBVIOUS
<1>2. PICK r : r = Tail(todo)
  OBVIOUS
<1>3. PICK f2 : f2 = [f EXCEPT !.at = f.at + 1]
  OBVIOUS
<1>4. PICK n : n = f.node
  OBVIOUS
<1>5. PICK def : def = g.inps[n][f.at]
  OBVIOUS
<1>6. PICK use : use = <<n, f.at>>
  OBVIOUS
<1>7. PICK q : q = IF def # 0 /\ OutputCount(g, def) > 1 THEN WorklistAdd(g, def) ELSE g
  OBVIOUS
<1>8. PICK h2 : h2 = DropOutput(q, def, use)
  OBVIOUS
<1>9. /\ f.op = "delete" /\ f.at \in DOMAIN g.inps[n] /\ todo # <<>>
      /\ IF def # 0 /\ use \notin g.outs[def] THEN g' = g /\ todo' = todo
         ELSE g' = h2 /\ todo' = Deleting(h2, def, <<f2>> \o r)
  BY <1>1, <1>2, <1>3, <1>4, <1>5, <1>6, <1>7, <1>8
     DEF DeleteInput, Running, Frame, Fail
<1>10. CASE def # 0 /\ use \notin g.outs[def]
  BY <1>9, <1>10
<1>11. CASE ~ (def # 0 /\ use \notin g.outs[def])
  <2>1. GraphTyped(q) /\ SameEdges(g, q)
    BY <1>7, WorklistTyped DEF WorklistAdd, Core, SameEdges
  <2>2. Core(q, todo) /\ PinsHeld(q, todo)
    BY <2>1, SameCore
  <2>0. todo = <<f>> \o r /\ IsFrame(f) /\ StackTyped(r)
    BY <1>1, <1>2, <1>9, Top
  <2> DEFINE F == {f} \cup Range(r)
             F2 == {f2} \cup Range(r)
  <2>3. /\ todo = <<f>> \o r /\ IsFrame(f) /\ StackTyped(r)
        /\ Nested(r) /\ (\A b \in Range(r) : MayCall(f, b))
        /\ SinksUnused(q) /\ FramesOK(q, F) /\ SlotsOK(q, F) /\ UsesOK(q, F)
    BY <2>2, <2>0, CoreCons
  <2>4. /\ n \in Ids /\ f.at \in Nat
        /\ f2.op = "delete" /\ f2.node = n /\ f2.at = f.at + 1 /\ IsFrame(f2)
    <3>1. f \in [op : {"delete"}, node : Ids, at : Nat]
      BY <1>9, <2>3 DEF IsFrame
    <3>2. /\ f2 \in [op : {"delete"}, node : Ids, at : Nat]
          /\ f2.node = f.node /\ f2.at = f.at + 1
      BY <3>1, <1>3
    <3> QED BY <3>1, <3>2, <1>4 DEF IsFrame
  <2>5. q.inps[n][f.at] = def /\ f.at \in DOMAIN q.inps[n] /\ def \in IdsOrNil
    <3>1. q.inps = g.inps /\ g.inps[n] \in Seq(IdsOrNil)
      BY <2>1, <2>4 DEF SameEdges, GraphTyped
    <3> QED BY <3>1, <1>5, <1>9
  <2>6. use \in Uses
    BY <1>6, <2>1, <2>4, <2>5 DEF GraphTyped, Uses
  <2>7. /\ GraphTyped(h2) /\ h2.kind = q.kind /\ h2.inps = q.inps /\ h2.pins = q.pins
        /\ h2.outs = [m \in Ids |-> IF m = def THEN q.outs[m] \ {use} ELSE q.outs[m]]
    BY <1>8, <2>1, <2>5, DropOutputTyped
  <2>8. Alive(q, n) /\ q.outs[n] = {} /\ q.pins[n] = 0
    BY <1>4, <1>9, <2>3 DEF FramesOK, FrameOK
  <2>9. \A b \in F : b.op \notin {"subsume", "move"}
    BY <1>9, <2>3 DEF MayCall
  <2>10. \A m : Alive(h2, m) <=> Alive(q, m)
    BY <2>7 DEF Alive
  <2>11. \A m \in Ids : \A i \in DOMAIN q.inps[m] : Gone(F, <<m, i>>) => Gone(F2, <<m, i>>)
    <3> SUFFICES ASSUME NEW m \in Ids, NEW i \in DOMAIN q.inps[m], Gone(F, <<m, i>>)
                 PROVE  Gone(F2, <<m, i>>)
      OBVIOUS
    <3>1. i \in Nat
      BY <2>1 DEF GraphTyped
    <3> QED BY <3>1, <1>4, <1>9, <2>4 DEF Gone
  <2>12. \A u \in Uses : Gone(F2, u) => Gone(F, u) \/ u = use
    <3> SUFFICES ASSUME NEW u \in Uses, Gone(F2, u), ~ Gone(F, u) PROVE u = use
      OBVIOUS
    <3>1. u[1] = n /\ u[2] < f.at + 1
      BY <2>4 DEF Gone
    <3>2. ~ (u[2] < f.at)
      BY <3>1, <1>4, <1>9 DEF Gone
    <3>3. u = <<u[1], u[2]>> /\ u[2] \in Nat
      BY DEF Uses
    <3> QED BY <3>1, <3>2, <3>3, <2>4, <1>6
  <2>13. Gone(F2, use)
    BY <1>6, <2>4 DEF Gone
  <2>14. \A m \in Ids : h2.outs[m] \subseteq q.outs[m]
    BY <2>7
  <2>15. FramesOK(h2, F2)
    <3> SUFFICES ASSUME NEW b \in F2 PROVE FrameOK(h2, F2, b)
      BY DEF FramesOK
    <3>1. CASE b = f2
      <4>1. Alive(h2, n) /\ h2.outs[n] = {} /\ h2.pins[n] = 0
        BY <2>4, <2>7, <2>8, <2>10, <2>14
      <4> QED BY <3>1, <4>1, <2>4 DEF FrameOK
    <3>2. CASE b \in Range(r)
      <4>1. FrameOK(q, F, b) /\ IsFrame(b) /\ b.op \notin {"subsume", "move"}
        BY <3>2, <2>3, <2>9, FramesTyped DEF FramesOK
      <4>2. b.op = "delete" => Alive(h2, b.node) /\ h2.outs[b.node] = {} /\ h2.pins[b.node] = 0
        <5>1. b.op = "delete" => b.node \in Ids
          BY <4>1 DEF FrameOK, Alive
        <5> QED BY <5>1, <4>1, <2>7, <2>10, <2>14 DEF FrameOK
      <4>3. b.op = "set_done" /\ Alive(h2, b.use[1]) =>
               b.use[2] \in DOMAIN h2.inps[b.use[1]] /\ Slot(h2, b.use) = b.value
        BY <4>1, <2>7, <2>10 DEF FrameOK, Slot
      <4>4. b.op = "nil" =>
              /\ h2.kind[b.target] \notin Interned
              /\ \A m \in Ids : Alive(h2, m) =>
                    \A i \in DOMAIN h2.inps[m] : h2.inps[m][i] # b.target
        BY <4>1, <2>7, <2>10 DEF FrameOK
      <4>5. b.op = "truncate" =>
              /\ Alive(h2, b.node) /\ h2.outs[b.node] = {} /\ b.len =< Len(h2.inps[b.node])
              /\ \A i \in DOMAIN h2.inps[b.node] :
                    b.len < i /\ i < b.at => h2.inps[b.node][i] = 0 \/ Gone(F2, <<b.node, i>>)
        <5>1. b.op = "truncate" => b.node \in Ids
          BY <4>1 DEF FrameOK, Alive
        <5> QED BY <5>1, <4>1, <2>7, <2>10, <2>11, <2>14 DEF FrameOK
      <4> QED BY <4>1, <4>2, <4>3, <4>4, <4>5 DEF FrameOK
    <3> QED BY <3>1, <3>2
  <2>16. SlotsOK(h2, F2)
    <3> SUFFICES ASSUME NEW m \in Ids, Alive(h2, m), NEW i \in DOMAIN h2.inps[m]
                 PROVE  h2.inps[m][i] = 0 \/ Gone(F2, <<m, i>>) \/ Listed(h2, m, i)
      BY DEF SlotsOK
    <3>1. \/ q.inps[m][i] = 0 \/ Gone(F, <<m, i>>)
          \/ Redirected(q, F, m, i) \/ Listed(q, m, i)
      BY <2>3, <2>7, <2>10 DEF SlotsOK
    <3>2. ~ Redirected(q, F, m, i)
      BY <2>9 DEF Redirected
    <3>3. CASE Listed(q, m, i)
      <4>1. CASE <<m, i>> = use
        BY <4>1, <2>13
      <4>2. CASE <<m, i>> # use
        <5>1. q.inps[m][i] \in Ids /\ <<m, i>> \in q.outs[q.inps[m][i]]
          BY <3>3 DEF Listed, Alive
        <5>2. <<m, i>> \in h2.outs[q.inps[m][i]]
          BY <5>1, <4>2, <2>7
        <5> QED BY <5>2, <3>3, <2>7, <2>10 DEF Listed
      <4> QED BY <4>1, <4>2
    <3> QED BY <3>1, <3>2, <3>3, <2>7, <2>11
  <2>17. UsesOK(h2, F2)
    <3>1. \A m : Nilled(F2, m) <=> Nilled(F, m)
      BY <1>9, <2>4 DEF Nilled
    <3>2. \A b \in F2 : b.op \notin {"subsume", "move"}
      BY <2>4, <2>9
    <3> SUFFICES ASSUME NEW m \in Ids, ~ Nilled(F, m), NEW u \in h2.outs[m]
                 PROVE  /\ Alive(h2, u[1]) /\ u[2] \in DOMAIN h2.inps[u[1]]
                        /\ ~ Gone(F2, u) /\ Slot(h2, u) = m
      BY <3>1, <3>2 DEF UsesOK, Moves
    <3>3. u \in q.outs[m] /\ u \in Uses
      BY <2>14, <2>7 DEF GraphTyped
    <3>4. /\ Alive(q, u[1]) /\ u[2] \in DOMAIN q.inps[u[1]]
          /\ ~ Gone(F, u) /\ Slot(q, u) = m
      BY <3>3, <2>3, <2>9 DEF UsesOK, Moves
    <3>5. u # use
      <4> SUFFICES ASSUME u = use PROVE FALSE
        OBVIOUS
      <4>1. Slot(q, u) = def
        BY <1>6, <2>5 DEF Slot
      <4>2. m = def
        BY <4>1, <3>4
      <4> QED BY <4>2, <2>7
    <3> QED BY <3>3, <3>4, <3>5, <2>7, <2>10, <2>12 DEF Slot
  <2>18. SinksUnused(h2)
    BY <2>3, <2>7, <2>14 DEF SinksUnused
  <2>19. \A b \in Range(r) : MayCall(f2, b)
    BY <1>4, <1>9, <2>3, <2>4 DEF MayCall
  <2>20. Core(h2, <<f2>> \o r)
    BY <2>3, <2>4, <2>7, <2>15, <2>16, <2>17, <2>18, <2>19, CoreCons
  <2>21. PinsHeld(h2, <<f2>> \o r)
    <3>1. \A m : ~ Holds(f, m) /\ ~ Holds(f2, m)
      BY <1>9, <2>4 DEF Holds
    <3>2. \A m : (\E b \in {f} \cup Range(r) : b.op = "delete" /\ b.node = m) =>
                 \E b \in {f2} \cup Range(r) : b.op = "delete" /\ b.node = m
      BY <1>4, <2>4
    <3> HIDE DEF F, F2
    <3>3. \A m \in Ids : HeldOver(f, r, m, q.pins[m]) <=> HeldOver(f2, r, m, q.pins[m])
      BY <3>1 DEF HeldOver
    <3>4. \A m \in Ids : Alive(q, m) =>
            \/ \E b \in {f} \cup Range(r) : b.op = "delete" /\ b.node = m
            \/ HeldOver(f, r, m, q.pins[m])
      BY <2>0, <2>1, <2>2, PinsCons
    <3>5. \A m \in Ids : Alive(h2, m) =>
            \/ \E b \in {f2} \cup Range(r) : b.op = "delete" /\ b.node = m
            \/ HeldOver(f2, r, m, h2.pins[m])
      BY <3>2, <3>3, <3>4, <2>7, <2>10
    <3> QED BY <3>5, <2>3, <2>4, <2>7, PinsCons
  <2>22. Deletable(h2, def) => DeleteFits(def, <<f2>> \o r)
    <3> SUFFICES ASSUME Deletable(h2, def) PROVE DeleteFits(def, <<f2>> \o r)
      OBVIOUS
    <3>1. def \in Ids /\ def # 0
      BY DEF Deletable, Alive, Ids
    <3>2. use \in q.outs[def]
      BY <3>1, <1>11, <2>1 DEF SameEdges
    <3>3. Range(<<f2>> \o r) = F2
      BY <2>3, <2>4, StackCons
    <3>4. \A b \in Range(r) : b.op \in {"delete", "truncate"} => b.node # def
      BY <3>2, <2>3 DEF FramesOK, FrameOK
    <3>5. n # def
      BY <3>2, <2>8
    <3> QED BY <3>3, <3>4, <3>5, <2>4, <2>9 DEF DeleteFits
  <2> QED BY <1>9, <1>11, <2>20, <2>21, <2>22, DeletingKeeps
<1> QED BY <1>10, <1>11

(* delete_node ends.  All slots of the node are Gone or nil, so no output    *)
(* names it, and no slot names it, since it is unused.                       *)
LEMMA DeleteEndKeeps ==
    ASSUME Core(g, todo), PinsHeld(g, todo), DeleteEnd
    PROVE  Core(g', todo') /\ PinsHeld(g', todo')
<1>1. PICK f : f = Head(todo)
  OBVIOUS
<1>2. PICK r : r = Tail(todo)
  OBVIOUS
<1>3. PICK n : n = f.node
  OBVIOUS
<1>4. PICK q : q = Unintern(g, n)
  OBVIOUS
<1>5. PICK h2 : h2 = [q EXCEPT !.kind[n] = "dead", !.inps[n] = <<>>]
  OBVIOUS
<1>6. /\ f.op = "delete" /\ f.at > Len(g.inps[n]) /\ todo # <<>>
      /\ g' = h2 /\ todo' = r
  BY <1>1, <1>2, <1>3, <1>4, <1>5 DEF DeleteEnd, Running, Frame
<1>7. todo = <<f>> \o r /\ IsFrame(f) /\ StackTyped(r) /\ GraphTyped(g)
  BY <1>1, <1>2, <1>6, Top
<1>8. GraphTyped(q) /\ SameEdges(g, q)
  BY <1>4, <1>7, UninternTyped
<1>9. Core(q, <<f>> \o r) /\ PinsHeld(q, <<f>> \o r)
  BY <1>7, <1>8, SameCore
<1> DEFINE R == Range(r)
           F == {f} \cup R
<1>10. /\ SinksUnused(q) /\ Nested(r) /\ (\A b \in R : MayCall(f, b))
       /\ FramesOK(q, F) /\ SlotsOK(q, F) /\ UsesOK(q, F)
  BY <1>7, <1>9, CoreCons
<1>11. n \in Ids /\ f.at \in Nat /\ Alive(q, n) /\ q.outs[n] = {}
  BY <1>3, <1>6, <1>7, <1>10 DEF IsFrame, FramesOK, FrameOK
<1>12. /\ h2.kind = [q.kind EXCEPT ![n] = "dead"] /\ h2.inps = [q.inps EXCEPT ![n] = <<>>]
       /\ h2.outs = q.outs /\ h2.pins = q.pins /\ h2.table = q.table /\ IsGraph(h2)
  BY <1>5, <1>8 DEF GraphTyped, IsGraph
<1>13. GraphTyped(h2)
  <2>1. h2.kind \in [Ids -> Kinds \cup {"free", "dead"}]
    BY <1>8, <1>12 DEF GraphTyped
  <2>2. h2.inps \in [Ids -> Seq(IdsOrNil)]
    <3>1. <<>> \in Seq(IdsOrNil)
      OBVIOUS
    <3> QED BY <3>1, <1>8, <1>12 DEF GraphTyped
  <2> QED BY <2>1, <2>2, <1>8, <1>12 DEF GraphTyped
<1>14. \A m : Alive(h2, m) <=> Alive(q, m) /\ m # n
  BY <1>8, <1>11, <1>12, GraphAssumption DEF Alive, GraphTyped
<1>15. \A m \in Ids : m # n => h2.inps[m] = q.inps[m] /\ h2.kind[m] = q.kind[m]
  BY <1>8, <1>12 DEF GraphTyped
<1>16. h2.kind[n] = "dead"
  BY <1>8, <1>11, <1>12 DEF GraphTyped
<1>17. \A u : Gone(F, u) /\ u[1] # n => Gone(R, u)
  BY <1>3, <1>6 DEF Gone
<1>18. \A b \in R : b.op \notin {"subsume", "move"}
                    /\ (b.op \in {"delete", "truncate"} => b.node # n)
  BY <1>3, <1>6, <1>10 DEF MayCall
<1>19. FramesOK(h2, R)
  <2> SUFFICES ASSUME NEW b \in R PROVE FrameOK(h2, R, b)
    BY DEF FramesOK
  <2>1. FrameOK(q, F, b) /\ IsFrame(b) /\ b.op \notin {"subsume", "move"}
    BY <1>7, <1>10, <1>18, FramesTyped DEF FramesOK
  <2>2. b.op = "delete" => Alive(h2, b.node) /\ h2.outs[b.node] = {} /\ h2.pins[b.node] = 0
    BY <2>1, <1>12, <1>14, <1>18 DEF FrameOK
  <2>3. b.op = "set_done" /\ Alive(h2, b.use[1]) =>
           b.use[2] \in DOMAIN h2.inps[b.use[1]] /\ Slot(h2, b.use) = b.value
    <3>1. b.op = "set_done" /\ Alive(h2, b.use[1]) =>
            b.use[1] # n /\ b.use[1] \in Ids /\ Alive(q, b.use[1])
      BY <1>14 DEF Alive
    <3> QED BY <3>1, <2>1, <1>15 DEF FrameOK, Slot
  <2>4. b.op = "nil" =>
          /\ h2.kind[b.target] \notin Interned
          /\ \A m \in Ids : Alive(h2, m) =>
                \A i \in DOMAIN h2.inps[m] : h2.inps[m][i] # b.target
    <3>1. "dead" \notin Interned
      BY GraphAssumption
    <3>2. b.op = "nil" => b.target \in Ids
      BY <2>1 DEF IsFrame
    <3> QED BY <3>1, <3>2, <2>1, <1>14, <1>15, <1>16 DEF FrameOK
  <2>5. b.op = "truncate" =>
          /\ Alive(h2, b.node) /\ h2.outs[b.node] = {} /\ b.len =< Len(h2.inps[b.node])
          /\ \A i \in DOMAIN h2.inps[b.node] :
                b.len < i /\ i < b.at => h2.inps[b.node][i] = 0 \/ Gone(R, <<b.node, i>>)
    <3> SUFFICES ASSUME b.op = "truncate"
                 PROVE  /\ Alive(h2, b.node) /\ h2.outs[b.node] = {}
                        /\ b.len =< Len(h2.inps[b.node])
                        /\ \A i \in DOMAIN h2.inps[b.node] : b.len < i /\ i < b.at =>
                              h2.inps[b.node][i] = 0 \/ Gone(R, <<b.node, i>>)
      OBVIOUS
    <3>1. b.node \in Ids /\ b.node # n /\ Alive(q, b.node)
      BY <2>1, <1>18 DEF FrameOK, Alive
    <3>2. \A i : <<b.node, i>>[1] # n
      BY <3>1
    <3>3. /\ q.outs[b.node] = {} /\ b.len =< Len(q.inps[b.node])
          /\ \A i \in DOMAIN q.inps[b.node] :
                b.len < i /\ i < b.at => q.inps[b.node][i] = 0 \/ Gone(F, <<b.node, i>>)
      BY <2>1 DEF FrameOK
    <3>4. \A i : Gone(F, <<b.node, i>>) => Gone(R, <<b.node, i>>)
      BY <3>2, <1>17
    <3> HIDE DEF F, R
    <3> QED BY <3>1, <3>3, <3>4, <1>12, <1>14, <1>15
  <2> QED BY <2>1, <2>2, <2>3, <2>4, <2>5 DEF FrameOK
<1>20. SlotsOK(h2, R)
  <2> SUFFICES ASSUME NEW m \in Ids, Alive(h2, m), NEW i \in DOMAIN h2.inps[m]
               PROVE  h2.inps[m][i] = 0 \/ Gone(R, <<m, i>>) \/ Listed(h2, m, i)
    BY DEF SlotsOK
  <2>1. m # n /\ Alive(q, m) /\ h2.inps[m] = q.inps[m]
    BY <1>14, <1>15
  <2>2. \/ q.inps[m][i] = 0 \/ Gone(F, <<m, i>>)
        \/ Redirected(q, F, m, i) \/ Listed(q, m, i)
    BY <2>1, <1>10 DEF SlotsOK
  <2>3. ~ Redirected(q, F, m, i)
    BY <1>6, <1>18 DEF Redirected
  <2>4. Gone(F, <<m, i>>) => Gone(R, <<m, i>>)
    BY <2>1, <1>17
  <2>5. Listed(q, m, i) => Listed(h2, m, i)
    BY <2>1, <1>11, <1>12, <1>14 DEF Listed
  <2> QED BY <2>1, <2>2, <2>3, <2>4, <2>5
<1>21. UsesOK(h2, R)
  <2>1. \A m : Nilled(F, m) => Nilled(R, m)
    BY <1>6 DEF Nilled
  <2> SUFFICES ASSUME NEW m \in Ids, ~ Nilled(R, m), NEW u \in h2.outs[m]
               PROVE  /\ Alive(h2, u[1]) /\ u[2] \in DOMAIN h2.inps[u[1]]
                      /\ ~ Gone(R, u) /\ Slot(h2, u) = m
    BY <1>18 DEF UsesOK, Moves
  <2>2. /\ Alive(q, u[1]) /\ u[2] \in DOMAIN q.inps[u[1]]
        /\ ~ Gone(F, u) /\ Slot(q, u) = m
    BY <2>1, <1>6, <1>10, <1>12, <1>18 DEF UsesOK, Moves
  <2>3. u[1] # n
    <3> SUFFICES ASSUME u[1] = n PROVE FALSE
      OBVIOUS
    <3>1. q.inps[n] = g.inps[n] /\ q.inps[n] \in Seq(IdsOrNil)
      BY <1>8, <1>11 DEF SameEdges, GraphTyped
    <3>2. u[2] < f.at
      BY <3>1, <2>2, <1>6, <1>11
    <3> QED BY <3>2, <2>2, <1>3, <1>6 DEF Gone
  <2>4. ~ Gone(R, u)
    BY <2>2 DEF Gone
  <2>5. u[1] \in Ids
    BY <2>2 DEF Alive
  <2> QED BY <2>2, <2>3, <2>4, <2>5, <1>14, <1>15 DEF Slot
<1>22. SinksUnused(h2)
  <2>1. "dead" \notin Sinks
    BY GraphAssumption
  <2> QED BY <2>1, <1>10, <1>12, <1>15, <1>16 DEF SinksUnused
<1>23. Core(h2, r)
  BY <1>7, <1>10, <1>13, <1>19, <1>20, <1>21, <1>22 DEF Core
<1>24. PinsHeld(h2, r)
  <2>1. \A m : ~ Holds(f, m)
    BY <1>6 DEF Holds
  <2> SUFFICES ASSUME NEW m \in Ids, Alive(h2, m)
               PROVE  \/ \E b \in R : b.op = "delete" /\ b.node = m
                      \/ Held(r, m, h2.pins[m])
    BY DEF PinsHeld
  <2>2. Alive(q, m) /\ m # n
    BY <1>14
  <2>3. \/ \E b \in F : b.op = "delete" /\ b.node = m
        \/ Held(r, m, q.pins[m])
    <3>1. \/ \E b \in F : b.op = "delete" /\ b.node = m
          \/ HeldOver(f, r, m, q.pins[m])
      BY <2>2, <1>7, <1>8, <1>9, PinsCons
    <3> QED BY <3>1, <2>1 DEF HeldOver
  <2> QED BY <2>2, <2>3, <1>3, <1>12
<1> QED BY <1>6, <1>23, <1>24

(* set_input ends: a node that is still alive is interned anew, or subsumed  *)
(* by the node it has become equal to.                                       *)
LEMMA SetDoneKeeps ==
    ASSUME Core(g, todo), PinsHeld(g, todo), SetDone
    PROVE  Core(g', todo') /\ PinsHeld(g', todo')
<1>1. PICK f : f = Head(todo)
  OBVIOUS
<1>2. PICK r : r = Tail(todo)
  OBVIOUS
<1>3. PICK n : n = f.use[1]
  OBVIOUS
<1>4. PICK old : old = SetSlot(g, f.use, f.prev)
  OBVIOUS
<1>5. PICK un : un = Unintern(old, n)
  OBVIOUS
<1>6. PICK new : new = SetSlot(un, f.use, f.value)
  OBVIOUS
<1>7. /\ f.op = "set_done" /\ todo # <<>>
      /\ IF ~ Alive(g, n) THEN g' = g /\ todo' = r
         ELSE /\ g' = Intern(new, n)
              /\ todo' = (IF InternId(new, n) = n THEN <<>>
                          ELSE <<SubsumeFrame(InternId(new, n), n)>>) \o r
  BY <1>1, <1>2, <1>3, <1>4, <1>5, <1>6 DEF SetDone, Running, Frame
<1>8. todo = <<f>> \o r /\ IsFrame(f) /\ StackTyped(r) /\ GraphTyped(g)
  BY <1>1, <1>2, <1>7, Top
<1>9. Silent(f)
  BY <1>7 DEF Silent
<1>10. Core(g, r) /\ FrameOK(g, Range(r), f) /\ \A b \in Range(r) : MayCall(f, b)
  BY <1>8, <1>9, SilentPop
<1>11. PinsHeld(g, r)
  BY <1>7, <1>8, PinsSkip
<1>12. CASE ~ Alive(g, n)
  BY <1>7, <1>10, <1>11, <1>12
<1>13. CASE Alive(g, n)
  <2>1. /\ f.use \in Uses /\ f.prev \in IdsOrNil /\ f.value \in IdsOrNil /\ n \in Ids
    BY <1>3, <1>7, <1>8 DEF IsFrame, Uses
  <2>2. f.use[2] \in DOMAIN g.inps[n] /\ g.inps[n][f.use[2]] = f.value
    BY <1>3, <1>7, <1>10, <1>13 DEF FrameOK, Slot
  <2>3. /\ GraphTyped(old)
        /\ old.kind = g.kind /\ old.outs = g.outs /\ old.pins = g.pins
        /\ \A m \in Ids : /\ DOMAIN old.inps[m] = DOMAIN g.inps[m]
                          /\ \A i \in DOMAIN g.inps[m] :
                               <<m, i>> # f.use => old.inps[m][i] = g.inps[m][i]
    BY <1>4, <1>8, <2>1, SetSlotTyped
  <2>4. GraphTyped(un) /\ SameEdges(old, un)
    BY <1>5, <2>3, UninternTyped
  <2>5. /\ GraphTyped(new)
        /\ new.kind = un.kind /\ new.outs = un.outs /\ new.pins = un.pins
        /\ \A m \in Ids : /\ DOMAIN new.inps[m] = DOMAIN un.inps[m]
                          /\ \A i \in DOMAIN un.inps[m] :
                               /\ <<m, i>> # f.use => new.inps[m][i] = un.inps[m][i]
                               /\ <<m, i>> = f.use => new.inps[m][i] = f.value
    <3>1. PICK use : use = f.use
      OBVIOUS
    <3>2. PICK value : value = f.value
      OBVIOUS
    <3>3. GraphTyped(un) /\ use \in Uses /\ value \in IdsOrNil /\ new = SetSlot(un, use, value)
      BY <3>1, <3>2, <1>6, <2>1, <2>4
    <3>4. /\ GraphTyped(new)
          /\ new.kind = un.kind /\ new.outs = un.outs /\ new.pins = un.pins
          /\ \A m \in Ids : /\ DOMAIN new.inps[m] = DOMAIN un.inps[m]
                            /\ \A i \in DOMAIN un.inps[m] :
                                 new.inps[m][i] = IF <<m, i>> = use THEN value ELSE un.inps[m][i]
      BY <3>3, SetSlotTyped
    <3> QED BY <3>1, <3>2, <3>4
  <2>6. new.inps = g.inps
    <3>1. ASSUME NEW m \in Ids PROVE new.inps[m] = g.inps[m]
      <4>0. un.inps = old.inps
        BY <2>4 DEF SameEdges
      <4>1. /\ DOMAIN new.inps[m] = DOMAIN g.inps[m]
            /\ DOMAIN un.inps[m] = DOMAIN g.inps[m]
        BY <2>3, <2>5, <4>0
      <4>2. ASSUME NEW i \in DOMAIN g.inps[m] PROVE new.inps[m][i] = g.inps[m][i]
        <5>1. CASE <<m, i>> = f.use
          <6>1. m = n /\ i = f.use[2]
            BY <5>1, <1>3
          <6>2. new.inps[m][i] = f.value
            BY <5>1, <4>1, <2>5
          <6> QED BY <6>1, <6>2, <2>2
        <5>2. CASE <<m, i>> # f.use
          <6>1. new.inps[m][i] = un.inps[m][i]
            BY <5>2, <4>1, <2>5
          <6>2. old.inps[m][i] = g.inps[m][i]
            BY <5>2, <2>3
          <6> QED BY <6>1, <6>2, <4>0
        <5> QED BY <5>1, <5>2
      <4>3. new.inps[m] \in Seq(IdsOrNil) /\ g.inps[m] \in Seq(IdsOrNil)
        BY <2>5, <1>8 DEF GraphTyped
      <4> QED BY <4>1, <4>2, <4>3
    <3> QED BY <3>1, <2>5, <1>8 DEF GraphTyped
  <2>7. SameEdges(g, new)
    BY <2>3, <2>4, <2>5, <2>6 DEF SameEdges
  <2>8. PICK h2 : h2 = Intern(new, n)
    OBVIOUS
  <2>9. GraphTyped(h2) /\ SameEdges(new, h2)
    BY <2>1, <2>5, <2>8, InternTyped
  <2>10. SameEdges(g, h2)
    BY <2>7, <2>9 DEF SameEdges
  <2>11. Core(h2, r) /\ PinsHeld(h2, r)
    BY <2>9, <2>10, <1>10, <1>11, SameCore
  <2>12. CASE InternId(new, n) = n
    <3>1. <<>> \o r = r
      BY <1>8 DEF StackTyped
    <3> QED BY <3>1, <2>8, <2>11, <2>12, <1>7, <1>13
  <2>13. CASE InternId(new, n) # n
    <3>1. PICK id : id = InternId(new, n)
      OBVIOUS
    <3>2. /\ id \in Ids /\ id # n
          /\ h2.kind[n] \in Interned /\ h2.kind[id] = h2.kind[n]
      BY <3>1, <2>1, <2>5, <2>9, <2>13, InternIdTyped DEF SameEdges
    <3>3. \A b \in Range(r) : b.op \in {"rehash", "nil"}
      BY <1>7, <1>8, <1>10, Waiting
    <3>4. Core(h2, <<SubsumeFrame(id, n)>> \o r) /\ PinsHeld(h2, <<SubsumeFrame(id, n)>> \o r)
      BY <3>2, <3>3, <2>1, <2>11, PushSubsume
    <3> QED BY <3>1, <3>4, <2>8, <2>13, <1>7, <1>13
  <2> QED BY <2>12, <2>13
<1> QED BY <1>12, <1>13
=============================================================================
