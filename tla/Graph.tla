------------------------------- MODULE Graph --------------------------------
(***************************************************************************)
(* The node graph of bac/graph.odin: nodes with an ordered list of inputs, *)
(* the list of outputs (uses) of every node, the interner that keeps equal *)
(* nodes unique, and the operations that rewrite the graph while nodes     *)
(* die around them.                                                        *)
(*                                                                         *)
(* The whole graph is the value g:                                         *)
(*   kind[n]   the node's spec and extra words, "free" before it is made,  *)
(*             "dead" after (DEAD_NODE_KIND); ids are not reused           *)
(*   inps[n]   its inputs, 0 is the nil node                               *)
(*   outs[n]   its uses <<user, index>>; the order of the list depends on  *)
(*             swap-removes and no operation promises one, so it is a set  *)
(*   pins[n]   how many of its outputs are the pin {}                      *)
(*   table     the interner, entries <<hash, id>> in table order           *)
(*   peeping   apply_peeps is running: prc.worklist and prc.triggers exist *)
(*   queue     its worklist                                                *)
(*   trig[n]   the nodes to look at again once n changes                   *)
(*                                                                         *)
(* delete_node and subsume recurse.  `todo' is that recursion: the frames  *)
(* of the calls still running, innermost first, so every intermediate      *)
(* graph another part of the code could look at is a state.                *)
(***************************************************************************)
EXTENDS Integers, Sequences, FiniteSets, FiniteSetsExt, Functions

CONSTANTS MaxNodes, \* bound: node ids
          MaxOps,   \* bound: calls of the operations below
          Kinds,    \* what the spec and the extra words of a node can be
          Interned, \* the kinds with the Interned flag
          Ctrl,     \* the control nodes: Region, Then, Loop...
          Sinks,    \* the kinds nothing uses: scopes, End
          Args,     \* what a node of each kind is created with, see Fits
          PhiOf,    \* the phi kind each lazy phi kind turns into
          Hash(_, _) \* node_hash, a function of the kind and the inputs

Lazy == DOMAIN PhiOf

Phis == {PhiOf[k] : k \in Lazy}

ASSUME GraphAssumption ==
    /\ MaxNodes \in Nat /\ MaxOps \in Nat
    /\ Sinks \cup Ctrl \cup Lazy \subseteq Kinds \ Interned
    /\ Sinks \cap Lazy = {} /\ Ctrl \cap (Sinks \cup Lazy) = {}
    /\ Phis \subseteq Interned /\ Interned \subseteq Kinds
    /\ \A k \in Kinds : Args[k] \in Seq({"ctrl", "value"})
    /\ {"free", "dead"} \cap Kinds = {}

Ids == 1 .. MaxNodes

IdsOrNil == 0 .. MaxNodes

Alive(g, n) == n \in Ids /\ g.kind[n] \in Kinds

EmptyGraph ==
    [kind    |-> [n \in Ids |-> "free"],
     inps    |-> [n \in Ids |-> <<>>],
     outs    |-> [n \in Ids |-> {}],
     pins    |-> [n \in Ids |-> 0],
     table   |-> <<>>,
     peeping |-> FALSE,
     queue   |-> <<>>,
     trig    |-> [n \in Ids |-> {}]]

-----------------------------------------------------------------------------
(* The interner. *)

NodeHash(g, n) == Hash(g.kind[n], g.inps[n])

NodeEq(g, a, b) ==
    a = b \/ (g.kind[a] = g.kind[b] /\ g.inps[a] = g.inps[b])

HasInterned(g, n) == g.kind[n] \in Interned

(* interner_find: of the entries that match the contents of n under a hash  *)
(* it finds the first, if there is one.                                     *)
Matches(g, n, hash) ==
    {i \in DOMAIN g.table : g.table[i][1] = hash /\ NodeEq(g, g.table[i][2], n)}

First(g, n, hash) ==
    {i \in Matches(g, n, hash) : \A j \in Matches(g, n, hash) : i =< j}

Place(g, n, hash) == CHOOSE i \in First(g, n, hash) : TRUE

Found(g, n, hash) == g.table[Place(g, n, hash)][2]

(* The node intern(n) returns, and what it leaves behind. *)
InternId(g, n) ==
    IF HasInterned(g, n) /\ First(g, n, NodeHash(g, n)) # {}
    THEN Found(g, n, NodeHash(g, n))
    ELSE n

Intern(g, n) ==
    IF HasInterned(g, n) /\ First(g, n, NodeHash(g, n)) = {}
    THEN [g EXCEPT !.table = Append(@, <<NodeHash(g, n), n>>)]
    ELSE g

SwapRemove(s, i) == [j \in 1 .. Len(s) - 1 |-> s[IF j = i THEN Len(s) ELSE j]]

(* unintern: nothing happens when the entry found is another node's.        *)
UninternAs(g, n, hash) ==
    IF HasInterned(g, n) /\ First(g, n, hash) # {} /\ Found(g, n, hash) = n
    THEN [g EXCEPT !.table = SwapRemove(@, Place(g, n, hash))]
    ELSE g

Unintern(g, n) == UninternAs(g, n, NodeHash(g, n))

-----------------------------------------------------------------------------
(* Edges. *)

AddOutput(g, def, use) ==
    IF def = 0 THEN g ELSE [g EXCEPT !.outs[def] = @ \cup {use}]

(* Variant: the output is not removed. *)
DropNothing(g, def, use) == g

(* remove_output without its delete_node. *)
DropOutput(g, def, use) ==
    IF def = 0 THEN g ELSE [g EXCEPT !.outs[def] = @ \ {use}]

SetSlot(g, use, value) == [g EXCEPT !.inps[use[1]][use[2]] = value]

(* Ids are handed out in order and never reused. *)
NextIds(g) ==
    {n \in Ids : g.kind[n] = "free" /\ \A m \in 1 .. n - 1 : g.kind[m] # "free"}

HasFree(g) == NextIds(g) # {}

FreeId(g) == CHOOSE n \in NextIds(g) : TRUE

(* add_raw_2: the new node is rolled back when an equal one is interned.    *)
AddRaw(g, k, ins) ==
    LET n == FreeId(g)
        h == [g EXCEPT !.kind[n] = k, !.inps[n] = ins]
    IN  IF InternId(h, n) # n THEN [graph |-> g, id |-> InternId(h, n)]
        ELSE [graph |-> [Intern(h, n) EXCEPT !.outs =
                            [m \in Ids |-> @[m] \cup
                               {<<n, i>> : i \in {j \in DOMAIN ins : ins[j] = m}}]],
              id    |-> n]

OutputCount(g, n) == Cardinality(g.outs[n]) + g.pins[n]

(* worklist_add: a queued node is not queued again (its in_queue bit). *)
Insert(queue, n) == IF n \in Range(queue) THEN queue ELSE Append(queue, n)

Queued(g, ns) ==
    LET queue[i \in 0 .. Len(ns)] ==
            IF i = 0 THEN g.queue
            ELSE IF ns[i] = 0 \/ Alive(g, ns[i]) THEN Insert(queue[i - 1], ns[i])
            ELSE queue[i - 1]
    IN  queue[Len(ns)]

WorklistAddAll(g, ns) == IF g.peeping THEN [g EXCEPT !.queue = Queued(g, ns)] ELSE g

WorklistAdd(g, n) == WorklistAddAll(g, <<n>>)

(* The triggers of a node, in some order. *)
Listing(S) == FoldSet(LAMBDA m, s : Append(s, m), <<>>, S)

FlushTriggers(g, n) ==
    [WorklistAddAll(g, Listing(g.trig[n])) EXCEPT !.trig[n] = {}]

(* Variant: a pin does not count as a use. *)
DeletablePinned(g, n) == Alive(g, n) /\ g.outs[n] = {}

(* delete_node does something only to a live node without uses. *)
Deletable(g, n) == Alive(g, n) /\ g.outs[n] = {} /\ g.pins[n] = 0

DeleteFrame(n) == [op |-> "delete", node |-> n, at |-> 0]

(* The frames to run after delete_node(n) is called before `rest'.          *)
Deleting(g, n, rest) == IF Deletable(g, n) THEN <<DeleteFrame(n)>> \o rest ELSE rest

SubsumeFrame(with, target) == [op |-> "subsume", with |-> with, target |-> target]

-----------------------------------------------------------------------------
(* The operations. *)

VARIABLES g,      \* the graph
          todo,   \* the calls still running, innermost first
          failed, \* the assertion or panic that stopped the program, or "none"
          ops     \* operations started, bounded by MaxOps

vars == <<g, todo, failed, ops>>

Init == g = EmptyGraph /\ todo = <<>> /\ failed = "none" /\ ops = 0

Idle == todo = <<>> /\ failed = "none"

Start == Idle /\ ops < MaxOps /\ ops' = ops + 1 /\ UNCHANGED failed

Fail(what) == failed' = what /\ UNCHANGED <<g, todo, ops>>

AddNode(k, ins) ==
    /\ Idle
    /\ HasFree(g)
    /\ AddRaw(g, k, ins).id = FreeId(g)
    /\ g' = AddRaw(g, k, ins).graph
    /\ UNCHANGED <<todo, failed, ops>>

Pin(n) ==
    /\ Start
    /\ g' = [g EXCEPT !.pins[n] = @ + 1]
    /\ UNCHANGED todo

Unpin(n) ==
    /\ Start
    /\ g.pins[n] > 0
    /\ LET h == [g EXCEPT !.pins[n] = @ - 1]
       IN  g' = h /\ todo' = Deleting(h, n, <<>>)

(* set_input up to the return of its remove_output; set_done is the rest.   *)
(* Callers that leave subsume_on_intern out promise that the changed node   *)
(* equals no other, and then both forms do the same.                        *)
Assigned(h, n, i, value) ==
    DropOutput(SetSlot(AddOutput(h, value, <<n, i>>), <<n, i>>, value),
               h.inps[n][i], <<n, i>>)

Assigning(h, n, i, value) ==
    Deleting(Assigned(h, n, i, value), h.inps[n][i],
             <<[op |-> "set_done", use |-> <<n, i>>, prev |-> h.inps[n][i], value |-> value]>>)

SetInput(n, i, value) ==
    /\ Start
    /\ g.inps[n][i] # value
    /\ g' = Assigned(g, n, i, value)
    /\ todo' = Assigning(g, n, i, value)

(* connect: add_input, then add_output. *)
Connected(h, use, def) ==
    AddOutput([h EXCEPT !.inps[use] = Append(@, def)], def, <<use, Len(h.inps[use]) + 1>>)

Connect(use, def) ==
    /\ Start
    /\ g.kind[use] \in Sinks
    /\ g' = Connected(g, use, def)
    /\ UNCHANGED todo

(* end_loop: a lazy phi gets its back edge, becomes a phi and is interned.  *)
WithBackEdge(h, init, back) ==
    [Connected(h, init, back) EXCEPT !.kind[init] = PhiOf[@]]

Closing(h, init) ==
    IF InternId(h, init) = init THEN <<>> ELSE <<SubsumeFrame(InternId(h, init), init)>>

ClosePhi(init, back) ==
    /\ Start
    /\ g.kind[init] \in Lazy
    /\ g' = Intern(WithBackEdge(g, init, back), init)
    /\ todo' = Closing(WithBackEdge(g, init, back), init)

DeleteNode(n) ==
    /\ Start
    /\ Deletable(g, n)
    /\ todo' = <<DeleteFrame(n)>>
    /\ UNCHANGED g

Subsume(with, target) ==
    /\ Start
    /\ with # target
    /\ todo' = <<SubsumeFrame(with, target)>>
    /\ UNCHANGED g

(* truncate_inputs gives the slots back one at a time. *)
TruncateFrame(node, len) == [op |-> "truncate", node |-> node, len |-> len, at |-> len + 1]

TruncateInputs(scope, len) ==
    /\ Start
    /\ g.kind[scope] \in Sinks
    /\ len < Len(g.inps[scope])
    /\ todo' = <<TruncateFrame(scope, len)>>
    /\ UNCHANGED g

-----------------------------------------------------------------------------
(* The running calls. *)

Running(op) == failed = "none" /\ todo # <<>> /\ Head(todo).op = op

Frame == Head(todo)

DeleteBegin ==
    /\ Running("delete")
    /\ Frame.at = 0
    /\ g' = FlushTriggers(g, Frame.node)
    /\ todo' = <<[Frame EXCEPT !.at = 1]>> \o Tail(todo)
    /\ UNCHANGED <<failed, ops>>

(* delete_node: give back one input, which may delete it first.             *)
DeleteInput ==
    /\ Running("delete")
    /\ Frame.at \in DOMAIN g.inps[Frame.node]
    /\ LET n == Frame.node
           def == g.inps[n][Frame.at]
           use == <<n, Frame.at>>
           queued == IF def # 0 /\ OutputCount(g, def) > 1 THEN WorklistAdd(g, def) ELSE g
           h == DropOutput(queued, def, use)
       IN  IF def # 0 /\ use \notin g.outs[def]
           THEN Fail("remove_output: no such use")
           ELSE /\ g' = h
                /\ todo' = Deleting(h, def, <<[Frame EXCEPT !.at = @ + 1]>> \o Tail(todo))
                /\ UNCHANGED <<failed, ops>>

(* Variant: the interner keeps the node. *)
DeleteEndInterned ==
    /\ Running("delete")
    /\ Frame.at > Len(g.inps[Frame.node])
    /\ g' = [g EXCEPT !.kind[Frame.node] = "dead", !.inps[Frame.node] = <<>>]
    /\ todo' = Tail(todo)
    /\ UNCHANGED <<failed, ops>>

(* delete_node: all inputs are given back; the node leaves the interner.    *)
DeleteEnd ==
    /\ Running("delete")
    /\ Frame.at > Len(g.inps[Frame.node])
    /\ g' = [Unintern(g, Frame.node) EXCEPT !.kind[Frame.node] = "dead",
                                            !.inps[Frame.node] = <<>>]
    /\ todo' = Tail(todo)
    /\ UNCHANGED <<failed, ops>>

(* set_input after its remove_output: the node itself may be gone by now.   *)
SetDone ==
    /\ Running("set_done")
    /\ LET n == Frame.use[1]
           old == SetSlot(g, Frame.use, Frame.prev)
           new == SetSlot(Unintern(old, n), Frame.use, Frame.value)
       IN  IF ~ Alive(g, n)
           THEN g' = g /\ todo' = Tail(todo)
           ELSE /\ g' = Intern(new, n)
                /\ todo' = (IF InternId(new, n) = n THEN <<>>
                            ELSE <<SubsumeFrame(InternId(new, n), n)>>) \o Tail(todo)
    /\ UNCHANGED <<failed, ops>>

(* subsume: first every use of the target is taken over, its user leaving   *)
(* the interner before the input changes.                                   *)
SubsumeBegin ==
    /\ Running("subsume")
    /\ IF Alive(g, Frame.target) /\ (Frame.with = 0 \/ Alive(g, Frame.with))
       THEN /\ todo' = <<[op |-> "move", with |-> Frame.with, target |-> Frame.target,
                          left |-> g.outs[Frame.target]]>> \o Tail(todo)
            /\ UNCHANGED <<g, failed, ops>>
       ELSE Fail("expand_node: dead")

SubsumeMove(use) ==
    /\ Running("move")
    /\ g' = SetSlot(Unintern(g, use[1]), use, Frame.with)
    /\ todo' = <<[Frame EXCEPT !.left = @ \ {use}]>> \o Tail(todo)
    /\ UNCHANGED <<failed, ops>>

(* Variant: `with' is not pinned while the target goes. *)
SubsumeDeleteUnpinned ==
    /\ Running("move")
    /\ Frame.left = {} /\ Frame.with # 0
    /\ LET with == Frame.with
           target == Frame.target
           T == g.outs[target]
           h == [g EXCEPT
                   !.outs = [g.outs EXCEPT ![with] = @ \cup T, ![target] = {}],
                   !.pins = [g.pins EXCEPT ![with] = @ + g.pins[target], ![target] = 0]]
       IN  /\ g' = h
           /\ todo' = Deleting(h, target,
                         <<[op |-> "keep", with |-> with, left |-> T]>> \o Tail(todo))
    /\ UNCHANGED <<failed, ops>>

(* Then `with' owns the uses and a pin of its own, and the target goes.     *)
SubsumeDelete ==
    /\ Running("move")
    /\ Frame.left = {} /\ Frame.with # 0
    /\ LET with == Frame.with
           target == Frame.target
           T == g.outs[target]
           h == [g EXCEPT
                   !.outs = [g.outs EXCEPT ![with] = @ \cup T, ![target] = {}],
                   !.pins = [g.pins EXCEPT ![with] = @ + g.pins[target] + 1, ![target] = 0]]
       IN  /\ g' = h
           /\ todo' = Deleting(h, target,
                         <<[op |-> "keep", with |-> with, left |-> T]>> \o Tail(todo))
    /\ UNCHANGED <<failed, ops>>

(* The target is gone; the uses that went with it are skipped.              *)
SubsumeKeep ==
    /\ Running("keep")
    /\ todo' = <<[Frame EXCEPT !.op = "rehash", !.left = @ \cap g.outs[Frame.with]]>>
               \o Tail(todo)
    /\ UNCHANGED <<g, failed, ops>>

(* Variants: an equal node is not merged; every use starts the round again. *)
SubsumeRehashAlone(use) ==
    /\ Running("rehash")
    /\ g' = Intern(g, use[1])
    /\ todo' = <<[Frame EXCEPT !.left = @ \ {use}]>> \o Tail(todo)
    /\ UNCHANGED <<failed, ops>>

SubsumeRehashAgain(use) ==
    /\ Running("rehash")
    /\ LET again == <<[Frame EXCEPT !.op = "keep"]>> \o Tail(todo)
           id == InternId(g, use[1])
       IN  /\ g' = Intern(g, use[1])
           /\ todo' = IF id = use[1] THEN again ELSE <<SubsumeFrame(id, use[1])>> \o again
    /\ UNCHANGED <<failed, ops>>

(* One moved use: its user goes back into the interner, or is subsumed in   *)
(* turn by the node it has become equal to.                                 *)
SubsumeRehash(use) ==
    /\ Running("rehash")
    /\ LET n == use[1]
           rest == <<[Frame EXCEPT !.left = @ \ {use}]>> \o Tail(todo)
           id == InternId(g, n)
       IN  IF ~ Alive(g, n) THEN g' = g /\ todo' = rest
           ELSE /\ g' = Intern(g, n)
                /\ todo' = (IF id = n THEN rest ELSE <<SubsumeFrame(id, n)>> \o rest)
    /\ UNCHANGED <<failed, ops>>

SubsumeUnpin ==
    /\ Running("rehash")
    /\ Frame.left = {}
    /\ LET n == Frame.with
           h == [g EXCEPT !.pins[n] = @ - 1]
       IN  IF ~ Alive(g, n)
           THEN Fail("remove_output: no such use")
           ELSE /\ g' = h
                /\ todo' = Deleting(h, n, Tail(todo))
                /\ UNCHANGED <<failed, ops>>

(* subsume with the nil node: the users keep a nil input.                   *)
NilBegin ==
    /\ Running("move")
    /\ Frame.left = {} /\ Frame.with = 0
    /\ LET T == g.outs[Frame.target]
       IN  todo' = <<[op |-> "nil", target |-> Frame.target, left |-> T, changed |-> FALSE,
                      user |-> [use \in T |-> use[1]]]>> \o Tail(todo)
    /\ UNCHANGED <<g, failed, ops>>

(* One of its uses.  Unlike SubsumeRehash this does not skip dead users.    *)
NilRehash(use) ==
    /\ Running("nil")
    /\ LET n == Frame.user[use]
           id == InternId(g, n)
           rest == <<[Frame EXCEPT !.left = @ \ {use}, !.user[use] = id,
                                   !.changed = @ \/ id # n]>> \o Tail(todo)
       IN  IF ~ Alive(g, n) THEN Fail("intern: dead")
           ELSE /\ g' = Intern(g, n)
                /\ todo' = (IF id = n THEN rest ELSE <<SubsumeFrame(id, n)>> \o rest)
                /\ UNCHANGED <<failed, ops>>

(* The rounds end when one of them merges nothing.                          *)
NilRound ==
    /\ Running("nil")
    /\ Frame.left = {}
    /\ LET h == [g EXCEPT !.outs[Frame.target] = {}]
       IN  IF Frame.changed
           THEN /\ todo' = <<[Frame EXCEPT !.left = DOMAIN Frame.user, !.changed = FALSE]>>
                           \o Tail(todo)
                /\ UNCHANGED g
           ELSE /\ g' = h
                /\ todo' = Deleting(h, Frame.target, Tail(todo))
    /\ UNCHANGED <<failed, ops>>

(* truncate_inputs: the slot still names the input while it may die.        *)
TruncateSlot ==
    /\ Running("truncate")
    /\ Frame.at =< Len(g.inps[Frame.node])
    /\ LET use == <<Frame.node, Frame.at>>
           def == g.inps[Frame.node][Frame.at]
           h == DropOutput(g, def, use)
       IN  /\ g' = h
           /\ todo' = Deleting(h, def, <<[op |-> "clear", use |-> use]>> \o
                                       <<[Frame EXCEPT !.at = @ + 1]>> \o Tail(todo))
    /\ UNCHANGED <<failed, ops>>

TruncateClear ==
    /\ Running("clear")
    /\ g' = IF Alive(g, Frame.use[1]) THEN SetSlot(g, Frame.use, 0) ELSE g
    /\ todo' = Tail(todo)
    /\ UNCHANGED <<failed, ops>>

TruncateEnd ==
    /\ Running("truncate")
    /\ Frame.at > Len(g.inps[Frame.node])
    /\ g' = [g EXCEPT !.inps[Frame.node] = SubSeq(@, 1, Frame.len)]
    /\ todo' = Tail(todo)
    /\ UNCHANGED <<failed, ops>>

-----------------------------------------------------------------------------

LiveIds == {n \in Ids : Alive(g, n)}

Class(n) == IF n # 0 /\ g.kind[n] \in Ctrl THEN "ctrl" ELSE "value"

Usable == {n \in LiveIds : g.kind[n] \notin Sinks}

Fits(ins, args) == \A i \in DOMAIN ins : Class(ins[i]) = args[i]

(* The inputs of a node, the back edge of a phi left out. *)
Forward(h, n) ==
    LET last == IF h.kind[n] \in Phis THEN Len(h.inps[n]) - 1 ELSE Len(h.inps[n])
    IN  {h.inps[n][i] : i \in 1 .. last}

(* The graph once the uses T are uses of `with'. *)
Redirect(h, T, with) ==
    [h EXCEPT !.inps = [n \in Ids |-> [i \in DOMAIN @[n] |->
                                         IF <<n, i>> \in T THEN with ELSE @[n][i]]]]

(* A value depends on itself only through the back edge of a phi: what the  *)
(* rewrites of a program in SSA form keep true of every graph.              *)
Ordered(h) ==
    \A S \in SUBSET LiveIds \ {{}} : {n \in S : Forward(h, n) \cap S = {}} # {}

AddNodeStep ==
    \E k \in Kinds \ Phis : \E ins \in [DOMAIN Args[k] -> Usable] :
        Fits(ins, Args[k]) /\ AddNode(k, ins)

PinStep == \E n \in Usable : Pin(n)
UnpinStep == \E n \in Usable : Unpin(n)
ConnectStep == \E use \in LiveIds, def \in Usable : Connect(use, def)
DeleteNodeStep == \E n \in LiveIds : DeleteNode(n)

ClosePhiStep ==
    \E init, back \in Usable :
        init # back /\ Class(back) = "value" /\ ClosePhi(init, back)

(* Only the back edge of a phi and an input of a sink are set to nil. *)
SetInputStep ==
    \E n \in LiveIds : \E i \in DOMAIN g.inps[n] :
        \/ \E v \in Usable : /\ Class(v) = Class(g.inps[n][i])
                             /\ Ordered(SetSlot(g, <<n, i>>, v))
                             /\ SetInput(n, i, v)
        \/ /\ g.kind[n] \in Sinks \/ (g.kind[n] \in Phis /\ i = Len(g.inps[n]))
           /\ SetInput(n, i, 0)

SubsumeStep ==
    \E with, target \in Usable :
        /\ Class(with) = Class(target)
        /\ Ordered(Redirect(g, g.outs[target], with))
        /\ Subsume(with, target)

(* Dead control is subsumed by nil; it is never pinned, for a pin has no    *)
(* input slot to clear.                                                     *)
SubsumeNilStep ==
    \E target \in Usable :
        Class(target) = "ctrl" /\ g.pins[target] = 0 /\ Subsume(0, target)

TruncateStep ==
    \E n \in LiveIds : \E len \in 0 .. Len(g.inps[n]) : TruncateInputs(n, len)

SubsumeMoveStep == Running("move") /\ \E use \in Frame.left : SubsumeMove(use)
SubsumeRehashStep == Running("rehash") /\ \E use \in Frame.left : SubsumeRehash(use)
NilRehashStep == Running("nil") /\ \E use \in Frame.left : NilRehash(use)

Call ==
    /\ Idle
    /\ \/ AddNodeStep \/ PinStep \/ UnpinStep \/ ConnectStep \/ ClosePhiStep
       \/ DeleteNodeStep \/ SetInputStep \/ SubsumeStep \/ SubsumeNilStep \/ TruncateStep

Run ==
    /\ \/ DeleteBegin \/ DeleteInput \/ DeleteEnd \/ SetDone
       \/ SubsumeBegin \/ SubsumeMoveStep \/ SubsumeDelete \/ SubsumeKeep
       \/ SubsumeRehashStep \/ SubsumeUnpin
       \/ NilBegin \/ NilRehashStep \/ NilRound
       \/ TruncateSlot \/ TruncateClear \/ TruncateEnd
    /\ vars' # vars

Busy == todo # <<>> /\ failed = "none"

(* Between two calls, or after a failed assertion, nothing need happen. *)
Rest == ~ Busy /\ UNCHANGED vars

Next == Call \/ Run \/ Rest

(* The compiler is sequential: a call that is running goes on.  While Busy  *)
(* some step of Run is enabled (else there is a deadlock) and every step    *)
(* that changes anything is one of Run, so this is weak fairness of Run.    *)
RunFair == []<>(~ Busy) \/ []<><<TRUE>>_vars

Spec == Init /\ [][Next]_vars /\ RunFair

-----------------------------------------------------------------------------

FrameOps == {"delete", "set_done", "subsume", "move", "keep", "rehash", "nil", "truncate", "clear"}

(* The graph and the calls that run on it are well formed; in particular no *)
(* unpin takes a pin that is not there.                                     *)
TypeOK ==
    /\ g.kind \in [Ids -> Kinds \cup {"free", "dead"}]
    /\ \A n \in Ids : /\ g.inps[n] \in Seq(IdsOrNil)
                      /\ g.outs[n] \subseteq (Ids \X (Nat \ {0}))
                      /\ g.pins[n] \in Nat
    /\ \A i \in DOMAIN g.table : g.table[i][2] \in Ids
    /\ \A k \in DOMAIN todo : todo[k].op \in FrameOps
    /\ ops \in 0 .. MaxOps

(* Inputs and outputs mirror each other whenever no operation is running:   *)
(* an input of a live node is nil or a live node that lists the use, and a  *)
(* listed use is a live node with that very input (set_input, subsume,      *)
(* delete_node, truncate_inputs and their cascades).                        *)
UseDefConsistent ==
    Idle => \A n \in Ids :
        /\ Alive(g, n) => \A i \in DOMAIN g.inps[n] :
              g.inps[n][i] = 0 \/ (Alive(g, g.inps[n][i]) /\ <<n, i>> \in g.outs[g.inps[n][i]])
        /\ \A use \in g.outs[n] :
              /\ Alive(g, use[1]) /\ use[2] \in DOMAIN g.inps[use[1]]
              /\ g.inps[use[1]][use[2]] = n

(* Value numbering: when no operation is running every live interned node   *)
(* is the one the interner answers for its contents, so no two live nodes   *)
(* are equal (what verify checks with interner_find and seen_intern_slots). *)
GvnUnique ==
    Idle => \A n \in LiveIds : HasInterned(g, n) =>
        \E i \in DOMAIN g.table :
            Matches(g, n, NodeHash(g, n)) = {i} /\ g.table[i][2] = n

(* What verify expects of the table (expand_node of every entry): the       *)
(* interner lists live nodes only.                                          *)
InternerLive == Idle => \A i \in DOMAIN g.table : Alive(g, g.table[i][2])

(* remove_output never misses the use it removes, and no call touches a     *)
(* node that its own cascade has already deleted (subsume's pin on `with'   *)
(* and the dead checks of its loop).                                        *)
NoDanglingCall == failed \notin {"remove_output: no such use", "expand_node: dead"}

(* Every call ends: the cascades of deletions and of nested subsumes are    *)
(* finite, however the graph is cyclic.                                     *)
CallsEnd == (todo # <<>>) ~> (todo = <<>> \/ failed # "none")
=============================================================================
