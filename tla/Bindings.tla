------------------------------ MODULE Bindings ------------------------------
(***************************************************************************)
(* The safe Rust wrapper, bac/bindgen/rust/src/lib.rs, between a client    *)
(* and the library.  The client holds references to nodes; a call turns    *)
(* each into an id, hands the ids to the library and turns the answers     *)
(* into references again.  Arenas own or borrow their buffers; stencils    *)
(* are copies of a graph.                                                  *)
(*                                                                         *)
(* Memory is counted in cells of PRECISION = 4 bytes, temporaries in       *)
(* bytes.  A node is one cell; what the library stores beside it is "data".*)
(* The library is external: during a call it may add a node, delete one    *)
(* other than the pinned ones, and answer with live nodes or nil; a failed *)
(* assertion of its own ends the process, so nothing follows it.           *)
(***************************************************************************)
EXTENDS BindingsApi, FixedCapDynArray, FiniteSets

CONSTANTS Owned,    \* procs whose arena is Arena::new(Cap)
          Borrowed, \* procs whose arena is Arena::from_buffer of Cap cells
          Base,     \* [Procs -> Nat], the address of their buffer
          Cap, TempCap,
          TempPos,  \* where a temporary may stand when a proc starts to use it
          MaxSlice, MaxGiven, MaxRefs, MaxBufs, MaxStencils, MaxOps

Procs == Owned \cup Borrowed

Slots == 1 .. MaxStencils

(* Buffers: one for each arena, and those allocated later. *)
Bufs == Procs \cup 1 .. MaxBufs

Arena == [buf : Bufs, reserved : Nat, commited : Nat]

Pins == [entry : Nat, end : Nat]

Stencil == [arena : Arena, pinned : Pins]

Proc == [pinned : Pins, gen : Nat]

ASSUME BindingsAssumption ==
    /\ Owned \cap Borrowed = {} /\ Procs \cap 1 .. MaxBufs = {}
    /\ Cap \in Nat /\ Cap > 5 /\ TempCap \in Nat /\ TempPos \subseteq Nat
    /\ MaxSlice \in Nat /\ MaxBufs \in Nat /\ MaxStencils \in Nat
    /\ None \notin Arena /\ None \notin Stencil /\ None \notin Proc

(* The buffers of two arenas do not overlap. *)
ASSUME BuffersApart ==
    /\ Base \in [Procs -> Nat]
    /\ \A p, q \in Procs : p # q => Base[p] + Cap =< Base[q] \/ Base[q] + Cap =< Base[p]

VARIABLES arenas,   \* [Procs -> Arena or None], the arena of each proc
          procs,    \* [Procs -> Proc or None]
          temps,    \* [Procs -> Nat], pos of temps[0]
          bufs,     \* the allocations: [state, cells]
          stencils, \* [Slots -> Stencil or None], the client's stencils
          refs,     \* the client's references: a set of [proc, offset, gen]
          inputs,   \* the client's iterators: a set of [proc, len]
          call,     \* the call in progress
          ops       \* calls made so far

state == <<arenas, procs, temps, bufs, stencils, refs, inputs>>
bindingsVars == <<state, call, ops, arrayVars>>

NONE == [proc |-> None, offset |-> 0, gen |-> 0]

Idle == [phase |-> "idle"]

Alive == {"entry", "end", "node"}

cells(p) == bufs[arenas[p].buf].cells

(* Arena.pos of a proc: cell 0 is left out by start_proc. *)
pos(p) == Len(cells(p)) + 1

(* The nodes of a graph, deleted ones included. *)
NodeIds(p) == {i \in 1 .. Len(cells(p)) : cells(p)[i] # "data"}

LiveIds(p) == {i \in 1 .. Len(cells(p)) : cells(p)[i] \in Alive}

-----------------------------------------------------------------------------
(* Arenas.  `commited' tells who owns the buffer: reserved + 1 after        *)
(* init_from_buffer, reserved + 2 for storage that Rust allocated.          *)

FreshBuf == CHOOSE b \in 1 .. MaxBufs : bufs[b].state = "unused"

HasBuf == \E b \in 1 .. MaxBufs : bufs[b].state = "unused"

arena_raw(b, size) == [buf |-> b, reserved |-> size, commited |-> size + 1]

ArenaNew(b, capacity) == [arena_raw(b, capacity) EXCEPT !.commited = capacity + 2]

(* Arena::copy: a new buffer of exactly the bytes. *)
ArenaCopy(b, content) == ArenaNew(b, Len(content) + 1)

(* dealloc; freeing what is not allocated corrupts the heap. *)
Freed(buf) ==
    [state |-> IF buf.state = "allocated" THEN "freed" ELSE "corrupt", cells |-> <<>>]

(* Arena::drop, on the buffers. *)
DropArena(heap, arena) ==
    IF arena.commited = arena.reserved + 2 THEN [heap EXCEPT ![arena.buf] = Freed(@)] ELSE heap

-----------------------------------------------------------------------------
(* References and ids. *)

Ref(p, id) == IF id = 0 THEN NONE ELSE [proc |-> p, offset |-> id, gen |-> procs[p].gen]

(* get_node's assertion on an id. *)
get_node_ok(p, id) == id = 0 \/ id =< pos(p)

Address(ref) == Base[ref.proc] + ref.offset

(* node_id's assertion and its answer. *)
node_id_ok(p, ref) ==
    IF ref = NONE THEN TRUE ELSE Address(ref) - Base[p] \in 0 .. pos(p)

node_id(p, ref) == IF ref = NONE THEN 0 ELSE Address(ref) - Base[p]

is_dead(ref) ==
    ref # NONE /\ cells(ref.proc)[ref.offset] = "dead"

check(p, ref) == node_id_ok(p, ref) /\ ~ is_dead(ref)

(* The client keeps the reference, if it has fewer than MaxRefs. *)
Hold(ref) ==
    refs' = IF ref # NONE /\ Cardinality(refs) < MaxRefs THEN refs \cup {ref} ELSE refs

(* A borrow of the proc as `&mut' ends every reference and iterator. *)
EndBorrows(p) ==
    /\ refs' = {r \in refs : r.proc # p}
    /\ inputs' = {n \in inputs : n.proc # p}

-----------------------------------------------------------------------------
(* Calls.  A panic before the library is entered changes nothing, so it is *)
(* not a step: the client may catch it and go on.                          *)

Free(p) == call = Idle /\ procs[p] # None /\ ops < MaxOps

Given(p, args) == {[ref |-> ref, id |-> node_id(p, ref)] : ref \in args}

(* The library runs with the ids, and those of a slice at start .. end - 1  *)
(* of the temporary.                                                        *)
InLibrary(p, args, outs, start, end) ==
    [phase |-> "library", proc |-> p, ids |-> Given(p, args), outs |-> outs,
     start |-> start, end |-> end, reset |-> temps[p]]

(* The references a client may pass for n nodes; their checks do not depend *)
(* on each other, so MaxGiven different ones are enough.                    *)
Arguments(n) ==
    {args \in SUBSET (refs \cup {NONE}) :
        Cardinality(args) =< MaxGiven /\ Cardinality(args) =< n /\ (n > 0 => args # {})}

(* A raw function is called with as many ids as it has parameters: those    *)
(* the safe one did not check may be any.                                   *)
Unchecked(raw, safe) == IF raw.nodes > safe.nodes THEN Arguments(1) ELSE {{}}

(* A safe function without a slice checks each of its nodes. *)
CallNodes(p, raw, safe) ==
    /\ Free(p)
    /\ \E args \in Arguments(safe.nodes), more \in Unchecked(raw, safe) :
           /\ \A ref \in args : check(p, ref)
           /\ call' = InLibrary(p, args \cup more, raw.outs, 0, 0)
    /\ ops' = ops + 1
    /\ UNCHANGED <<state, arrayVars>>

SliceStart(position) == ((position + 3) \div 4) * 4

(* Variant: the temporary is not moved past the ids. *)
WithNodeIdsUnprotected(p, n, outs) ==
    /\ Free(p)
    /\ \E args \in Arguments(n) :
           /\ SliceStart(temps[p]) + 4 * n =< TempCap
           /\ \A ref \in args : check(p, ref)
           /\ call' = InLibrary(p, args, outs, SliceStart(temps[p]), SliceStart(temps[p]) + 4 * n)
    /\ ops' = ops + 1
    /\ UNCHANGED <<state, arrayVars>>

(* with_node_ids: the ids are checked while they are written into the       *)
(* temporary, which then moves past them; without nodes it is left alone.   *)
with_node_ids(p, n, outs) ==
    /\ Free(p)
    /\ \E args \in Arguments(n) :
           LET start == SliceStart(temps[p])
               end   == start + 4 * n
           IN  IF n = 0
               THEN call' = InLibrary(p, {}, outs, 0, 0) /\ UNCHANGED temps
               ELSE /\ end =< TempCap
                    /\ \A ref \in args : check(p, ref)
                    /\ call' = InLibrary(p, args, outs, start, end)
                    /\ temps' = [temps EXCEPT ![p] = end]
    /\ ops' = ops + 1
    /\ UNCHANGED <<arenas, procs, bufs, stencils, refs, inputs, arrayVars>>

(* The functions of generated.rs, as far as they differ. *)
GeneratedApi ==
    {[raw |-> f[1].shape, safe |-> f[2].shape] :
        f \in {g \in Raw \X Safe : g[1].name = g[2].name}}

Call(p, f) ==
    IF f.safe.slice
    THEN \E n \in 0 .. MaxSlice : with_node_ids(p, n, f.raw.outs)
    ELSE CallNodes(p, f.raw, f.safe)

(* What the library may make of a graph in one call: nothing new, one more  *)
(* node, or one less.  An assertion ends the process when the arena is full.*)
Changed(content) ==
    {content}
    \cup (IF Len(content) + 1 < Cap THEN {Append(content, "node")} ELSE {})
    \cup {[content EXCEPT ![i] = "dead"] : i \in {j \in 1 .. Len(content) : content[j] = "node"}}

Library ==
    /\ call.phase = "library"
    /\ \E new \in Changed(cells(call.proc)) :
           bufs' = [bufs EXCEPT ![arenas[call.proc].buf].cells = new]
    /\ call' = [phase |-> "return", proc |-> call.proc, left |-> call.outs,
                reset |-> call.reset]
    /\ UNCHANGED <<arenas, procs, temps, stencils, refs, inputs, ops, arrayVars>>

(* Each node the library answered with goes through get_node.  Its panic   *)
(* would unwind through TempNodes::drop; the answers of CallStep, live      *)
(* nodes and nil, never cause it.                                           *)
ReturnNode(id) ==
    /\ call.left > 0
    /\ IF get_node_ok(call.proc, id)
       THEN /\ call' = [call EXCEPT !.left = @ - 1]
            /\ Hold(Ref(call.proc, id))
            /\ UNCHANGED temps
       ELSE call' = Idle /\ temps' = [temps EXCEPT ![call.proc] = call.reset] /\ UNCHANGED refs
    /\ UNCHANGED <<arenas, procs, bufs, stencils, inputs, ops, arrayVars>>

(* The call returns; TempNodes::drop puts the temporary back. *)
Return ==
    /\ call.phase = "return" /\ call.left = 0
    /\ call' = Idle
    /\ temps' = [temps EXCEPT ![call.proc] = call.reset]
    /\ UNCHANGED <<arenas, procs, bufs, stencils, refs, inputs, ops, arrayVars>>

-----------------------------------------------------------------------------
(* The functions written by hand. *)

InlineStencil(p, s) == stencils[s] # None /\ CallNodes(p, Nodes(1, 0), Nodes(1, 0))

(* A proc inlined into itself panics before anything happens. *)
InlineGraph(p, q) == p # q /\ procs[q] # None /\ CallNodes(p, Nodes(1, 0), Nodes(1, 0))

LoopControl(p) == CallNodes(p, Nodes(1, 0), Nodes(1, 0))

(* initial_memory looks for the memory node from the entry. *)
InitialMemory(p) ==
    /\ Free(p)
    /\ LET entry == Ref(p, procs[p].pinned.entry)
       IN  check(p, entry) /\ call' = InLibrary(p, {entry}, 1, 0, 0)
    /\ ops' = ops + 1
    /\ UNCHANGED <<state, arrayVars>>

(* entry and end. *)
Pinned(p) ==
    /\ Free(p)
    /\ \E id \in {procs[p].pinned.entry, procs[p].pinned.end} : Hold(Ref(p, id))
    /\ UNCHANGED <<arenas, procs, temps, bufs, stencils, inputs, call, ops, arrayVars>>

(* inputs: the iterator keeps a pointer into the arena and a length. *)
Inputs(p, ref) ==
    /\ Free(p) /\ inputs = {} /\ check(p, ref)
    /\ inputs' = {[proc |-> p, len |-> 1]}
    /\ UNCHANGED <<arenas, procs, temps, bufs, stencils, refs, call, ops, arrayVars>>

(* NodeInputs::next: the library may have changed the inputs, or deleted    *)
(* them, since the iterator was made.                                       *)
NextInput(n, id) ==
    /\ call = Idle
    /\ get_node_ok(n.proc, id)
    /\ Hold(Ref(n.proc, id))
    /\ inputs' = inputs \ {n}
    /\ UNCHANGED <<arenas, procs, temps, bufs, stencils, call, ops, arrayVars>>

(* AbiParam::new pushes its datatypes one by one; ParamGen::next takes it,  *)
(* checks `mem' and returns the new memory and the value.                   *)
StartAbi(p) ==
    /\ Free(p)
    /\ \E n \in 0 .. LEN + 1 : call' = [phase |-> "abi", proc |-> p, left |-> n]
    /\ ops' = ops + 1
    /\ UNCHANGED <<state, arrayVars>>

(* Variant: push waits for room. *)
AbiPushWaits(v) ==
    /\ call.phase = "abi" /\ call.left > 0 /\ len < LEN
    /\ push(v)
    /\ call' = [call EXCEPT !.left = @ - 1]
    /\ UNCHANGED <<state, ops>>

AbiPush(v) ==
    /\ call.phase = "abi" /\ call.left > 0 /\ out # Panic
    /\ push(v)
    /\ call' = [call EXCEPT !.left = @ - 1]
    /\ UNCHANGED <<state, ops>>

Moved == data' = Empty /\ len' = 0 /\ out' = None

AbiPanics ==
    /\ call.phase = "abi" /\ out = Panic
    /\ Moved /\ call' = Idle
    /\ UNCHANGED <<state, ops>>

ParamGenNext ==
    /\ call.phase = "abi" /\ call.left = 0 /\ out # Panic
    /\ Moved
    /\ \E args \in Arguments(1) :
           call' = IF \A ref \in args : check(call.proc, ref)
                   THEN InLibrary(call.proc, args, 2, 0, 0) ELSE Idle
    /\ UNCHANGED <<state, ops>>

CallStep ==
    \/ Library
    \/ call.phase = "return" /\ \E id \in LiveIds(call.proc) \cup {0} : ReturnNode(id)
    \/ Return
    \/ \E v \in Value : AbiPush(v)
    \/ AbiPanics
    \/ ParamGenNext

-----------------------------------------------------------------------------
(* Procs, their arenas and stencils. *)

(* The entry, the end, the initial memory and their arrays. *)
Graph0 == <<"entry", "end", "node", "data">>

(* Proc::new: start_proc makes the entry, the end and the initial memory. *)
NewProc(p) ==
    /\ call = Idle /\ procs[p] = None /\ arenas[p] # None
    /\ procs' = [procs EXCEPT ![p] = [pinned |-> [entry |-> 1, end |-> 2], gen |-> 1]]
    /\ bufs' = [bufs EXCEPT ![arenas[p].buf].cells = Graph0]
    /\ temps' \in {[temps EXCEPT ![p] = start] : start \in TempPos}
    /\ UNCHANGED <<arenas, stencils, refs, inputs, call, ops, arrayVars>>

(* The proc goes out of scope and the client resets its arena, so that no   *)
(* byte of it is left to read (Arena::reset, Arena::bytes).                 *)
EndProc(p) ==
    /\ call = Idle /\ procs[p] # None
    /\ procs' = [procs EXCEPT ![p] = None]
    /\ bufs' = [bufs EXCEPT ![arenas[p].buf].cells = <<>>]
    /\ temps' = [temps EXCEPT ![p] = 0]
    /\ EndBorrows(p)
    /\ UNCHANGED <<arenas, stencils, call, ops, arrayVars>>

EndArena(p) ==
    /\ call = Idle /\ procs[p] = None /\ arenas[p] # None
    /\ bufs' = DropArena(bufs, arenas[p])
    /\ arenas' = [arenas EXCEPT ![p] = None]
    /\ UNCHANGED <<procs, temps, stencils, refs, inputs, call, ops, arrayVars>>

(* apply_peeps and opt, which borrow the proc as `&mut'. *)
Optimise(p) ==
    /\ Free(p)
    /\ \E new \in Changed(cells(p)) : bufs' = [bufs EXCEPT ![arenas[p].buf].cells = new]
    /\ EndBorrows(p)
    /\ ops' = ops + 1
    /\ UNCHANGED <<arenas, procs, temps, stencils, call, arrayVars>>

(* compact copies the live nodes, from the entry on, each followed by its   *)
(* own arrays (those of the entry are shown); the pins move with them.  The *)
(* entry, its arrays and the end are three of the old cells, so no copy     *)
(* needs more room than the graph had.                                      *)
Compacted(content) ==
    LET live == {i \in 1 .. Len(content) : content[i] = "node"}
        room == 0 .. Len(content) - 3
    IN  {<<"entry", "data", "end">> \o [i \in 1 .. n |-> "node"] : n \in {Cardinality(live)} \cap room}

Where(content, cell) == CHOOSE i \in DOMAIN content : content[i] = cell

Compacting(p) ==
    /\ Free(p)
    /\ \E new \in Compacted(cells(p)) :
          /\ bufs' = [bufs EXCEPT ![arenas[p].buf].cells = new]
          /\ procs' = [procs EXCEPT ![p] =
                 [pinned |-> [entry |-> Where(new, "entry"), end |-> Where(new, "end")],
                  gen |-> @.gen + 1]]
    /\ ops' = ops + 1
    /\ UNCHANGED <<arenas, temps, stencils, call, arrayVars>>

(* Variant: compact borrows the proc as `&'. *)
CompactShared(p) == Compacting(p) /\ UNCHANGED <<refs, inputs>>

Compact(p) == Compacting(p) /\ EndBorrows(p)

(* The stencil in slot s has a copy of the content. *)
Store(s, content, pinned) ==
    /\ HasBuf
    /\ stencils' = [stencils EXCEPT ![s] =
           [arena |-> ArenaCopy(FreshBuf, content), pinned |-> pinned]]
    /\ bufs' = [bufs EXCEPT ![FreshBuf] = [state |-> "allocated", cells |-> content]]

TakeStencil(p, s) ==
    /\ Free(p) /\ stencils[s] = None
    /\ Store(s, cells(p), procs[p].pinned)
    /\ ops' = ops + 1
    /\ UNCHANGED <<arenas, procs, temps, refs, inputs, call, arrayVars>>

Content(s) == bufs[stencils[s].arena.buf].cells

(* Variant: a derived Clone shares the arena. *)
CloneStencilShared(s, t) ==
    /\ call = Idle /\ ops < MaxOps /\ stencils[s] # None /\ stencils[t] = None
    /\ stencils' = [stencils EXCEPT ![t] = stencils[s]]
    /\ ops' = ops + 1
    /\ UNCHANGED <<arenas, procs, temps, bufs, refs, inputs, call, arrayVars>>

CloneStencil(s, t) ==
    /\ call = Idle /\ ops < MaxOps /\ stencils[s] # None /\ stencils[t] = None
    /\ Store(t, Content(s), stencils[s].pinned)
    /\ ops' = ops + 1
    /\ UNCHANGED <<arenas, procs, temps, refs, inputs, call, arrayVars>>

DropStencil(s) ==
    /\ call = Idle /\ stencils[s] # None
    /\ bufs' = DropArena(bufs, stencils[s].arena)
    /\ stencils' = [stencils EXCEPT ![s] = None]
    /\ UNCHANGED <<arenas, procs, temps, refs, inputs, call, ops, arrayVars>>

(* Variant: the graph is replaced and its pins are not. *)
MountStencilBare(p, s) ==
    /\ Free(p) /\ stencils[s] # None
    /\ bufs' = [bufs EXCEPT ![arenas[p].buf].cells = Content(s)]
    /\ procs' = [procs EXCEPT ![p].gen = @ + 1]
    /\ EndBorrows(p)
    /\ ops' = ops + 1
    /\ UNCHANGED <<arenas, temps, stencils, call, arrayVars>>

MountStencil(p, s) ==
    /\ Free(p) /\ stencils[s] # None
    /\ bufs' = [bufs EXCEPT ![arenas[p].buf].cells = Content(s)]
    /\ procs' = [procs EXCEPT ![p] = [pinned |-> stencils[s].pinned, gen |-> @.gen + 1]]
    /\ EndBorrows(p)
    /\ ops' = ops + 1
    /\ UNCHANGED <<arenas, temps, stencils, call, arrayVars>>

-----------------------------------------------------------------------------

BindingsInit ==
    /\ arenas = [p \in Procs |-> IF p \in Owned THEN ArenaNew(p, Cap) ELSE arena_raw(p, Cap)]
    /\ procs = [p \in Procs |-> None]
    /\ temps = [p \in Procs |-> 0]
    /\ bufs = [b \in Bufs |->
           [state |-> IF b \in Owned THEN "allocated"
                      ELSE IF b \in Borrowed THEN "client" ELSE "unused",
            cells |-> <<>>]]
    /\ stencils = [s \in Slots |-> None]
    /\ refs = {} /\ inputs = {}
    /\ call = Idle /\ ops = 0
    /\ ArrayInit

ClientStep ==
    \/ \E p \in Procs :
           \/ \E f \in GeneratedApi : Call(p, f)
           \/ \E s \in Slots : InlineStencil(p, s) \/ TakeStencil(p, s) \/ MountStencil(p, s)
           \/ \E q \in Procs : InlineGraph(p, q)
           \/ LoopControl(p) \/ InitialMemory(p) \/ Pinned(p) \/ StartAbi(p)
           \/ \E ref \in refs : Inputs(p, ref)
           \/ NewProc(p) \/ EndProc(p) \/ EndArena(p) \/ Optimise(p) \/ Compact(p)
    \/ \E n \in inputs : \E id \in NodeIds(n.proc) \cup {0} : NextInput(n, id)
    \/ \E s, t \in Slots : CloneStencil(s, t)
    \/ \E s \in Slots : DropStencil(s)

BindingsNext == ClientStep \/ CallStep

(* The client may stop between calls; a call that has begun goes on. *)
BindingsSpec ==
    BindingsInit /\ [][BindingsNext]_bindingsVars /\ WF_bindingsVars(CallStep)

-----------------------------------------------------------------------------

(* Whatever function of the bindings is called with whatever references,    *)
(* the library is handed nil or the id of the very node the client meant:   *)
(* one of this proc's, in the graph as it is now, and not deleted (check,   *)
(* node_id, with_node_ids, generated.rs).                                   *)
OnlyLiveIds ==
    call.phase = "library" =>
        \A given \in call.ids :
            \/ given.ref = NONE /\ given.id = 0
            \/ /\ given.ref.proc = call.proc
               /\ given.ref.gen = procs[call.proc].gen
               /\ given.id = given.ref.offset
               /\ given.id \in LiveIds(call.proc)

(* A reference the client still holds points at a node of its proc's        *)
(* current graph, deleted or not: what compacts or replaces the graph       *)
(* borrows the proc exclusively, and everything else only adds to the arena.*)
RefsPointAtNodes ==
    \A r \in refs :
        /\ r.gen = procs[r.proc].gen
        /\ r.offset \in NodeIds(r.proc)

(* While the library runs, the ids it was given lie in the temporary,       *)
(* aligned, below its position (so the library's own temporaries do not     *)
(* overwrite them), above what was there before and inside its reservation. *)
(* Between calls the temporary is where the proc found it, so calls never   *)
(* use it up (with_node_ids, TempNodes::drop).                              *)
TempsSafe ==
    /\ (call.phase = "library" /\ call.end > 0) =>
          /\ call.start % 4 = 0 /\ call.start >= call.reset
          /\ call.end =< temps[call.proc]
          /\ temps[call.proc] =< TempCap
    /\ call = Idle => \A p \in Procs : procs[p] = None \/ temps[p] \in TempPos

(* The storage of Arena::new is freed exactly once, when its one owner goes *)
(* away, and the client's buffers never (Arena::drop, `commited').          *)
BuffersOwned ==
    LET owners(b) == {<<"arena", p>> : p \in {p \in Procs : arenas[p] # None /\ arenas[p].buf = b}}
                     \cup
                     {<<"stencil", s>> : s \in {s \in Slots : stencils[s] # None /\ stencils[s].arena.buf = b}}
    IN  \A b \in Bufs :
            /\ bufs[b].state # "corrupt"
            /\ bufs[b].state = "allocated" <=> owners(b) # {} /\ \A p \in Borrowed : <<"arena", p>> \notin owners(b)
            /\ \A x, y \in owners(b) : x = y

(* entry and end answer with the proc's entry and end, also after the graph *)
(* was compacted or replaced by a stencil (Proc_Meta travels with it).      *)
PinnedLive ==
    \A p \in Procs : procs[p] # None =>
        /\ cells(p)[procs[p].pinned.entry] = "entry"
        /\ cells(p)[procs[p].pinned.end] = "end"

(* A call that has begun returns to the client: with the nodes asked for,   *)
(* or, when an AbiParam is given more datatypes than it holds, by the panic *)
(* of push (FixedCapDynArray).                                              *)
CallsReturn == [](call # Idle => <>(call = Idle))
=============================================================================
