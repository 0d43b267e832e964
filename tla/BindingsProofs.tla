-------------------------- MODULE BindingsProofs ---------------------------
(***************************************************************************)
(* The safe wrapper hands the library live nodes only, for any number of   *)
(* procs, references, stencils and calls, any capacities and any lengths   *)
(* of slices.  The invariant says beside the properties which buffer each  *)
(* arena and stencil has, that every graph has its pinned nodes and stays  *)
(* below the capacity (so that the addresses of two procs' nodes are       *)
(* apart), and where each temporary returns to.                            *)
(*                                                                         *)
(* First, the fixed-capacity array behind AbiParam implements a bounded    *)
(* sequence, for every capacity and every type of values.                  *)
(***************************************************************************)
EXTENDS Bindings, TLAPS

-----------------------------------------------------------------------------
(* The array of fixed_cap_dyn_array.rs: its cells below len are written.    *)

(* A new array has no values. *)
LEMMA InitInitialised == ArrayInit => Initialised
BY ArrayAssumption DEF ArrayInit, Initialised, Empty, Cells

(* Every call of the array keeps its values initialised. *)
LEMMA StepInitialised == Initialised /\ [ArrayStep]_arrayVars => Initialised'
<1> SUFFICES ASSUME Initialised, [ArrayStep]_arrayVars PROVE Initialised'
    OBVIOUS
<1> USE ArrayAssumption DEF Initialised, Cells
<1>1. ASSUME NEW v \in Value, push(v) PROVE Initialised'
    BY <1>1 DEF push
<1>2. CASE pop
    BY <1>2 DEF pop
<1>3. CASE clear
    BY <1>3 DEF clear
<1>4. ASSUME NEW values \in Arrays, from(values) PROVE Initialised'
    BY <1>4 DEF from
<1>5. ASSUME NEW i \in Cells, NEW v \in Value, write(i, v) PROVE Initialised'
    BY <1>5 DEF write
<1>6. CASE UNCHANGED arrayVars
    BY <1>6 DEF arrayVars
<1> QED
    BY <1>1, <1>2, <1>3, <1>4, <1>5, <1>6 DEF ArrayStep

(* pop's assume_init and the slices read initialised cells only, for every  *)
(* capacity and every sequence of calls.                                    *)
THEOREM AlwaysInitialised == ArraySpec => []Initialised
<1>1. ArrayInit => Initialised
    BY InitInitialised
<1>2. Initialised /\ [ArrayStep]_arrayVars => Initialised'
    BY StepInitialised
<1> QED
    BY <1>1, <1>2, PTL DEF ArraySpec

(* What the client sees is a sequence of values. *)
LEMMA SliceType ==
    ASSUME Initialised
    PROVE  as_slice \in Seq(Value) /\ Len(as_slice) = len
BY ArrayAssumption DEF Initialised, as_slice, Cells

(* Every call is a call of the bounded sequence.                            *)
LEMMA StepRefines ==
    ASSUME Initialised, Initialised', [ArrayStep]_arrayVars
    PROVE  [Abstract!Next]_<<as_slice, out>>
<1> USE ArrayAssumption
<1>0. as_slice \in Seq(Value) /\ Len(as_slice) = len
    BY SliceType
<1>1. ASSUME NEW v \in Value, push(v) PROVE Abstract!Push(v)
  <2>1. CASE len < LEN
    <3>1. as_slice' = Append(as_slice, v)
        BY <1>1, <2>1 DEF push, as_slice, Initialised, Cells
    <3> QED
        BY <1>0, <1>1, <2>1, <3>1 DEF push, Abstract!Push
  <2>2. CASE ~ (len < LEN)
    <3>1. as_slice' = as_slice
        BY <1>1, <2>2 DEF push, as_slice
    <3> QED
        BY <1>0, <1>1, <2>2, <3>1 DEF push, Abstract!Push
  <2> QED
      BY <2>1, <2>2
<1>2. ASSUME pop PROVE Abstract!Pop
  <2>1. CASE len = 0
    <3>1. as_slice' = as_slice
        BY <1>2, <2>1 DEF pop, as_slice
    <3>2. as_slice = <<>>
        BY <1>0, <2>1
    <3> QED
        BY <1>2, <2>1, <3>1, <3>2 DEF pop, Abstract!Pop
  <2>2. CASE len # 0
    <3>1. as_slice' = SubSeq(as_slice, 1, len - 1)
        BY <1>2, <2>2 DEF pop, as_slice, Initialised, Cells
    <3>2. out' = as_slice[len]
        BY <1>2, <2>2 DEF pop, as_slice, Initialised, Cells
    <3>3. as_slice # <<>>
        BY <1>0, <2>2
    <3> QED
        BY <1>0, <3>1, <3>2, <3>3 DEF Abstract!Pop
  <2> QED
      BY <2>1, <2>2
<1>3. ASSUME clear PROVE Abstract!Clear
  <2>1. as_slice' = <<>>
      BY <1>3 DEF clear, as_slice
  <2> QED
      BY <1>3, <2>1 DEF clear, Abstract!Clear
<1>4. ASSUME NEW values \in Arrays, from(values) PROVE Abstract!From(values)
  <2>1. CASE Len(values) =< LEN
    <3>1. as_slice' = values
        BY <1>4, <2>1 DEF from, as_slice, Initialised, Cells
    <3> QED
        BY <1>4, <2>1, <3>1 DEF from, Abstract!From
  <2>2. CASE ~ (Len(values) =< LEN)
    <3>1. as_slice' = as_slice
        BY <1>4, <2>2 DEF from, as_slice
    <3> QED
        BY <1>4, <2>2, <3>1 DEF from, Abstract!From
  <2> QED
      BY <2>1, <2>2
<1>5. ASSUME NEW i \in Cells, NEW v \in Value, write(i, v)
      PROVE  i + 1 \in 1 .. Len(as_slice) /\ Abstract!Write(i + 1, v)
  <2>1. as_slice' = [as_slice EXCEPT ![i + 1] = v]
    <3>1. len' = len /\ data' = [data EXCEPT ![i] = v] /\ i \in 0 .. LEN - 1
        BY <1>5 DEF write, Cells
    <3>2. \A j \in 1 .. len : data'[j - 1] = IF j = i + 1 THEN v ELSE data[j - 1]
        BY <3>1 DEF Initialised, Cells
    <3>3. as_slice' = [j \in 1 .. len |-> data'[j - 1]]
        BY <3>1 DEF as_slice
    <3>4. [as_slice EXCEPT ![i + 1] = v]
              = [j \in 1 .. len |-> IF j = i + 1 THEN v ELSE data[j - 1]]
        BY DEF as_slice
    <3> QED
        BY <3>2, <3>3, <3>4
  <2> QED
      BY <1>0, <1>5, <2>1 DEF write, Abstract!Write, Initialised, Cells
<1>6. CASE UNCHANGED arrayVars
    BY <1>6 DEF arrayVars, as_slice
<1> QED
    BY <1>1, <1>2, <1>3, <1>4, <1>5, <1>6 DEF ArrayStep, Abstract!Next

(* The array of fixed_cap_dyn_array.rs implements the bounded sequence, for *)
(* every capacity and every type.                                           *)
THEOREM ArrayRefines == ArraySpec => IsBoundedSequence
<1>1. ArrayInit => Abstract!Init
    BY DEF ArrayInit, Abstract!Init, as_slice
<1>2. Initialised /\ Initialised' /\ [ArrayStep]_arrayVars => [Abstract!Next]_<<as_slice, out>>
    BY StepRefines
<1> QED
    BY <1>1, <1>2, AlwaysInitialised, PTL DEF ArraySpec, IsBoundedSequence, Abstract!Spec

-----------------------------------------------------------------------------
(* The bindings: types and invariant. *)

Cell == Alive \cup {"dead", "data"}

Buffer == [state : {"unused", "allocated", "freed", "client"}, cells : Seq(Cell)]

Reference == [proc : Procs, offset : Nat \ {0}, gen : Nat]

Argument == [ref : Reference \cup {NONE}, id : Int]

CallType ==
    {Idle}
    \cup [phase : {"library"}, proc : Procs, ids : SUBSET Argument, outs : Nat,
          start : Nat, end : Nat, reset : Nat]
    \cup [phase : {"return"}, proc : Procs, left : Nat, reset : Nat]
    \cup [phase : {"abi"}, proc : Procs, left : Nat]

(* The variables have their types. *)
BindingsTypeOK ==
    /\ arenas \in [Procs -> Arena \cup {None}]
    /\ procs \in [Procs -> Proc \cup {None}]
    /\ temps \in [Procs -> Nat]
    /\ bufs \in [Bufs -> Buffer]
    /\ stencils \in [Slots -> Stencil \cup {None}]
    /\ refs \subseteq Reference
    /\ inputs \subseteq [proc : Procs, len : {1}]
    /\ call \in CallType

(* The content of a graph: its pinned nodes are in place, the entry's array *)
(* is data, and the arena is not full.                                      *)
IsGraph(content, pinned) ==
    /\ Len(content) < Cap
    /\ pinned.entry \in 1 .. Len(content) /\ content[pinned.entry] = "entry"
    /\ pinned.end \in 1 .. Len(content) /\ content[pinned.end] = "end"
    /\ \E i \in 1 .. Len(content) : content[i] = "data"

(* The arena a proc starts with, until it is dropped. *)
ArenaOf(p) == IF p \in Owned THEN ArenaNew(p, Cap) ELSE arena_raw(p, Cap)

ArenasFixed == \A p \in Procs : arenas[p] # None => arenas[p] = ArenaOf(p)

ProcsSound ==
    \A p \in Procs : procs[p] # None =>
        arenas[p] # None /\ IsGraph(bufs[p].cells, procs[p].pinned)

StencilSound(s) ==
    LET arena == stencils[s].arena
    IN  /\ arena.buf \in 1 .. MaxBufs
        /\ arena.commited = arena.reserved + 2
        /\ bufs[arena.buf].state = "allocated"
        /\ IsGraph(bufs[arena.buf].cells, stencils[s].pinned)

StencilsSound ==
    /\ \A s \in Slots : stencils[s] # None => StencilSound(s)
    /\ \A s, t \in Slots :
           stencils[s] # None /\ stencils[t] # None
             /\ stencils[s].arena.buf = stencils[t].arena.buf => s = t

(* What is allocated has an owner, what had one is freed. *)
HeapSound ==
    /\ \A p \in Owned : bufs[p].state = IF arenas[p] = None THEN "freed" ELSE "allocated"
    /\ \A p \in Borrowed : bufs[p].state = "client"
    /\ \A b \in 1 .. MaxBufs : bufs[b].state = "allocated" =>
           \E s \in Slots : stencils[s] # None /\ stencils[s].arena.buf = b

HInv == BindingsTypeOK /\ ArenasFixed /\ ProcsSound /\ StencilsSound /\ HeapSound

(* References, iterators and the call in progress are of procs that exist. *)
BorrowsLive ==
    /\ \A r \in refs : procs[r.proc] # None
    /\ \A n \in inputs : procs[n.proc] # None
    /\ call # Idle => procs[call.proc] # None

(* Where the temporary of a proc will be when the call has returned. *)
Home(p) ==
    IF call.phase \in {"library", "return"} /\ call.proc = p THEN call.reset ELSE temps[p]

TempsReturn == \A p \in Procs : procs[p] # None => Home(p) \in TempPos

BInv ==
    HInv /\ BorrowsLive /\ RefsPointAtNodes /\ OnlyLiveIds /\ TempsReturn /\ TempsSafe

-----------------------------------------------------------------------------
(* The tables of generated.rs and the ids. *)

(* Every safe function has a raw one and checks all of its nodes, those of  *)
(* a slice through with_node_ids.                                           *)
LEMMA SafeChecksAll ==
    /\ \A safe \in Safe : \E raw \in Raw : raw.name = safe.name
    /\ \A raw \in Raw, safe \in Safe :
           raw.name = safe.name /\ ~ safe.shape.slice => raw.shape.nodes =< safe.shape.nodes
    /\ \A raw \in Raw : raw.shape.nodes \in Nat /\ raw.shape.outs \in Nat
    /\ \A safe \in Safe : safe.shape.nodes \in Nat
<1> USE DEF Raw, Raw1, Raw2, Raw3, Raw4, Raw5, Raw6, Safe, Safe1, Safe2, Safe3, Safe4, Safe5, Safe6, Api, Nodes, Slice
<1>1. \A safe \in Safe : \E raw \in Raw : raw.name = safe.name
    OBVIOUS
<1>2. \A raw \in Raw, safe \in Safe :
          raw.name = safe.name /\ ~ safe.shape.slice => raw.shape.nodes =< safe.shape.nodes
    OBVIOUS
<1>3. \A raw \in Raw : raw.shape.nodes \in Nat /\ raw.shape.outs \in Nat
    OBVIOUS
<1>4. \A safe \in Safe : safe.shape.nodes \in Nat
    OBVIOUS
<1> QED
    BY <1>1, <1>2, <1>3, <1>4

(* So no function of the bindings passes on what it did not check. *)
LEMMA NothingUnchecked ==
    ASSUME NEW f \in GeneratedApi
    PROVE  /\ f.raw.outs \in Nat
           /\ ~ f.safe.slice => Unchecked(f.raw, f.safe) = {{}}
<1>1. PICK raw \in Raw, safe \in Safe :
          raw.name = safe.name /\ f = [raw |-> raw.shape, safe |-> safe.shape]
    BY DEF GeneratedApi
<1>2. f.raw = raw.shape /\ f.safe = safe.shape
    BY <1>1
<1>3. raw.shape.outs \in Nat /\ raw.shape.nodes \in Nat /\ safe.shape.nodes \in Nat
    BY SafeChecksAll
<1>4. ~ safe.shape.slice => raw.shape.nodes =< safe.shape.nodes
    BY <1>1, SafeChecksAll
<1> QED
    BY <1>2, <1>3, <1>4 DEF Unchecked

(* The arena of a proc is where it was made. *)
LEMMA CellsOf ==
    ASSUME HInv, NEW p \in Procs, arenas[p] # None
    PROVE  /\ arenas[p].buf = p /\ p \in Bufs
           /\ cells(p) = bufs[p].cells /\ cells(p) \in Seq(Cell)
<1>1. arenas[p] = ArenaOf(p)
    BY DEF HInv, ArenasFixed
<1>2. arenas[p].buf = p
    BY <1>1 DEF ArenaOf, ArenaNew, arena_raw
<1>3. p \in Bufs /\ bufs[p] \in Buffer
    BY DEF Bufs, HInv, BindingsTypeOK
<1> QED
    BY <1>2, <1>3 DEF cells, Buffer

(* A reference points at a node of a graph as it is now. *)
Valid(ref) ==
    /\ ref \in Reference /\ procs[ref.proc] # None
    /\ ref.gen = procs[ref.proc].gen /\ ref.offset \in NodeIds(ref.proc)

(* What the library may be handed for a node. *)
Handed(p, given) ==
    \/ given.ref = NONE /\ given.id = 0
    \/ /\ given.ref.proc = p
       /\ given.ref.gen = procs[p].gen
       /\ given.id = given.ref.offset
       /\ given.id \in LiveIds(p)

(* What the client holds is valid. *)
LEMMA RefsValid ==
    ASSUME BInv
    PROVE  \A ref \in refs : Valid(ref)
BY DEF BInv, HInv, BindingsTypeOK, BorrowsLive, RefsPointAtNodes, Valid

(* node_id's assertion refuses the nodes of other procs, is_dead the deleted*)
(* ones.                                                                    *)
LEMMA CheckedIsLive ==
    ASSUME BInv, NEW p \in Procs, procs[p] # None,
           NEW ref, ref = NONE \/ Valid(ref), check(p, ref)
    PROVE  LET given == [ref |-> ref, id |-> node_id(p, ref)]
           IN  given \in Argument /\ Handed(p, given)
<1> DEFINE given == [ref |-> ref, id |-> node_id(p, ref)]
<1>0. HInv /\ arenas[p] # None
    BY DEF BInv, HInv, ProcsSound
<1>1. CASE ref = NONE
    BY <1>1 DEF node_id, Argument, Handed
<1>2. CASE ref # NONE
  <2>1. Valid(ref) /\ ref \in Reference
      BY <1>2 DEF Valid
  <2>2. PICK q \in Procs : q = ref.proc
      BY <2>1 DEF Reference
  <2>3. procs[q] # None /\ arenas[q] # None
      BY <2>1, <2>2, <1>0 DEF Valid, HInv, ProcsSound
  <2>4. /\ cells(p) = bufs[p].cells /\ cells(p) \in Seq(Cell)
        /\ cells(q) = bufs[q].cells /\ cells(q) \in Seq(Cell)
      BY <1>0, <2>3, CellsOf
  <2>5. Len(cells(p)) < Cap /\ Len(cells(q)) < Cap
      BY <1>0, <2>3, <2>4 DEF HInv, ProcsSound, IsGraph
  <2>6. ref.gen = procs[q].gen /\ ref.offset \in NodeIds(q)
      BY <2>1, <2>2 DEF Valid
  <2>7. ref.offset \in 1 .. Len(cells(q)) /\ cells(q)[ref.offset] # "data"
      BY <2>6 DEF NodeIds
  <2>8. (Base[q] + ref.offset) - Base[p] \in 0 .. Len(cells(p)) + 1
    <3>1. Address(ref) - Base[p] \in 0 .. pos(p)
        BY <1>2 DEF check, node_id_ok
    <3>2. Address(ref) = Base[q] + ref.offset
        BY <2>2 DEF Address
    <3> QED
        BY <3>1, <3>2 DEF pos
  <2>9. q = p
    <3>1. Base[p] \in Nat /\ Base[q] \in Nat /\ Cap \in Nat
        BY BindingsAssumption, BuffersApart
    <3>2. Len(cells(p)) \in Nat /\ Len(cells(q)) \in Nat
        BY <2>4
    <3>3. SUFFICES ASSUME q # p PROVE FALSE
        OBVIOUS
    <3>4. Base[p] + Cap =< Base[q] \/ Base[q] + Cap =< Base[p]
        BY <3>3, BuffersApart
    <3> QED
        BY <2>5, <2>7, <2>8, <3>1, <3>2, <3>4
  <2>10. cells(p)[ref.offset] \in Alive
    <3>1. cells(p)[ref.offset] # "dead"
        BY <1>2, <2>2, <2>9 DEF check, is_dead
    <3>2. cells(p)[ref.offset] \in Cell
        BY <2>4, <2>7, <2>9
    <3> QED
        BY <2>7, <2>9, <3>1, <3>2 DEF Cell
  <2>11. node_id(p, ref) = ref.offset
    <3>1. Base[p] \in Nat /\ ref.offset \in Nat
        BY BuffersApart, <2>1 DEF Reference
    <3> QED
        BY <1>2, <2>2, <2>9, <3>1 DEF node_id, Address
  <2>12. ref.offset \in LiveIds(p)
      BY <2>7, <2>9, <2>10 DEF LiveIds
  <2>13. given \in Argument
      BY <2>1, <2>11 DEF Argument, Reference
  <2> QED
      BY <2>2, <2>6, <2>9, <2>11, <2>12, <2>13 DEF Handed
<1> QED
    BY <1>1, <1>2

-----------------------------------------------------------------------------
(* Calls: neither the procs nor their graphs change. *)

(* The phase of a call tells its fields. *)
LEMMA CallPhases ==
    ASSUME HInv
    PROVE  /\ call.phase = "library" =>
                  /\ call.proc \in Procs /\ call.ids \subseteq Argument /\ call.outs \in Nat
                  /\ call.start \in Nat /\ call.end \in Nat /\ call.reset \in Nat
           /\ call.phase = "return" =>
                  call.proc \in Procs /\ call.left \in Nat /\ call.reset \in Nat
           /\ call.phase = "abi" => call.proc \in Procs /\ call.left \in Nat
           /\ call.phase \in {"idle", "library", "return", "abi"}
           /\ call = Idle <=> call.phase = "idle"
BY DEF HInv, BindingsTypeOK, CallType, Idle

(* The heap is as sound as before when only the client's side changes. *)
LEMMA SameHeap ==
    ASSUME HInv, UNCHANGED <<arenas, procs, bufs, stencils>>,
           temps' \in [Procs -> Nat], refs' \subseteq Reference,
           inputs' \subseteq [proc : Procs, len : {1}], call' \in CallType
    PROVE  HInv'
<1>1. BindingsTypeOK'
    BY DEF HInv, BindingsTypeOK
<1>2. ArenasFixed' /\ ProcsSound'
    BY DEF HInv, ArenasFixed, ProcsSound
<1>3. StencilsSound'
    BY DEF HInv, StencilsSound, StencilSound
<1>4. HeapSound'
    BY DEF HInv, HeapSound
<1> QED
    BY <1>1, <1>2, <1>3, <1>4 DEF HInv

(* A call enters the library with ids that were checked.  With a slice the  *)
(* temporary moves past it.                                                 *)
LEMMA EnterLibrary ==
    ASSUME BInv, NEW p \in Procs, procs[p] # None,
           call.phase \in {"idle", "abi"},
           UNCHANGED <<arenas, procs, bufs, stencils, refs, inputs>>,
           NEW args, \A ref \in args : (ref = NONE \/ Valid(ref)) /\ check(p, ref),
           NEW outs \in Nat, NEW start \in Nat, NEW end \in Nat,
           call' = InLibrary(p, args, outs, start, end),
           \/ end = 0 /\ temps' = temps
           \/ /\ temps' = [temps EXCEPT ![p] = end] /\ end =< TempCap
              /\ start % 4 = 0 /\ start >= temps[p]
    PROVE  BInv'
<1>0. HInv /\ temps \in [Procs -> Nat]
    BY DEF BInv, HInv, BindingsTypeOK
<1>1. \A given \in Given(p, args) : given \in Argument /\ Handed(p, given)
  <2>1. SUFFICES ASSUME NEW ref \in args
                 PROVE  LET given == [ref |-> ref, id |-> node_id(p, ref)]
                        IN  given \in Argument /\ Handed(p, given)
      BY DEF Given
  <2> QED
      BY CheckedIsLive
<1>2. /\ call'.phase = "library" /\ call'.proc = p /\ call'.ids = Given(p, args)
      /\ call'.start = start /\ call'.end = end /\ call'.reset = temps[p]
    BY DEF InLibrary
<1>3. call' \in CallType
    BY <1>0, <1>1 DEF InLibrary, CallType
<1>4. temps' \in [Procs -> Nat]
    BY <1>0
<1>5. HInv'
    BY <1>0, <1>3, <1>4, SameHeap DEF HInv, BindingsTypeOK
<1>6. BorrowsLive'
    BY <1>2 DEF BInv, BorrowsLive
<1>7. RefsPointAtNodes'
    BY DEF BInv, RefsPointAtNodes, NodeIds, cells
<1>8. OnlyLiveIds'
  <2>1. LiveIds(p)' = LiveIds(p) /\ procs' = procs
      BY DEF LiveIds, cells
  <2>2. \A given \in Given(p, args) : Handed(p, given)'
      BY <1>1, <2>1 DEF Handed
  <2> QED
      BY <1>2, <2>1, <1>1 DEF OnlyLiveIds, Handed
<1>9. TempsReturn'
    BY <1>0, <1>2 DEF BInv, TempsReturn, Home
<1>10. TempsSafe'
  <2>1. call' # Idle
      BY <1>2 DEF Idle
  <2>2. end > 0 => temps'[p] = end
      BY <1>0
  <2> QED
      BY <1>0, <1>2, <2>1, <2>2, BindingsAssumption DEF TempsSafe
<1> QED
    BY <1>5, <1>6, <1>7, <1>8, <1>9, <1>10 DEF BInv

(* The call changes and nothing else, and it is not in the library. *)
LEMMA OnlyCall ==
    ASSUME BInv, UNCHANGED state, call' \in CallType,
           call.phase \in {"idle", "abi"}, call'.phase \in {"idle", "abi"},
           call' # Idle => procs[call'.proc] # None
    PROVE  BInv'
<1> USE DEF state
<1>1. HInv'
    BY SameHeap DEF BInv, HInv, BindingsTypeOK
<1>2. BorrowsLive' /\ RefsPointAtNodes'
    BY DEF BInv, BorrowsLive, RefsPointAtNodes, NodeIds, cells
<1>3. OnlyLiveIds'
    BY DEF OnlyLiveIds
<1>4. TempsReturn' /\ TempsSafe'
    BY DEF BInv, TempsReturn, TempsSafe, Home
<1> QED
    BY <1>1, <1>2, <1>3, <1>4 DEF BInv

(* Functions without a slice: those of generated.rs and those by hand. *)
LEMMA NodesStep ==
    ASSUME BInv, NEW p \in Procs, NEW raw, NEW safe,
           raw.outs \in Nat, Unchecked(raw, safe) = {{}}, CallNodes(p, raw, safe)
    PROVE  BInv'
<1>1. PICK args \in Arguments(safe.nodes) :
          /\ \A ref \in args : check(p, ref)
          /\ call' = InLibrary(p, args, raw.outs, 0, 0)
    BY DEF CallNodes
<1>2. \A ref \in args : ref = NONE \/ Valid(ref)
    BY RefsValid DEF Arguments
<1>3. call.phase = "idle" /\ procs[p] # None
    BY DEF CallNodes, Free, Idle
<1>4. UNCHANGED <<arenas, procs, bufs, stencils, refs, inputs>> /\ temps' = temps
    BY DEF CallNodes, state
<1> QED
    BY <1>1, <1>2, <1>3, <1>4, EnterLibrary

(* The start of a slice is aligned and not below the position. *)
LEMMA SliceAligned ==
    ASSUME NEW position \in Nat
    PROVE  /\ SliceStart(position) \in Nat /\ SliceStart(position) % 4 = 0
           /\ SliceStart(position) >= position
BY DEF SliceStart

LEMMA SliceStep ==
    ASSUME BInv, NEW p \in Procs, NEW n \in Nat, NEW outs \in Nat, with_node_ids(p, n, outs)
    PROVE  BInv'
<1>1. PICK args \in Arguments(n) :
          LET start == SliceStart(temps[p])
              end   == start + 4 * n
          IN  IF n = 0
              THEN call' = InLibrary(p, {}, outs, 0, 0) /\ UNCHANGED temps
              ELSE /\ end =< TempCap
                   /\ \A ref \in args : check(p, ref)
                   /\ call' = InLibrary(p, args, outs, start, end)
                   /\ temps' = [temps EXCEPT ![p] = end]
    BY DEF with_node_ids
<1>2. \A ref \in args : ref = NONE \/ Valid(ref)
    BY RefsValid DEF Arguments
<1>3. call.phase = "idle" /\ procs[p] # None
    BY DEF with_node_ids, Free, Idle
<1>4. UNCHANGED <<arenas, procs, bufs, stencils, refs, inputs>>
    BY DEF with_node_ids
<1>5. CASE n = 0
  <2>1. call' = InLibrary(p, {}, outs, 0, 0) /\ temps' = temps
      BY <1>1, <1>5
  <2>2. \A ref \in {} : (ref = NONE \/ Valid(ref)) /\ check(p, ref)
      OBVIOUS
  <2> QED
      BY <1>3, <1>4, <2>1, <2>2, EnterLibrary
<1>6. CASE n # 0
  <2>0. PICK start \in Nat : start = SliceStart(temps[p]) /\ start % 4 = 0 /\ start >= temps[p]
    <3>1. temps[p] \in Nat
        BY DEF BInv, HInv, BindingsTypeOK
    <3> QED
        BY <3>1, SliceAligned
  <2>1. PICK end \in Nat : end = start + 4 * n
      OBVIOUS
  <2>2. /\ end =< TempCap /\ call' = InLibrary(p, args, outs, start, end)
        /\ temps' = [temps EXCEPT ![p] = end]
        /\ \A ref \in args : check(p, ref)
      BY <1>1, <1>6, <2>0, <2>1
  <2> QED
      BY <1>2, <1>3, <1>4, <2>0, <2>2, EnterLibrary
<1> QED
    BY <1>5, <1>6

(* The functions of generated.rs. *)
LEMMA GeneratedStep ==
    ASSUME BInv, NEW p \in Procs, NEW f \in GeneratedApi, Call(p, f)
    PROVE  BInv'
<1>1. CASE f.safe.slice
    BY <1>1, NothingUnchecked, SliceStep, BindingsAssumption DEF Call
<1>2. CASE ~ f.safe.slice
    BY <1>2, NothingUnchecked, NodesStep DEF Call
<1> QED
    BY <1>1, <1>2

(* inline_stencil, inline_graph and the loop's control. *)
LEMMA HandWrittenStep ==
    ASSUME BInv, NEW p \in Procs, CallNodes(p, Nodes(1, 0), Nodes(1, 0))
    PROVE  BInv'
<1>1. Nodes(1, 0).outs \in Nat /\ Unchecked(Nodes(1, 0), Nodes(1, 0)) = {{}}
    BY DEF Nodes, Unchecked
<1> QED
    BY <1>1, NodesStep

(* The entry of a proc and its end are valid references. *)
LEMMA PinnedValid ==
    ASSUME BInv, NEW p \in Procs, procs[p] # None,
           NEW id \in {procs[p].pinned.entry, procs[p].pinned.end}
    PROVE  Valid(Ref(p, id))
<1>1. HInv /\ arenas[p] # None /\ IsGraph(bufs[p].cells, procs[p].pinned)
    BY DEF BInv, HInv, ProcsSound
<1>2. cells(p) = bufs[p].cells
    BY <1>1, CellsOf
<1>3. id \in NodeIds(p)
    BY <1>1, <1>2 DEF IsGraph, NodeIds
<1>4. id \in Nat \ {0}
    BY <1>3 DEF NodeIds
<1>5. procs[p].gen \in Nat
    BY DEF BInv, HInv, BindingsTypeOK, Proc
<1> QED
    BY <1>3, <1>4, <1>5 DEF Ref, Valid, Reference

LEMMA InitialMemoryStep ==
    ASSUME BInv, NEW p \in Procs, InitialMemory(p)
    PROVE  BInv'
<1>1. PICK entry : entry = Ref(p, procs[p].pinned.entry)
    OBVIOUS
<1>2. check(p, entry) /\ call' = InLibrary(p, {entry}, 1, 0, 0)
    BY <1>1 DEF InitialMemory
<1>3. call.phase = "idle" /\ procs[p] # None
    BY DEF InitialMemory, Free, Idle
<1>4. Valid(entry)
    BY <1>1, <1>3, PinnedValid
<1>5. UNCHANGED <<arenas, procs, bufs, stencils, refs, inputs>> /\ temps' = temps
    BY DEF InitialMemory, state
<1> QED
    BY <1>2, <1>3, <1>4, <1>5, EnterLibrary

(* AbiParam::new and ParamGen::next. *)
LEMMA AbiStep ==
    ASSUME BInv,
           \/ \E p \in Procs : StartAbi(p)
           \/ \E v \in Value : AbiPush(v)
           \/ AbiPanics
           \/ ParamGenNext
    PROVE  BInv'
<1>0. HInv
    BY DEF BInv
<1>1. ASSUME NEW p \in Procs, StartAbi(p) PROVE BInv'
  <2>1. PICK n \in 0 .. LEN + 1 : call' = [phase |-> "abi", proc |-> p, left |-> n]
      BY <1>1 DEF StartAbi
  <2>2. call' \in CallType /\ call'.phase = "abi" /\ call'.proc = p
      BY <2>1, ArrayAssumption DEF CallType
  <2>3. UNCHANGED state /\ call.phase = "idle" /\ procs[p] # None
      BY <1>1 DEF StartAbi, Free, Idle
  <2> QED
      BY <2>2, <2>3, OnlyCall
<1>2. ASSUME NEW v \in Value, AbiPush(v) PROVE BInv'
  <2>1. /\ call.phase = "abi" /\ call.left > 0 /\ UNCHANGED state
        /\ call' = [call EXCEPT !.left = @ - 1]
      BY <1>2 DEF AbiPush
  <2>2. call \in [phase : {"abi"}, proc : Procs, left : Nat] /\ procs[call.proc] # None
      BY <1>0, <2>1 DEF BInv, HInv, BindingsTypeOK, CallType, Idle, BorrowsLive
  <2>3. call' \in [phase : {"abi"}, proc : Procs, left : Nat] /\ call'.proc = call.proc
      BY <2>1, <2>2
  <2> QED
      BY <2>1, <2>2, <2>3, OnlyCall DEF CallType
<1>3. CASE AbiPanics
  <2>1. call' \in CallType /\ call' = Idle /\ call'.phase = "idle"
      BY <1>3 DEF AbiPanics, CallType, Idle
  <2> QED
      BY <1>3, <2>1, OnlyCall DEF AbiPanics
<1>4. CASE ParamGenNext
  <2>1. PICK args \in Arguments(1) :
            call' = IF \A ref \in args : check(call.proc, ref)
                    THEN InLibrary(call.proc, args, 2, 0, 0) ELSE Idle
      BY <1>4 DEF ParamGenNext
  <2>2. PICK p \in Procs : p = call.proc /\ procs[p] # None
      BY <1>0, <1>4, CallPhases DEF ParamGenNext, BInv, BorrowsLive
  <2>3. call.phase = "abi" /\ UNCHANGED state
      BY <1>4 DEF ParamGenNext
  <2>4. CASE \A ref \in args : check(p, ref)
    <3>1. call' = InLibrary(p, args, 2, 0, 0)
        BY <2>1, <2>2, <2>4
    <3>2. \A ref \in args : ref = NONE \/ Valid(ref)
        BY RefsValid DEF Arguments
    <3>3. UNCHANGED <<arenas, procs, bufs, stencils, refs, inputs>> /\ temps' = temps
        BY <2>3 DEF state
    <3> QED
        BY <2>2, <2>3, <2>4, <3>1, <3>2, <3>3, EnterLibrary
  <2>5. CASE ~ \A ref \in args : check(p, ref)
    <3>1. call' = Idle
        BY <2>1, <2>2, <2>5
    <3>2. call' \in CallType /\ call'.phase = "idle"
        BY <3>1 DEF CallType, Idle
    <3> QED
        BY <2>3, <3>1, <3>2, OnlyCall
  <2> QED
      BY <2>4, <2>5
<1> QED
    BY <1>1, <1>2, <1>3, <1>4

-----------------------------------------------------------------------------
(* Answers: the client comes to hold a node of the graph. *)

(* A node of a graph makes a valid reference, nil makes none. *)
LEMMA RefValid ==
    ASSUME BInv, NEW p \in Procs, procs[p] # None, NEW id \in NodeIds(p) \cup {0}
    PROVE  Ref(p, id) = NONE \/ Valid(Ref(p, id))
<1>1. procs[p].gen \in Nat
    BY DEF BInv, HInv, BindingsTypeOK, Proc
<1>2. CASE id = 0
    BY <1>2 DEF Ref
<1>3. CASE id # 0
  <2>1. id \in NodeIds(p) /\ id \in Nat \ {0}
      BY <1>3 DEF NodeIds
  <2> QED
      BY <1>1, <1>3, <2>1 DEF Ref, Valid, Reference
<1> QED
    BY <1>2, <1>3

(* What is held in addition is valid, too. *)
LEMMA HoldValid ==
    ASSUME BInv, NEW ref, ref = NONE \/ Valid(ref), Hold(ref),
           UNCHANGED <<arenas, procs, bufs>>
    PROVE  refs' \subseteq Reference /\ (\A r \in refs' : Valid(r)')
<1>1. \A r \in refs' : Valid(r)
    BY RefsValid DEF Hold
<1>2. \A r \in refs' : Valid(r)'
    BY <1>1 DEF Valid, NodeIds, cells
<1> QED
    BY <1>1, <1>2 DEF Valid

(* One more reference, or another call: what the temporaries need is kept.  *)
LEMMA Answered ==
    ASSUME BInv, UNCHANGED <<arenas, procs, bufs, stencils>>,
           refs' \subseteq Reference, \A r \in refs' : Valid(r)',
           inputs' \subseteq inputs \cup [proc : {p \in Procs : procs[p] # None}, len : {1}],
           temps' \in [Procs -> Nat], call' \in CallType,
           call'.phase \in {"idle", "return"},
           call' # Idle => procs[call'.proc] # None,
           TempsReturn'
    PROVE  BInv'
<1>1. inputs' \subseteq [proc : Procs, len : {1}] /\ \A n \in inputs' : procs[n.proc] # None
    BY DEF BInv, HInv, BindingsTypeOK, BorrowsLive
<1>2. HInv'
    BY <1>1, SameHeap DEF BInv
<1>3. BorrowsLive' /\ RefsPointAtNodes'
    BY <1>1 DEF BorrowsLive, RefsPointAtNodes, Valid
<1>4. OnlyLiveIds'
    BY DEF OnlyLiveIds
<1>5. TempsSafe'
  <2>1. call' = Idle => \A p \in Procs : procs'[p] # None => temps'[p] \in TempPos
      BY DEF TempsReturn, Home, Idle
  <2> QED
      BY <2>1 DEF TempsSafe
<1> QED
    BY <1>2, <1>3, <1>4, <1>5 DEF BInv

(* The nodes the library answered with, get_node. *)
LEMMA ReturnNodeStep ==
    ASSUME BInv, call.phase = "return",
           NEW id \in LiveIds(call.proc) \cup {0}, ReturnNode(id)
    PROVE  BInv'
<1>0. HInv
    BY DEF BInv
<1>1. PICK p \in Procs : p = call.proc /\ procs[p] # None
    BY <1>0, CallPhases DEF BInv, BorrowsLive
<1>2. call \in [phase : {"return"}, proc : Procs, left : Nat, reset : Nat]
    BY DEF BInv, HInv, BindingsTypeOK, CallType, Idle
<1>3. UNCHANGED <<arenas, procs, bufs, stencils, inputs>>
    BY DEF ReturnNode
<1>4. id \in NodeIds(p) \cup {0}
    BY <1>1 DEF LiveIds, NodeIds, Alive
<1>5. temps \in [Procs -> Nat] /\ refs \subseteq Reference
    BY DEF BInv, HInv, BindingsTypeOK
<1>6. CASE get_node_ok(p, id)
  <2>1. call' = [call EXCEPT !.left = @ - 1] /\ Hold(Ref(p, id)) /\ temps' = temps /\ call.left > 0
      BY <1>1, <1>6 DEF ReturnNode
  <2>2. /\ call' \in [phase : {"return"}, proc : Procs, left : Nat, reset : Nat]
        /\ call'.proc = p /\ call'.reset = call.reset
      BY <1>1, <1>2, <2>1
  <2>3. refs' \subseteq Reference /\ \A r \in refs' : Valid(r)'
      BY <1>1, <1>3, <1>4, <2>1, RefValid, HoldValid
  <2>4. TempsReturn'
      BY <1>1, <1>2, <1>3, <2>1, <2>2 DEF BInv, TempsReturn, Home
  <2> QED
      BY <1>1, <1>3, <1>5, <2>1, <2>2, <2>3, <2>4, Answered DEF CallType
<1>7. CASE ~ get_node_ok(p, id)
  <2>1. call' = Idle /\ temps' = [temps EXCEPT ![p] = call.reset] /\ refs' = refs
      BY <1>1, <1>7 DEF ReturnNode
  <2>2. call' \in CallType /\ call'.phase = "idle"
      BY <2>1 DEF CallType, Idle
  <2>3. \A r \in refs' : Valid(r)'
      BY <1>3, <2>1, RefsValid DEF Valid, NodeIds, cells
  <2>4. TempsReturn'
      BY <1>1, <1>2, <1>3, <1>5, <2>1, <2>2 DEF BInv, TempsReturn, Home
  <2>5. temps' \in [Procs -> Nat]
      BY <1>2, <1>5, <2>1
  <2> QED
      BY <1>3, <1>5, <2>1, <2>2, <2>3, <2>4, <2>5, Answered
<1> QED
    BY <1>6, <1>7

(* The call returns. *)
LEMMA ReturnStep ==
    ASSUME BInv, Return
    PROVE  BInv'
<1>0. HInv
    BY DEF BInv
<1>1. PICK p \in Procs : p = call.proc /\ procs[p] # None
    BY <1>0, CallPhases DEF Return, BInv, BorrowsLive, Idle
<1>2. /\ call' = Idle /\ call.phase = "return" /\ temps' = [temps EXCEPT ![p] = call.reset]
      /\ UNCHANGED <<arenas, procs, bufs, stencils, refs, inputs>>
    BY <1>1 DEF Return
<1>3. call' \in CallType /\ call'.phase = "idle"
    BY <1>2 DEF CallType, Idle
<1>4. refs' \subseteq Reference /\ temps \in [Procs -> Nat] /\ temps' \in [Procs -> Nat]
    BY <1>0, <1>2, CallPhases DEF HInv, BindingsTypeOK
<1>5. \A r \in refs' : Valid(r)'
    BY <1>2, RefsValid DEF Valid, NodeIds, cells
<1>6. TempsReturn'
    BY <1>1, <1>2, <1>3, <1>4 DEF BInv, TempsReturn, Home
<1> QED
    BY <1>2, <1>3, <1>4, <1>5, <1>6, Answered

(* entry and end; inputs and NodeInputs::next. *)
LEMMA HoldStep ==
    ASSUME BInv,
           \/ \E p \in Procs : Pinned(p)
           \/ \E p \in Procs, ref \in refs : Inputs(p, ref)
           \/ \E n \in inputs : \E id \in NodeIds(n.proc) \cup {0} : NextInput(n, id)
    PROVE  BInv'
<1>0. /\ HInv /\ temps \in [Procs -> Nat] /\ refs \subseteq Reference
      /\ inputs \subseteq [proc : Procs, len : {1}]
    BY DEF BInv, HInv, BindingsTypeOK
<1>1. UNCHANGED <<arenas, procs, bufs, stencils, temps, call>> /\ call = Idle
    BY DEF Pinned, Inputs, NextInput, Free
<1>2. call' \in CallType /\ call'.phase = "idle"
    BY <1>1 DEF CallType, Idle
<1>3. TempsReturn'
    BY <1>1 DEF BInv, TempsReturn, Home
<1>4. ASSUME NEW p \in Procs, Pinned(p) PROVE BInv'
  <2>1. PICK id \in {procs[p].pinned.entry, procs[p].pinned.end} : Hold(Ref(p, id))
      BY <1>4 DEF Pinned
  <2>2. procs[p] # None /\ inputs' = inputs
      BY <1>4 DEF Pinned, Free
  <2>3. refs' \subseteq Reference /\ \A r \in refs' : Valid(r)'
      BY <1>1, <2>1, <2>2, PinnedValid, HoldValid
  <2> QED
      BY <1>0, <1>1, <1>2, <1>3, <2>2, <2>3, Answered
<1>5. ASSUME NEW p \in Procs, NEW ref \in refs, Inputs(p, ref) PROVE BInv'
  <2>1. inputs' = {[proc |-> p, len |-> 1]} /\ refs' = refs /\ procs[p] # None
      BY <1>5 DEF Inputs, Free
  <2>2. inputs' \subseteq [proc : {q \in Procs : procs[q] # None}, len : {1}]
      BY <2>1
  <2>3. \A r \in refs' : Valid(r)'
      BY <1>1, <2>1, RefsValid DEF Valid, NodeIds, cells
  <2> QED
      BY <1>0, <1>1, <1>2, <1>3, <2>1, <2>2, <2>3, Answered
<1>6. ASSUME NEW n \in inputs, NEW id \in NodeIds(n.proc) \cup {0}, NextInput(n, id) PROVE BInv'
  <2>1. n.proc \in Procs /\ procs[n.proc] # None
      BY <1>0 DEF BInv, BorrowsLive
  <2>2. Hold(Ref(n.proc, id)) /\ inputs' \subseteq inputs
      BY <1>6 DEF NextInput
  <2>3. refs' \subseteq Reference /\ \A r \in refs' : Valid(r)'
      BY <1>1, <2>1, <2>2, RefValid, HoldValid
  <2> QED
      BY <1>0, <1>1, <1>2, <1>3, <2>2, <2>3, Answered
<1> QED
    BY <1>4, <1>5, <1>6

-----------------------------------------------------------------------------
(* Graphs that change. *)

(* What the library does to a graph leaves every node of it where it is. *)
LEMMA ChangedGraph ==
    ASSUME NEW content \in Seq(Cell), NEW pinned, IsGraph(content, pinned),
           NEW new \in Changed(content)
    PROVE  /\ new \in Seq(Cell) /\ IsGraph(new, pinned)
           /\ \A i \in 1 .. Len(content) : content[i] # "data" =>
                  i \in 1 .. Len(new) /\ new[i] # "data"
<1>0. Cap \in Nat /\ Len(content) \in Nat
    BY BindingsAssumption
<1>1. CASE new = content
    BY <1>1
<1>2. CASE new = Append(content, "node") /\ Len(content) + 1 < Cap
  <2>1. new \in Seq(Cell) /\ Len(new) = Len(content) + 1
      BY <1>2 DEF Cell, Alive
  <2>2. \A i \in 1 .. Len(content) : i \in 1 .. Len(new) /\ new[i] = content[i]
      BY <1>0, <1>2, <2>1
  <2> QED
      BY <1>0, <1>2, <2>1, <2>2 DEF IsGraph
<1>3. ASSUME NEW j \in 1 .. Len(content), content[j] = "node", new = [content EXCEPT ![j] = "dead"]
      PROVE  /\ new \in Seq(Cell) /\ IsGraph(new, pinned)
             /\ \A i \in 1 .. Len(content) : content[i] # "data" =>
                    i \in 1 .. Len(new) /\ new[i] # "data"
  <2>1. new \in Seq(Cell) /\ Len(new) = Len(content)
      BY <1>3 DEF Cell, Alive
  <2>2. \A i \in 1 .. Len(content) : new[i] = IF i = j THEN "dead" ELSE content[i]
      BY <1>3
  <2> QED
      BY <1>0, <1>3, <2>1, <2>2 DEF IsGraph
<1> QED
    BY <1>1, <1>2, <1>3 DEF Changed

(* The copies of the live nodes and what pins them take no more room than   *)
(* the graph did.                                                           *)
LEMMA CompactedGraph ==
    ASSUME NEW content \in Seq(Cell), NEW pinned, IsGraph(content, pinned),
           NEW new \in Compacted(content)
    PROVE  LET pins == [entry |-> Where(new, "entry"), end |-> Where(new, "end")]
           IN  new \in Seq(Cell) /\ pins \in Pins /\ IsGraph(new, pins)
<1>0. Cap \in Nat /\ Len(content) \in Nat
    BY BindingsAssumption
<1>1. PICK k \in 0 .. Len(content) - 3 :
          new = <<"entry", "data", "end">> \o [i \in 1 .. k |-> "node"]
    BY DEF Compacted
<1>2. k \in Nat /\ k + 3 =< Len(content)
    BY <1>0
<1>3. /\ new \in Seq(Cell) /\ Len(new) = 3 + k
      /\ new[1] = "entry" /\ new[2] = "data" /\ new[3] = "end"
  <2>1. PICK tail : tail = [i \in 1 .. k |-> "node"]
      OBVIOUS
  <2>2. tail \in Seq(Cell) /\ Len(tail) = k
      BY <1>2, <2>1 DEF Cell, Alive
  <2>3. <<"entry", "data", "end">> \in Seq(Cell)
      BY DEF Cell, Alive
  <2> QED
      BY <1>1, <2>1, <2>2, <2>3
<1>4. Where(new, "entry") \in 1 .. Len(new) /\ new[Where(new, "entry")] = "entry"
    BY <1>3 DEF Where
<1>5. Where(new, "end") \in 1 .. Len(new) /\ new[Where(new, "end")] = "end"
    BY <1>3 DEF Where
<1>6. Len(new) < Cap
    BY <1>0, <1>2, <1>3 DEF IsGraph
<1>7. 2 \in 1 .. Len(new)
    BY <1>3
<1> QED
    BY <1>3, <1>4, <1>5, <1>6, <1>7 DEF IsGraph, Pins

(* One proc's graph is replaced, or taken away with the proc. *)
LEMMA GraphReplaced ==
    ASSUME HInv, NEW p \in Procs, arenas[p] # None, NEW new \in Seq(Cell),
           bufs' = [bufs EXCEPT ![arenas[p].buf].cells = new],
           UNCHANGED <<arenas, stencils>>,
           procs' \in [Procs -> Proc \cup {None}],
           \A q \in Procs \ {p} : procs'[q] = procs[q],
           procs'[p] # None => IsGraph(new, procs'[p].pinned),
           temps' \in [Procs -> Nat], refs' \subseteq Reference,
           inputs' \subseteq [proc : Procs, len : {1}], call' \in CallType
    PROVE  /\ HInv'
           /\ cells(p)' = new
           /\ \A q \in Procs \ {p} : arenas[q] # None => cells(q)' = cells(q)
<1>1. arenas[p].buf = p /\ p \in Bufs /\ p \notin 1 .. MaxBufs
    BY CellsOf, BindingsAssumption
<1>2. bufs \in [Bufs -> Buffer]
    BY DEF HInv, BindingsTypeOK
<1>3. /\ bufs' \in [Bufs -> Buffer] /\ bufs'[p].cells = new
      /\ \A b \in Bufs : bufs'[b].state = bufs[b].state
      /\ \A b \in Bufs \ {p} : bufs'[b] = bufs[b]
    BY <1>1, <1>2 DEF Buffer
<1>4. BindingsTypeOK'
    BY <1>3 DEF HInv, BindingsTypeOK
<1>5. ArenasFixed'
    BY DEF HInv, ArenasFixed
<1>6. ProcsSound'
    BY <1>3 DEF HInv, ProcsSound, Bufs
<1>7. StencilsSound'
    BY <1>1, <1>3 DEF HInv, StencilsSound, StencilSound, Bufs
<1>8. HeapSound'
  <2>1. \A b \in Procs \cup 1 .. MaxBufs : bufs'[b].state = bufs[b].state
      BY <1>3 DEF Bufs
  <2> QED
      BY <2>1 DEF HInv, HeapSound, Procs
<1>9. HInv'
    BY <1>4, <1>5, <1>6, <1>7, <1>8 DEF HInv
<1>10. cells(p)' = new
    BY <1>1, <1>3 DEF cells
<1>11. \A q \in Procs \ {p} : arenas[q] # None => cells(q)' = cells(q)
  <2>1. SUFFICES ASSUME NEW q \in Procs \ {p}, arenas[q] # None PROVE cells(q)' = cells(q)
      OBVIOUS
  <2>2. arenas[q].buf = q /\ q \in Bufs
      BY <2>1, CellsOf
  <2> QED
      BY <1>3, <2>1, <2>2 DEF cells
<1> QED
    BY <1>9, <1>10, <1>11

(* Outside the library the invariant is that of the heap and of what the    *)
(* client holds.                                                            *)
LEMMA Outside ==
    ASSUME HInv', \A r \in refs' : Valid(r)', \A n \in inputs' : procs'[n.proc] # None,
           call'.phase \in {"idle", "return"}, call' # Idle => procs'[call'.proc] # None,
           TempsReturn'
    PROVE  BInv'
<1>1. BorrowsLive' /\ RefsPointAtNodes'
    BY DEF BorrowsLive, RefsPointAtNodes, Valid
<1>2. OnlyLiveIds'
    BY DEF OnlyLiveIds
<1>3. TempsSafe'
    BY DEF TempsSafe, TempsReturn, Home, Idle
<1> QED
    BY <1>1, <1>2, <1>3 DEF BInv

(* References to other procs outlive what is done to a proc. *)
LEMMA OthersKept ==
    ASSUME BInv, NEW p \in Procs,
           refs' \subseteq {r \in refs : r.proc # p}, inputs' \subseteq {n \in inputs : n.proc # p},
           \A q \in Procs \ {p} : procs'[q] = procs[q],
           \A q \in Procs \ {p} : arenas[q] # None => cells(q)' = cells(q)
    PROVE  /\ refs' \subseteq Reference /\ \A r \in refs' : Valid(r)'
           /\ inputs' \subseteq [proc : Procs, len : {1}]
           /\ \A n \in inputs' : procs'[n.proc] # None
<1>1. refs \subseteq Reference /\ inputs \subseteq [proc : Procs, len : {1}]
    BY DEF BInv, HInv, BindingsTypeOK
<1>2. ASSUME NEW r \in refs' PROVE r \in Reference /\ Valid(r)'
  <2>1. Valid(r) /\ r.proc \in Procs \ {p} /\ r \in Reference
      BY <1>1, RefsValid DEF Reference
  <2>2. PICK q \in Procs \ {p} : q = r.proc
      BY <2>1
  <2>3. arenas[q] # None
      BY <2>1, <2>2 DEF Valid, BInv, HInv, ProcsSound
  <2>4. NodeIds(q)' = NodeIds(q) /\ procs'[q] = procs[q]
      BY <2>3 DEF NodeIds
  <2> QED
      BY <2>1, <2>2, <2>4 DEF Valid
<1>3. ASSUME NEW n \in inputs' PROVE procs'[n.proc] # None
    BY <1>1 DEF BInv, BorrowsLive
<1> QED
    BY <1>1, <1>2, <1>3

(* The library runs during a call: it may add a node or delete one. *)
LEMMA LibraryStep ==
    ASSUME BInv, Library
    PROVE  BInv'
<1>0. HInv
    BY DEF BInv
<1>1. call.phase = "library"
    BY DEF Library
<1>2. PICK p \in Procs : p = call.proc /\ procs[p] # None
    BY <1>0, <1>1, CallPhases DEF BInv, BorrowsLive, Idle
<1>3. PICK new \in Changed(cells(p)) : bufs' = [bufs EXCEPT ![arenas[p].buf].cells = new]
    BY <1>2 DEF Library
<1>4. /\ call' = [phase |-> "return", proc |-> p, left |-> call.outs, reset |-> call.reset]
      /\ UNCHANGED <<arenas, procs, temps, stencils, refs, inputs>>
    BY <1>2 DEF Library
<1>5. arenas[p] # None /\ IsGraph(bufs[p].cells, procs[p].pinned)
    BY <1>0, <1>2 DEF HInv, ProcsSound
<1>6. cells(p) = bufs[p].cells /\ cells(p) \in Seq(Cell)
    BY <1>0, <1>5, CellsOf
<1>7. /\ new \in Seq(Cell) /\ IsGraph(new, procs[p].pinned)
      /\ \A i \in 1 .. Len(cells(p)) : cells(p)[i] # "data" =>
             i \in 1 .. Len(new) /\ new[i] # "data"
    BY <1>3, <1>5, <1>6, ChangedGraph
<1>8. call' \in CallType /\ call'.phase = "return" /\ call'.proc = p /\ call'.reset = call.reset
    BY <1>0, <1>1, <1>4, CallPhases DEF CallType
<1>9. /\ HInv' /\ cells(p)' = new
      /\ \A q \in Procs \ {p} : arenas[q] # None => cells(q)' = cells(q)
    BY <1>0, <1>3, <1>4, <1>5, <1>7, <1>8, GraphReplaced DEF HInv, BindingsTypeOK
<1>10. ASSUME NEW r \in refs' PROVE Valid(r)'
  <2>1. Valid(r) /\ r \in Reference /\ r.proc \in Procs
      BY <1>4, RefsValid DEF Valid, Reference
  <2>2. PICK q \in Procs : q = r.proc
      BY <2>1
  <2>3. NodeIds(q) \subseteq NodeIds(q)'
    <3>1. CASE q = p
        BY <1>7, <1>9, <3>1 DEF NodeIds
    <3>2. CASE q # p
      <4>1. arenas[q] # None
          BY <1>0, <2>1, <2>2 DEF Valid, HInv, ProcsSound
      <4> QED
          BY <1>9, <3>2, <4>1 DEF NodeIds
    <3> QED
        BY <3>1, <3>2
  <2> QED
      BY <1>4, <2>1, <2>2, <2>3 DEF Valid
<1>11. \A n \in inputs' : procs'[n.proc] # None
    BY <1>4 DEF BInv, BorrowsLive
<1>12. TempsReturn'
    BY <1>1, <1>2, <1>4, <1>8 DEF BInv, TempsReturn, Home
<1> QED
    BY <1>2, <1>4, <1>8, <1>9, <1>10, <1>11, <1>12, Outside

(* apply_peeps and opt. *)
LEMMA OptimiseStep ==
    ASSUME BInv, NEW p \in Procs, Optimise(p)
    PROVE  BInv'
<1>0. HInv /\ procs[p] # None /\ call = Idle
    BY DEF BInv, Optimise, Free
<1>1. PICK new \in Changed(cells(p)) : bufs' = [bufs EXCEPT ![arenas[p].buf].cells = new]
    BY DEF Optimise
<1>2. UNCHANGED <<arenas, procs, temps, stencils, call>>
    BY DEF Optimise
<1>3. refs' = {r \in refs : r.proc # p} /\ inputs' = {n \in inputs : n.proc # p}
    BY DEF Optimise, EndBorrows
<1>4. arenas[p] # None /\ IsGraph(bufs[p].cells, procs[p].pinned)
    BY <1>0 DEF HInv, ProcsSound
<1>5. cells(p) = bufs[p].cells /\ cells(p) \in Seq(Cell)
    BY <1>0, <1>4, CellsOf
<1>6. new \in Seq(Cell) /\ IsGraph(new, procs[p].pinned)
    BY <1>1, <1>4, <1>5, ChangedGraph
<1>7. refs' \subseteq Reference /\ inputs' \subseteq [proc : Procs, len : {1}]
    BY <1>0, <1>3 DEF HInv, BindingsTypeOK
<1>8. HInv' /\ \A q \in Procs \ {p} : arenas[q] # None => cells(q)' = cells(q)
    BY <1>0, <1>1, <1>2, <1>4, <1>6, <1>7, GraphReplaced DEF HInv, BindingsTypeOK
<1>9. (\A r \in refs' : Valid(r)') /\ \A n \in inputs' : procs'[n.proc] # None
    BY <1>2, <1>3, <1>8, OthersKept
<1>10. TempsReturn'
    BY <1>0, <1>2 DEF BInv, TempsReturn, Home
<1> QED
    BY <1>0, <1>2, <1>8, <1>9, <1>10, Outside DEF Idle

(* Between calls one proc is made, ended, compacted or mounted, and the     *)
(* references to it are gone.                                               *)
LEMMA ProcReplaced ==
    ASSUME BInv, call = Idle, NEW p \in Procs, arenas[p] # None, NEW new \in Seq(Cell),
           bufs' = [bufs EXCEPT ![arenas[p].buf].cells = new],
           NEW proc \in Proc \cup {None}, procs' = [procs EXCEPT ![p] = proc],
           proc # None => IsGraph(new, proc.pinned),
           NEW start \in Nat, temps' = [temps EXCEPT ![p] = start],
           proc # None => start \in TempPos,
           refs' = {r \in refs : r.proc # p}, inputs' = {n \in inputs : n.proc # p},
           UNCHANGED <<arenas, stencils, call>>
    PROVE  BInv'
<1>0. HInv /\ procs \in [Procs -> Proc \cup {None}] /\ temps \in [Procs -> Nat] /\ call \in CallType
    BY DEF BInv, HInv, BindingsTypeOK
<1>1. /\ procs' \in [Procs -> Proc \cup {None}] /\ procs'[p] = proc
      /\ \A q \in Procs \ {p} : procs'[q] = procs[q]
    BY <1>0
<1>2. temps' \in [Procs -> Nat] /\ temps'[p] = start /\ \A q \in Procs \ {p} : temps'[q] = temps[q]
    BY <1>0
<1>3. refs' \subseteq Reference /\ inputs' \subseteq [proc : Procs, len : {1}]
    BY <1>0 DEF HInv, BindingsTypeOK
<1>4. HInv' /\ \A q \in Procs \ {p} : arenas[q] # None => cells(q)' = cells(q)
    BY <1>0, <1>1, <1>2, <1>3, GraphReplaced
<1>5. (\A r \in refs' : Valid(r)') /\ \A n \in inputs' : procs'[n.proc] # None
    BY <1>1, <1>4, OthersKept
<1>6. TempsReturn'
    BY <1>1, <1>2 DEF BInv, TempsReturn, Home, Idle
<1> QED
    BY <1>4, <1>5, <1>6, Outside DEF Idle

(* A proc that exists has its graph, and its temporary is at home between   *)
(* calls.                                                                   *)
LEMMA ProcFacts ==
    ASSUME BInv, NEW p \in Procs, procs[p] # None
    PROVE  /\ HInv /\ arenas[p] # None /\ procs[p] \in Proc
           /\ cells(p) \in Seq(Cell) /\ IsGraph(cells(p), procs[p].pinned)
           /\ temps \in [Procs -> Nat]
           /\ call = Idle => temps[p] \in TempPos
<1>1. HInv /\ arenas[p] # None /\ IsGraph(bufs[p].cells, procs[p].pinned)
    BY DEF BInv, HInv, ProcsSound
<1>2. cells(p) \in Seq(Cell) /\ cells(p) = bufs[p].cells
    BY <1>1, CellsOf
<1>3. procs[p] \in Proc /\ temps \in [Procs -> Nat]
    BY DEF BInv, HInv, BindingsTypeOK
<1>4. call = Idle => temps[p] \in TempPos
    BY DEF BInv, TempsReturn, Home, Idle
<1> QED
    BY <1>1, <1>2, <1>3, <1>4

(* Proc::new. *)
LEMMA NewProcStep ==
    ASSUME BInv, NEW p \in Procs, NewProc(p)
    PROVE  BInv'
<1>1. /\ call = Idle /\ arenas[p] # None /\ procs[p] = None
      /\ bufs' = [bufs EXCEPT ![arenas[p].buf].cells = Graph0]
      /\ UNCHANGED <<arenas, stencils, refs, inputs, call>>
    BY DEF NewProc
<1>2. PICK proc : proc = [pinned |-> [entry |-> 1, end |-> 2], gen |-> 1]
    OBVIOUS
<1>3. procs' = [procs EXCEPT ![p] = proc]
    BY <1>2 DEF NewProc
<1>4. PICK start \in TempPos : temps' = [temps EXCEPT ![p] = start]
    BY DEF NewProc
<1>5. proc \in Proc /\ proc.pinned.entry = 1 /\ proc.pinned.end = 2
    BY <1>2 DEF Proc, Pins
<1>6. Graph0 \in Seq(Cell) /\ IsGraph(Graph0, proc.pinned)
  <2>1. /\ Graph0 \in Seq(Cell) /\ Len(Graph0) = 4
        /\ Graph0[1] = "entry" /\ Graph0[2] = "end" /\ Graph0[4] = "data"
      BY DEF Graph0, Cell, Alive
  <2> QED
      BY <1>5, <2>1, BindingsAssumption DEF IsGraph
<1>7. refs' = {r \in refs : r.proc # p} /\ inputs' = {n \in inputs : n.proc # p}
    BY <1>1 DEF BInv, BorrowsLive
<1>8. start \in Nat
    BY BindingsAssumption
<1> QED
    BY <1>1, <1>3, <1>4, <1>5, <1>6, <1>7, <1>8, ProcReplaced

(* The proc goes out of scope. *)
LEMMA EndProcStep ==
    ASSUME BInv, NEW p \in Procs, EndProc(p)
    PROVE  BInv'
<1>1. /\ call = Idle /\ procs[p] # None
      /\ bufs' = [bufs EXCEPT ![arenas[p].buf].cells = <<>>]
      /\ procs' = [procs EXCEPT ![p] = None] /\ temps' = [temps EXCEPT ![p] = 0]
      /\ refs' = {r \in refs : r.proc # p} /\ inputs' = {n \in inputs : n.proc # p}
      /\ UNCHANGED <<arenas, stencils, call>>
    BY DEF EndProc, EndBorrows
<1>2. arenas[p] # None /\ <<>> \in Seq(Cell) /\ None \in Proc \cup {None} /\ 0 \in Nat
    BY <1>1, ProcFacts
<1> QED
    BY <1>1, <1>2, ProcReplaced

(* compact and mount_stencil replace the graph together with its pins. *)
LEMMA RenewProc ==
    ASSUME BInv, NEW p \in Procs, Free(p), EndBorrows(p),
           NEW new \in Seq(Cell), NEW pinned \in Pins, IsGraph(new, pinned),
           bufs' = [bufs EXCEPT ![arenas[p].buf].cells = new],
           procs' = [procs EXCEPT ![p] = [pinned |-> pinned, gen |-> @.gen + 1]],
           UNCHANGED <<arenas, temps, stencils, call>>
    PROVE  BInv'
<1>1. call = Idle /\ procs[p] # None
    BY DEF Free
<1>2. /\ arenas[p] # None /\ procs[p] \in Proc
      /\ temps \in [Procs -> Nat] /\ temps[p] \in TempPos
    BY <1>1, ProcFacts
<1>3. PICK proc : proc = [pinned |-> pinned, gen |-> procs[p].gen + 1]
    OBVIOUS
<1>4. proc \in Proc /\ proc.pinned = pinned
    BY <1>2, <1>3 DEF Proc
<1>5. procs' = [procs EXCEPT ![p] = proc]
    BY <1>3
<1>6. PICK start \in Nat : start = temps[p]
    BY <1>2
<1>7. temps' = [temps EXCEPT ![p] = start]
    BY <1>2, <1>6
<1>8. refs' = {r \in refs : r.proc # p} /\ inputs' = {n \in inputs : n.proc # p}
    BY DEF EndBorrows
<1> QED
    BY <1>1, <1>2, <1>4, <1>5, <1>6, <1>7, <1>8, ProcReplaced

LEMMA CompactStep ==
    ASSUME BInv, NEW p \in Procs, Compact(p)
    PROVE  BInv'
<1>1. Free(p) /\ procs[p] # None /\ EndBorrows(p) /\ UNCHANGED <<arenas, temps, stencils, call>>
    BY DEF Compact, Compacting, Free
<1>2. cells(p) \in Seq(Cell) /\ IsGraph(cells(p), procs[p].pinned)
    BY <1>1, ProcFacts
<1>3. PICK new \in Compacted(cells(p)) :
          /\ bufs' = [bufs EXCEPT ![arenas[p].buf].cells = new]
          /\ procs' = [procs EXCEPT ![p] =
                 [pinned |-> [entry |-> Where(new, "entry"), end |-> Where(new, "end")],
                  gen |-> @.gen + 1]]
    BY DEF Compact, Compacting
<1>4. PICK pinned : pinned = [entry |-> Where(new, "entry"), end |-> Where(new, "end")]
    OBVIOUS
<1>5. new \in Seq(Cell) /\ pinned \in Pins /\ IsGraph(new, pinned)
    BY <1>2, <1>4, CompactedGraph
<1>6. /\ bufs' = [bufs EXCEPT ![arenas[p].buf].cells = new]
      /\ procs' = [procs EXCEPT ![p] = [pinned |-> pinned, gen |-> @.gen + 1]]
    BY <1>3, <1>4
<1> QED
    BY <1>1, <1>5, <1>6, RenewProc

(* The graph of a stencil. *)
LEMMA StencilFacts ==
    ASSUME BInv, NEW s \in Slots, stencils[s] # None
    PROVE  /\ stencils[s].arena.buf \in 1 .. MaxBufs /\ stencils[s].arena.buf \in Bufs
           /\ stencils[s].pinned \in Pins /\ stencils[s] \in Stencil
           /\ Content(s) \in Seq(Cell) /\ IsGraph(Content(s), stencils[s].pinned)
<1>1. StencilSound(s) /\ stencils[s] \in Stencil /\ bufs \in [Bufs -> Buffer]
    BY DEF BInv, HInv, StencilsSound, BindingsTypeOK
<1>2. stencils[s].arena.buf \in 1 .. MaxBufs /\ stencils[s].arena.buf \in Bufs
    BY <1>1 DEF StencilSound, Bufs
<1>3. Content(s) \in Seq(Cell) /\ IsGraph(Content(s), stencils[s].pinned)
    BY <1>1, <1>2 DEF StencilSound, Content, Buffer
<1> QED
    BY <1>1, <1>2, <1>3 DEF Stencil

LEMMA MountStencilStep ==
    ASSUME BInv, NEW p \in Procs, NEW s \in Slots, MountStencil(p, s)
    PROVE  BInv'
<1>1. /\ Free(p) /\ EndBorrows(p) /\ stencils[s] # None
      /\ UNCHANGED <<arenas, temps, stencils, call>>
    BY DEF MountStencil
<1>2. /\ Content(s) \in Seq(Cell) /\ stencils[s].pinned \in Pins
      /\ IsGraph(Content(s), stencils[s].pinned)
    BY <1>1, StencilFacts
<1>3. /\ bufs' = [bufs EXCEPT ![arenas[p].buf].cells = Content(s)]
      /\ procs' = [procs EXCEPT ![p] = [pinned |-> stencils[s].pinned, gen |-> @.gen + 1]]
    BY DEF MountStencil
<1> QED
    BY <1>1, <1>2, <1>3, RenewProc

-----------------------------------------------------------------------------
(* The heap: arenas that are dropped, stencils that are stored and dropped. *)

(* The graphs of the procs stay as they are. *)
LEMMA HeapOnly ==
    ASSUME BInv, call = Idle, HInv', UNCHANGED <<procs, temps, refs, inputs, call>>,
           \A q \in Procs : procs[q] # None => cells(q)' = cells(q)
    PROVE  BInv'
<1>1. ASSUME NEW r \in refs' PROVE Valid(r)'
  <2>1. Valid(r) /\ r.proc \in Procs
      BY RefsValid DEF Valid, Reference
  <2>2. PICK q \in Procs : q = r.proc /\ procs[q] # None
      BY <2>1 DEF Valid
  <2>3. NodeIds(q)' = NodeIds(q)
      BY <2>2 DEF NodeIds
  <2> QED
      BY <2>1, <2>2, <2>3 DEF Valid
<1>2. \A n \in inputs' : procs'[n.proc] # None
    BY DEF BInv, BorrowsLive
<1>3. TempsReturn'
    BY DEF BInv, TempsReturn, Home
<1> QED
    BY <1>1, <1>2, <1>3, Outside DEF Idle

(* A buffer without content. *)
LEMMA EmptyBuffer ==
    ASSUME NEW st \in {"unused", "allocated", "freed", "client"}
    PROVE  /\ [state |-> st, cells |-> <<>>] \in Buffer
           /\ [state |-> st, cells |-> <<>>].state = st
<1>1. <<>> \in Seq(Cell)
    OBVIOUS
<1> QED
    BY <1>1 DEF Buffer

(* Arena::drop frees the storage of Arena::new and leaves the client's.     *)
LEMMA EndArenaStep ==
    ASSUME BInv, NEW p \in Procs, EndArena(p)
    PROVE  BInv'
<1>0. /\ HInv /\ bufs \in [Bufs -> Buffer] /\ arenas \in [Procs -> Arena \cup {None}]
      /\ procs[p] = None /\ arenas[p] # None /\ call = Idle
    BY DEF BInv, HInv, BindingsTypeOK, EndArena
<1>1. /\ bufs' = DropArena(bufs, arenas[p]) /\ arenas' = [arenas EXCEPT ![p] = None]
      /\ UNCHANGED <<procs, temps, stencils, refs, inputs, call>>
    BY DEF EndArena
<1>2. arenas[p] = ArenaOf(p) /\ p \in Bufs /\ p \notin 1 .. MaxBufs
    BY <1>0, CellsOf, BindingsAssumption DEF HInv, ArenasFixed
<1>3. /\ bufs' \in [Bufs -> Buffer]
      /\ \A b \in Bufs \ {p} : bufs'[b] = bufs[b]
      /\ p \in Owned => bufs'[p].state = "freed"
      /\ p \notin Owned => bufs'[p].state = bufs[p].state
  <2>1. CASE p \in Owned
    <3>1. arenas[p].buf = p /\ arenas[p].commited = arenas[p].reserved + 2
        BY <1>2, <2>1, BindingsAssumption DEF ArenaOf, ArenaNew, arena_raw
    <3>2. bufs[p].state = "allocated"
        BY <1>0, <2>1 DEF HInv, HeapSound
    <3>3. Freed(bufs[p]) = [state |-> "freed", cells |-> <<>>]
        BY <3>2 DEF Freed
    <3>4. bufs' = [bufs EXCEPT ![p] = [state |-> "freed", cells |-> <<>>]]
        BY <1>1, <3>1, <3>3 DEF DropArena
    <3>5. [state |-> "freed", cells |-> <<>>] \in Buffer
        BY EmptyBuffer
    <3>6. PICK freed \in Buffer : freed = [state |-> "freed", cells |-> <<>>]
        BY <3>5
    <3>7. bufs' = [bufs EXCEPT ![p] = freed] /\ freed.state = "freed"
        BY <3>4, <3>6
    <3> QED
        BY <1>0, <1>2, <2>1, <3>7
  <2>2. CASE p \notin Owned
    <3>1. arenas[p].commited # arenas[p].reserved + 2
        BY <1>2, <2>2, BindingsAssumption DEF ArenaOf, arena_raw
    <3> QED
        BY <1>0, <1>1, <2>2, <3>1 DEF DropArena
  <2> QED
      BY <2>1, <2>2
<1>4. /\ arenas' \in [Procs -> Arena \cup {None}] /\ arenas'[p] = None
      /\ \A q \in Procs \ {p} : arenas'[q] = arenas[q]
    BY <1>0, <1>1
<1>5. BindingsTypeOK'
    BY <1>0, <1>1, <1>3, <1>4 DEF HInv, BindingsTypeOK
<1>6. ArenasFixed' /\ ProcsSound'
    BY <1>0, <1>1, <1>3, <1>4 DEF HInv, ArenasFixed, ProcsSound, Bufs
<1>7. StencilsSound'
  <2>1. \A b \in 1 .. MaxBufs : bufs'[b] = bufs[b]
      BY <1>2, <1>3 DEF Bufs
  <2>2. stencils' = stencils /\ StencilsSound
      BY <1>0, <1>1 DEF HInv
  <2> QED
      BY <2>1, <2>2 DEF StencilsSound, StencilSound
<1>8. HeapSound'
  <2>1. \A q \in Procs \ {p} : bufs'[q] = bufs[q] /\ arenas'[q] = arenas[q]
      BY <1>3, <1>4 DEF Bufs
  <2>2. \A b \in 1 .. MaxBufs : bufs'[b] = bufs[b]
      BY <1>2, <1>3 DEF Bufs
  <2>3. stencils' = stencils /\ HeapSound
      BY <1>0, <1>1 DEF HInv
  <2>4. \A q \in Owned : bufs'[q].state = IF arenas'[q] = None THEN "freed" ELSE "allocated"
    <3>1. CASE p \in Owned
      <4>1. bufs'[p].state = "freed" /\ arenas'[p] = None
          BY <1>3, <1>4, <3>1
      <4> QED
          BY <4>1, <2>1, <2>3 DEF HeapSound, Procs
    <3>2. CASE p \notin Owned
        BY <3>2, <2>1, <2>3 DEF HeapSound, Procs
    <3> QED
        BY <3>1, <3>2
  <2>5. \A q \in Borrowed : bufs'[q].state = "client"
      BY <1>3, <2>1, <2>3, BindingsAssumption DEF HeapSound, Procs
  <2>6. \A b \in 1 .. MaxBufs : bufs'[b].state = "allocated" =>
            \E s \in Slots : stencils'[s] # None /\ stencils'[s].arena.buf = b
      BY <2>2, <2>3 DEF HeapSound
  <2> QED
      BY <2>4, <2>5, <2>6 DEF HeapSound
<1>9. ASSUME NEW q \in Procs, procs[q] # None PROVE cells(q)' = cells(q)
  <2>1. q # p /\ arenas[q] # None
      BY <1>0, <1>9 DEF HInv, ProcsSound
  <2>2. arenas[q].buf = q /\ q \in Bufs
      BY <1>0, <2>1, CellsOf
  <2> QED
      BY <1>3, <1>4, <2>1, <2>2 DEF cells
<1> QED
    BY <1>0, <1>1, <1>5, <1>6, <1>7, <1>8, <1>9, HeapOnly DEF HInv

(* What changes in buffers of stencils does not touch the procs. *)
LEMMA ProcsApart ==
    ASSUME HInv, NEW b \in 1 .. MaxBufs, \A c \in Bufs \ {b} : bufs'[c] = bufs[c],
           UNCHANGED <<arenas, procs>>
    PROVE  /\ \A q \in Procs : bufs'[q] = bufs[q]
           /\ \A q \in Procs : procs[q] # None => cells(q)' = cells(q)
<1>1. \A q \in Procs : q \in Bufs /\ q # b
    BY BindingsAssumption DEF Bufs
<1>2. ASSUME NEW q \in Procs, procs[q] # None PROVE cells(q)' = cells(q)
  <2>1. arenas[q].buf = q
      BY <1>2, CellsOf DEF HInv, ProcsSound
  <2> QED
      BY <1>1, <2>1 DEF cells
<1> QED
    BY <1>1, <1>2

(* Arena::copy: the stencil gets a buffer that nobody has. *)
LEMMA StoreStep ==
    ASSUME BInv, call = Idle, NEW s \in Slots, stencils[s] = None,
           NEW content \in Seq(Cell), NEW pinned \in Pins, IsGraph(content, pinned),
           Store(s, content, pinned), UNCHANGED <<arenas, procs, temps, refs, inputs, call>>
    PROVE  BInv'
<1>0. HInv /\ bufs \in [Bufs -> Buffer] /\ stencils \in [Slots -> Stencil \cup {None}]
    BY DEF BInv, HInv, BindingsTypeOK
<1>1. PICK b \in 1 .. MaxBufs : b = FreshBuf /\ bufs[b].state = "unused"
    BY DEF Store, HasBuf, FreshBuf
<1>2. PICK buf : buf = [state |-> "allocated", cells |-> content]
    OBVIOUS
<1>3. PICK stencil : stencil = [arena |-> ArenaCopy(b, content), pinned |-> pinned]
    OBVIOUS
<1>4. stencils' = [stencils EXCEPT ![s] = stencil] /\ bufs' = [bufs EXCEPT ![b] = buf]
    BY <1>1, <1>2, <1>3 DEF Store
<1>5. b \in Bufs /\ b \notin Procs
    BY BindingsAssumption DEF Bufs
<1>6. buf \in Buffer /\ buf.state = "allocated" /\ buf.cells = content
    BY <1>2 DEF Buffer
<1>7. /\ stencil \in Stencil /\ stencil # None /\ stencil.arena.buf = b
      /\ stencil.arena.commited = stencil.arena.reserved + 2 /\ stencil.pinned = pinned
  <2>1. ArenaCopy(b, content) = [buf |-> b, reserved |-> Len(content) + 1, commited |-> Len(content) + 1 + 2]
      BY DEF ArenaCopy, ArenaNew, arena_raw
  <2>2. ArenaCopy(b, content) \in Arena
      BY <1>5, <2>1 DEF Arena
  <2>3. stencil \in Stencil
      BY <1>3, <2>2 DEF Stencil
  <2>4. stencil.arena = ArenaCopy(b, content) /\ stencil.pinned = pinned
      BY <1>3
  <2>5. stencil # None
      BY <2>3, BindingsAssumption DEF Stencil
  <2>6. PICK length \in Nat : length = Len(content) + 1
      OBVIOUS
  <2>7. stencil.arena = [buf |-> b, reserved |-> length, commited |-> length + 2]
      BY <2>1, <2>4, <2>6
  <2>8. stencil.arena.buf = b /\ stencil.arena.commited = stencil.arena.reserved + 2
    <3>1. PICK arena : arena = stencil.arena
        OBVIOUS
    <3>2. PICK above \in Nat : above = length + 2
        OBVIOUS
    <3>3. arena = [buf |-> b, reserved |-> length, commited |-> above]
        BY <2>7, <3>1, <3>2
    <3>4. arena.buf = b /\ arena.reserved = length /\ arena.commited = above
        BY <3>3
    <3> QED
        BY <3>1, <3>2, <3>4
  <2> QED
      BY <2>3, <2>4, <2>5, <2>8
<1>8. bufs' \in [Bufs -> Buffer] /\ bufs'[b] = buf /\ \A c \in Bufs \ {b} : bufs'[c] = bufs[c]
    BY <1>0, <1>4, <1>5, <1>6
<1>9. /\ stencils' \in [Slots -> Stencil \cup {None}] /\ stencils'[s] = stencil
      /\ \A t \in Slots \ {s} : stencils'[t] = stencils[t]
    BY <1>0, <1>4, <1>7
<1>10. /\ \A q \in Procs : bufs'[q] = bufs[q]
       /\ \A q \in Procs : procs[q] # None => cells(q)' = cells(q)
    BY <1>0, <1>8, ProcsApart
<1>11. BindingsTypeOK'
    BY <1>0, <1>8, <1>9 DEF HInv, BindingsTypeOK
<1>12. ArenasFixed' /\ ProcsSound'
    BY <1>0, <1>10 DEF HInv, ArenasFixed, ProcsSound
<1>13. ASSUME NEW t \in Slots \ {s}, stencils[t] # None
       PROVE  stencils[t].arena.buf # b /\ stencils[t].arena.buf \in Bufs /\ StencilSound(t)'
  <2>1. StencilSound(t) /\ stencils[t].arena.buf \in Bufs
      BY <1>0, <1>13 DEF HInv, StencilsSound, StencilSound, Bufs
  <2>2. stencils[t].arena.buf # b
      BY <1>1, <2>1 DEF StencilSound
  <2> QED
      BY <1>8, <1>9, <2>1, <2>2 DEF StencilSound
<1>14. StencilSound(s)'
    BY <1>6, <1>7, <1>8, <1>9 DEF StencilSound
<1>15. StencilsSound'
  <2>1. \A t, u \in Slots \ {s} :
            stencils[t] # None /\ stencils[u] # None
              /\ stencils[t].arena.buf = stencils[u].arena.buf => t = u
      BY <1>0 DEF HInv, StencilsSound
  <2>2. \A t \in Slots \ {s} : stencils[t] # None =>
            StencilSound(t)' /\ stencils[t].arena.buf # b
      BY <1>13
  <2>3. stencils'[s] # None /\ stencils'[s].arena.buf = b
      BY <1>7, <1>9
  <2>4. \A t \in Slots : stencils'[t] # None => StencilSound(t)'
      BY <1>9, <1>14, <2>2
  <2>5. \A t, u \in Slots :
            stencils'[t] # None /\ stencils'[u] # None
              /\ stencils'[t].arena.buf = stencils'[u].arena.buf => t = u
    <3> SUFFICES ASSUME NEW t \in Slots, NEW u \in Slots,
                        stencils'[t] # None, stencils'[u] # None,
                        stencils'[t].arena.buf = stencils'[u].arena.buf
                 PROVE  t = u
        OBVIOUS
    <3>1. \A v \in Slots \ {s} : stencils'[v] = stencils[v]
        BY <1>9
    <3>2. \A v \in Slots \ {s} : stencils'[v] # None => stencils'[v].arena.buf # b
        BY <3>1, <2>2
    <3>3. CASE t = s
        BY <3>2, <3>3, <2>3
    <3>4. CASE u = s
        BY <3>2, <3>4, <2>3
    <3>5. CASE t # s /\ u # s
        BY <3>1, <3>5, <2>1
    <3> QED
        BY <3>3, <3>4, <3>5
  <2> QED
      BY <2>4, <2>5 DEF StencilsSound
<1>16. HeapSound'
  <2>1. \A p \in Owned \cup Borrowed : bufs'[p].state = bufs[p].state
      BY <1>10 DEF Procs
  <2>2. \A c \in (1 .. MaxBufs) \ {b} : bufs'[c] = bufs[c]
      BY <1>8 DEF Bufs
  <2>3. ASSUME NEW c \in 1 .. MaxBufs, bufs'[c].state = "allocated"
        PROVE  \E t \in Slots : stencils'[t] # None /\ stencils'[t].arena.buf = c
    <3>1. CASE c = b
        BY <1>7, <1>9, <3>1
    <3>2. CASE c # b
      <4>1. PICK t \in Slots : stencils[t] # None /\ stencils[t].arena.buf = c
          BY <1>0, <2>2, <2>3, <3>2 DEF HInv, HeapSound
      <4>2. t # s
          BY <4>1
      <4> QED
          BY <1>9, <4>1, <4>2
    <3> QED
        BY <3>1, <3>2
  <2> QED
      BY <1>0, <2>1, <2>3 DEF HInv, HeapSound
<1> QED
    BY <1>10, <1>11, <1>12, <1>15, <1>16, HeapOnly DEF HInv

(* A stencil goes away with its buffer, which no other stencil has. *)
LEMMA DropStencilStep ==
    ASSUME BInv, NEW s \in Slots, DropStencil(s)
    PROVE  BInv'
<1>0. /\ HInv /\ bufs \in [Bufs -> Buffer] /\ stencils \in [Slots -> Stencil \cup {None}]
      /\ stencils[s] # None /\ call = Idle
    BY DEF BInv, HInv, BindingsTypeOK, DropStencil
<1>1. StencilSound(s)
    BY <1>0 DEF HInv, StencilsSound
<1>2. PICK b \in 1 .. MaxBufs : b = stencils[s].arena.buf
    BY <1>1 DEF StencilSound
<1>3. b \in Bufs /\ bufs[b].state = "allocated"
    BY <1>1, <1>2 DEF StencilSound, Bufs
<1>4. PICK buf : buf = [state |-> "freed", cells |-> <<>>]
    OBVIOUS
<1>5. bufs' = [bufs EXCEPT ![b] = buf]
  <2>1. Freed(bufs[b]) = buf
      BY <1>3, <1>4 DEF Freed
  <2> QED
      BY <1>1, <1>2, <2>1 DEF DropStencil, DropArena, StencilSound
<1>6. stencils' = [stencils EXCEPT ![s] = None] /\ UNCHANGED <<arenas, procs, temps, refs, inputs, call>>
    BY DEF DropStencil
<1>7. buf \in Buffer /\ buf.state = "freed"
    BY <1>4, EmptyBuffer
<1>8. bufs' \in [Bufs -> Buffer] /\ bufs'[b] = buf /\ \A c \in Bufs \ {b} : bufs'[c] = bufs[c]
    BY <1>0, <1>3, <1>5, <1>7
<1>9. /\ stencils' \in [Slots -> Stencil \cup {None}] /\ stencils'[s] = None
      /\ \A t \in Slots \ {s} : stencils'[t] = stencils[t]
    BY <1>0, <1>6
<1>10. /\ \A q \in Procs : bufs'[q] = bufs[q]
       /\ \A q \in Procs : procs[q] # None => cells(q)' = cells(q)
    BY <1>0, <1>6, <1>8, ProcsApart
<1>11. BindingsTypeOK'
    BY <1>0, <1>6, <1>8, <1>9 DEF HInv, BindingsTypeOK
<1>12. ArenasFixed' /\ ProcsSound'
    BY <1>0, <1>6, <1>10 DEF HInv, ArenasFixed, ProcsSound
<1>13. ASSUME NEW t \in Slots \ {s}, stencils[t] # None
       PROVE  StencilSound(t)'
  <2>1. StencilSound(t) /\ stencils[t].arena.buf \in Bufs \ {b}
      BY <1>0, <1>2, <1>13 DEF HInv, StencilsSound, StencilSound, Bufs
  <2> QED
      BY <1>8, <1>9, <2>1 DEF StencilSound
<1>14. StencilsSound'
    BY <1>0, <1>9, <1>13 DEF HInv, StencilsSound
<1>15. HeapSound'
  <2>1. \A p \in Owned \cup Borrowed : bufs'[p].state = bufs[p].state
      BY <1>10 DEF Procs
  <2>2. \A c \in (1 .. MaxBufs) \ {b} : bufs'[c] = bufs[c]
      BY <1>8 DEF Bufs
  <2>3. ASSUME NEW c \in 1 .. MaxBufs, bufs'[c].state = "allocated"
        PROVE  \E t \in Slots : stencils'[t] # None /\ stencils'[t].arena.buf = c
    <3>1. c # b /\ bufs[c].state = "allocated"
        BY <1>7, <1>8, <2>2, <2>3
    <3>2. PICK t \in Slots : stencils[t] # None /\ stencils[t].arena.buf = c
        BY <1>0, <3>1 DEF HInv, HeapSound
    <3>3. t # s
        BY <1>2, <3>1, <3>2
    <3> QED
        BY <1>9, <3>2, <3>3
  <2>4. arenas' = arenas /\ HeapSound
      BY <1>0, <1>6 DEF HInv
  <2> QED
      BY <2>1, <2>3, <2>4 DEF HeapSound
<1> QED
    BY <1>0, <1>6, <1>10, <1>11, <1>12, <1>14, <1>15, HeapOnly DEF HInv

(* Stencil::new, Clone and drop. *)
LEMMA StencilStep ==
    ASSUME BInv,
           \/ \E p \in Procs, s \in Slots : TakeStencil(p, s)
           \/ \E s, t \in Slots : CloneStencil(s, t)
           \/ \E s \in Slots : DropStencil(s)
    PROVE  BInv'
<1>1. ASSUME NEW p \in Procs, NEW s \in Slots, TakeStencil(p, s) PROVE BInv'
  <2>1. /\ call = Idle /\ procs[p] # None /\ stencils[s] = None
        /\ Store(s, cells(p), procs[p].pinned)
        /\ UNCHANGED <<arenas, procs, temps, refs, inputs, call>>
      BY <1>1 DEF TakeStencil, Free
  <2>2. cells(p) \in Seq(Cell) /\ IsGraph(cells(p), procs[p].pinned) /\ procs[p].pinned \in Pins
      BY <2>1, ProcFacts DEF Proc
  <2> QED
      BY <2>1, <2>2, StoreStep
<1>2. ASSUME NEW s \in Slots, NEW t \in Slots, CloneStencil(s, t) PROVE BInv'
  <2>1. /\ call = Idle /\ stencils[s] # None /\ stencils[t] = None
        /\ Store(t, Content(s), stencils[s].pinned)
        /\ UNCHANGED <<arenas, procs, temps, refs, inputs, call>>
      BY <1>2 DEF CloneStencil
  <2>2. /\ Content(s) \in Seq(Cell) /\ IsGraph(Content(s), stencils[s].pinned)
        /\ stencils[s].pinned \in Pins
      BY <2>1, StencilFacts
  <2> QED
      BY <2>1, <2>2, StoreStep
<1> QED
    BY <1>1, <1>2, DropStencilStep

-----------------------------------------------------------------------------

(* What BindingsInit makes of a buffer. *)
FirstState(b) ==
    IF b \in Owned THEN "allocated" ELSE IF b \in Borrowed THEN "client" ELSE "unused"

LEMMA InitBInv == BindingsInit => BInv
<1> SUFFICES ASSUME BindingsInit PROVE BInv
    OBVIOUS
<1>0. /\ arenas = [p \in Procs |-> ArenaOf(p)] /\ procs = [p \in Procs |-> None]
      /\ temps = [p \in Procs |-> 0] /\ stencils = [s \in Slots |-> None]
      /\ refs = {} /\ inputs = {} /\ call = Idle
    BY DEF BindingsInit, ArenaOf
<1>1. \A p \in Procs : ArenaOf(p) \in Arena /\ ArenaOf(p) # None
    BY BindingsAssumption DEF ArenaOf, ArenaNew, arena_raw, Arena, Bufs
<1>2. /\ bufs \in [Bufs -> Buffer]
      /\ \A b \in Bufs : bufs[b].state = IF b \in Owned THEN "allocated"
                                         ELSE IF b \in Borrowed THEN "client" ELSE "unused"
  <2>1. bufs = [b \in Bufs |-> [state |-> FirstState(b), cells |-> <<>>]]
      BY DEF BindingsInit, FirstState
  <2>2. \A b \in Bufs : bufs[b] = [state |-> FirstState(b), cells |-> <<>>]
      BY <2>1
  <2>3. \A b \in Bufs : FirstState(b) \in {"unused", "allocated", "freed", "client"}
      BY DEF FirstState
  <2>4. \A b \in Bufs : bufs[b] \in Buffer /\ bufs[b].state = FirstState(b)
      BY <2>2, <2>3, EmptyBuffer
  <2> QED
      BY <2>1, <2>4 DEF FirstState
<1>3. BindingsTypeOK
    BY <1>0, <1>1, <1>2 DEF BindingsTypeOK, CallType
<1>4. ArenasFixed /\ ProcsSound /\ StencilsSound
    BY <1>0 DEF ArenasFixed, ProcsSound, StencilsSound
<1>5. HeapSound
  <2>1. \A b \in 1 .. MaxBufs : b \in Bufs /\ b \notin Owned /\ b \notin Borrowed
      BY BindingsAssumption DEF Bufs, Procs
  <2>2. \A p \in Owned : p \in Bufs /\ arenas[p] # None
      BY <1>0, <1>1 DEF Bufs, Procs
  <2>3. \A p \in Borrowed : p \in Bufs /\ p \notin Owned
      BY BindingsAssumption DEF Bufs, Procs
  <2> QED
      BY <1>2, <2>1, <2>2, <2>3 DEF HeapSound
<1>6. BorrowsLive /\ RefsPointAtNodes
    BY <1>0 DEF BorrowsLive, RefsPointAtNodes
<1>7. OnlyLiveIds /\ TempsReturn /\ TempsSafe
    BY <1>0 DEF OnlyLiveIds, TempsReturn, TempsSafe, Idle
<1> QED
    BY <1>3, <1>4, <1>5, <1>6, <1>7 DEF BInv, HInv

(* Every step of the client and of the call in progress. *)
LEMMA StepBInv == BInv /\ [BindingsNext]_bindingsVars => BInv'
<1> SUFFICES ASSUME BInv, [BindingsNext]_bindingsVars PROVE BInv'
    OBVIOUS
<1>1. CASE ClientStep
  <2>1. ASSUME NEW p \in Procs, NEW f \in GeneratedApi, Call(p, f) PROVE BInv'
      BY <2>1, GeneratedStep
  <2>2. ASSUME NEW p \in Procs, NEW s \in Slots, InlineStencil(p, s) PROVE BInv'
      BY <2>2, HandWrittenStep DEF InlineStencil
  <2>3. ASSUME NEW p \in Procs, NEW q \in Procs, InlineGraph(p, q) PROVE BInv'
      BY <2>3, HandWrittenStep DEF InlineGraph
  <2>4. ASSUME NEW p \in Procs, LoopControl(p) PROVE BInv'
      BY <2>4, HandWrittenStep DEF LoopControl
  <2> QED
      BY <1>1, <2>1, <2>2, <2>3, <2>4, InitialMemoryStep, AbiStep, HoldStep, NewProcStep,
         EndProcStep, EndArenaStep, OptimiseStep, CompactStep, MountStencilStep, StencilStep
         DEF ClientStep
<1>2. CASE CallStep
    BY <1>2, LibraryStep, ReturnNodeStep, ReturnStep, AbiStep DEF CallStep
<1>3. CASE UNCHANGED bindingsVars
  <2>1. UNCHANGED <<arenas, procs, temps, bufs, stencils, refs, inputs, call>>
      BY <1>3 DEF bindingsVars, state
  <2>2. HInv'
      BY <2>1, SameHeap DEF BInv, HInv, BindingsTypeOK
  <2>3. BorrowsLive' /\ RefsPointAtNodes' /\ OnlyLiveIds' /\ TempsReturn' /\ TempsSafe'
      BY <2>1 DEF BInv, BorrowsLive, RefsPointAtNodes, OnlyLiveIds, TempsReturn, TempsSafe,
                  NodeIds, LiveIds, cells, Home
  <2> QED
      BY <2>2, <2>3 DEF BInv
<1> QED
    BY <1>1, <1>2, <1>3 DEF BindingsNext

(* Every state of the bindings satisfies the invariant. *)
LEMMA AlwaysBInv == BindingsSpec => []BInv
<1>1. BindingsInit => BInv
    BY InitBInv
<1>2. BInv /\ [BindingsNext]_bindingsVars => BInv'
    BY StepBInv
<1> QED
    BY <1>1, <1>2, PTL DEF BindingsSpec

(* Whatever functions of the bindings are called, in whatever order and     *)
(* with whatever references, the library is handed nil or live nodes of the *)
(* proc it works on (check, node_id, with_node_ids, generated.rs).          *)
THEOREM LibrarySeesLiveNodes == BindingsSpec => []OnlyLiveIds
<1>1. BInv => OnlyLiveIds
    BY DEF BInv
<1> QED
    BY <1>1, AlwaysBInv, PTL

(* References never outlive the graph they point into (EndBorrows, the      *)
(* borrows of compact, mount_stencil and of the optimisations).             *)
THEOREM ReferencesStayValid == BindingsSpec => []RefsPointAtNodes
<1>1. BInv => RefsPointAtNodes
    BY DEF BInv
<1> QED
    BY <1>1, AlwaysBInv, PTL

(* The ids of a slice are safe in the temporary while the library runs, and *)
(* calls leave the temporary where it was (with_node_ids, TempNodes::drop). *)
THEOREM TemporariesRestored == BindingsSpec => []TempsSafe
<1>1. BInv => TempsSafe
    BY DEF BInv
<1> QED
    BY <1>1, AlwaysBInv, PTL

(* Every buffer of Rust's has one owner until it is freed, once; the        *)
(* client's are never freed (Arena::drop, Stencil's Clone).                 *)
THEOREM BuffersFreedOnce == BindingsSpec => []BuffersOwned
<1>1. ASSUME BInv PROVE BuffersOwned
  <2>0. HInv /\ bufs \in [Bufs -> Buffer]
      BY <1>1 DEF BInv, HInv, BindingsTypeOK
  <2> DEFINE owners(b) ==
          {<<"arena", p>> : p \in {p \in Procs : arenas[p] # None /\ arenas[p].buf = b}}
          \cup
          {<<"stencil", s>> : s \in {s \in Slots : stencils[s] # None /\ stencils[s].arena.buf = b}}
  <2>1. \A p \in Procs : arenas[p] # None => arenas[p].buf = p
      BY <2>0, CellsOf
  <2>2. \A s \in Slots : stencils[s] # None => stencils[s].arena.buf \in 1 .. MaxBufs
      BY <1>1, StencilFacts
  <2>3. SUFFICES ASSUME NEW b \in Bufs
                 PROVE  /\ bufs[b].state # "corrupt"
                        /\ bufs[b].state = "allocated" <=>
                               owners(b) # {} /\ \A p \in Borrowed : <<"arena", p>> \notin owners(b)
                        /\ \A x, y \in owners(b) : x = y
      BY DEF BuffersOwned
  <2>4. bufs[b].state # "corrupt"
      BY <2>0 DEF Buffer
  <2>7. CASE b \in Procs
    <3>1. \A s \in Slots : stencils[s] # None => stencils[s].arena.buf # b
        BY <2>2, <2>7, BindingsAssumption
    <3>2. CASE arenas[b] = None
      <4>1. owners(b) = {}
          BY <2>1, <3>1, <3>2
      <4>2. bufs[b].state # "allocated"
          BY <2>0, <2>7, <3>2 DEF HInv, HeapSound, Procs
      <4> QED
          BY <2>4, <4>1, <4>2
    <3>3. CASE arenas[b] # None
      <4>1. owners(b) = {<<"arena", b>>}
          BY <2>1, <2>7, <3>1, <3>3
      <4>2. bufs[b].state = "allocated" <=> b \notin Borrowed
          BY <2>0, <2>7, <3>3, BindingsAssumption DEF HInv, HeapSound, Procs
      <4>3. (\A p \in Borrowed : <<"arena", p>> \notin owners(b)) <=> b \notin Borrowed
          BY <4>1
      <4> QED
          BY <2>4, <4>1, <4>2, <4>3
    <3> QED
        BY <3>2, <3>3
  <2>8. CASE b \in 1 .. MaxBufs
    <3>1. \A p \in Procs : arenas[p] # None => arenas[p].buf # b
        BY <2>1, <2>8, BindingsAssumption
    <3>2. \A p \in Borrowed : <<"arena", p>> \notin owners(b)
        BY <3>1 DEF Procs
    <3>3. CASE \E s \in Slots : stencils[s] # None /\ stencils[s].arena.buf = b
      <4>1. PICK s \in Slots : stencils[s] # None /\ stencils[s].arena.buf = b
          BY <3>3
      <4>2. \A t \in Slots : stencils[t] # None /\ stencils[t].arena.buf = b => t = s
          BY <2>0, <4>1 DEF HInv, StencilsSound
      <4>3. owners(b) = {<<"stencil", s>>}
          BY <3>1, <4>1, <4>2
      <4>4. bufs[b].state = "allocated"
          BY <2>0, <4>1 DEF HInv, StencilsSound, StencilSound
      <4> QED
          BY <2>4, <3>2, <4>3, <4>4
    <3>4. CASE ~ \E s \in Slots : stencils[s] # None /\ stencils[s].arena.buf = b
      <4>1. owners(b) = {}
          BY <3>1, <3>4
      <4>2. bufs[b].state # "allocated"
          BY <2>0, <2>8, <3>4 DEF HInv, HeapSound
      <4> QED
          BY <2>4, <4>1, <4>2
    <3> QED
        BY <3>3, <3>4
  <2> QED
      BY <2>7, <2>8 DEF Bufs
<1>2. BInv => BuffersOwned
    BY <1>1
<1> QED
    BY <1>2, AlwaysBInv, PTL

(* entry and end answer with the entry and the end of the current graph     *)
(* (compact, mount_stencil, Proc_Meta).                                     *)
THEOREM PinsStayLive == BindingsSpec => []PinnedLive
<1>1. ASSUME BInv PROVE PinnedLive
    BY <1>1, ProcFacts DEF PinnedLive, IsGraph
<1>2. BInv => PinnedLive
    BY <1>1
<1> QED
    BY <1>2, AlwaysBInv, PTL

-----------------------------------------------------------------------------
(* The array of an AbiParam. *)

(* What a step of the bindings may do to the array. *)
LEMMA ArrayUse ==
    ASSUME [BindingsNext]_bindingsVars
    PROVE  (\E v \in Value : push(v)) \/ Moved \/ UNCHANGED arrayVars
<1>1. CASE ClientStep
    BY <1>1 DEF ClientStep, Call, with_node_ids, CallNodes, InlineStencil, InlineGraph, LoopControl,
         TakeStencil, MountStencil, InitialMemory, Pinned, StartAbi, Inputs, NewProc, EndProc,
         EndArena, Optimise, Compact, Compacting, NextInput, CloneStencil, DropStencil
<1>2. CASE CallStep
    BY <1>2 DEF CallStep, Library, ReturnNode, Return, AbiPush, AbiPanics, ParamGenNext
<1>3. CASE UNCHANGED bindingsVars
    BY <1>3 DEF bindingsVars
<1> QED
    BY <1>1, <1>2, <1>3 DEF BindingsNext

(* Moving the array out leaves the sequence cleared. *)
LEMMA MovedClears ==
    ASSUME Moved
    PROVE  Initialised' /\ Abstract!Clear
<1>1. Initialised'
    BY ArrayAssumption DEF Moved, Initialised, Empty, Cells
<1>2. as_slice' = <<>>
    BY DEF Moved, as_slice
<1> QED
    BY <1>1, <1>2 DEF Moved, Abstract!Clear

(* The datatypes of an AbiParam are pushed to and read from a bounded       *)
(* sequence, also when the push past its end panics (AbiParam::new,         *)
(* ParamGen::next, fixed_cap_dyn_array.rs).                                 *)
THEOREM AbiParamIsBounded == BindingsSpec => IsBoundedSequence
<1>1. BindingsInit => Initialised /\ Abstract!Init
    BY InitInitialised DEF BindingsInit, ArrayInit, Abstract!Init, as_slice
<1>2. ASSUME Initialised, [BindingsNext]_bindingsVars
      PROVE  Initialised' /\ [Abstract!Next]_<<as_slice, out>>
  <2>1. CASE Moved
      BY <2>1, MovedClears DEF Abstract!Next
  <2>2. CASE (\E v \in Value : push(v)) \/ UNCHANGED arrayVars
    <3>1. [ArrayStep]_arrayVars
        BY <2>2 DEF ArrayStep
    <3> QED
        BY <1>2, <3>1, StepInitialised, StepRefines
  <2> QED
      BY <1>2, <2>1, <2>2, ArrayUse
<1>3. Initialised /\ [BindingsNext]_bindingsVars => Initialised' /\ [Abstract!Next]_<<as_slice, out>>
    BY <1>2
<1> QED
    BY <1>1, <1>3, PTL DEF BindingsSpec, IsBoundedSequence, Abstract!Spec
=============================================================================
