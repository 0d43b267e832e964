----------------------------- MODULE PeepDriver -----------------------------
(***************************************************************************)
(* apply_peeps of bac/graph.odin on the graph of module Graph: a worklist  *)
(* of nodes, the peephole rules of bac/ssa/peep.odin for additions and     *)
(* selects of one-bit integers, and the triggers by which a rule that      *)
(* looked two nodes away asks to be tried again.                           *)
(*                                                                         *)
(* Of the rules the ones that rewrite in each way a rule can are kept:     *)
(* answer an input, answer a constant, build a new node, change the node   *)
(* in place.  Integers have one bit: 1 + 1 = 0.                            *)
(***************************************************************************)
EXTENDS Graph, SequencesExt

CONSTANTS Programs \* sequences of nodes <<kind, inputs>>; the first is the entry,
                   \* the last is the end

VARIABLES phase,   \* "run" while the worklist is drained, then "done"
          merged,  \* history: nodes whose inputs a nested subsume changed
          meaning  \* history: what the program computed before

peepVars == <<vars, phase, merged, meaning>>

None == -1 \* a rule that does not apply answers nil

Consts == {"zero", "one"}

IsConst(h, n) == h.kind[n] \in Consts

(* Variant: the sum does not wrap. *)
FoldAddSaturating(a, b) == IF a = "zero" /\ b = "zero" THEN "zero" ELSE "one"

(* fold_bin_op for one-bit integers. *)
FoldAdd(a, b) == IF a = b THEN "zero" ELSE "one"

Answer(h, n) == [graph |-> h, id |-> n]

(* Variant: nobody asks to be tried again. *)
AddNoTrigger(h, triggerer, n) == h

AddTrigger(h, triggerer, n) == [h EXCEPT !.trig[triggerer] = @ \cup {n}]

(* x + (a constant), x an addition of a constant: one addition of their sum. *)
Reassociate(h, x, c) ==
    LET const == AddRaw(h, FoldAdd(h.kind[h.inps[x][2]], h.kind[c]), <<>>)
        sum == AddRaw(const.graph, "add", <<h.inps[x][1], const.id>>)
    IN  Answer(WorklistAdd(sum.graph, sum.id), sum.id)

(* Variant: nodes of equal priority swap too. *)
SwapsEqual(h, l, r) == IsConst(h, l) \/ ~ IsConst(h, r)

(* COMUTE_PRIORITY_TABLE: a constant goes to the right. *)
Swaps(h, l, r) == IsConst(h, l) /\ ~ IsConst(h, r)

(* Variant: the outputs are not renumbered. *)
CommuteInputs(h, n) ==
    Answer(WorklistAdd([h EXCEPT !.inps[n] = Reverse(@)], n), n)

(* The inputs swap in place. *)
Commute(h, n) ==
    LET l == h.inps[n][1]
        r == h.inps[n][2]
        freed == DropOutput(DropOutput(h, l, <<n, 1>>), r, <<n, 2>>)
        swapped == AddOutput(AddOutput([freed EXCEPT !.inps[n] = <<r, l>>], l, <<n, 2>>),
                             r, <<n, 1>>)
    IN  Answer(WorklistAdd(swapped, n), n)

PeepAdd(h, n) ==
    LET l == h.inps[n][1]
        r == h.inps[n][2]
        nested == h.kind[l] = "add" /\ IsConst(h, r)
        lConst == nested /\ IsConst(h, h.inps[l][1])
        rConst == nested /\ IsConst(h, h.inps[l][2])
    IN  CASE IsConst(h, l) /\ IsConst(h, r) ->
                AddRaw(h, FoldAdd(h.kind[l], h.kind[r]), <<>>)
          [] ~ IsConst(h, l) /\ h.kind[r] = "zero" -> Answer(h, l)
          [] h.kind[r] # "zero" /\ rConst /\ ~ lConst -> Reassociate(h, l, r)
          [] h.kind[r] # "zero" /\ nested /\ ~ rConst /\ ~ lConst ->
                Answer(AddTrigger(h, h.inps[l][2], n), None)
          [] Swaps(h, l, r) -> Commute(h, n)
          [] OTHER -> Answer(h, None)

PeepSelect(h, n) ==
    Answer(h, IF h.inps[n][1] = h.inps[n][2] THEN h.inps[n][1] ELSE None)

Peep(h, n) ==
    CASE h.kind[n] = "add"    -> PeepAdd(h, n)
      [] h.kind[n] = "select" -> PeepSelect(h, n)
      [] OTHER                -> Answer(h, None)

-----------------------------------------------------------------------------
(* What a graph computes: the value of its end for an argument and the      *)
(* condition of its selects.                                                *)

End(h) == CHOOSE n \in Ids : h.kind[n] = "end"

Value(h, arg, cond) ==
    LET val[n \in Ids] ==
          CASE h.kind[n] = "entry"  -> arg
            [] h.kind[n] = "zero"   -> 0
            [] h.kind[n] = "one"    -> 1
            [] h.kind[n] = "add"    -> (val[h.inps[n][1]] + val[h.inps[n][2]]) % 2
            [] h.kind[n] = "select" -> val[h.inps[n][IF cond THEN 1 ELSE 2]]
            [] h.kind[n] = "end"    -> val[h.inps[n][1]]
    IN  val[End(h)]

Meaning(h) == [arg \in {0, 1}, cond \in BOOLEAN |-> Value(h, arg, cond)]

-----------------------------------------------------------------------------

(* collect_nodes: breadth first from the nil node, the entry and the end    *)
(* over inputs and outputs.                                                 *)
CollectNodes(h, entry, end) ==
    LET scan[k \in 0 .. MaxNodes] ==
          IF k = 0 THEN <<0, entry, end>>
          ELSE LET q == scan[k - 1]
               IN  IF k + 1 > Len(q) THEN q
                   ELSE FoldLeft(Insert, q, h.inps[q[k + 1]] \o
                                            SetToSeq({use[1] : use \in h.outs[q[k + 1]]}))
    IN  scan[MaxNodes]

(* The program's nodes; the end is pinned, the entry kept by its memory.    *)
Load(program) ==
    LET h == FoldLeft(LAMBDA a, def : AddRaw(a, def[1], def[2]).graph, EmptyGraph, program)
    IN  [h EXCEPT !.pins[1] = 1, !.pins[Len(program)] = 1]

PeepInit ==
    \E program \in Programs :
        LET h == Load(program)
        IN  /\ g = [h EXCEPT !.peeping = TRUE,
                             !.queue = CollectNodes(h, 1, Len(program))]
            /\ meaning = Meaning(h)
            /\ todo = <<>> /\ failed = "none" /\ ops = 0
            /\ phase = "run" /\ merged = {}

Popped == [g EXCEPT !.queue = Tail(@)]

Round(n) ==
    /\ Idle /\ phase = "run"
    /\ g.queue # <<>> /\ n = Head(g.queue)
    /\ UNCHANGED <<failed, ops, phase, merged, meaning>>

(* worklist_next drops the dead; the nil node has no rule and no uses.      *)
PeepSkip(n) ==
    /\ Round(n)
    /\ ~ Alive(g, n)
    /\ g' = Popped
    /\ UNCHANGED todo

(* What became of the rule's answer for n. *)

PeepNothing(n, answer) ==
    /\ Round(n)
    /\ answer.id = None /\ OutputCount(g, n) # 0
    /\ g' = answer.graph
    /\ UNCHANGED todo

PeepUnused(n, answer) ==
    /\ Round(n)
    /\ answer.id = None /\ OutputCount(g, n) = 0
    /\ g' = WorklistAddAll(FlushTriggers(answer.graph, n), g.inps[n])
    /\ todo' = <<DeleteFrame(n)>>

(* The users, then the nodes that asked for it, look at the change. *)
Announce(h, n) ==
    FlushTriggers(WorklistAddAll(h, SetToSeq({use[1] : use \in h.outs[n]})), n)

(* Variant: the changed node is not interned again. *)
PeepInPlaceOnly(n, answer) ==
    /\ Round(n)
    /\ answer.id = n
    /\ g' = Announce(answer.graph, n)
    /\ UNCHANGED todo

PeepInPlace(n, answer) ==
    /\ Round(n)
    /\ answer.id = n
    /\ \E h \in {UninternAs(Announce(answer.graph, n), n, NodeHash(g, n))} :
          IF InternId(h, n) = n THEN g' = Intern(h, n) /\ UNCHANGED todo
          ELSE /\ g' = WorklistAddAll(h, h.inps[n])
               /\ todo' = <<SubsumeFrame(InternId(h, n), n)>>

PeepReplace(n, answer) ==
    /\ Round(n)
    /\ answer.id \notin {None, n}
    /\ g' = WorklistAddAll(Announce(answer.graph, n), g.inps[n])
    /\ todo' = <<SubsumeFrame(answer.id, n)>>

(* The recursion below a rewrite; uses moved by a nested subsume are noted. *)
PeepRun ==
    /\ Run
    /\ merged' = IF Running("move") /\ Len(todo) > 1
                 THEN merged \cup {use[1] : use \in Frame.left} ELSE merged
    /\ UNCHANGED <<phase, meaning>>

PeepDone ==
    /\ Idle /\ phase = "run" /\ g.queue = <<>>
    /\ phase' = "done"
    /\ g' = [g EXCEPT !.peeping = FALSE, !.trig = [n \in Ids |-> {}]]
    /\ UNCHANGED <<todo, failed, ops, merged, meaning>>

PeepRound ==
    \E n \in LiveIds : Round(n) /\ \E answer \in {Peep(Popped, n)} :
        \/ PeepNothing(n, answer) \/ PeepUnused(n, answer)
        \/ PeepInPlace(n, answer) \/ PeepReplace(n, answer)

PeepSkipStep == \E n \in IdsOrNil : PeepSkip(n)

Stopped == phase = "done" \/ failed # "none"

(* Nothing follows the end of the pass; any other state without a successor *)
(* is a deadlock.                                                           *)
PeepStopped == Stopped /\ UNCHANGED peepVars

PeepNext == PeepRound \/ PeepSkipStep \/ PeepRun \/ PeepDone \/ PeepStopped

(* The loop goes on until it stops.  Some step is always enabled before, so *)
(* this is weak fairness of PeepNext with its ENABLED spelled out.          *)
PeepFair == <>Stopped \/ []<><<PeepNext>>_peepVars

PeepSpec == PeepInit /\ [][PeepNext]_peepVars /\ PeepFair

-----------------------------------------------------------------------------

(* Peepholes keep the meaning of the program: between two rounds of         *)
(* apply_peeps the end still computes what it computed at first, whatever   *)
(* was folded, swapped, built and merged on the way.                        *)
MeaningKept == Idle => Meaning(g) = meaning

(* apply_peeps runs until fixpoint, as its doc comment and the assertion    *)
(* after the loop (new_node == 0) say, for every node no nested subsume has *)
(* touched: the worklist and the triggers lose no node whose rule looks at  *)
(* something that changed.                                                  *)
FixpointUpToMerges ==
    phase = "done" => \A n \in LiveIds \ merged : Peep(g, n).id = None

(* apply_peeps ends: rewrites, requeues and triggers do not feed each other *)
(* for ever.                                                                *)
PeepsEnd == <>Stopped
=============================================================================
