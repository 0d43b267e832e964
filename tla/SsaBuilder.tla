----------------------------- MODULE SsaBuilder -----------------------------
(***************************************************************************)
(* The SSA builder of bac/ssa/ssa.odin on the graph of module Graph.       *)
(*                                                                         *)
(* A scope is a node: its first input is the control, the others are the   *)
(* values of the variables.  Branches clone it, joins merge two of them    *)
(* with phis, and inside a loop a slot that was not touched yet holds the  *)
(* scope of the loop itself, which get_scope_value turns into a lazy phi   *)
(* when the variable is first read.  end_loop closes the lazy phis.        *)
(*                                                                         *)
(* The functions call each other.  `work' holds their frames, innermost    *)
(* first; a frame goes on once the graph operation it made has returned    *)
(* (Idle), and `ret' is what the last finished call returned.              *)
(*                                                                         *)
(* Slots count from 1, so the control is slot 1.  The Scope flag `done' is *)
(* the kind "done".  Debug symbols (has_dbg) are off.                      *)
(***************************************************************************)
EXTENDS Graph, SequencesExt

VARIABLES work, \* the calls still running, innermost first
          ret,  \* the node the last call returned
          open, \* the If_State and Loop_State of the open statements
          cur   \* the scope the client builds in, 0 where nothing is reached

builderVars == <<work, ret, open, cur>>

Scopes == {"scope", "done"}

IsScope(h, n) == n # 0 /\ h.kind[n] \in Scopes

Building(op) == Idle /\ work # <<>> /\ Head(work).op = op

Top == Head(work)

(* The call on top is replaced by `frames'; the last of them returned v.    *)
Go(frames, v) == work' = frames \o Tail(work) /\ ret' = v

Same == UNCHANGED <<g, todo, failed, ops>>

Panic(what) == Fail(what) /\ UNCHANGED builderVars

(* set_input on the graph h. *)
Assign(h, n, i, value) ==
    /\ IF h.inps[n][i] = value THEN g' = h /\ todo' = <<>>
       ELSE g' = Assigned(h, n, i, value) /\ todo' = Assigning(h, n, i, value)
    /\ UNCHANGED <<failed, ops>>

-----------------------------------------------------------------------------
(* get_scope_value and set_scope_value. *)

GetFrame(scope, slot) == [op |-> "get", scope |-> scope, slot |-> slot]

GetScopeValue ==
    /\ Building("get")
    /\ IF ~ IsScope(g, Top.scope) THEN Panic("get_scope_value: not a scope")
       ELSE /\ LET val == g.inps[Top.scope][Top.slot]
               IN  IF IsScope(g, val)
                   THEN Go(<<GetFrame(val, Top.slot),
                             [op |-> "got", scope |-> Top.scope, slot |-> Top.slot,
                              outer |-> val]>>, ret)
                   ELSE Go(<<>>, val)
            /\ Same /\ UNCHANGED <<open, cur>>

(* A lazy phi of this loop. *)
LazyOf(h, n, loop) == n # 0 /\ h.kind[n] = "lazy" /\ h.inps[n][1] = loop

(* The value of the scope around the loop needs a phi of this loop. *)
WantsPhi(outer, val) ==
    ~ LazyOf(g, val, g.inps[outer][1]) /\ g.kind[outer] # "done"

(* The slot held the scope `outer' of a loop, which has answered `ret'.     *)
GotOuterValue ==
    /\ Building("got")
    /\ ~ WantsPhi(Top.outer, ret)
    /\ Assign(g, Top.scope, Top.slot, ret)
    /\ Go(<<>>, ret)
    /\ UNCHANGED <<open, cur>>

AddLazyPhi ==
    /\ Building("got")
    /\ WantsPhi(Top.outer, ret)
    /\ LET loop == g.inps[Top.outer][1]
           phi == AddRaw(g, "lazy", <<loop, ret>>)
       IN  IF g.kind[loop] # "loop" THEN Panic("get_scope_value: not a loop")
           ELSE /\ Assign(phi.graph, Top.outer, Top.slot, phi.id)
                /\ Go(<<[op |-> "put", scope |-> Top.scope, slot |-> Top.slot,
                         value |-> phi.id]>>, ret)
                /\ UNCHANGED <<open, cur>>

PutSlot ==
    /\ Building("put")
    /\ Assign(g, Top.scope, Top.slot, Top.value)
    /\ Go(<<>>, Top.value)
    /\ UNCHANGED <<open, cur>>

(* set_scope_value reads the old value before it writes the slot. *)
SetFrames(scope, slot, value) ==
    <<GetFrame(scope, slot), [op |-> "put", scope |-> scope, slot |-> slot, value |-> value]>>

-----------------------------------------------------------------------------
(* merge_scopes *)

MergeFrame(l, r) == [op |-> "merge", l |-> l, r |-> r]

MergeScopes ==
    /\ Building("merge")
    /\ LET l == Top.l
           r == Top.r
           region == AddRaw(g, "region", <<g.inps[l][1], g.inps[r][1]>>)
       IN  IF l = 0 \/ r = 0 THEN Same /\ Go(<<>>, IF l = 0 THEN r ELSE l)
           ELSE IF ~ IsScope(g, l) \/ ~ IsScope(g, r) \/ Len(g.inps[l]) # Len(g.inps[r])
           THEN Fail("merge_scopes: lcount == rcount") /\ UNCHANGED <<work, ret>>
           ELSE /\ g' = region.graph /\ UNCHANGED <<todo, failed, ops>>
                /\ Go(<<[op |-> "slots", l |-> l, r |-> r, region |-> region.id, at |-> 2]>>, ret)
    /\ UNCHANGED <<open, cur>>

MergeSlot ==
    /\ Building("slots")
    /\ Top.at =< Len(g.inps[Top.l])
    /\ IF g.inps[Top.l][Top.at] = g.inps[Top.r][Top.at]
       THEN Go(<<[Top EXCEPT !.at = @ + 1]>>, ret)
       ELSE Go(<<GetFrame(Top.l, Top.at), [Top EXCEPT !.op = "left"]>>, ret)
    /\ Same /\ UNCHANGED <<open, cur>>

MergeLeft ==
    /\ Building("left")
    /\ Go(<<GetFrame(Top.r, Top.at), [op |-> "right", left |-> ret, slots |-> Top]>>, ret)
    /\ Same /\ UNCHANGED <<open, cur>>

(* Variant: the left value wins. *)
MergeRightLeftWins ==
    /\ Building("right")
    /\ Go(<<[Top.slots EXCEPT !.op = "slots", !.at = @ + 1]>>, ret)
    /\ Same /\ UNCHANGED <<open, cur>>

MergeRight ==
    /\ Building("right")
    /\ LET s == Top.slots
           phi == AddRaw(g, "phi", <<s.region, Top.left, ret>>)
       IN  /\ IF Top.left = ret THEN Same ELSE Assign(phi.graph, s.l, s.at, phi.id)
           /\ Go(<<[s EXCEPT !.op = "slots", !.at = @ + 1]>>, ret)
    /\ UNCHANGED <<open, cur>>

MergeControl ==
    /\ Building("slots")
    /\ Top.at > Len(g.inps[Top.l])
    /\ Assign(g, Top.l, 1, Top.region)
    /\ Go(<<[op |-> "merged", l |-> Top.l, r |-> Top.r]>>, ret)
    /\ UNCHANGED <<open, cur>>

(* delete_node *)
Delete(n) ==
    todo' = Deleting(g, n, <<>>) /\ UNCHANGED <<g, failed, ops>>

MergeDone ==
    /\ Building("merged")
    /\ Delete(Top.r)
    /\ Go(<<>>, Top.l)
    /\ UNCHANGED <<open, cur>>

-----------------------------------------------------------------------------
(* Branches. *)

StartIf(cond) ==
    LET branch == AddRaw(g, "if", <<g.inps[cur][1], cond>>)
        copy == AddRaw(branch.graph, g.kind[cur], g.inps[cur])
        then == AddRaw(copy.graph, "then", <<branch.id>>)
    IN  /\ Assign(then.graph, cur, 1, then.id)
        /\ open' = Append(open, [is |-> "if", if |-> branch.id, other |-> copy.id])
        /\ UNCHANGED cur

(* end_if: start_else, then end_else. *)
EndIf ==
    /\ Building("end_if")
    /\ LET state == Last(open)
           else == AddRaw(g, "else", <<state.if>>)
       IN  /\ Assign(else.graph, state.other, 1, else.id)
           /\ cur' = state.other
           /\ Go(<<MergeFrame(cur, state.other), [op |-> "enter"]>>, ret)
    /\ open' = Front(open)

(* The scope a call returned is the client's scope. *)
Enter ==
    /\ Building("enter")
    /\ cur' = ret
    /\ Go(<<>>, ret)
    /\ Same /\ UNCHANGED open

-----------------------------------------------------------------------------
(* Loops. *)

StartLoop ==
    /\ Building("start_loop")
    /\ LET loop == AddRaw(g, "loop", <<g.inps[cur][1]>>)
       IN  /\ Assign(loop.graph, cur, 1, loop.id)
           /\ Go(<<[op |-> "clone", label |-> Top.label]>>, loop.id)
    /\ UNCHANGED <<open, cur>>

StartLoopClone ==
    /\ Building("clone")
    /\ LET copy == AddRaw(g, g.kind[cur], g.inps[cur])
       IN  /\ g' = [copy.graph EXCEPT !.pins[copy.id] = @ + 1]
           /\ open' = Append(open, [is |-> "loop", label |-> Top.label, scope |-> copy.id,
                                    break |-> 0, continue |-> 0])
           /\ Go(<<[op |-> "fill", at |-> 2]>>, copy.id)
    /\ UNCHANGED <<todo, failed, ops, cur>>

StartLoopFill ==
    /\ Building("fill")
    /\ IF Top.at > Len(g.inps[cur]) THEN Same /\ Go(<<>>, ret)
       ELSE /\ Assign(g, cur, Top.at, ret)
            /\ Go(<<[Top EXCEPT !.at = @ + 1]>>, ret)
    /\ UNCHANGED <<open, cur>>

(* loop_control(variant, scope) on the loop open[k]. *)
ControlFrame(variant, scope, k) ==
    [op |-> "control", variant |-> variant, scope |-> scope, k |-> k]

(* Variant: variables of the loop's body stay in the scope. *)
LoopControlUntruncated ==
    /\ Building("control")
    /\ Go(<<MergeFrame(Top.scope, open[Top.k][Top.variant]), [Top EXCEPT !.op = "store"]>>, ret)
    /\ Same /\ UNCHANGED <<open, cur>>

LoopControl ==
    /\ Building("control")
    /\ todo' = IF Top.scope = 0 THEN <<>>
               ELSE <<TruncateFrame(Top.scope, Len(g.inps[open[Top.k].scope]))>>
    /\ Go(<<MergeFrame(Top.scope, open[Top.k][Top.variant]), [Top EXCEPT !.op = "store"]>>, ret)
    /\ UNCHANGED <<g, failed, ops, open, cur>>

LoopControlStore ==
    /\ Building("store")
    /\ open' = [open EXCEPT ![Top.k][Top.variant] = ret]
    /\ Go(<<>>, ret)
    /\ Same /\ UNCHANGED cur

EndLoop ==
    /\ Building("end_loop")
    /\ Go(<<ControlFrame("continue", cur, Len(open)), [op |-> "increment"]>>, ret)
    /\ Same /\ UNCHANGED <<open, cur>>

(* start_loop_increment: the client goes on in the merge of all continues.  *)
EndLoopIncrement ==
    /\ Building("increment")
    /\ LET k == Len(open)
           back == open[k].continue
           init == open[k].scope
           loop == g.inps[init][1]
       IN  IF g.kind[loop] # "loop" \/ (back # 0 /\ Len(g.inps[init]) # Len(g.inps[back]))
           THEN Panic("end_loop: init.input_count == backedge.input_count")
           ELSE /\ cur' = back
                /\ open' = [open EXCEPT ![k].continue = 0]
                /\ Go(<<[op |-> IF back = 0 THEN "exit" ELSE "phis", at |-> 2,
                         init |-> init, back |-> back, loop |-> loop]>>, ret)
                /\ Same

(* What the slot of the back edge holds once the scopes of finished loops   *)
(* are looked through.                                                      *)
Resolved(h, n, slot, loop) ==
    LET val[m \in Ids] ==
          IF h.kind[m] # "done" \/ h.inps[m][1] = loop THEN m ELSE val[h.inps[m][slot]]
    IN  val[n]

(* One slot: the lazy phi becomes a phi, or its value where the loop leaves *)
(* the variable alone.                                                      *)
EndLoopPhi ==
    /\ Building("phis")
    /\ Top.at =< Len(g.inps[Top.init])
    /\ LET init == g.inps[Top.init][Top.at]
           back == Resolved(g, g.inps[Top.back][Top.at], Top.at, Top.loop)
           closed == WithBackEdge(g, init, back)
       IN  CASE ~ LazyOf(g, init, Top.loop) -> UNCHANGED <<g, todo>>
             [] LazyOf(g, init, Top.loop) /\ (IsScope(g, back) \/ back = init) ->
                  UNCHANGED g /\ todo' = <<SubsumeFrame(g.inps[init][2], init)>>
             [] OTHER -> g' = Intern(closed, init) /\ todo' = Closing(closed, init)
    /\ Go(<<[Top EXCEPT !.at = @ + 1]>>, ret)
    /\ UNCHANGED <<failed, ops, open, cur>>

(* Variant: the loop keeps its one input. *)
EndLoopNoBackEdge ==
    /\ Building("phis")
    /\ Top.at > Len(g.inps[Top.init])
    /\ Go(<<[Top EXCEPT !.op = "exit", !.at = 2]>>, ret)
    /\ UNCHANGED <<g, todo, failed, ops, open, cur>>

EndLoopBackEdge ==
    /\ Building("phis")
    /\ Top.at > Len(g.inps[Top.init])
    /\ g' = Connected(g, Top.loop, g.inps[Top.back][1])
    /\ Go(<<[Top EXCEPT !.op = "exit", !.at = 2]>>, ret)
    /\ UNCHANGED <<todo, failed, ops, open, cur>>

(* Variant: the walk over the slots starts again at its end. *)
EndLoopExitAgain ==
    /\ Building("exit")
    /\ LET exit == Last(open).break
       IN  Go(<<IF exit = 0 THEN [Top EXCEPT !.op = "close"]
                ELSE [Top EXCEPT !.at = IF @ =< Len(g.inps[exit]) THEN @ + 1 ELSE 2]>>, ret)
    /\ Same /\ UNCHANGED <<open, cur>>

(* The scope of the breaks takes the phis of the variables it never read.   *)
EndLoopExit ==
    /\ Building("exit")
    /\ LET exit == Last(open).break
           val == g.inps[exit][Top.at]
       IN  IF exit = 0 \/ Top.at > Len(g.inps[exit])
           THEN Same /\ Go(<<[Top EXCEPT !.op = "close"]>>, ret)
           ELSE /\ Go(<<[Top EXCEPT !.at = @ + 1]>>, ret)
                /\ IF IsScope(g, val) /\ g.inps[val][1] = Top.loop
                   THEN Assign(g, exit, Top.at, g.inps[Top.init][Top.at])
                   ELSE Same
    /\ UNCHANGED <<open, cur>>

(* Variant: the scope of the loop stays pinned. *)
EndLoopClosePinned ==
    /\ Building("close")
    /\ cur' = Last(open).break
    /\ open' = Front(open)
    /\ g' = [g EXCEPT !.kind[Top.init] = "done"]
    /\ Go(<<[Top EXCEPT !.op = IF Top.back = 0 THEN "unlooped" ELSE "drop"]>>, ret)
    /\ UNCHANGED <<todo, failed, ops>>

EndLoopClose ==
    /\ Building("close")
    /\ cur' = Last(open).break
    /\ open' = Front(open)
    /\ LET h == [g EXCEPT !.kind[Top.init] = "done", !.pins[Top.init] = @ - 1]
       IN  g' = h /\ todo' = Deleting(h, Top.init, <<>>)
    /\ Go(<<[Top EXCEPT !.op = IF Top.back = 0 THEN "unlooped" ELSE "drop"]>>, ret)
    /\ UNCHANGED <<failed, ops>>

(* The tail of end_loop and of delete_scope. *)
DropScope ==
    /\ Building("drop")
    /\ Delete(Top.back)
    /\ Go(<<>>, ret)
    /\ UNCHANGED <<open, cur>>

(* No path comes back: the loop is not one.  Its outputs are walked as they *)
(* are, and the swap-removes of the subsumes leave no lazy phi out.         *)
EndLoopLazy ==
    /\ Building("unlooped")
    /\ \E use \in g.outs[Top.loop] :
          /\ g.kind[use[1]] = "lazy"
          /\ todo' = <<SubsumeFrame(g.inps[use[1]][2], use[1])>>
    /\ UNCHANGED <<g, failed, ops>> /\ UNCHANGED builderVars

EndLoopUnlooped ==
    /\ Building("unlooped")
    /\ \A use \in g.outs[Top.loop] : g.kind[use[1]] # "lazy"
    /\ IF ~ Alive(g, Top.loop) THEN Panic("end_loop: the loop is gone")
       ELSE /\ todo' = <<SubsumeFrame(g.inps[Top.loop][1], Top.loop)>>
            /\ Go(<<>>, ret)
            /\ UNCHANGED <<g, failed, ops, open, cur>>

-----------------------------------------------------------------------------
(* Returns. *)

EndNode == 2 \* prc.end, see StartProc

MergeReturn ==
    /\ Building("merge_return")
    /\ LET last == g.inps[EndNode][1]
           new == AddRaw(g, "return", Top.args)
           region == AddRaw(g, "region", <<g.inps[last][1], Top.args[1]>>)
       IN  IF last = 0
           THEN Assign(new.graph, EndNode, 1, new.id) /\ Go(<<>>, new.id)
           ELSE /\ Assign(region.graph, last, 1, region.id)
                /\ Go(<<[Top EXCEPT !.op = "return_phi"] @@
                        [last |-> last, region |-> region.id, at |-> 2]>>, ret)
    /\ UNCHANGED <<open, cur>>

MergeReturnPhi ==
    /\ Building("return_phi")
    /\ LET phi == AddRaw(g, "phi", <<Top.region, g.inps[Top.last][Top.at], Top.args[Top.at]>>)
       IN  IF Top.at > Len(g.inps[Top.last]) THEN Same /\ Go(<<>>, Top.last)
           ELSE /\ Assign(phi.graph, Top.last, Top.at, phi.id)
                /\ Go(<<[Top EXCEPT !.at = @ + 1]>>, ret)
    /\ UNCHANGED <<open, cur>>

(* delete_scope: truncate_scope to the control, then delete_node.           *)
DeleteScope ==
    /\ Building("delete_scope")
    /\ todo' = <<TruncateFrame(Top.scope, 1)>>
    /\ Go(<<[op |-> "drop", back |-> Top.scope]>>, ret)
    /\ UNCHANGED <<g, failed, ops, open, cur>>

(* start_proc, and the scope the client begins with. *)
StartProc ==
    LET entry == AddRaw(EmptyGraph, "entry", <<>>)
        end == AddRaw(entry.graph, "end", <<0>>)
        mem == AddRaw([end.graph EXCEPT !.pins[EndNode] = 1], "mem", <<entry.id>>)
    IN  AddRaw(mem.graph, "scope", <<entry.id>>)

BuilderStep ==
    \/ GetScopeValue \/ GotOuterValue \/ AddLazyPhi \/ PutSlot
    \/ MergeScopes \/ MergeSlot \/ MergeLeft \/ MergeRight \/ MergeControl \/ MergeDone
    \/ EndIf \/ Enter
    \/ StartLoop \/ StartLoopClone \/ StartLoopFill
    \/ LoopControl \/ LoopControlStore
    \/ EndLoop \/ EndLoopIncrement \/ EndLoopPhi \/ EndLoopBackEdge \/ EndLoopExit
    \/ EndLoopClose \/ DropScope \/ EndLoopLazy \/ EndLoopUnlooped
    \/ MergeReturn \/ MergeReturnPhi \/ DeleteScope

=============================================================================
