--------------------------- MODULE CompilerMeaning ---------------------------
(***************************************************************************)
(* What a program of module Compiler means, and what the graph built for   *)
(* it means: two interpreters, and the properties that relate them.        *)
(***************************************************************************)
EXTENDS Compiler

Apply(op, a, b) ==
    CASE op = "add" -> (a + b) % Modulus
      [] op = "sub" -> (a - b) % Modulus
      [] op = "mul" -> (a * b) % Modulus
      [] op = "eq"  -> IF a = b THEN 1 ELSE 0
      [] op = "lt"  -> IF a < b THEN 1 ELSE 0

-----------------------------------------------------------------------------
(* The program.  A state is the next statement and the variables.           *)

Openers == {"if", "loop"}

(* How many blocks opened in p[i .. j] are still open after p[j]. *)
Depth(p, i, j) ==
    Cardinality({k \in i .. j : p[k][1] \in Openers})
      - Cardinality({k \in i .. j : p[k][1] = "end"})

EndOf(p, i) == CHOOSE j \in i .. Len(p) :
    Depth(p, i, j) = 0 /\ \A k \in i .. j - 1 : Depth(p, i, k) > 0

OpenerOf(p, j) == CHOOSE i \in 1 .. j : p[i][1] \in Openers /\ EndOf(p, i) = j

(* The loops around p[i], and the one a jump with this label leaves. *)
Around(p, i) == {k \in 1 .. i : p[k][1] = "loop" /\ i =< EndOf(p, k)}

JumpsTo(p, i, label) ==
    CHOOSE k \in Around(p, i) : /\ label \in {"", p[k][2]}
                                /\ \A l \in Around(p, i) : l > k => label \notin {"", p[l][2]}

RECURSIVE Value(_, _)
Value(e, env) ==
    CASE e[1] = "num" -> e[2]
      [] e[1] = "var" -> env[e[2]]
      [] OTHER -> Apply(e[1], Value(e[2], env), Value(e[3], env))

At(s, i) == [s EXCEPT !.pc = i]

Statement(p, s) ==
    LET i == s.pc
        stmt == p[i]
    IN  CASE stmt[1] \in {"let", "set"} ->
               [At(s, i + 1) EXCEPT !.env = (stmt[2] :> Value(stmt[3], s.env)) @@ @]
          [] stmt[1] = "if" -> At(s, IF Value(stmt[2], s.env) = 1 THEN i + 1 ELSE EndOf(p, i) + 1)
          [] stmt[1] = "loop" -> At(s, i + 1)
          [] stmt[1] = "end" -> At(s, IF p[OpenerOf(p, i)][1] = "loop" THEN OpenerOf(p, i) ELSE i + 1)
          [] stmt[1] = "continue" -> At(s, JumpsTo(p, i, stmt[2]))
          [] stmt[1] = "break" -> At(s, EndOf(p, JumpsTo(p, i, stmt[2])) + 1)
          [] stmt[1] = "return" -> [s EXCEPT !.result = Value(stmt[2], s.env)]

Diverges == -1

RECURSIVE Execute(_, _, _)
Execute(p, s, fuel) ==
    IF fuel = 0 \/ s.result # Diverges THEN s.result
    ELSE Execute(p, Statement(p, s), fuel - 1)

SourceResult(p) == Execute(p, [pc |-> 1, env |-> <<>>, result |-> Diverges], Fuel)

-----------------------------------------------------------------------------
(* The graph.  Control moves from node to node; entering a join by its i-th *)
(* input gives each phi of it the value of its own i-th input.  A value is  *)
(* computed when it is needed.                                              *)

RECURSIVE NodeValue(_, _)
NodeValue(n, phis) ==
    LET k == g.kind[n]
        ins == g.inps[n]
    IN  CASE k = "phi" -> phis[n]
          [] k = "mem" -> 0 \* no program writes memory
          [] k \in Operators -> Apply(k, NodeValue(ins[1], phis), NodeValue(ins[2], phis))
          [] OTHER -> CHOOSE v \in 0 .. Modulus - 1 : Consts[v + 1] = k

PhisOf(join) == {use[1] : use \in {u \in g.outs[join] : g.kind[u[1]] = "phi" /\ u[2] = 1}}

(* Control enters the node use[1] by its input use[2]. *)
EnterNode(use, phis) ==
    [node |-> use[1],
     phis |-> [p \in PhisOf(use[1]) |-> NodeValue(g.inps[p][use[2] + 1], phis)] @@ phis]

(* The control nodes that use n as their control. *)
Successors(n) == {use \in g.outs[n] : g.kind[use[1]] \in Ctrl \cup {"return"}
                                      /\ (use[2] = 1 \/ g.kind[use[1]] \in {"region", "loop"})}

Taken(n, phis) ==
    IF g.kind[n] # "if" THEN Successors(n)
    ELSE {use \in Successors(n) :
             g.kind[use[1]] = IF NodeValue(g.inps[n][2], phis) = 1 THEN "then" ELSE "else"}

(* The results of all the paths from s: one, when control is well formed.   *)
RECURSIVE Flow(_, _)
Flow(s, fuel) ==
    IF g.kind[s.node] = "return" THEN {NodeValue(g.inps[s.node][3], s.phis)}
    ELSE IF fuel = 0 THEN {Diverges}
    ELSE UNION {Flow(next, fuel - 1) :
                   next \in {EnterNode(use, s.phis) : use \in Taken(s.node, s.phis)}}

EntryNode == 1 \* prc.entry, see StartProc

GraphResults == Flow([node |-> EntryNode, phis |-> <<>>], Fuel)

-----------------------------------------------------------------------------

(* The graph computes what the program says: loop phis, joins, labelled     *)
(* breaks and continues and merged returns keep every variable's value      *)
(* (get_scope_value, merge_scopes, end_loop, merge_return).                 *)
MeaningKept == Finished => GraphResults = {SourceResult(prog)}

(* No assertion of the builder or of the wrappers is reached by a program   *)
(* that declares its variables outside branches: scopes that meet have      *)
(* equal lengths and no deleted node is used.                               *)
NoPanic == failed = "none"

(* Where control goes on it goes on at one place: a reached control node    *)
(* has one successor, an If one Then and one Else.                          *)
ControlDeterministic ==
    Finished => \A n \in LiveIds : g.kind[n] \in Ctrl =>
        IF g.kind[n] = "if" THEN {g.kind[u[1]] : u \in Successors(n)} = {"then", "else"}
                                 /\ Cardinality(Successors(n)) = 2
        ELSE Cardinality(Successors(n)) = 1

(* Nothing of the builder stays behind: once every statement is closed no   *)
(* scope and no lazy phi is alive (remove_output of the loop scope's pin,   *)
(* the subsumes of end_loop, delete_scope).                                 *)
BuilderGone ==
    (Finished /\ cur = 0) => \A n \in LiveIds : g.kind[n] \notin Scopes \cup Lazy

(* Compilation ends: get_scope_value's recursion through nested loops, the  *)
(* walk over finished scopes in end_loop and the cascades of subsume and    *)
(* delete_node all terminate.                                               *)
CompilationEnds == <>Stopped
=============================================================================
