------------------------------ MODULE Compiler ------------------------------
(***************************************************************************)
(* The compiler of bac/bindgen/rust/examples/compiler.rs, a client of the  *)
(* SSA builder: one pass over the statements of a program, which builds    *)
(* the graph through the wrappers of src/generated.rs.                     *)
(*                                                                         *)
(* A program is the sequence of its statements:                            *)
(*   <<"let", x, e>>, <<"set", x, e>>, <<"return", e>>,                    *)
(*   <<"if", e>>, <<"loop", label>>, <<"end">> for the closing brace,      *)
(*   <<"break", label>>, <<"continue", label>>; the label "" is no label.  *)
(* An expression is <<"num", n>>, <<"var", x>> or <<op, left, right>>.     *)
(*                                                                         *)
(* The calls run one after the other, each to its end, as Rust and Odin    *)
(* run them; integers wrap at Modulus as i64 does at 2^64.  A program ends *)
(* a block where nothing more of it is reached, and declares variables     *)
(* outside its branches.                                                   *)
(***************************************************************************)
EXTENDS SsaBuilder

CONSTANTS Programs, \* the programs compiled
          Consts,   \* the kinds of the constants 0, 1, 2...
          Fuel      \* bound: statements and control nodes executed

VARIABLES prog,  \* the program
          pc,    \* tokens: the next statement
          slots  \* variables: the slot of each name

compilerVars == <<vars, builderVars, prog, pc, slots>>

Client == <<prog, pc, slots>>

Modulus == Len(Consts)

Operators == {"add", "sub", "mul", "eq", "lt"}

CompilerInit ==
    /\ prog \in Programs
    /\ g = StartProc.graph /\ cur = StartProc.id
    /\ todo = <<>> /\ failed = "none" /\ ops = 0
    /\ work = <<>> /\ ret = 0 /\ open = <<>>
    /\ pc = 1 /\ slots = <<>>

(* check: a node handed to a wrapper is the nil node or has not been        *)
(* deleted.  The wrapper panics before it calls the library otherwise.      *)
Check(nodes) == \A n \in nodes : n = 0 \/ Alive(g, n)

Checked(nodes, step) == IF Check(nodes) THEN step ELSE Panic("node has been deleted")

(* The first variable of that name. *)
find_var(name) == slots[name]

-----------------------------------------------------------------------------
(* expression *)

ExprFrame(e) == [op |-> "expr", e |-> e]

Number ==
    /\ Building("expr") /\ Top.e[1] = "num"
    /\ LET const == AddRaw(g, Consts[Top.e[2] + 1], <<>>)
       IN  g' = const.graph /\ Go(<<>>, const.id)
    /\ UNCHANGED <<todo, failed, ops, open, cur, Client>>

Variable ==
    /\ Building("expr") /\ Top.e[1] = "var"
    /\ Checked({cur}, Same /\ Go(<<GetFrame(cur, find_var(Top.e[2]))>>, ret)
                      /\ UNCHANGED <<open, cur>>)
    /\ UNCHANGED Client

Binary ==
    /\ Building("expr") /\ Top.e[1] \in Operators
    /\ Go(<<ExprFrame(Top.e[2]), [op |-> "operand", e |-> Top.e]>>, ret)
    /\ Same /\ UNCHANGED <<open, cur, Client>>

BinaryLeft ==
    /\ Building("operand")
    /\ Go(<<ExprFrame(Top.e[3]), [op |-> "binary", kind |-> Top.e[1], left |-> ret]>>, ret)
    /\ Same /\ UNCHANGED <<open, cur, Client>>

AddBinOp ==
    /\ Building("binary")
    /\ Checked({Top.left, ret},
           LET bin == AddRaw(g, Top.kind, <<Top.left, ret>>)
           IN  /\ g' = bin.graph /\ Go(<<>>, bin.id)
               /\ UNCHANGED <<todo, failed, ops, open, cur>>)
    /\ UNCHANGED Client

-----------------------------------------------------------------------------
(* statement *)

Stmt == prog[pc]

(* The statement begins with the calls `frames', once the wrapper has       *)
(* checked `nodes'.                                                         *)
Begin(keywords, nodes, frames) ==
    /\ Idle /\ work = <<>> /\ pc =< Len(prog)
    /\ Stmt[1] \in keywords
    /\ pc' = pc + 1
    /\ Checked(nodes, Same /\ work' = frames /\ UNCHANGED <<ret, open>>)
    /\ UNCHANGED <<prog, slots>>

Let == Begin({"let"}, {}, <<ExprFrame(Stmt[3]), [op |-> "let", name |-> Stmt[2]]>>) /\ UNCHANGED cur

PushScopeValue ==
    /\ Building("let")
    /\ Checked({cur, ret}, g' = Connected(g, cur, ret) /\ Go(<<>>, ret)
                           /\ UNCHANGED <<todo, failed, ops, open, cur>>)
    /\ slots' = slots @@ (Top.name :> Len(g.inps[cur]) + 1)
    /\ UNCHANGED <<prog, pc>>

Set == Begin({"set"}, {}, <<ExprFrame(Stmt[3]), [op |-> "assign", name |-> Stmt[2]]>>) /\ UNCHANGED cur

SetScopeValue ==
    /\ Building("assign")
    /\ Checked({cur, ret}, Same /\ Go(SetFrames(cur, find_var(Top.name), ret), ret)
                           /\ UNCHANGED <<open, cur>>)
    /\ UNCHANGED Client

If == Begin({"if"}, {}, <<ExprFrame(Stmt[2]), [op |-> "start_if"]>>) /\ UNCHANGED cur

StartIfCall ==
    /\ Building("start_if")
    /\ Checked({cur, ret}, StartIf(ret) /\ Go(<<>>, ret))
    /\ UNCHANGED Client

Loop == Begin({"loop"}, {cur}, <<[op |-> "start_loop", label |-> Stmt[2]]>>) /\ UNCHANGED cur

(* The closing brace ends the innermost statement that is open. *)
Close ==
    /\ Begin({"end"}, {cur}, <<[op |-> IF Last(open).is = "if" THEN "end_if" ELSE "end_loop"]>>)
    /\ UNCHANGED cur

(* rfind: the innermost loop, or the innermost with that label. *)
Target(label) ==
    CHOOSE k \in DOMAIN open :
        /\ open[k].is = "loop" /\ (label = "" \/ open[k].label = label)
        /\ \A j \in k + 1 .. Len(open) :
              open[j].is = "loop" => label # "" /\ open[j].label # label

Jump ==
    /\ Begin({"break", "continue"}, {cur}, <<ControlFrame(Stmt[1], cur, Target(Stmt[2]))>>)
    /\ cur' = 0

Return == Begin({"return"}, {}, <<ExprFrame(Stmt[2]), [op |-> "return"]>>) /\ UNCHANGED cur

(* find_node(Mem, entry) *)
InitialMemory == CHOOSE n \in Ids : g.kind[n] = "mem"

ReturnCall ==
    /\ Building("return")
    /\ LET control == g.inps[cur][1]
           args == <<control, InitialMemory, ret>>
       IN  Checked(Range(args) \cup {cur},
               /\ Same /\ UNCHANGED open
               /\ cur' = 0
               /\ Go(<<[op |-> "merge_return", args |-> args],
                       [op |-> "delete_scope", scope |-> cur]>>, ret))
    /\ UNCHANGED Client

CompilerStep ==
    \/ Number \/ Variable \/ Binary \/ BinaryLeft \/ AddBinOp
    \/ Let \/ PushScopeValue \/ Set \/ SetScopeValue \/ If \/ StartIfCall
    \/ Loop \/ Close \/ Jump \/ Return \/ ReturnCall

Finished == Idle /\ work = <<>> /\ pc > Len(prog)

Stopped == Finished \/ failed # "none"

CompilerStopped == Stopped /\ UNCHANGED compilerVars

CompilerNext ==
    \/ /\ \/ CompilerStep
          \/ BuilderStep /\ UNCHANGED Client
          \/ Run /\ UNCHANGED <<builderVars, Client>>
       /\ compilerVars' # compilerVars
    \/ CompilerStopped

(* The compiler is one thread that nothing blocks: it goes on until it has  *)
(* stopped.  Some step is enabled until then (else there is a deadlock), so *)
(* this is weak fairness of CompilerNext.                                   *)
CompilerFair == []<>Stopped \/ []<><<CompilerNext>>_compilerVars

CompilerSpec == CompilerInit /\ [][CompilerNext]_compilerVars /\ CompilerFair

=============================================================================
