----------------------------- MODULE MCCompiler -----------------------------
(* Values for CompilerMeaning. *)
EXTENDS CompilerMeaning

MCConsts == [i \in 1 .. 31 |-> ToString(i - 1)]

ControlKinds == {"entry", "if", "then", "else", "region", "loop"}
MCSinks == {"scope", "done", "end"}
MCInterned == Operators \cup Range(MCConsts) \cup {"phi"}
MCKinds == ControlKinds \cup MCSinks \cup MCInterned \cup {"mem", "return", "lazy"}
MCArgs == [k \in MCKinds |-> <<>>]
MCPhiOf == [lazy |-> "phi"]
MCHash(k, ins) == <<k, ins>>

N(n) == <<"num", n>>
V(x) == <<"var", x>>

(* PROGRAM of compiler.rs, which its main expects to return 30. *)
Example ==
    << <<"let", "i", N(0)>>, <<"let", "j", N(0)>>, <<"let", "total", N(0)>>,
       <<"loop", "outer">>,
         <<"set", "i", <<"add", V("i"), N(1)>> >>,
         <<"set", "j", N(0)>>,
         <<"loop", "">>,
           <<"set", "j", <<"add", V("j"), N(1)>> >>,
           <<"if", <<"eq", V("i"), N(5)>> >>, <<"break", "outer">>, <<"end">>,
           <<"if", <<"eq", V("j"), N(3)>> >>, <<"continue", "outer">>, <<"end">>,
           <<"set", "total", <<"add", V("total"), <<"mul", V("i"), V("j")>> >> >>,
         <<"end">>,
       <<"end">>,
       <<"return", V("total")>> >>

ASSUME ExampleResult == SourceResult(Example) = 30

Increment(x) == <<"set", x, <<"add", V(x), N(1)>> >>

(* A variable of the loop's body, which the loop's scope does not have. *)
Local ==
    << <<"let", "x", N(0)>>,
       <<"loop", "">>,
         <<"let", "t", <<"add", V("x"), N(1)>> >>,
         <<"set", "x", V("t")>>,
         <<"if", <<"lt", N(2), V("t")>> >>, <<"break", "">>, <<"end">>,
       <<"end">>,
       <<"return", <<"sub", V("x"), N(1)>> >> >>

(* Three loops; y is read in the innermost one only, z nowhere. *)
Deep ==
    << <<"let", "x", N(0)>>, <<"let", "y", N(1)>>, <<"let", "z", N(7)>>,
       <<"loop", "a">>,
         <<"loop", "b">>,
           <<"loop", "c">>,
             Increment("x"),
             <<"if", <<"lt", V("y"), V("x")>> >>, <<"break", "c">>, <<"end">>,
             <<"if", <<"eq", V("x"), N(1)>> >>, <<"continue", "a">>, <<"end">>,
           <<"end">>,
           <<"if", <<"lt", N(2), V("x")>> >>, <<"break", "b">>, <<"end">>,
         <<"end">>,
         <<"if", <<"eq", V("y"), N(2)>> >>, <<"break", "a">>, <<"end">>,
         Increment("y"),
       <<"end">>,
       <<"return", <<"mul", V("z"), V("x")>> >> >>

ASSUME OtherResults == SourceResult(Local) = 2 /\ SourceResult(Deep) = 28

(* Every program that is one branch or loop of `Size' statements over two   *)
(* variables, with loops two deep, and a return.  Label(d) is the d-th loop *)
(* around a statement.                                                      *)
CONSTANT Size

Label(d) == <<"a", "b">>[d]

Simple == {Increment("x"), <<"set", "y", <<"add", V("y"), V("x")>> >>}
Cond == <<"eq", V("x"), N(2)>>

Jumps(d) == {<<"return", V("x")>>} \cup ({"break", "continue"} \X {Label(k) : k \in 1 .. d})

Nested(opener, body) == <<opener>> \o body \o << <<"end">> >>

Breaks(body, d) == Contains(body, <<"break", Label(d)>>)

(* The blocks of n statements inside d loops whose end is reached, and      *)
(* those whose end is not.                                                  *)
RECURSIVE Falls(_, _), Ends(_, _)

(* The bodies of the loops: an inner loop has a path back to its start. *)
Bodies(n, d) ==
    IF d > 2 THEN {}
    ELSE {b \in Falls(n, d) \cup Ends(n, d) :
             d = 1 \/ b \in Falls(n, d) \/ Contains(b, <<"continue", Label(d)>>)}

Loops(n, d) == {Nested(<<"loop", Label(d)>>, b) : b \in Bodies(n, d)}

Exits(loop, d) == Contains(loop, <<"break", Label(d)>>)

(* One statement of size k + 1 that control comes out of. *)
Leading(k, d) ==
    IF k = 0 THEN {<<s>> : s \in Simple}
    ELSE {Nested(<<"if", Cond>>, b) : b \in Falls(k, d) \cup Ends(k, d)}
         \cup {l \in Loops(k, d + 1) : Exits(l, d + 1)}

Falls(n, d) ==
    IF n = 0 THEN {<<>>}
    ELSE UNION {{f \o r : f \in Leading(k, d), r \in Falls(n - 1 - k, d)} : k \in 0 .. n - 1}

Ends(n, d) ==
    IF n = 0 THEN {}
    ELSE UNION {{f \o r : f \in Leading(k, d), r \in Ends(n - 1 - k, d)} : k \in 0 .. n - 1}
         \cup {l \in Loops(n - 1, d + 1) : ~ Exits(l, d + 1)}
         \cup (IF n = 1 THEN {<<j>> : j \in Jumps(d)} ELSE {})

Declared(body) == << <<"let", "x", N(0)>>, <<"let", "y", N(1)>> >> \o body

MCPrograms ==
    {Example, Local, Deep}
    \cup {Declared(Append(f, <<"return", V("y")>>)) : f \in Leading(Size - 1, 0)}
    \cup {Declared(l) : l \in {b \in Loops(Size - 1, 1) : ~ Exits(b, 1)}}

(* The inner loop has no path back: its Loop node is subsumed by the outer  *)
(* one, and its scope now looks like the scope of the outer loop.           *)
Unlooped ==
    << <<"let", "x", N(0)>>,
       <<"loop", "a">>,
         Increment("x"),
         <<"loop", "b">>, <<"break", "a">>, <<"end">>,
       <<"end">>,
       <<"return", V("x")>> >>

UnloopedPrograms == {Unlooped}
=============================================================================
