------------------------------ MODULE MCGraph -------------------------------
(* Values for Graph.  `op' stands for any pure operation.                   *)
EXTENDS Graph

(* A hash without collisions, and one with: unequal nodes share an entry's  *)
(* hash as they do under the 8-bit hash of the program.                     *)
PerfectHash(k, ins) == <<k, ins>>
SmallHash(k, ins) == IF ins = <<>> THEN 1 ELSE 1 + (ins[1] % 2)

(* Straight-line code: two constants, loads under a control node, a scope. *)
DagKinds == {"one", "two", "ctrl", "load", "scope"}
DagArgs == [k \in DagKinds |-> IF k = "load" THEN <<"ctrl", "value">> ELSE <<>>]
DagInterned == {"one", "two", "load"}
DagPhiOf == <<>>

(* A loop: lazy phis, phis, operations on them. *)
LoopKinds == {"one", "op", "lazy", "phi", "scope"}
LoopArgs == [one |-> <<>>, op |-> <<"value">>, lazy |-> <<"value">>,
             phi |-> <<>>, scope |-> <<>>]
LoopInterned == {"one", "op", "phi"}
LoopPhiOf == [lazy |-> "phi"]

MCCtrl == {"ctrl"}
MCSinks == {"scope"}
=============================================================================
