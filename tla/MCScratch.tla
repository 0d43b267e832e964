------------------------------ MODULE MCScratch -----------------------------
(* Values for Scratch: a page of 2 units, a commit step of 2.               *)
EXTENDS Scratch

MCSizes == {1, 2}
MCAligns == {1, 2}
=============================================================================
