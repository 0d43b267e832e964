----------------------------- MODULE MCArnaHeap -----------------------------
(* Values for ArnaHeap: a page of 2 units, a commit step of a page.              *)
EXTENDS ArnaHeap

MCSizes == {0, 1, 3}
MCAligns == {1, 2}
MCReservations == {6, 8}
=============================================================================
