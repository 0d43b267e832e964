----------------------------- MODULE MCBindings -----------------------------
(***************************************************************************)
(* Two procs in adjacent buffers, one Arena::new's and one the client's.   *)
(***************************************************************************)
EXTENDS Bindings, TLC

CONSTANTS o, b

MCBase == o :> 0 @@ b :> Cap
=============================================================================
