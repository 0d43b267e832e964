--------------------------- MODULE MCGpuDispatch ----------------------------
(* GpuDispatch on small instances. *)
EXTENDS GpuDispatch, TLC

CONSTANTS d1, d2, p1, b1

=============================================================================
