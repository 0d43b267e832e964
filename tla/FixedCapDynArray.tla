-------------------------- MODULE FixedCapDynArray --------------------------
(***************************************************************************)
(* The fixed-capacity array of bac/bindgen/rust/src/fixed_cap_dyn_array.rs *)
(* that the bindings share with the library by value: LEN cells that may   *)
(* be uninitialised, of which the first `len' hold values.                 *)
(***************************************************************************)
EXTENDS Integers, Sequences

CONSTANTS LEN,    \* the const parameter LEN
          Value,  \* the type T
          Arrays, \* the arrays it may be converted from
          Uninit, \* what MaybeUninit::uninit() holds
          None, Panic

ASSUME ArrayAssumption ==
    /\ LEN \in Nat
    /\ \A values \in Arrays : values \in Seq(Value)
    /\ Uninit \notin Value /\ None \notin Value /\ Panic \notin Value

VARIABLES data, \* the cells 0 .. LEN - 1
          len,  \* the field len
          out   \* what the last call answered

arrayVars == <<data, len, out>>

Cells == 0 .. LEN - 1

Empty == [i \in Cells |-> Uninit]

ArrayInit == data = Empty /\ len = 0 /\ out = None

(* Variant: the last cell is never used. *)
PushOneShort(v) ==
    IF len + 1 < LEN
    THEN data' = [data EXCEPT ![len] = v] /\ len' = len + 1 /\ out' = None
    ELSE UNCHANGED <<data, len>> /\ out' = Panic

push(v) ==
    IF len < LEN
    THEN data' = [data EXCEPT ![len] = v] /\ len' = len + 1 /\ out' = None
    ELSE UNCHANGED <<data, len>> /\ out' = Panic

pop ==
    IF len = 0 THEN UNCHANGED <<data, len>> /\ out' = None
    ELSE len' = len - 1 /\ out' = data[len - 1] /\ UNCHANGED data

clear == len' = 0 /\ out' = None /\ UNCHANGED data

(* From<[T; N]>: the cells past N are those of new(). *)
from(values) ==
    IF Len(values) =< LEN
    THEN /\ data' = [i \in Cells |-> IF i < Len(values) THEN values[i + 1] ELSE Uninit]
         /\ len' = Len(values) /\ out' = None
    ELSE UNCHANGED <<data, len>> /\ out' = Panic

(* An element of as_mut_slice is assigned. *)
write(i, v) ==
    /\ i < len
    /\ data' = [data EXCEPT ![i] = v]
    /\ UNCHANGED len /\ out' = None

ArrayStep ==
    \/ \E v \in Value : push(v)
    \/ pop
    \/ clear
    \/ \E values \in Arrays : from(values)
    \/ \E i \in Cells, v \in Value : write(i, v)

ArraySpec == ArrayInit /\ [][ArrayStep]_arrayVars

(* as_slice, the values a client sees. *)
as_slice == [i \in 1 .. len |-> data[i - 1]]

-----------------------------------------------------------------------------

(* The length is within the capacity, which len() asserts, and every cell   *)
(* below it was written: the slices and pop's assume_init read no           *)
(* uninitialised cell, however pushes, pops, clears and conversions follow  *)
(* each other.                                                              *)
Initialised ==
    /\ len \in 0 .. LEN
    /\ data \in [Cells -> Value \cup {Uninit}]
    /\ \A i \in Cells : i < len => data[i] \in Value

Abstract == INSTANCE BoundedSequence WITH Capacity <- LEN, seq <- as_slice

(* The array is a bounded sequence: the cells that clear and pop leave      *)
(* behind are never seen again (push, pop, clear, From, as_mut_slice).      *)
IsBoundedSequence == Abstract!Spec
=============================================================================
