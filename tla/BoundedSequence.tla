--------------------------- MODULE BoundedSequence ---------------------------
(***************************************************************************)
(* What a fixed-capacity array promises its client: it is a sequence of at *)
(* most Capacity values.  A call that cannot be carried out answers Panic  *)
(* and changes nothing.                                                    *)
(***************************************************************************)
EXTENDS Integers, Sequences

CONSTANTS Capacity, \* how many values fit
          Value,    \* the values
          Arrays,   \* the sequences it may be made from
          None,     \* the answer of a call that returns nothing
          Panic     \* the answer of a call that panics

VARIABLES seq, \* the values
          out  \* what the last call answered

Init == seq = <<>> /\ out = None

Push(v) ==
    IF Len(seq) < Capacity THEN seq' = Append(seq, v) /\ out' = None
                           ELSE UNCHANGED seq /\ out' = Panic

Pop ==
    IF seq = <<>> THEN UNCHANGED seq /\ out' = None
    ELSE seq' = SubSeq(seq, 1, Len(seq) - 1) /\ out' = seq[Len(seq)]

Clear == seq' = <<>> /\ out' = None

From(values) ==
    IF Len(values) =< Capacity THEN seq' = values /\ out' = None
                               ELSE UNCHANGED seq /\ out' = Panic

Write(i, v) == seq' = [seq EXCEPT ![i] = v] /\ out' = None

Next ==
    \/ \E v \in Value : Push(v)
    \/ Pop
    \/ Clear
    \/ \E values \in Arrays : From(values)
    \/ \E i \in 1 .. Len(seq), v \in Value : Write(i, v)

Spec == Init /\ [][Next]_<<seq, out>>
=============================================================================
