---------------------------- MODULE MCPeepDriver -----------------------------
(* Programs for PeepDriver: the entry, which stands for the argument it      *)
(* defines, the two constants, three or four operations that are all used,   *)
(* the end.                                                                  *)
EXTENDS PeepDriver

MCKinds == {"entry", "zero", "one", "add", "select", "end"}
MCInterned == {"zero", "one", "add", "select"}
MCArgs == [k \in MCKinds |-> <<>>]
MCSinks == {"end"}
MCPhiOf == <<>>

KindNumber == [entry |-> 0, zero |-> 1, one |-> 2, add |-> 3, select |-> 4, end |-> 5]

(* A sum like the program's: it does not see the order of the inputs. *)
SumHash(k, ins) == (KindNumber[k] + FoldLeft(+, 0, ins)) % 7

Leaves == <<<<"entry", <<>>>>, <<"zero", <<>>>>, <<"one", <<>>>>>>

Ops(n) == {"add", "select"} \X ((1 .. n) \X (1 .. n))

(* Every node but the end is used, and no two are equal. *)
Wellformed(p) ==
    /\ \A i \in 4 .. Len(p) - 1 : \E j \in i + 1 .. Len(p) : i \in Range(p[j][2])
    /\ \A i, j \in 1 .. Len(p) : p[i] = p[j] => i = j

ThreeOps ==
    {p \in {Leaves \o <<a, b, c, <<"end", <<6>>>>>> : a \in Ops(3), b \in Ops(4), c \in Ops(5)} :
        Wellformed(p)}

(* Three additions under a select of two of them. *)
Adds(n) == {"add"} \X ((1 .. n) \X (1 .. n))

FourOps ==
    {p \in {Leaves \o <<a, b, c, <<"select", sel>>, <<"end", <<7>>>>>> :
                a \in Adds(3), b \in Adds(4), c \in Adds(5),
                sel \in {<<4, 6>>, <<5, 6>>}} : Wellformed(p)}

SmallPrograms == ThreeOps \cup FourOps
=============================================================================
