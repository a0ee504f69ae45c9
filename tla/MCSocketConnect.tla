-------------------------- MODULE MCSocketConnect --------------------------
(* Small instances of IOSocketConnect for TLC. *)
EXTENDS IOSocketConnect, TLC

CONSTANTS s1, s2, s3

MCSymmetry == Permutations(Sockets)

Request(d, b) == [dest |-> d, bind |-> b]

(* Every kind of destination and of address to bind to. *)
MCAllRequests ==
    {Request(d, b) : d \in Families \cup {"name"},
                     b \in {"A", "name", "none"}}

MCAnyHost == {"name", "A"}
MCNoHost == {}
=============================================================================
