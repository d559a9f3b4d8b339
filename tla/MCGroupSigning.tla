--------------------------- MODULE MCGroupSigning ---------------------------
(***************************************************************************)
(* A group that finds itself in any order and loses a datagram; a group    *)
(* that has found itself, in which a tick or a datagram is out of turn.    *)
(***************************************************************************)
EXTENDS GroupSigning

Hasty == [missing |-> 0, disorder |-> 1, losses |-> 0]

MCHasty == {Hasty}

MCBounds == {[missing |-> 3, disorder |-> 0, losses |-> 1], Hasty}
=============================================================================
