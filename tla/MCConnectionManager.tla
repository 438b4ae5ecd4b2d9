------------------------- MODULE MCConnectionManager -------------------------
(***************************************************************************)
(* Two attempts of one user and one of another, two broadcasting tasks     *)
(* (the two pipeline workers) and a limit of one: the smallest instance in *)
(* which handshakes of a user overlap, broadcasts overlap each other and   *)
(* clients join and leave while they run.                                  *)
(***************************************************************************)
EXTENDS ConnectionManager

CONSTANTS s1, s2, s3, u1, u2

MCSockets == {s1, s2, s3}
MCUsers == {u1, u2}
MCOwner == [s \in MCSockets |-> IF s = s3 THEN u2 ELSE u1]
=============================================================================
