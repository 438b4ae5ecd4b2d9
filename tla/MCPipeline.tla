----------------------------- MODULE MCPipeline -----------------------------
(***************************************************************************)
(* Three events against a queue of one, so that two handlers block and     *)
(* compete for the room; two feed items against a feed queue of one; a     *)
(* budget of three broadcasts, so that the window is exhausted, overrun by *)
(* one and carried into; and a window of one tick.                         *)
(***************************************************************************)
EXTENDS Pipeline

CONSTANTS e1, e2, e3

MCEvents == {e1, e2, e3}
=============================================================================
