----------------------------- MODULE MCFanAgent -----------------------------
(***************************************************************************)
(* Thresholds scaled down to single degrees. Administrators ask for a      *)
(* lower pair, for a pair without the distance (which must be refused),    *)
(* for the maximum at all times, or for no control at all.                 *)
(***************************************************************************)
EXTENDS FanAgent

Policy(mode, on, off, enabled) ==
  [mode |-> mode, on |-> on, off |-> off, enabled |-> enabled]

MCDefault == Policy("auto", 5, 2, TRUE)

MCRequests ==
  {Policy("auto", 4, 1, TRUE), Policy("auto", 4, 3, TRUE),
   Policy("max", 5, 2, TRUE), Policy("auto", 5, 2, FALSE)}
=============================================================================
