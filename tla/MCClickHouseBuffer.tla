------------------------- MODULE MCClickHouseBuffer -------------------------
(***************************************************************************)
(* Batches of two rows, a cap of four and two survivors of a cut, with     *)
(* eight calls: long enough for a buffer to be filled, cut and filled      *)
(* again, with inserts failing before and after they write.                *)
(***************************************************************************)
EXTENDS ClickHouseBuffer
=============================================================================
