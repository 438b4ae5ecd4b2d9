---------------------------- MODULE MCDetection ----------------------------
(***************************************************************************)
(* Two rules on disk, the first of which fires at its second match; two    *)
(* dry runs, each of an edit of that rule or of a draft that raises; three *)
(* events and a window of one tick.                                        *)
(***************************************************************************)
EXTENDS Detection

CONSTANTS r1, r2, edit, bad, d1, d2

MCDryRuns == {d1, d2}
Symmetry == Permutations(MCDryRuns)

MCDisk == <<r1, r2>>
MCDrafts == {edit, bad}
MCName == [r \in {r1, r2, edit, bad} |->
             CASE r \in {r1, edit} -> "one" [] r = r2 -> "two" [] r = bad -> "bad"]
MCThreshold == [r \in {r1, r2, edit, bad} |-> IF r = r1 THEN 2 ELSE 1]
=============================================================================
