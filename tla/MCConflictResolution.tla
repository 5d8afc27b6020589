------------------------- MODULE MCConflictResolution -------------------------
(***************************************************************************)
(* Small instances of ConflictResolution for TLC.                          *)
(***************************************************************************)
EXTENDS ConflictResolution

\* The order of the times is not that of the digests, in which edit i precedes i + 1.
TwoTimes == <<1, 2>>
ThreeTimes == <<2, 3, 1>>
=============================================================================
