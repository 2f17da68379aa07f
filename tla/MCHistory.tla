----------------------------- MODULE MCHistory -----------------------------
(* Instances of History for TLC.  The intervals are a few seconds, in the   *)
(* order they have in use: RESOLUTION (4) below CHECK_AFTER_N_SECS (120).   *)
EXTENDS History, TLC

CaptureAndMain == {"capture", "main"}
CaptureAndCallback == {"capture", "callback"}
OneLength == {1}
Symmetry == Permutations(Keys)
=============================================================================
