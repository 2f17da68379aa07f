---------------------------- MODULE MCPublisher ----------------------------
(* Instances of Publisher for TLC: who ticks, and what goes wrong.          *)
EXTENDS Publisher, TLC

Capture == {"capture"}
CaptureAndMain == {"capture", "main"}
CaptureAndCallback == {"capture", "callback"}

NoLoss == {}
TwoTokens == {1, 2}
OneToken == {1}
=============================================================================
