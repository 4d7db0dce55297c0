---------------------------- MODULE MCJobPipeline ----------------------------
(***************************************************************************)
(* Instances of JobPipeline for TLC.                                       *)
(***************************************************************************)
EXTENDS JobPipeline

CONSTANTS p1, p2, e1, e2

OnePool == {p1}
TwoPools == {p1, p2}
OneEnonce == {e1}
TwoEnonces == {e1, e2}
=============================================================================
