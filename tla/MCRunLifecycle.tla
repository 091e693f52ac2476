---------------------------- MODULE MCRunLifecycle ----------------------------
(***************************************************************************)
(* RunLifecycle with a few Runs of one Session.                            *)
(***************************************************************************)
EXTENDS RunLifecycle, TLC

\* Nothing tells one Run id from another.
RunSymmetry == Permutations(Runs)
=============================================================================
