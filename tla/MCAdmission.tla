------------------------------ MODULE MCAdmission ------------------------------
(***************************************************************************)
(* Admission with a few requests: a submission, its copy, one that reuses  *)
(* its key for something else, and a caller who cancels.  Each cfg takes   *)
(* the requests its question needs.                                        *)
(***************************************************************************)
EXTENDS Admission

MCOp == [q \in Requests |-> IF q = "cancel" THEN q ELSE "submit"]

MCRunOf == [q \in Requests |-> "runA"]

MCDigestOf == [q \in Requests |-> IF q = "other" THEN "changed" ELSE "original"]

MCSessionOf == [q \in Requests |-> "sessionA"]
=============================================================================
