---------------------------- MODULE MCApprovals ----------------------------
(* Values of the constants of Approvals for the model checker. *)
EXTENDS ApprovalsProps

CONSTANTS a, c, r1

MCCalls == {a, c}
\* Both calls repeat the one that was pending in the session.
MCKey == [x \in {a, c, r1} |-> "k1"]
=============================================================================
