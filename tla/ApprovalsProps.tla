-------------------------- MODULE ApprovalsProps --------------------------
(* What the approval path of Approvals promises. *)
EXTENDS Approvals

\* What a waiting call is told was decided of its own request, whatever was on the
\* screen and whichever modal the key press hit (gate.resolve(), app.answered()).
AnsweredForItself ==
  \A c \in Calls : reason[c] = "answer" => <<c, outcome[c]>> \in said

\* A decision made on a request from the loaded session lets through at most one call,
\* the same one, and is what somebody decided (gate._carried, R-C-9).
CarriedOnce ==
  \A k \in {Key[c] : c \in Requests} :
    LET used == {c \in Calls : reason[c] = "carried" /\ Key[c] = k}
        of == {r \in Saved : Key[r] = k}
    IN  /\ Cardinality(used) <= Cardinality(of)
        /\ \A c \in used : \E r \in of : <<r, outcome[c]>> \in said

\* A request somebody waits for is put in front of the human and, once answered, gets
\* back to its call: no modal is forgotten behind another one, none is skipped when
\* the line is drained, nothing waits on everything (app._drain_approval_queue()).
\* Not those the app hears of before their handler notes them, while emit() waits for
\* another subscriber: the line is drained of what the handler does not know.  Nor those
\* of a run left with ctrl+o: no answer reaches its gate any more, and nobody cancels it.
RequestsSettle ==
  \A c \in Calls : InCheck(c) ~> (task[c] = "over" \/ c \in early \/ c \in left)
=============================================================================
