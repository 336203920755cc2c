----------------------------- MODULE Transcript -----------------------------
(***************************************************************************)
(* An agent's transcript: the invariant every provider insists on          *)
(* (azalabscode/messages.py) and the only code that may append a result    *)
(* (azalabscode/workflows/transcript.py, azalabscode/control/resume.py).   *)
(*                                                                         *)
(* A call is a record [id, tool]; a message carries calls, one result, or  *)
(* a user's text, of which only the identity matters.                      *)
(***************************************************************************)
EXTENDS Naturals, Sequences, FiniteSets, SequencesExt

Assistant(calls) == [role |-> "assistant", calls |-> calls]
Result(id, r) == [role |-> "result", call |-> id, result |-> r]
UserText(t) == [role |-> "user", text |-> t]

Ids(calls) == [i \in DOMAIN calls |-> calls[i].id]

\* The members of the sequence s at the places P, in order (a function, not SelectSeq,
\* so that proofs can unfold it).
Picked(s, P) ==
  LET upto[n \in 0..Len(s)] ==
        IF n = 0 THEN <<>> ELSE IF n \in P THEN Append(upto[n - 1], s[n]) ELSE upto[n - 1]
  IN  upto[Len(s)]

\* Every call a transcript asks for, and every call it answers, in order.
Requested(ms) ==
  LET upto[n \in 0..Len(ms)] ==
        IF n = 0 THEN <<>>
        ELSE IF ms[n].role = "assistant" THEN upto[n - 1] \o ms[n].calls ELSE upto[n - 1]
  IN  upto[Len(ms)]
Answered(ms) ==
  LET results == SelectSeq(ms, LAMBDA m : m.role = "result")
  IN  [i \in DOMAIN results |-> results[i].call]
UserTexts(ms) ==
  LET users == Picked(ms, {n \in DOMAIN ms : ms[n].role = "user"})
  IN  [i \in DOMAIN users |-> users[i].text]

\* open_call_ids(): the calls nobody answered, in call order.
OpenCalls(ms) ==
  LET asked == Requested(ms)
      answered == ToSet(Answered(ms))
  IN  Picked(asked, {n \in DOMAIN asked : asked[n].id \notin answered})
\* assert_transcript_valid(): no call id twice, the answers are the first of the
\* calls in call order, and each stands behind the message that made its call.
TranscriptOK(ms) ==
  LET ids == Ids(Requested(ms))
  IN  /\ Cardinality(ToSet(ids)) = Len(ids)
      /\ IsPrefix(Answered(ms), ids)
      /\ \A n \in DOMAIN ms : ms[n].role = "result" =>
           \E i \in 1..(n - 1) : /\ ms[i].role = "assistant"
                                /\ ms[n].call \in ToSet(Ids(ms[i].calls))

-----------------------------------------------------------------------------
\* Results kept by call id: a set of [call, result], one for a call at most.
Has(results, id) == \E r \in results : r.call = id
ResultOf(results, id, fill) ==
  IF Has(results, id) THEN (CHOOSE r \in results : r.call = id).result ELSE fill

\* TurnResults.record(): the first result for a call wins.
Record(results, id, r) ==
  IF Has(results, id) THEN results ELSE results \cup {[call |-> id, result |-> r]}

\* Mutation of FinalizeTurn: a call without a result is left out.
FinalizeFinished(ms, calls, results) ==
  LET done == Picked(calls, {n \in DOMAIN calls : Has(results, calls[n].id)})
  IN  ms \o [i \in DOMAIN done |-> Result(done[i].id, ResultOf(results, done[i].id, "cancelled"))]
\* finalize_turn(): the whole turn at once, in call order, holes filled.
FinalizeTurn(ms, calls, results) ==
  ms \o [i \in DOMAIN calls |-> Result(calls[i].id, ResultOf(results, calls[i].id, "cancelled"))]

\* _trailing_subset(): the deferred calls with no other open call behind them.
TrailingSubset(open, defer) ==
  {open[i].id : i \in {j \in DOMAIN open : \A k \in j..Len(open) : open[k].id \in defer}}

\* The open calls that get an answer now.
ToFill(open, defer) ==
  LET later == TrailingSubset(open, defer)
  IN  Picked(open, {n \in DOMAIN open : open[n].id \notin later})

\* Mutation of RepairTranscript: finished results are not looked up.
RepairWithoutPending(ms, pending, defer) ==
  LET filled == ToFill(OpenCalls(ms), defer)
  IN  ms \o [i \in DOMAIN filled |-> Result(filled[i].id, "interrupted")]
\* Mutation of RepairTranscript: the unfinished turn is dropped.
RepairByTruncation(ms, pending, defer) ==
  IF OpenCalls(ms) = <<>> THEN ms
  ELSE LET turns == {n \in DOMAIN ms : ms[n].role = "assistant"}
           last == CHOOSE n \in turns : \A k \in turns : k <= n
       IN  SubSeq(ms, 1, last - 1)
\* repair_transcript(): every open call but the deferred tail gets its finished
\* result, or the error that says its effect is unknown.
RepairTranscript(ms, pending, defer) ==
  LET filled == ToFill(OpenCalls(ms), defer)
  IN  ms \o [i \in DOMAIN filled |->
               Result(filled[i].id, ResultOf(pending, filled[i].id, "interrupted"))]

\* _resumable_delegate(): a delegate in flight is taken to be the last delegate
\* call still open; the arguments it carries always parse here.
ResumableCall(ms) ==
  LET open == OpenCalls(ms)
      delegates == Picked(open, {n \in DOMAIN open : open[n].tool = "delegate"})
  IN  IF delegates = <<>> THEN <<>> ELSE <<Last(delegates)>>
=============================================================================
