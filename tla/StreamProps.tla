----------------------------- MODULE StreamProps -----------------------------
(* What a model call of Stream promises. *)
EXTENDS Stream

Of(a, kind) == SelectSeq(sent[a], LAMBDA c : c.kind = kind)
Numbers(s) == [i \in DOMAIN s |-> s[i].n]
Text(a) == Numbers(Of(a, "text"))
Thought(a) == Numbers(Of(a, "thought"))
CallsOf(a) == {sent[a][i].slot : i \in {j \in DOMAIN sent[a] : sent[a][j].kind = "call"}}
Args(a, s) == Numbers(SelectSeq(sent[a], LAMBDA c : c.kind = "call" /\ c.slot = s /\ c.args))
Named(a, s) == \E i \in DOMAIN sent[a] : sent[a][i].kind = "call" /\ sent[a][i].slot = s /\ sent[a][i].id

\* The message of a call that completed: the fragments of its last attempt, slot by slot,
\* and of no other attempt (StreamAccumulator).
CompletedWhole ==
  result.how = "completed" =>
    /\ result.message.text = Text(attempt) /\ result.message.thought = Thought(attempt)
    /\ DOMAIN result.message.calls = CallsOf(attempt)
    /\ \A s \in CallsOf(attempt) :
         /\ result.message.calls[s].args = Args(attempt, s)
         /\ result.message.calls[s].id = "given" <=> Named(attempt, s)

\* An interrupted call leaves the text that came, and never a tool call: none of them
\* was dispatched.  An agent that is not to keep cancelled output has nothing left of it
\* (delta 15, AgentLoop._keep_cancelled, ModelCall.run).
CutKeepsTextOnly ==
  result.how = "cancelled" =>
    /\ DOMAIN result.message.calls = {}
    /\ result.message.text = IF caller = "discarding" THEN <<>> ELSE Text(attempt)
    /\ caller = "discarding" => result.message = NoMessage

\* A stream says once how it ended, and a caller that goes on with a message was told
\* that it finished, not that it failed (R-P-5, openrouter._iter_sse).
OneEnding ==
  /\ Len(SelectSeq(ends, LAMBDA e : e = "finish")) <= 1
  /\ "error" \in ToSet(ends) => Last(ends) = "error" /\ result.how # "completed"
  /\ result.how = "completed" => ends = <<"finish">>

\* What a caller goes on with is what the server sent it: all of an answer that ended,
\* the text of one that was cut if it is kept, nothing of the attempts that failed before.
ResultIsWhatWasSent == CompletedWhole /\ CutKeepsTextOnly /\ OneEnding

\* The pane of a call shows what its server sent, or the end of it, whatever was
\* retried meanwhile and whenever it was painted (StreamPane bound to a call_id).
CallPaneShowsCall ==
  \A a \in 1..attempt :
    /\ LastOf(panes[a].text \o panes[a].queue) = LastOf(Text(a))
    /\ panes[a].thought \o panes[a].thoughts = Thought(a)

\* Once a response was paid for, the same attempt posts no other request: what failed
\* after its first byte is the caller's to retry (openrouter._open_stream_with_retries).
PaidOnce ==
  [][(attempt' = attempt /\ at = "streaming") => at' # "opening" /\ tries' = tries]_vars
=============================================================================
