------------------------------- MODULE Stream -------------------------------
(***************************************************************************)
(* One model call of an agent, or of a ModelCall node: the provider opens  *)
(* a response and turns its chunks into events (providers/openrouter.py),  *)
(* the caller folds them into one message (providers/base.py) and tells    *)
(* the screen, which shows them in stream panes                            *)
(* (tui/widgets/stream_pane.py, transcript.py).  A response that fails     *)
(* before its first byte is asked for again by the provider; one that      *)
(* fails later is asked for again, whole, by the caller.                   *)
(*                                                                         *)
(* A fragment of text is the number of the chunk it came in.  The panes    *)
(* get the events of one publisher, in order (EventBus.PublisherOrder).    *)
(***************************************************************************)
EXTENDS Naturals, Sequences, FiniteSets, SequencesExt

CONSTANTS
  Attempts,   \* 1 + stream_error_retries (AgentSpec), 1 + retries (ModelCall)
  Opens,      \* OpenRouterProvider.max_attempts
  Slots,      \* the indices tool calls may have, numbers
  Retained,   \* StreamPane.max_retained_chars, in fragments
  MaxChunks   \* bound: chunks of all attempts together

ASSUME StreamAssumption ==
  /\ Attempts \in Nat \ {0} /\ Opens \in Nat \ {0} /\ Retained \in Nat \ {0}
  /\ Slots \subseteq Nat /\ MaxChunks \in Nat

VARIABLES
  caller,   \* "agent" (AgentLoop._model_step), "discarding" (the same, its AgentSpec has
            \* keep_cancelled_output off) or "node" (ModelCall.run)
  at,       \* "idle", "opening", "streaming"; "over"
  attempt,  \* of the caller's loop, from 1
  tries,    \* requests posted for this attempt
  paid,     \* responses whose first byte arrived, in all attempts
  open,     \* _iter_sse(): open_indices
  finished, \* _iter_sse(): a Finish was yielded
  acc,      \* StreamAccumulator of this attempt
  result,   \* "none"; "completed", "cancelled", "failed", and the message kept
  panes,    \* the pane of each attempt's call_id; pane 0 follows the agent
  sent,     \* history: the chunks the server sent, per attempt
  ends      \* history: the terminal events of this attempt's stream

wireVars == <<at, tries, paid, open, finished>>
vars == <<caller, attempt, wireVars, acc, result, panes, sent, ends>>

NoCall == [id |-> "minted", args |-> <<>>]
NewAcc == [text |-> <<>>, thought |-> <<>>, calls |-> [i \in {} |-> NoCall],
           finish |-> FALSE, error |-> FALSE]
NewPane == [text |-> <<>>, thought |-> <<>>, queue |-> <<>>, thoughts |-> <<>>,
            status |-> "", done |-> FALSE]
NoMessage == [text |-> <<>>, thought |-> <<>>, calls |-> [i \in {} |-> NoCall]]
Panes == 0..Attempts
Chunks == [kind : {"text", "thought"}, n : 1..MaxChunks]
            \cup [kind : {"call"}, n : 1..MaxChunks, slot : Slots, id : BOOLEAN, args : BOOLEAN]

Init ==
  /\ caller \in {"agent", "discarding", "node"}
  /\ at = "idle" /\ attempt = 0 /\ tries = 0 /\ paid = 0
  /\ open = {} /\ finished = FALSE /\ acc = NewAcc
  /\ result = [how |-> "none", message |-> NoMessage]
  /\ panes = [p \in Panes |-> NewPane]
  /\ sent = [a \in 1..Attempts |-> <<>>] /\ ends = <<>>

-----------------------------------------------------------------------------
(* Panes *)

\* Mutation of Hears: the pane of a call hears of every call.
HearsAll(p, a) == TRUE
\* _for_this_pane(): pane 0 is bound to the agent, the others to one call.
Hears(p, a) == p = 0 \/ p = a

LastOf(s) == SubSeq(s, IF Len(s) > Retained THEN Len(s) - Retained + 1 ELSE 1, Len(s))

\* _drain(): the buffer becomes content, of which the end is kept.
Painted(v) ==
  [v EXCEPT !.text = LastOf(@ \o v.queue), !.thought = @ \o v.thoughts,
            !.queue = <<>>, !.thoughts = <<>>]

\* _on_started()
Started(v, p) ==
  IF p = 0 /\ v.text # <<>> THEN NewPane ELSE [v EXCEPT !.done = FALSE, !.status = ""]

\* _on_delta(); a fragment of tool-call arguments is not shown.
Delta(v, c) ==
  CASE c.kind = "text" -> [v EXCEPT !.queue = Append(@, c.n)]
    [] c.kind = "thought" -> [v EXCEPT !.thoughts = Append(@, c.n)]
    [] OTHER -> v

\* _on_finished()
Closed(v, status) == [Painted(v) EXCEPT !.done = TRUE, !.status = status]

PanesDo(Op(_, _)) ==
  panes' = [p \in Panes |-> IF Hears(p, attempt) THEN Op(panes[p], p) ELSE panes[p]]

\* render(), when the compositor asks for the content.
Paint(p) ==
  /\ panes[p].queue # <<>> \/ panes[p].thoughts # <<>>
  /\ panes' = [panes EXCEPT ![p] = Painted(@)]
  /\ UNCHANGED <<caller, attempt, wireVars, acc, result, sent, ends>>

-----------------------------------------------------------------------------
(* The accumulator *)

\* Mutation of Folded: arguments go to the slot opened last.
FoldedLast(s, c) ==
  LET slot == IF c.kind # "call" THEN 0
              ELSE IF c.id \/ DOMAIN s.calls = {} THEN c.slot
              ELSE CHOOSE i \in DOMAIN s.calls : \A j \in DOMAIN s.calls : j <= i
      have == IF c.kind = "call" /\ slot \in DOMAIN s.calls THEN s.calls[slot] ELSE NoCall
      call == [id |-> IF c.id THEN "given" ELSE have.id,
               args |-> IF c.args THEN Append(have.args, c.n) ELSE have.args]
  IN  CASE c.kind = "text" -> [s EXCEPT !.text = Append(@, c.n)]
        [] c.kind = "thought" -> [s EXCEPT !.thought = Append(@, c.n)]
        [] OTHER -> [s EXCEPT !.calls =
             [i \in DOMAIN s.calls \cup {slot} |-> IF i = slot THEN call ELSE s.calls[i]]]
\* feed(): a fragment of text or of reasoning, or the header (whose id may come late)
\* and the arguments of the call in a slot.
Folded(s, c) ==
  LET have == IF c.kind = "call" /\ c.slot \in DOMAIN s.calls THEN s.calls[c.slot] ELSE NoCall
      call == [id |-> IF c.id THEN "given" ELSE have.id,
               args |-> IF c.args THEN Append(have.args, c.n) ELSE have.args]
  IN  CASE c.kind = "text" -> [s EXCEPT !.text = Append(@, c.n)]
        [] c.kind = "thought" -> [s EXCEPT !.thought = Append(@, c.n)]
        [] OTHER -> [s EXCEPT !.calls =
             [i \in DOMAIN s.calls \cup {c.slot} |-> IF i = c.slot THEN call ELSE s.calls[i]]]

\* message()
Message(s, dropCalls) ==
  [text |-> s.text, thought |-> s.thought,
   calls |-> IF dropCalls THEN NoMessage.calls ELSE s.calls]

\* has_only_tool_calls()
OnlyCalls(s) == DOMAIN s.calls # {} /\ s.text = <<>> /\ s.thought = <<>>

-----------------------------------------------------------------------------
(* The caller *)

\* The next attempt: a call_id and an accumulator of its own, ModelCallStarted.
Begin ==
  /\ at = "idle" /\ attempt < Attempts
  /\ attempt' = attempt + 1 /\ at' = "opening" /\ tries' = 0
  /\ acc' = NewAcc /\ open' = {} /\ finished' = FALSE /\ ends' = <<>>
  /\ panes' = [p \in Panes |-> IF Hears(p, attempt') THEN Started(panes[p], p) ELSE panes[p]]
  /\ UNCHANGED <<caller, paid, result, sent>>

\* The stream yielded a StreamError: ModelCallFailed, and another attempt or none.
Failed ==
  IF attempt < Attempts
  THEN at' = "idle" /\ UNCHANGED <<result, panes>>
  ELSE /\ at' = "over"
       /\ result' = [how |-> "failed", message |-> NoMessage]
       /\ PanesDo(LAMBDA v, p : Closed(v, "failed"))

\* The stream ended: the message, ModelCallCompleted.
Completed ==
  /\ at' = "over"
  /\ result' = [how |-> "completed", message |-> Message(acc, FALSE)]
  /\ PanesDo(LAMBDA v, p : Closed(v, "completed"))

\* What is left of a cancelled call: _keep_cancelled() of the agent drops the calls,
\* and everything when it is not to keep any or there was nothing else; ModelCall.run
\* returns the text.
Kept ==
  CASE caller = "node" -> [NoMessage EXCEPT !.text = acc.text]
    [] caller = "agent" /\ ~OnlyCalls(acc) -> Message(acc, TRUE)
    [] OTHER -> NoMessage

\* An interrupt cancels the step, whatever it waits for.
Interrupted ==
  /\ at \in {"opening", "streaming"} /\ at' = "over"
  /\ result' = [how |-> "cancelled", message |-> Kept]
  /\ PanesDo(LAMBDA v, p : Closed(v, "cancelled"))
  /\ UNCHANGED <<caller, attempt, tries, paid, open, finished, acc, sent, ends>>

-----------------------------------------------------------------------------
(* The provider *)

\* A request is posted; it is refused, or the connection fails, before any byte.  The
\* error decides whether another try makes sense, and there are only so many.
RefusedOpen ==
  /\ at = "opening" /\ tries < Opens /\ tries' = tries + 1
  /\ \/ tries' < Opens /\ UNCHANGED <<at, result, panes, ends, acc>>
     \/ Failed /\ ends' = Append(ends, "error") /\ acc' = [acc EXCEPT !.error = TRUE]
  /\ UNCHANGED <<caller, attempt, paid, open, finished, sent>>

Opened ==
  /\ at = "opening" /\ tries < Opens /\ tries' = tries + 1
  /\ at' = "streaming" /\ paid' = paid + 1
  /\ UNCHANGED <<caller, attempt, open, finished, acc, result, panes, sent, ends>>

SentSoFar == FoldFunction(LAMBDA chunks, n : Len(chunks) + n, 0, sent)

\* _events_from_chunk() of a fragment, folded and emitted.
Chunk(c) ==
  /\ at = "streaming" /\ c.n = SentSoFar + 1
  /\ sent' = [sent EXCEPT ![attempt] = Append(@, c)]
  /\ acc' = Folded(acc, c)
  /\ open' = IF c.kind = "call" THEN open \cup {c.slot} ELSE open
  /\ PanesDo(LAMBDA v, p : Delta(v, c))
  /\ UNCHANGED <<caller, attempt, at, tries, paid, finished, result, ends>>

\* A chunk with a finish_reason: its calls end, and one Finish is yielded however often
\* the server says so.
FinishChunk ==
  /\ at = "streaming"
  /\ open' = {} /\ finished' = TRUE
  /\ IF finished THEN UNCHANGED <<ends, acc>>
     ELSE ends' = Append(ends, "finish") /\ acc' = [acc EXCEPT !.finish = TRUE]
  /\ UNCHANGED <<caller, attempt, at, tries, paid, result, panes, sent>>

\* [DONE], or the body ends: the open calls end, a Finish is made up if none came.
EndOfStream ==
  /\ at = "streaming"
  /\ open' = {} /\ finished' = TRUE
  /\ IF finished THEN UNCHANGED <<ends, acc>>
     ELSE ends' = Append(ends, "finish") /\ acc' = [acc EXCEPT !.finish = TRUE]
  /\ Completed
  /\ UNCHANGED <<caller, attempt, tries, paid, sent>>

\* Mutation of Broken: a broken stream is asked for again by the provider.
BrokenReopens ==
  /\ at = "streaming" /\ at' = "opening" /\ tries < Opens
  /\ UNCHANGED <<caller, attempt, tries, paid, open, finished, acc, result, panes, sent, ends>>
\* The server reports an error in the stream, or the connection breaks: it is over.
Broken ==
  /\ at = "streaming"
  /\ Failed
  /\ ends' = Append(ends, "error") /\ acc' = [acc EXCEPT !.error = TRUE]
  /\ UNCHANGED <<caller, attempt, tries, paid, open, finished, sent>>

-----------------------------------------------------------------------------
\* The call is over and the panes are painted.
Rest == at = "over" /\ UNCHANGED vars

Next ==
  \/ Begin \/ RefusedOpen \/ Opened \/ \E c \in Chunks : Chunk(c)
  \/ FinishChunk \/ EndOfStream \/ Broken \/ Interrupted \/ Rest
  \/ \E p \in Panes : Paint(p)

Spec == Init /\ [][Next]_vars
=============================================================================
