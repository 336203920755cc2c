----------------------------- MODULE Approvals -----------------------------
(***************************************************************************)
(* One approval, from the dispatcher's question to the human's key press   *)
(* and back: the permission gate (control/gate.py), the handlers that put  *)
(* its requests to a human (control/approval_handlers.py, tui/approval.py) *)
(* and the terminal application (tui/app.py), which shows one modal screen *)
(* at a time and learns of requests from the event stream.                 *)
(*                                                                         *)
(* Everything runs on one event loop; a step goes from one await that can  *)
(* suspend to the next.  What the run does about its own state while a     *)
(* request is pending is in RunControl.                                    *)
(***************************************************************************)
EXTENDS Naturals, Sequences, FiniteSets, SequencesExt

CONSTANTS
  Calls,        \* the gated tool calls the model makes, each with its request
  Subagents,    \* those of them a subagent makes
  Saved,        \* requests that were pending in the session ctrl+o opens
  Key,          \* _carry_key() of each: the tool and its parameters
  MaxSwitches,  \* bound: changes of permission mode
  None          \* no request

ASSUME CallsAssumption ==
  /\ Subagents \subseteq Calls /\ Calls \cap Saved = {} /\ None \notin Calls \cup Saved
  /\ Calls \cup Saved \subseteq DOMAIN Key /\ MaxSwitches \in Nat
  /\ IsFiniteSet(Saved)

VARIABLES
  handler,    \* "screen": TUIApprovalHandler; "prompt": it decides inside request()
  mode,       \* RuntimePermissionGate._mode
  pending,    \* ._pending
  restored,   \* ._restored_ids
  carried,    \* ._carried: pairs of a key and a decision
  task,       \* where the check() of each call is
  future,     \* the future of each request: "open", "allow", "deny"
  outcome,    \* what check() returned: "none", "allow", "deny", "cut" (cancelled)
  events,     \* the app's subscription: requests announced and resolved, in order
  known,      \* TUIApprovalHandler.pending
  modal,      \* HarnessApp._modal, the request it is for, or None
  line,       \* HarnessApp._queued_approvals
  screens,    \* the modal screens on the screen stack, the top one last
  answered,   \* results of dismissed screens, their callback not yet called
  workers,    \* resolve_approval() workers not yet run
  opened,     \* ctrl+o was used
  left,       \* calls of the run it left, in check() of the gate that run has
  switches,   \* changes of mode so far
  said,       \* history: what a human (or the switch to auto) decided of a request
  reason,     \* history: why check() decided as it did
  early       \* history: open requests the app heard of before their handler did

gateVars == <<mode, pending, restored, carried, task, future, outcome>>
screenVars == <<modal, line, screens, answered>>
vars == <<handler, gateVars, events, known, screenVars, workers, opened, left, switches,
          said, reason, early>>

Requests == Calls \cup Saved
Decisions == {"allow", "deny"}
Requested(c) == [kind |-> "requested", req |-> c]
Resolved(c) == [kind |-> "resolved", req |-> c]
\* "typed": the prompt has its answer; a screen's handler answers nothing itself.
InCheck(c) == task[c] \in {"requesting", "announcing", "waiting", "typed"}

Init ==
  /\ handler \in {"screen", "prompt"}
  /\ mode = "manual" /\ pending = {} /\ restored = {} /\ carried = {}
  /\ task = [c \in Calls |-> "new"] /\ future = [c \in Requests |-> "open"]
  /\ outcome = [c \in Calls |-> "none"] /\ reason = [c \in Calls |-> "none"]
  /\ events = <<>> /\ known = {} /\ modal = None /\ line = <<>>
  /\ screens = <<>> /\ answered = <<>> /\ workers = {}
  /\ opened = FALSE /\ left = {} /\ switches = 0 /\ said = {} /\ early = {}

-----------------------------------------------------------------------------
(* The modal screen.  [m |-> _modal, l |-> _queued_approvals, s |-> screen   *)
(* stack, a |-> callbacks to come] is what these steps work on.              *)

Now == [m |-> modal, l |-> line, s |-> screens, a |-> answered]
Becomes(v) == modal' = v.m /\ line' = v.l /\ screens' = v.s /\ answered' = v.a

\* push_screen(): the screen goes on top.
Pushed(v, c) == [v EXCEPT !.m = c, !.s = Append(@, c)]

\* Screen.dismiss() pops the top screen and has its callback called by the app's
\* message loop, later; it does nothing to a screen that is not on top.
DismissScreen(v, c, d) ==
  IF v.s # <<>> /\ Last(v.s) = c
  THEN [v EXCEPT !.s = Front(@), !.a = Append(@, [req |-> c, says |-> d])]
  ELSE v

\* on_approval_requested()
Shown(v, c) ==
  IF v.m = None THEN Pushed(v, c)
  ELSE IF c = v.m \/ c \in ToSet(v.l) THEN v
  ELSE [v EXCEPT !.l = Append(@, c)]

\* _drain_approval_queue(): the first request in the line that the handler knows.
Drained(v) ==
  LET alive == {i \in DOMAIN v.l : v.l[i] \in known}
      i == CHOOSE j \in alive : \A k \in alive : j <= k
  IN  IF alive = {} THEN [v EXCEPT !.l = <<>>]
      ELSE Pushed([v EXCEPT !.l = SubSeq(@, i + 1, Len(@))], v.l[i])

\* attach(): on_approval_requested() for each request of q, all of them new to the app.
AllShown(v, q) ==
  IF v.m = None /\ q # <<>>
  THEN [Pushed(v, Head(q)) EXCEPT !.l = @ \o Tail(q)]
  ELSE [v EXCEPT !.l = @ \o q]

\* _dismiss_modal() for the requests of C.
Without(q, C) == SelectSeq(q, LAMBDA c : c \notin C)
Withdrawn(v, C) ==
  LET w == [v EXCEPT !.l = Without(@, C)]
  IN  IF w.m \in C THEN DismissScreen([w EXCEPT !.m = None], w.m, "none") ELSE w

\* handler.cancel() for the requests of C.
Cancelled(C) ==
  IF handler = "screen"
  THEN known' = known \ C /\ Becomes(Withdrawn(Now, C))
  ELSE UNCHANGED <<known, screenVars>>

-----------------------------------------------------------------------------
(* The gate *)

Over(c, d, why) ==
  /\ task' = [task EXCEPT ![c] = "over"]
  /\ outcome' = [outcome EXCEPT ![c] = d]
  /\ reason' = [reason EXCEPT ![c] = why]
  /\ early' = early \ {c}

\* Mutation of UseCarried: the decision stays for the next call.
UseCarriedTwice(c) ==
  \E d \in Decisions :
    /\ task[c] = "new" /\ <<Key[c], d>> \in carried
    /\ carried' = carried
    /\ Over(c, d, "carried")
    /\ UNCHANGED <<handler, mode, pending, restored, future, events, known, screenVars,
                   workers, opened, left, switches, said>>
\* check(): the human already decided the same call after the session was loaded.
UseCarried(c) ==
  \E d \in Decisions :
    /\ task[c] = "new" /\ <<Key[c], d>> \in carried
    /\ carried' = carried \ {<<Key[c], d>>}
    /\ Over(c, d, "carried")
    /\ UNCHANGED <<handler, mode, pending, restored, future, events, known, screenVars,
                   workers, opened, left, switches, said>>

\* check(): no human is asked in auto mode, nor for a subagent.
DecideAlone(c) ==
  /\ task[c] = "new" /\ \A d \in Decisions : <<Key[c], d>> \notin carried
  /\ mode = "auto" \/ c \in Subagents
  /\ IF mode = "auto" THEN Over(c, "allow", "auto") ELSE Over(c, "deny", "policy")
  /\ UNCHANGED <<handler, mode, pending, restored, carried, future, events, known,
                 screenVars, workers, opened, left, switches, said>>

\* check(): the request is pending while on_request() takes its safe point.
Ask(c) ==
  /\ task[c] = "new" /\ \A d \in Decisions : <<Key[c], d>> \notin carried
  /\ mode = "manual" /\ c \notin Subagents
  /\ pending' = pending \cup {c}
  /\ task' = [task EXCEPT ![c] = "requesting"]
  /\ UNCHANGED <<handler, mode, restored, carried, future, outcome, events, known,
                 screenVars, workers, opened, left, early, switches, said, reason>>

\* handler.request(): the screen's handler notes it and defers.
Noted(c) == known' = IF handler = "screen" THEN known \cup {c} ELSE known

\* ApprovalRequested is emitted.  emit() returns at once unless some other subscriber
\* has no room; only then can the app hear of the request before the handler does.  The
\* app hears nothing of a run it left.
Announce(c) ==
  /\ task[c] = "requesting"
  /\ events' = IF handler = "screen" /\ c \notin left
               THEN Append(events, Requested(c)) ELSE events
  /\ \/ /\ task' = [task EXCEPT ![c] = "announcing"] /\ UNCHANGED known
     \/ task' = [task EXCEPT ![c] = "waiting"] /\ Noted(c)
  /\ UNCHANGED <<handler, mode, pending, restored, carried, future, outcome, screenVars,
                 workers, opened, left, early, switches, said, reason>>

PutToHandler(c) ==
  /\ task[c] = "announcing"
  /\ task' = [task EXCEPT ![c] = "waiting"] /\ Noted(c)
  /\ UNCHANGED <<handler, mode, pending, restored, carried, future, outcome, events,
                 screenVars, workers, opened, left, early, switches, said, reason>>

\* resolve() of the pending requests C: the future is set, the decision on a restored
\* request is kept for the call the model makes again, ApprovalResolved is emitted.
Settle(C, d) ==
  /\ pending' = pending \ C
  /\ future' = [c \in Requests |-> IF c \in C /\ future[c] = "open" THEN d ELSE future[c]]
  /\ restored' = restored \ C
  /\ LET keys == {Key[c] : c \in C \cap restored}
     IN  carried' = {kd \in carried : kd[1] \notin keys} \cup (keys \X {d})
  /\ events' = IF handler = "screen"
               THEN events \o SetToSeq({Resolved(c) : c \in C}) ELSE events

\* A prompt (StdinApprovalHandler, CallbackApprovalHandler) returns its decision from
\* request(), which nothing else ends; it comes to nothing when the request was settled
\* meanwhile.
PromptAnswers(c) ==
  /\ handler = "prompt" /\ task[c] = "waiting"
  /\ task' = [task EXCEPT ![c] = "typed"]
  /\ \E d \in Decisions :
       /\ said' = said \cup {<<c, d>>}
       /\ Settle({c} \cap pending, d)
  /\ UNCHANGED <<handler, mode, outcome, known, screenVars, workers, opened, left, early,
                 switches, reason>>

\* check() returns the decision its future holds, once the handler's request() is over.
Return(c) ==
  /\ task[c] = (IF handler = "prompt" THEN "typed" ELSE "waiting") /\ future[c] # "open"
  /\ Over(c, future[c], "answer")
  /\ UNCHANGED <<handler, mode, pending, restored, carried, future, events, known,
                 screenVars, workers, opened, left, switches, said>>

\* The call is cancelled.  Before handler.request() nothing takes the request back:
\* it stays pending with nobody waiting for it.
CutCall(c) ==
  /\ InCheck(c)
  /\ Over(c, "cut", "cut")
  /\ IF task[c] \in {"waiting", "typed"}
     THEN pending' = pending \ {c} /\ Cancelled({c})
     ELSE UNCHANGED <<pending, known, screenVars>>
  /\ UNCHANGED <<handler, mode, restored, carried, future, events, workers, opened, left,
                 switches, said>>

\* set_mode(); the switch to auto approves everything pending.
SwitchMode ==
  /\ switches < MaxSwitches /\ switches' = switches + 1
  /\ mode' = IF mode = "auto" THEN "manual" ELSE "auto"
  /\ IF mode = "manual"
     THEN said' = said \cup (pending \X {"allow"}) /\ Settle(pending, "allow")
     ELSE UNCHANGED <<pending, restored, carried, future, events, said>>
  /\ UNCHANGED <<handler, task, outcome, known, screenVars, workers, opened, left, early,
                 reason>>

\* Controller.cancel(): every request is withdrawn and every call of the run cancelled.
CancelRun ==
  LET cut == {c \in Calls \ left : task[c] # "over"}
  IN  /\ cut # {}
      /\ pending' = {}
      /\ Cancelled(pending \cup {c \in cut : task[c] \in {"waiting", "typed"}})
      /\ task' = [c \in Calls |-> IF c \in cut THEN "over" ELSE task[c]]
      /\ outcome' = [c \in Calls |-> IF c \in cut THEN "cut" ELSE outcome[c]]
      /\ reason' = [c \in Calls |-> IF c \in cut THEN "cut" ELSE reason[c]]
      /\ early' = early \ cut
      /\ UNCHANGED <<handler, mode, restored, carried, future, events, workers, opened, left,
                     switches, said>>

-----------------------------------------------------------------------------
(* The application *)

\* dispatch() of the next event.
Pump ==
  /\ events # <<>> /\ events' = Tail(events)
  /\ LET e == Head(events)
     IN  \/ /\ e.kind = "requested" /\ UNCHANGED known /\ Becomes(Shown(Now, e.req))
            /\ early' = IF task[e.req] = "announcing" THEN early \cup {e.req} ELSE early
         \/ /\ e.kind = "resolved" /\ known' = known \ {e.req} /\ Becomes(Withdrawn(Now, {e.req}))
            /\ UNCHANGED early
  /\ UNCHANGED <<handler, gateVars, workers, opened, left, switches, said, reason>>

\* y, n or escape on the screen that is on top.
Press(d) ==
  /\ screens # <<>>
  /\ said' = said \cup {<<Last(screens), d>>}
  /\ Becomes(DismissScreen(Now, Last(screens), d))
  /\ UNCHANGED <<handler, gateVars, events, known, workers, opened, left, early, switches,
                 reason>>

\* Mutation of Callback: the line is not drained.
CallbackOnly ==
  /\ answered # <<>>
  /\ LET r == Head(answered)
     IN  /\ workers' = IF r.says = "none" THEN workers ELSE workers \cup {<<r.req, r.says>>}
         /\ Becomes([Now EXCEPT !.m = None, !.a = Tail(@)])
  /\ UNCHANGED <<handler, gateVars, events, known, opened, left, early, switches, said,
                 reason>>
\* answered(): the callback of a dismissed screen.
Callback ==
  /\ answered # <<>>
  /\ LET r == Head(answered)
     IN  /\ workers' = IF r.says = "none" THEN workers ELSE workers \cup {<<r.req, r.says>>}
         /\ Becomes(Drained([Now EXCEPT !.m = None, !.a = Tail(@)]))
  /\ UNCHANGED <<handler, gateVars, events, known, opened, left, early, switches, said,
                 reason>>

\* Mutation of Work: the answer is given to the request of the modal on the screen now.
WorkOnScreen(w) ==
  /\ w \in workers /\ workers' = workers \ {w}
  /\ Settle({modal} \cap pending, w[2])
  /\ UNCHANGED <<handler, mode, task, outcome, known, screenVars, opened, left, early,
                 switches, said, reason>>
\* The worker sends the decision to the controller the app is attached to.
Work(w) ==
  /\ w \in workers /\ workers' = workers \ {w}
  /\ Settle({w[1]} \cap pending, w[2])
  /\ UNCHANGED <<handler, mode, task, outcome, known, screenVars, opened, left, early,
                 switches, said, reason>>

\* ctrl+o: the app attaches to a run loaded with some requests pending, whose model calls
\* tools anew.  Nothing ends the run it leaves: its calls in check() go on there, and so
\* do the handler, which is the same, and the screens.
Open(R, m) ==
  /\ handler = "screen" /\ ~opened /\ opened' = TRUE
  /\ mode' = m /\ pending' = R /\ restored' = R /\ carried' = {}
  /\ left' = {c \in Calls : InCheck(c)}
  /\ events' = <<>>
  /\ Becomes(AllShown(Now, SetToSeq(R)))
  /\ early' = {}
  /\ UNCHANGED <<handler, task, outcome, reason, future, known, workers, switches, said>>

-----------------------------------------------------------------------------
\* Every call is decided, or waits in a run nobody follows, and the screen is empty:
\* nothing has to happen.
Rest == /\ \A c \in Calls :
             task[c] = "over" \/ (c \in left /\ task[c] = "waiting" /\ future[c] = "open")
        /\ events = <<>> /\ screens = <<>> /\ answered = <<>> /\ workers = {}
        /\ UNCHANGED vars

GateStep(c) == Announce(c) \/ PutToHandler(c) \/ PromptAnswers(c) \/ Return(c)
AppStep == Pump \/ Callback \/ \E w \in Requests \X Decisions : Work(w)
Answers == \E d \in Decisions : Press(d)

Next ==
  \/ \E c \in Calls : UseCarried(c) \/ DecideAlone(c) \/ Ask(c) \/ GateStep(c) \/ CutCall(c)
  \/ SwitchMode \/ CancelRun \/ AppStep \/ Answers \/ Rest
  \/ \E R \in SUBSET Saved, m \in {"manual", "auto"} : Open(R, m)

Spec == Init /\ [][Next]_vars

(***************************************************************************)
(* The tasks that can go on do, and somebody answers what is on the        *)
(* screen or at the prompt.  Nobody has to switch modes, cut or cancel.    *)
(***************************************************************************)
FairSpec ==
  /\ Spec /\ WF_vars(AppStep) /\ WF_vars(Answers)
  /\ \A c \in Calls : WF_vars(GateStep(c))
=============================================================================
