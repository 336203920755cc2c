------------------------------ MODULE EventBus ------------------------------
(***************************************************************************)
(* The event bus (azalabscode/events.py): typed events fanned out to one   *)
(* bounded queue per subscriber.  A subscriber that falls behind has its   *)
(* text deltas merged into the tail of its queue, or dropped and counted;  *)
(* every other event waits for room and makes its publisher wait.          *)
(*                                                                         *)
(* One event loop: publish() runs without interruption until it meets a    *)
(* full queue, and so does get().  An event is one Python object shared by *)
(* all the queues it is in, so its text is a variable, not a value.        *)
(***************************************************************************)
EXTENDS Naturals, Sequences, FiniteSets, FiniteSetsExt, SequencesExt

CONSTANTS Publishers,  \* tasks that publish: each awaits one publish at a time
          Subs,        \* subscriptions, each of them used once
          Room,        \* Subscription._maxsize of each
          Early,       \* the subscriptions made before the run, in their order
          Screens,     \* subscriptions whose reading task is cancelled with them
          DeltaKinds,  \* the mergeable fields of a ModelDelta
          MaxEvents    \* bound: events published

ASSUME RoomAssumption == Room \in [Subs -> Nat \ {0}]
ASSUME KindsAssumption == "life" \notin DeltaKinds
ASSUME SubsAssumption == /\ Early \in Seq(Subs) /\ Screens \subseteq Subs
                         /\ \A i, j \in DOMAIN Early : Early[i] = Early[j] => i = j
                         /\ MaxEvents \in Nat

VARIABLES
  log,       \* the events published, by sequence number: [by, kind]
  body,      \* the text each event object holds now: sequence numbers of fragments
  attached,  \* EventBus._subs
  stopped,   \* EventBus._closed
  queue,     \* Subscription._items: [id, dropped], an EventsDropped has id 0
  missed,    \* Subscription._pending_dropped
  lost,      \* Subscription.dropped_total
  status,    \* "new", "open", "closed"; "left": its reader has ended
  post,      \* the publish() each task is in: the event, the subscribers it still
             \* has to reach, and whether it was woken from its wait for room
  seen,      \* what each reader was given: [id, dropped, text]
  audience,  \* history: the subscribers attached when each event was published
  cutShort   \* history: the events whose publish() was cancelled

busVars == <<log, body, attached, stopped>>
subVars == <<queue, missed, lost, status, seen>>
histVars == <<audience, cutShort>>
vars == <<busVars, subVars, post, histVars>>

Kinds == DeltaKinds \cup {"life"}
Idle == [event |-> 0, left |-> <<>>, woken |-> FALSE]
Item(n) == [id |-> n, dropped |-> 0]
Marker(k) == [id |-> 0, dropped |-> k]

Full(s) == Len(queue[s]) >= Room[s]
Closed(s) == status[s] \in {"closed", "left"}
IsDelta(e) == e.kind \in DeltaKinds

Init ==
  /\ log = <<>> /\ body = <<>> /\ attached = Early /\ stopped = FALSE
  /\ queue = [s \in Subs |-> <<>>]
  /\ missed = [s \in Subs |-> 0] /\ lost = [s \in Subs |-> 0]
  /\ status = [s \in Subs |-> IF s \in ToSet(Early) THEN "open" ELSE "new"]
  /\ seen = [s \in Subs |-> <<>>]
  /\ post = [p \in Publishers |-> Idle] /\ audience = <<>> /\ cutShort = {}

-----------------------------------------------------------------------------
(* Publishing *)

\* Mutation of Waits: a lifecycle event is treated like a delta.
NeverWaits(s, e) == FALSE
\* The condition on which publish() waits for room in s.
Waits(s, e) == ~IsDelta(e) /\ Full(s) /\ ~Closed(s) /\ ~stopped

\* Mutation of Merges: a delta merges with any delta, of any stream.
MergesAnything(s, e) ==
  /\ IsDelta(e) /\ queue[s] # <<>>
  /\ Last(queue[s]).id # 0 /\ IsDelta(log[Last(queue[s]).id])
\* _try_coalesce(): the tail is a delta of the same stream.
Merges(s, e) ==
  /\ IsDelta(e) /\ queue[s] # <<>>
  /\ Last(queue[s]).id # 0 /\ log[Last(queue[s]).id] = e

\* The subscribers of todo that a publish of e gets to before it has to wait.
Reached(todo, e) ==
  LET stops == {i \in DOMAIN todo : Waits(todo[i], e)}
  IN  IF stops = {} THEN Len(todo) ELSE Min(stops) - 1

\* _drop() in the subscriptions D.
Dropped(D) ==
  /\ missed' = [s \in Subs |-> IF s \in D THEN missed[s] + 1 ELSE missed[s]]
  /\ lost' = [s \in Subs |-> IF s \in D THEN lost[s] + 1 ELSE lost[s]]

\* The loop of publish() over todo, up to its end or its next wait.  The event n
\* is appended where there is room (Late: not to a subscription that closed while
\* it waited), merged into the tail it shares with other queues, or dropped.
Deliver(p, n, e, todo, Late) ==
  LET k == Reached(todo, e)
      at == {todo[i] : i \in 1..k}
      room == {s \in at : ~Full(s)} \ {s \in Late : Closed(s)}
      merged == {s \in at : Full(s) /\ Merges(s, e)}
  IN  /\ queue' = [s \in Subs |-> IF s \in room THEN Append(queue[s], Item(n)) ELSE queue[s]]
      /\ body' = [o \in 1..Len(log') |->
                    LET old == IF o = n /\ n > Len(log) THEN <<n>> ELSE body[o]
                        times == Cardinality({s \in merged : Last(queue[s]).id = o})
                    IN  old \o [i \in 1..times |-> n]]
      /\ Dropped({s \in at \ merged : Full(s) /\ IsDelta(e)})
      /\ post' = [post EXCEPT ![p] =
                    IF k = Len(todo) THEN Idle
                    ELSE [event |-> n, left |-> SubSeq(todo, k + 1, Len(todo)),
                          woken |-> FALSE]]

\* publish(): the event gets its number and goes round the subscribers.
Publish(p, kind) ==
  /\ ~stopped /\ post[p] = Idle /\ Len(log) < MaxEvents
  /\ log' = Append(log, [by |-> p, kind |-> kind])
  /\ audience' = Append(audience, {attached[i] : i \in DOMAIN attached})
  /\ Deliver(p, Len(log) + 1, [by |-> p, kind |-> kind], attached, {})
  /\ UNCHANGED <<attached, stopped, status, seen, cutShort>>

\* A publisher woken from its wait for room looks at the queue again.
Resume(p) ==
  /\ post[p].woken
  /\ UNCHANGED <<log, attached, stopped, status, seen, histVars>>
  /\ Deliver(p, post[p].event, log[post[p].event], post[p].left, {post[p].left[1]})

\* The step that publishes is cancelled while it waits for room: the subscribers it
\* has not reached never get the event.
Cancelled(p) ==
  /\ post[p] # Idle
  /\ post' = [post EXCEPT ![p] = Idle]
  /\ cutShort' = cutShort \cup {post[p].event}
  /\ UNCHANGED <<busVars, subVars, audience>>

\* Mutation of Wake: nobody is told of the room.
WakeNobody(S) == UNCHANGED post
\* _space.set() in the subscriptions S.
Wake(S) ==
  post' = [p \in Publishers |->
             IF post[p].left # <<>> /\ post[p].left[1] \in S
             THEN [post[p] EXCEPT !.woken = TRUE] ELSE post[p]]

-----------------------------------------------------------------------------
(* Subscribing and reading *)

Subscribe(s) ==
  /\ status[s] = "new"
  /\ status' = [status EXCEPT ![s] = "open"]
  /\ attached' = Append(attached, s)
  /\ UNCHANGED <<log, body, stopped, queue, missed, lost, post, seen, histVars>>

\* Mutation of Get: the count is cleared although the marker was not queued.
GetForgets(s) ==
  /\ status[s] \in {"open", "closed"} /\ queue[s] # <<>>
  /\ LET item == Head(queue[s])
     IN  seen' = [seen EXCEPT ![s] = Append(@,
               [id |-> item.id, dropped |-> item.dropped,
                text |-> IF item.id = 0 THEN <<>> ELSE body[item.id]])]
  /\ queue' = [queue EXCEPT ![s] = Tail(@)]
  /\ missed' = [missed EXCEPT ![s] = 0]
  /\ Wake({s})
  /\ UNCHANGED <<busVars, lost, status, histVars>>

\* get(): the oldest event, its text as it is now; what was dropped since the last
\* report is reported behind what is still queued.
Get(s) ==
  /\ status[s] \in {"open", "closed"} /\ queue[s] # <<>>
  /\ LET item == Head(queue[s])
         report == missed[s] > 0 /\ Len(Tail(queue[s])) < Room[s]
     IN  /\ seen' = [seen EXCEPT ![s] = Append(@,
               [id |-> item.id, dropped |-> item.dropped,
                text |-> IF item.id = 0 THEN <<>> ELSE body[item.id]])]
         /\ queue' = [queue EXCEPT ![s] =
               IF report THEN Append(Tail(@), Marker(missed[s])) ELSE Tail(@)]
         /\ missed' = [missed EXCEPT ![s] = IF report THEN 0 ELSE @]
  /\ Wake({s})
  /\ UNCHANGED <<busVars, lost, status, histVars>>

\* get() returns None: the subscription is closed and its backlog read.
ReaderEnds(s) ==
  /\ status[s] = "closed" /\ queue[s] = <<>>
  /\ status' = [status EXCEPT ![s] = "left"]
  /\ UNCHANGED <<busVars, queue, missed, lost, seen, post, histVars>>

\* unsubscribe().  A recorder then reads its backlog; the interface cancels the
\* task that reads.
Unsubscribe(s) ==
  /\ status[s] = "open"
  /\ status' = [status EXCEPT ![s] = IF s \in Screens THEN "left" ELSE "closed"]
  /\ attached' = RemoveFirst(attached, s)
  /\ Wake({s})
  /\ UNCHANGED <<log, body, stopped, queue, missed, lost, seen, histVars>>

\* EventBus.close()
Close ==
  /\ ~stopped /\ stopped' = TRUE
  /\ status' = [s \in Subs |-> IF status[s] = "open" THEN "closed" ELSE status[s]]
  /\ Wake({s \in Subs : status[s] = "open"})
  /\ UNCHANGED <<log, body, attached, queue, missed, lost, seen, histVars>>

-----------------------------------------------------------------------------
Reading == \E s \in Subs : Get(s) \/ ReaderEnds(s)
\* Everything is published and read, or the bus is closed: nothing has to happen.
Rest == /\ Len(log) = MaxEvents \/ stopped
        /\ \A p \in Publishers : post[p] = Idle
        /\ \A s \in Subs : queue[s] = <<>> \/ status[s] = "left"
        /\ UNCHANGED vars

Next ==
  \/ \E p \in Publishers : Resume(p) \/ Cancelled(p) \/ \E k \in Kinds : Publish(p, k)
  \/ Reading \/ Close \/ Rest
  \/ \E s \in Subs : Subscribe(s) \/ Unsubscribe(s)

Spec == Init /\ [][Next]_vars

(***************************************************************************)
(* Readers and publishers that can go on are tasks the loop runs.  Nobody  *)
(* has to publish, subscribe or close.                                     *)
(***************************************************************************)
FairSpec ==
  /\ Spec
  /\ \A p \in Publishers : WF_vars(Resume(p))
  /\ \A s \in Subs : WF_vars(Get(s))
=============================================================================
