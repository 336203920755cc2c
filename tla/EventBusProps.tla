--------------------------- MODULE EventBusProps ---------------------------
(***************************************************************************)
(* What the bus promises its subscribers (events.py, intent/spec.md 4.4    *)
(* and R-U-4), stated over EventBus.                                       *)
(***************************************************************************)
EXTENDS EventBus

\* The events s was given or has queued, and the fragments of text in them.
Held(s) == {seen[s][i].id : i \in DOMAIN seen[s]} \cup {queue[s][i].id : i \in DOMAIN queue[s]}
TextOf(s) ==
  UNION ({ToSet(seen[s][i].text) : i \in DOMAIN seen[s]}
         \cup {ToSet(body[queue[s][i].id]) : i \in {j \in DOMAIN queue[s] : queue[s][j].id # 0}})

\* The deltas published for s that it has not and will not get.
Losses(s) == {n \in DOMAIN log : IsDelta(log[n]) /\ s \in audience[n] /\ n \notin TextOf(s)}
Reports(items) ==
  LET upto[i \in 0..Len(items)] == IF i = 0 THEN 0 ELSE upto[i - 1] + items[i].dropped
  IN  upto[Len(items)]

\* "Lifecycle events are never dropped -- publishing blocks instead": a subscriber
\* that stays has, or will be given by a publisher that waits for it, every such
\* event published while it was attached, unless its publisher was cancelled.
LifecycleDelivered ==
  \A n \in DOMAIN log : ~IsDelta(log[n]) =>
    \A s \in audience[n] :
      \/ n \in Held(s) \/ Closed(s) \/ n \in cutShort
      \/ \E p \in Publishers : post[p].event = n /\ s \in ToSet(post[p].left)

\* No fragment is lost uncounted.
LossesCounted == \A s \in Subs : Cardinality(Losses(s)) <= lost[s]

\* Every loss counted is in one marker, or will be.
LossesInMarkers ==
  \A s \in Subs : Reports(seen[s]) + Reports(queue[s]) + missed[s] = lost[s]

\* A subscriber that has read all it has was told of all it lost.
CaughtUpIsTold == \A s \in Subs : queue[s] = <<>> => missed[s] = 0

\* A subscriber learns how much text it lost.
LossesReported == LossesCounted /\ LossesInMarkers /\ CaughtUpIsTold

\* Each publisher's events reach a subscriber in the order it published them, and
\* a delta carries the text of its own stream only (coalesce_key).
PublisherOrder ==
  \A s \in Subs : \A i, j \in DOMAIN seen[s] :
    LET a == seen[s][i].id
        b == seen[s][j].id
    IN  /\ i < j /\ a # 0 /\ b # 0 /\ log[a].by = log[b].by => a < b
        /\ a # 0 => \A n \in ToSet(seen[s][i].text) : log[n] = log[a]

\* What a subscriber reads is the run's stream: in order, and short of no more than it
\* is told.
StreamHolds == LossesReported /\ PublisherOrder

\* Nobody waits for room for ever: every publish() ends, so a lifecycle event gets
\* through to every subscriber that keeps reading, and its publisher gets on.
PublishersGetOn == \A p \in Publishers : []<>(post[p] = Idle)

=============================================================================
