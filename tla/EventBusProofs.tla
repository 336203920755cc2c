---------------------------- MODULE EventBusProofs ----------------------------
(***************************************************************************)
(* For any publishers, subscribers, room in the queues and number of       *)
(* events: no lifecycle event is dropped, and a subscriber is given each   *)
(* publisher's events in their order and is told of all the text it lost.  *)
(***************************************************************************)
EXTENDS EventBusProps, FiniteSetTheorems, WellFoundedInduction, TLAPS

\* The subscriptions that were used.
Known == {s \in Subs : status[s] # "new"}

BusTypes ==
  /\ log \in Seq([by : Publishers, kind : Kinds])
  /\ audience \in Seq(SUBSET Known) /\ Len(audience) = Len(log)
  /\ attached \in Seq(Known) /\ stopped \in BOOLEAN
  /\ status \in [Subs -> {"new", "open", "closed", "left"}]
  /\ missed \in [Subs -> Nat]
  /\ queue \in [Subs -> Seq([id : Nat, dropped : Nat])]
  /\ DOMAIN seen = Subs /\ \A s \in Subs : seen[s] \in Seq(ToSet(seen[s]))
  /\ post \in [Publishers -> [event : Nat, left : Seq(Known), woken : BOOLEAN]]
  /\ \A p \in Publishers : post[p].woken \/ post[p].left # <<>> => post[p].event \in DOMAIN log

\* close() leaves nobody open who was there when an event was published.
StoppedForAll ==
  stopped => \A n \in DOMAIN log : \A s \in audience[n] : Closed(s)

DeliveryInv == StoppedForAll /\ LifecycleDelivered

-----------------------------------------------------------------------------
(* Sequences *)

LEMMA NatMin ==
  ASSUME NEW T, T \subseteq Nat, T # {}
  PROVE  Min(T) \in T /\ \A y \in T : Min(T) <= y
  <1> DEFINE R == OpToRel(<, Nat)
  <1>1. IsWellFoundedOn(R, Nat) BY NatLessThanWellFounded
  <1>2. \A x, y \in Nat : x < y => <<x, y>> \in R BY DEF OpToRel
  <1> HIDE DEF R
  <1>3. PICK x \in T : \A y \in T : ~ (<<y, x>> \in R) BY <1>1, WFMin
  <1>4. \A y \in T : ~(y < x) BY <1>2, <1>3
  <1>5. \A y \in T : x <= y BY <1>4
  <1> QED BY <1>5 DEF Min

LEMMA SeqOfElements ==
  ASSUME NEW S, NEW q \in Seq(S)
  PROVE  q \in Seq(ToSet(q))
  <1>1. q = [i \in 1..Len(q) |-> q[i]] /\ Len(q) \in Nat /\ DOMAIN q = 1..Len(q) OBVIOUS
  <1>2. \A i \in 1..Len(q) : q[i] \in ToSet(q) BY <1>1 DEF ToSet
  <1> QED BY <1>1, <1>2

LEMMA LongerIsSeq ==
  ASSUME NEW q, q \in Seq(ToSet(q)), NEW e
  PROVE  Append(q, e) \in Seq(ToSet(Append(q, e))) /\ ToSet(Append(q, e)) = ToSet(q) \cup {e}
  <1>1. q \in Seq(ToSet(q) \cup {e}) BY DEF ToSet
  <1>2. ToSet(Append(q, e)) = ToSet(q) \cup {e}
    <2>1. /\ DOMAIN q = 1..Len(q) /\ Len(q) \in Nat
          /\ DOMAIN Append(q, e) = 1..(Len(q) + 1)
      BY <1>1
    <2>2. \A i \in 1..Len(q) : Append(q, e)[i] = q[i] BY <1>1
    <2>3. Append(q, e)[Len(q) + 1] = e BY <1>1
    <2>4. 1..(Len(q) + 1) = (1..Len(q)) \cup {Len(q) + 1} BY <2>1
    <2> QED BY <2>1, <2>2, <2>3, <2>4 DEF ToSet
  <1>3. Append(q, e) \in Seq(ToSet(q) \cup {e}) BY <1>1
  <1> QED BY <1>2, <1>3

LEMMA ShorterIsSeq ==
  ASSUME NEW q, q \in Seq(ToSet(q)), q # <<>>
  PROVE  /\ Tail(q) \in Seq(ToSet(Tail(q))) /\ ToSet(Tail(q)) \subseteq ToSet(q)
         /\ Head(q) \in ToSet(q)
  <1>1. Head(q) \in ToSet(q) /\ Tail(q) \in Seq(ToSet(q)) BY DEF ToSet
  <1>2. ToSet(Tail(q)) \subseteq ToSet(q)
    <2>1. /\ DOMAIN q = 1..Len(q) /\ Len(q) \in Nat \ {0}
          /\ DOMAIN Tail(q) = 1..(Len(q) - 1)
          /\ \A i \in 1..(Len(q) - 1) : Tail(q)[i] = q[i + 1] /\ i + 1 \in 1..Len(q)
      OBVIOUS
    <2> QED BY <2>1 DEF ToSet
  <1>3. Tail(q) \in Seq(ToSet(Tail(q))) BY <1>1, SeqOfElements
  <1> QED BY <1>1, <1>2, <1>3

LEMMA HeadAndTail ==
  ASSUME NEW q, q \in Seq(ToSet(q)), q # <<>>
  PROVE  ToSet(q) \subseteq ToSet(Tail(q)) \cup {Head(q)}
  <1>1. /\ DOMAIN q = 1..Len(q) /\ Len(q) \in Nat \ {0} /\ Head(q) = q[1]
        /\ DOMAIN Tail(q) = 1..(Len(q) - 1)
        /\ \A i \in 1..(Len(q) - 1) : Tail(q)[i] = q[i + 1]
    OBVIOUS
  <1>2. \A i \in 1..Len(q) : i = 1 \/ (i - 1 \in 1..(Len(q) - 1) /\ Tail(q)[i - 1] = q[i])
    BY <1>1
  <1>3. \A i \in 1..Len(q) : q[i] = Head(q) \/ \E j \in DOMAIN Tail(q) : Tail(q)[j] = q[i]
    BY <1>1, <1>2
  <1>4. \A x \in ToSet(q) : \E i \in 1..Len(q) : x = q[i] BY <1>1 DEF ToSet
  <1>5. \A j \in DOMAIN Tail(q) : Tail(q)[j] \in ToSet(Tail(q)) BY DEF ToSet
  <1> QED BY <1>3, <1>4, <1>5

LEMMA Removed ==
  ASSUME NEW S, NEW q \in Seq(S), NEW e
  PROVE  RemoveFirst(q, e) \in Seq(S)
  <1>1. CASE \E i \in 1..Len(q) : q[i] = e
    <2> DEFINE I == {i \in 1..Len(q) : q[i] = e}
    <2>1. SelectInSeq(q, LAMBDA v : v = e) = Min(I)
      BY <1>1 DEF SelectInSeq
    <2>4. I \subseteq Nat /\ I # {} BY <1>1
    <2>2. Min(I) \in 1..Len(q) BY <2>4, NatMin
    <2>3. RemoveFirst(q, e) = SubSeq(q, 1, Min(I) - 1) \o SubSeq(q, Min(I) + 1, Len(q))
      BY <1>1, <2>1 DEF RemoveFirst, RemoveAt
    <2> HIDE DEF I
    <2>5. SubSeq(q, 1, Min(I) - 1) \in Seq(S) /\ SubSeq(q, Min(I) + 1, Len(q)) \in Seq(S)
      BY <2>2
    <2> QED BY <2>3, <2>5
  <1>2. CASE ~ \E i \in 1..Len(q) : q[i] = e BY <1>2 DEF RemoveFirst
  <1> QED BY <1>1, <1>2

\* Where publish() stops: at the end, or at the first subscriber it has to wait for.
LEMMA ReachedStops ==
  ASSUME NEW S, NEW todo \in Seq(S), NEW e
  PROVE  /\ Reached(todo, e) \in 0..Len(todo)
         /\ \A i \in 1..Reached(todo, e) : ~Waits(todo[i], e)
  <1> DEFINE stops == {i \in DOMAIN todo : Waits(todo[i], e)}
  <1>1. stops \subseteq 1..Len(todo) OBVIOUS
  <1>2. Reached(todo, e) = IF stops = {} THEN Len(todo) ELSE Min(stops) - 1 BY DEF Reached
  <1>3. \A i \in 1..Len(todo) : Waits(todo[i], e) => i \in stops OBVIOUS
  <1> HIDE DEF stops
  <1>4. CASE stops = {} BY <1>2, <1>3, <1>4
  <1>5. CASE stops # {}
    <2>1. stops \subseteq Nat BY <1>1
    <2>2. Min(stops) \in stops /\ \A y \in stops : Min(stops) <= y BY <1>5, <2>1, NatMin
    <2>5. Len(todo) \in Nat OBVIOUS
    <2>3. Min(stops) \in 1..Len(todo) BY <1>1, <2>2
    <2>4. \A i \in 1..(Min(stops) - 1) : i \notin stops /\ i \in 1..Len(todo) BY <2>2, <2>3, <2>5
    <2> QED BY <1>2, <1>3, <1>5, <2>3, <2>4, <2>5
  <1> QED BY <1>4, <1>5

-----------------------------------------------------------------------------
(* One round of a publish() *)

\* What the subscribers hold, and who is still to be reached.
IdsOf(q) == {x.id : x \in ToSet(q)}

LEMMA HeldIds == \A s : Held(s) = IdsOf(seen[s]) \cup IdsOf(queue[s])
  BY DEF Held, IdsOf, ToSet

LEMMA RestOf ==
  ASSUME NEW S, NEW q \in Seq(S), NEW k \in Nat, k < Len(q)
  PROVE  SubSeq(q, k + 1, Len(q)) \in Seq(S) /\ SubSeq(q, k + 1, Len(q)) # <<>>
  <1>1. Len(q) \in Nat /\ k + 1 \in 1..Len(q) OBVIOUS
  <1>2. SubSeq(q, k + 1, Len(q)) \in Seq(S) BY <1>1
  <1>3. Len(SubSeq(q, k + 1, Len(q))) = Len(q) - k BY <1>1
  <1>4. Len(q) - k # 0 BY <1>1
  <1>5. SubSeq(q, k + 1, Len(q)) # <<>>
    <2> SUFFICES ASSUME SubSeq(q, k + 1, Len(q)) = <<>> PROVE FALSE OBVIOUS
    <2>1. Len(<<>>) = 0 OBVIOUS
    <2> QED BY <1>3, <1>4, <2>1
  <1> QED BY <1>2, <1>5

LEMMA Delivered ==
  ASSUME BusTypes, NEW p \in Publishers, NEW n \in Nat \ {0}, NEW e, NEW todo \in Seq(Known),
         NEW Late, Deliver(p, n, e, todo, Late), UNCHANGED seen
  PROVE  /\ queue' \in [Subs -> Seq([id : Nat, dropped : Nat])]
         /\ missed' \in [Subs -> Nat]
         /\ \A s \in Subs : Held(s) \subseteq Held(s)'
         /\ \E l \in Seq(Known) :
              /\ post' = [post EXCEPT ![p] = IF l = <<>> THEN Idle
                                             ELSE [event |-> n, left |-> l, woken |-> FALSE]]
              /\ ~IsDelta(e) => \A s \in ToSet(todo) \ ToSet(l) : n \in Held(s)' \/ Closed(s) \/ stopped
  <1> DEFINE k == Reached(todo, e)
             at == {todo[i] : i \in 1..k}
             room == {s \in at : ~Full(s)} \ {s \in Late : Closed(s)}
             left == IF k = Len(todo) THEN <<>> ELSE SubSeq(todo, k + 1, Len(todo))
  <1>1. /\ queue' = [s \in Subs |-> IF s \in room THEN Append(queue[s], Item(n)) ELSE queue[s]]
        /\ post' = [post EXCEPT ![p] = IF k = Len(todo) THEN Idle
                                       ELSE [event |-> n, left |-> SubSeq(todo, k + 1, Len(todo)),
                                             woken |-> FALSE]]
        /\ \E D : Dropped(D)
    BY DEF Deliver
  <1>2. k \in 0..Len(todo) /\ \A i \in 1..k : ~Waits(todo[i], e) BY ReachedStops
  <1>3. Item(n) \in [id : Nat, dropped : Nat] /\ Item(n).id = n BY DEF Item
  <1>4. queue' \in [Subs -> Seq([id : Nat, dropped : Nat])]
    <2>1. \A s \in Subs : queue[s] \in Seq([id : Nat, dropped : Nat]) BY DEF BusTypes
    <2>2. \A s \in Subs : Append(queue[s], Item(n)) \in Seq([id : Nat, dropped : Nat])
      BY <1>3, <2>1
    <2> HIDE DEF room
    <2> QED BY <1>1, <2>1, <2>2
  <1>5. missed' \in [Subs -> Nat] BY <1>1 DEF BusTypes, Dropped
  <1>6. \A s \in Subs : queue[s] \in Seq(ToSet(queue[s])) BY SeqOfElements DEF BusTypes
  <1>7. \A s \in Subs : IdsOf(queue'[s]) = IdsOf(queue[s]) \cup (IF s \in room THEN {n} ELSE {})
    BY <1>1, <1>3, <1>6, LongerIsSeq DEF IdsOf
  <1>8. \A s \in Subs : Held(s)' = IdsOf(seen[s]) \cup IdsOf(queue'[s])
    BY DEF Held, IdsOf, ToSet
  <1>9. \A s \in Subs : Held(s) \subseteq Held(s)' /\ (s \in room => n \in Held(s)')
    BY <1>7, <1>8, HeldIds
  <1>10. left \in Seq(Known) /\ (left = <<>> <=> k = Len(todo))
    <2>1. CASE k = Len(todo) BY <2>1
    <2>2. CASE k # Len(todo)
      <3>1. k \in Nat /\ k < Len(todo) BY <1>2, <2>2
      <3> HIDE DEF k
      <3> QED BY <2>2, <3>1, RestOf
    <2> QED BY <2>1, <2>2
  <1>11. ToSet(todo) \ ToSet(left) \subseteq at
    <2>1. \A i \in 1..Len(todo) : i \in 1..k \/ (k # Len(todo) /\ i - k \in 1..(Len(todo) - k))
      BY <1>2
    <2>2. k # Len(todo) => /\ DOMAIN left = 1..(Len(todo) - k)
                           /\ \A i \in 1..(Len(todo) - k) : left[i] = todo[i + k]
      BY <1>2
    <2>3. \A i \in 1..Len(todo) : i \in 1..k \/ todo[i] \in ToSet(left)
      BY <1>2, <2>1, <2>2 DEF ToSet
    <2>4. ToSet(todo) = {todo[i] : i \in 1..Len(todo)} BY DEF ToSet
    <2> HIDE DEF k, left
    <2> QED BY <2>3, <2>4
  <1>12. \A s \in at : ~IsDelta(e) => s \in room \/ Closed(s) \/ stopped
    BY <1>2 DEF Waits
  <1>13. ToSet(todo) \subseteq Subs BY DEF ToSet, Known
  <1> HIDE DEF k, at, room, left
  <1>14. ~IsDelta(e) => \A s \in ToSet(todo) \ ToSet(left) : n \in Held(s)' \/ Closed(s) \/ stopped
    BY <1>9, <1>11, <1>12, <1>13
  <1>15. post' = [post EXCEPT ![p] = IF left = <<>> THEN Idle
                                     ELSE [event |-> n, left |-> left, woken |-> FALSE]]
    BY <1>1, <1>10 DEF left
  <1> QED BY <1>4, <1>5, <1>9, <1>10, <1>14, <1>15

-----------------------------------------------------------------------------
(* The steps *)

\* A subscriber does not become new again, nor opens when it was closed.
StatusMoves ==
  \A s \in Subs : /\ status[s] # "new" => status'[s] # "new"
                  /\ Closed(s) => Closed(s)'

LEMMA Grows ==
  ASSUME StatusMoves
  PROVE  /\ Known \subseteq Known' /\ \A q \in Seq(Known) : q \in Seq(Known')
         /\ \A q \in Seq(SUBSET Known) : q \in Seq(SUBSET Known')
  <1>1. Known \subseteq Known' BY DEF StatusMoves, Known
  <1> QED BY <1>1

\* What keeps the parts that a step does not deliver to.
LEMMA Quiet ==
  ASSUME BusTypes, StatusMoves, missed' \in [Subs -> Nat],
         UNCHANGED <<log, audience, stopped>>, attached' \in Seq(Known'),
         status' \in [Subs -> {"new", "open", "closed", "left"}],
         queue' \in [Subs -> Seq([id : Nat, dropped : Nat])],
         DOMAIN seen' = Subs, \A s \in Subs : seen'[s] \in Seq(ToSet(seen'[s])),
         post' \in [Publishers -> [event : Nat, left : Seq(Known), woken : BOOLEAN]],
         \A p \in Publishers : post'[p].woken \/ post'[p].left # <<>> => post'[p].event \in DOMAIN log
  PROVE  BusTypes'
  BY Grows DEF BusTypes

Due(n, s) ==
  \/ n \in Held(s) \/ Closed(s) \/ n \in cutShort
  \/ \E p \in Publishers : post[p].event = n /\ s \in ToSet(post[p].left)

\* A step that publishes nothing, and after which what was due still is.
LEMMA StaysDue ==
  ASSUME BusTypes, DeliveryInv, StatusMoves, UNCHANGED <<log, audience>>,
         stopped' = stopped \/ \A s \in Known : Closed(s)',
         \A n \in DOMAIN log : \A s \in audience[n] : ~IsDelta(log[n]) /\ Due(n, s) => Due(n, s)'
  PROVE  DeliveryInv'
  <1>1. \A n \in DOMAIN log : audience[n] \subseteq Known BY DEF BusTypes
  <1>2. StoppedForAll'
    BY <1>1 DEF DeliveryInv, StoppedForAll, StatusMoves, Known
  <1>3. LifecycleDelivered'
    BY DEF DeliveryInv, LifecycleDelivered, Due, IsDelta
  <1> QED BY <1>2, <1>3 DEF DeliveryInv

LEMMA WakeTypes ==
  ASSUME BusTypes, NEW S, Wake(S)
  PROVE  /\ post' \in [Publishers -> [event : Nat, left : Seq(Known), woken : BOOLEAN]]
         /\ \A p \in Publishers : post'[p].event = post[p].event /\ post'[p].left = post[p].left
         /\ \A p \in Publishers : post'[p].woken \/ post'[p].left # <<>> => post'[p].event \in DOMAIN log
  <1>1. \A p \in Publishers : post'[p] = post[p] \/ (post[p].left # <<>> /\ post'[p] = [post[p] EXCEPT !.woken = TRUE])
    BY DEF Wake
  <1>2. \A p \in Publishers : post[p] \in [event : Nat, left : Seq(Known), woken : BOOLEAN] BY DEF BusTypes
  <1>3. \A p \in Publishers : /\ post'[p] \in [event : Nat, left : Seq(Known), woken : BOOLEAN]
                              /\ post'[p].event = post[p].event /\ post'[p].left = post[p].left
                              /\ post'[p].woken => post[p].woken \/ post[p].left # <<>>
    BY <1>1, <1>2
  <1>4. post' = [p \in Publishers |-> post'[p]] BY DEF Wake
  <1> QED BY <1>3, <1>4 DEF BusTypes

\* post' after a round of publish().
LEMMA RoundTypes ==
  ASSUME BusTypes, NEW p \in Publishers, NEW n \in Nat \ {0}, NEW l \in Seq(Known),
         post' = [post EXCEPT ![p] = IF l = <<>> THEN Idle
                                     ELSE [event |-> n, left |-> l, woken |-> FALSE]]
  PROVE  /\ post' \in [Publishers -> [event : Nat, left : Seq(Known), woken : BOOLEAN]]
         /\ \A q \in Publishers \ {p} : post'[q] = post[q]
         /\ l # <<>> => post'[p].event = n
         /\ post'[p].left = l /\ ~post'[p].woken
  <1>1. Idle \in [event : Nat, left : Seq(Known), woken : BOOLEAN] BY DEF Idle
  <1>2. [event |-> n, left |-> l, woken |-> FALSE] \in [event : Nat, left : Seq(Known), woken : BOOLEAN]
    OBVIOUS
  <1>3. post'[p] = IF l = <<>> THEN Idle ELSE [event |-> n, left |-> l, woken |-> FALSE]
    BY DEF BusTypes
  <1> QED BY <1>1, <1>2, <1>3 DEF BusTypes, Idle

LEMMA PublishStep ==
  ASSUME BusTypes, DeliveryInv, NEW p \in Publishers, NEW kind \in Kinds, Publish(p, kind)
  PROVE  BusTypes' /\ DeliveryInv'
  <1> DEFINE e == [by |-> p, kind |-> kind]
             n == Len(log) + 1
  <1>1. /\ ~stopped /\ post[p] = Idle /\ log' = Append(log, e)
        /\ audience' = Append(audience, ToSet(attached))
        /\ Deliver(p, n, e, attached, {})
        /\ UNCHANGED <<attached, stopped, status, seen, cutShort>>
    BY DEF Publish, ToSet
  <1>2. /\ Len(log) \in Nat /\ Len(audience) = Len(log) /\ n \in Nat \ {0}
        /\ DOMAIN log = 1..Len(log) /\ attached \in Seq(Known)
        /\ e \in [by : Publishers, kind : Kinds] /\ ToSet(attached) \in SUBSET Known
    BY DEF BusTypes, ToSet
  <1>3. /\ log' \in Seq([by : Publishers, kind : Kinds]) /\ Len(log') = n /\ DOMAIN log' = 1..n
        /\ log'[n] = e /\ \A m \in 1..Len(log) : log'[m] = log[m]
    BY <1>1, <1>2 DEF BusTypes
  <1>4. /\ audience' \in Seq(SUBSET Known) /\ Len(audience') = n
        /\ audience'[n] = ToSet(attached) /\ \A m \in 1..Len(log) : audience'[m] = audience[m]
    BY <1>1, <1>2 DEF BusTypes
  <1> HIDE DEF e, n
  <1>5. PICK l \in Seq(Known) :
          /\ post' = [post EXCEPT ![p] = IF l = <<>> THEN Idle
                                         ELSE [event |-> n, left |-> l, woken |-> FALSE]]
          /\ ~IsDelta(e) => \A s \in ToSet(attached) \ ToSet(l) : n \in Held(s)' \/ Closed(s) \/ stopped
    BY <1>1, <1>2, Delivered
  <1>6. /\ queue' \in [Subs -> Seq([id : Nat, dropped : Nat])] /\ missed' \in [Subs -> Nat]
        /\ \A s \in Subs : Held(s) \subseteq Held(s)'
    BY <1>1, <1>2, Delivered
  <1>7. /\ post' \in [Publishers -> [event : Nat, left : Seq(Known), woken : BOOLEAN]]
        /\ \A q \in Publishers \ {p} : post'[q] = post[q]
        /\ l # <<>> => post'[p].event = n
        /\ post'[p].left = l /\ ~post'[p].woken
    BY <1>2, <1>5, RoundTypes
  <1>8. Known' = Known /\ \A s : Closed(s)' = Closed(s) BY <1>1 DEF Known, Closed
  <1>9. n \in DOMAIN log' /\ DOMAIN log \subseteq DOMAIN log' BY <1>2, <1>3 DEF n
  <1>10. BusTypes'
    <2>1. \A q \in Publishers : post'[q].woken \/ post'[q].left # <<>> => post'[q].event \in DOMAIN log'
      BY <1>7, <1>9 DEF BusTypes
    <2> QED BY <1>1, <1>3, <1>4, <1>6, <1>7, <1>8, <2>1 DEF BusTypes
  <1>11. StoppedForAll' BY <1>1 DEF StoppedForAll
  <1>12. ASSUME NEW m \in DOMAIN log', ~IsDelta(log'[m]), NEW s \in audience'[m]
         PROVE  Due(m, s)'
    <2>1. CASE m = n
      <3>1. s \in ToSet(attached) /\ ~IsDelta(e) BY <1>3, <1>4, <1>12, <2>1
      <3>2. CASE s \in ToSet(l)
        <4>1. l # <<>> BY <3>2 DEF ToSet
        <4> QED BY <1>7, <2>1, <3>2, <4>1 DEF Due
      <3>3. CASE s \notin ToSet(l) BY <1>1, <1>5, <1>8, <2>1, <3>1, <3>3 DEF Due
      <3> QED BY <3>2, <3>3
    <2>2. CASE m # n
      <3>1. m \in DOMAIN log /\ log'[m] = log[m] /\ audience'[m] = audience[m]
        BY <1>2, <1>3, <1>4, <1>12, <2>2 DEF n
      <3>2. Due(m, s) BY <1>12, <3>1 DEF DeliveryInv, LifecycleDelivered, Due
      <3>3. s \in Subs BY <1>2, <3>1, <1>12 DEF BusTypes, Known
      <3>4. m # 0 /\ post[p].event = 0 BY <1>1, <1>2, <3>1 DEF Idle
      <3> QED BY <1>1, <1>6, <1>7, <1>8, <3>2, <3>3, <3>4 DEF Due
    <2> QED BY <2>1, <2>2
  <1>13. LifecycleDelivered' BY <1>12 DEF LifecycleDelivered, Due
  <1> QED BY <1>10, <1>11, <1>13 DEF DeliveryInv

LEMMA ResumeStep ==
  ASSUME BusTypes, DeliveryInv, NEW p \in Publishers, Resume(p)
  PROVE  BusTypes' /\ DeliveryInv'
  <1> DEFINE n == post[p].event
             todo == post[p].left
             Late == {post[p].left[1]}
  <1>1. /\ post[p].woken /\ Deliver(p, n, log[n], todo, Late)
        /\ UNCHANGED <<log, attached, stopped, status, seen, audience, cutShort>>
    BY DEF Resume, histVars
  <1>2. n \in DOMAIN log /\ n \in Nat \ {0} /\ todo \in Seq(Known)
    BY <1>1 DEF BusTypes
  <1> HIDE DEF n, todo, Late
  <1>3. PICK l \in Seq(Known) :
          /\ post' = [post EXCEPT ![p] = IF l = <<>> THEN Idle
                                         ELSE [event |-> n, left |-> l, woken |-> FALSE]]
          /\ ~IsDelta(log[n]) =>
               \A s \in ToSet(todo) \ ToSet(l) : n \in Held(s)' \/ Closed(s) \/ stopped
    BY <1>1, <1>2, Delivered
  <1>4. /\ queue' \in [Subs -> Seq([id : Nat, dropped : Nat])] /\ missed' \in [Subs -> Nat]
        /\ \A s \in Subs : Held(s) \subseteq Held(s)'
    BY <1>1, <1>2, Delivered
  <1>5. /\ post' \in [Publishers -> [event : Nat, left : Seq(Known), woken : BOOLEAN]]
        /\ \A q \in Publishers \ {p} : post'[q] = post[q]
        /\ l # <<>> => post'[p].event = n
        /\ post'[p].left = l /\ ~post'[p].woken
    BY <1>2, <1>3, RoundTypes
  <1>6. Known' = Known /\ StatusMoves /\ \A s : Closed(s)' = Closed(s)
    BY <1>1 DEF Known, Closed, StatusMoves
  <1>7. BusTypes'
    <2>1. \A q \in Publishers : post'[q].woken \/ post'[q].left # <<>> => post'[q].event \in DOMAIN log
      BY <1>2, <1>5 DEF BusTypes
    <2> QED BY <1>1, <1>4, <1>5, <1>6, <2>1 DEF BusTypes
  <1>8. ASSUME NEW m \in DOMAIN log, NEW s \in audience[m], ~IsDelta(log[m]), Due(m, s)
        PROVE  Due(m, s)'
    <2>1. s \in Subs /\ m \in Nat \ {0} BY <1>8 DEF BusTypes, Known
    <2>2. CASE m \in Held(s) \/ Closed(s) \/ m \in cutShort
      BY <1>1, <1>4, <1>6, <2>1, <2>2 DEF Due
    <2>3. CASE \E q \in Publishers \ {p} : post[q].event = m /\ s \in ToSet(post[q].left)
      BY <1>5, <2>3 DEF Due
    <2>4. CASE post[p].event = m /\ s \in ToSet(post[p].left)
      <3>1. m = n /\ s \in ToSet(todo) BY <2>4 DEF n, todo
      <3>2. CASE s \in ToSet(l)
        <4>1. l # <<>> BY <3>2 DEF ToSet
        <4> QED BY <1>5, <3>1, <3>2, <4>1 DEF Due
      <3>3. CASE s \notin ToSet(l)
        <4>1. stopped => Closed(s) BY <1>8 DEF DeliveryInv, StoppedForAll
        <4> QED BY <1>3, <1>6, <1>8, <3>1, <3>3, <4>1 DEF Due
      <3> QED BY <3>2, <3>3
    <2> QED BY <1>8, <2>2, <2>3, <2>4 DEF Due
  <1> QED BY <1>1, <1>6, <1>7, <1>8, StaysDue

\* A step of a subscriber or of close(): the publishers that wait for it are woken.
LEMMA SubscriberStep ==
  ASSUME BusTypes, DeliveryInv, StatusMoves, NEW S, Wake(S),
         UNCHANGED <<log, audience, cutShort>>,
         stopped' \in BOOLEAN, stopped' = stopped \/ \A s \in Known : Closed(s)',
         missed' \in [Subs -> Nat], attached' \in Seq(Known'),
         status' \in [Subs -> {"new", "open", "closed", "left"}],
         queue' \in [Subs -> Seq([id : Nat, dropped : Nat])],
         DOMAIN seen' = Subs, \A s \in Subs : seen'[s] \in Seq(ToSet(seen'[s])),
         \A s \in Subs : Held(s) \subseteq Held(s)'
  PROVE  BusTypes' /\ DeliveryInv'
  <1>1. BusTypes' BY WakeTypes, Grows DEF BusTypes
  <1>2. ASSUME NEW m \in DOMAIN log, NEW s \in audience[m], Due(m, s)
        PROVE  Due(m, s)'
    <2>1. s \in Subs BY <1>2 DEF BusTypes, Known
    <2>2. \A p \in Publishers : post'[p].event = post[p].event /\ post'[p].left = post[p].left
      BY WakeTypes
    <2> QED BY <1>2, <2>1, <2>2 DEF Due, StatusMoves
  <1> QED BY <1>1, <1>2, StaysDue

LEMMA GetStep ==
  ASSUME BusTypes, DeliveryInv, NEW s \in Subs, Get(s)
  PROVE  BusTypes' /\ DeliveryInv'
  <1> DEFINE q == queue[s]
             item == Head(q)
             report == missed[s] > 0 /\ Len(Tail(q)) < Room[s]
             text == IF item.id = 0 THEN <<>> ELSE body[item.id]
             given == [id |-> item.id, dropped |-> item.dropped, text |-> text]
  <1>1. /\ q # <<>> /\ Wake({s})
        /\ seen' = [seen EXCEPT ![s] = Append(seen[s], given)]
        /\ queue' = [queue EXCEPT ![s] = IF report THEN Append(Tail(q), Marker(missed[s])) ELSE Tail(q)]
        /\ missed' = [missed EXCEPT ![s] = IF report THEN 0 ELSE missed[s]]
        /\ UNCHANGED <<log, attached, stopped, status, audience, cutShort>>
    BY DEF Get, busVars, histVars
  <1>2. q \in Seq([id : Nat, dropped : Nat]) /\ missed[s] \in Nat /\ q \in Seq(ToSet(q))
    BY SeqOfElements DEF BusTypes
  <1>3. Marker(missed[s]) \in [id : Nat, dropped : Nat] BY <1>2 DEF Marker
  <1>4. given.id = item.id OBVIOUS
  <1> HIDE DEF q, report, item, given
  <1>5. Tail(q) \in Seq([id : Nat, dropped : Nat]) BY <1>1, <1>2
  <1>6. Append(Tail(q), Marker(missed[s])) \in Seq([id : Nat, dropped : Nat]) BY <1>3, <1>5
  <1>7. queue' \in [Subs -> Seq([id : Nat, dropped : Nat])] BY <1>1, <1>5, <1>6 DEF BusTypes
  <1>8. missed' \in [Subs -> Nat] BY <1>1, <1>2 DEF BusTypes
  <1>9. /\ Append(seen[s], given) \in Seq(ToSet(Append(seen[s], given)))
        /\ ToSet(Append(seen[s], given)) = ToSet(seen[s]) \cup {given}
    BY LongerIsSeq DEF BusTypes
  <1>10. /\ DOMAIN seen' = Subs /\ seen'[s] = Append(seen[s], given)
         /\ \A t \in Subs \ {s} : seen'[t] = seen[t] /\ queue'[t] = queue[t]
    BY <1>1 DEF BusTypes
  <1>11. \A t \in Subs : seen'[t] \in Seq(ToSet(seen'[t])) BY <1>9, <1>10 DEF BusTypes
  <1>12. ToSet(q) \subseteq ToSet(Tail(q)) \cup {item} BY <1>1, <1>2, HeadAndTail DEF item
  <1>13. ToSet(Tail(q)) \subseteq ToSet(queue'[s])
    <2>1. Tail(q) \in Seq(ToSet(Tail(q))) BY <1>5, SeqOfElements
    <2>2. queue'[s] = Append(Tail(q), Marker(missed[s])) \/ queue'[s] = Tail(q)
      BY <1>1 DEF BusTypes
    <2>3. ToSet(Append(Tail(q), Marker(missed[s]))) = ToSet(Tail(q)) \cup {Marker(missed[s])}
      BY <2>1, LongerIsSeq
    <2> QED BY <2>2, <2>3
  <1>14. \A t : Held(t)' = IdsOf(seen'[t]) \cup IdsOf(queue'[t]) BY DEF Held, IdsOf, ToSet
  <1>15. Held(s) \subseteq Held(s)'
    <2>1. IdsOf(seen[s]) \subseteq IdsOf(seen'[s]) /\ item.id \in IdsOf(seen'[s])
      BY <1>4, <1>9, <1>10 DEF IdsOf
    <2>2. IdsOf(queue[s]) \subseteq IdsOf(queue'[s]) \cup {item.id}
      BY <1>12, <1>13 DEF IdsOf, q
    <2> QED BY <1>14, <2>1, <2>2, HeldIds
  <1>16. \A t \in Subs : Held(t) \subseteq Held(t)' BY <1>10, <1>14, <1>15, HeldIds
  <1>17. StatusMoves /\ Known' = Known BY <1>1 DEF StatusMoves, Closed, Known
  <1> QED BY <1>1, <1>7, <1>8, <1>10, <1>11, <1>16, <1>17, SubscriberStep DEF BusTypes

LEMMA BusStep ==
  ASSUME BusTypes, DeliveryInv, [Next]_vars
  PROVE  BusTypes' /\ DeliveryInv'
  <1> USE DEF histVars
  <1>a. /\ status \in [Subs -> {"new", "open", "closed", "left"}] /\ stopped \in BOOLEAN
        /\ queue \in [Subs -> Seq([id : Nat, dropped : Nat])] /\ missed \in [Subs -> Nat]
        /\ attached \in Seq(Known) /\ Known \subseteq Subs
        /\ DOMAIN seen = Subs /\ \A s \in Subs : seen[s] \in Seq(ToSet(seen[s]))
    BY DEF BusTypes, Known
  <1>b. UNCHANGED <<queue, seen>> => \A s : Held(s)' = Held(s) BY DEF Held
  <1>c. UNCHANGED status => StatusMoves /\ Known' = Known BY DEF StatusMoves, Known, Closed
  <1>1. CASE UNCHANGED vars
    BY <1>1 DEF vars, busVars, subVars, BusTypes, Known, DeliveryInv, StoppedForAll,
                LifecycleDelivered, Closed, Held, IsDelta
  <1>2. ASSUME NEW p \in Publishers, Resume(p) PROVE BusTypes' /\ DeliveryInv'
    BY <1>2, ResumeStep
  <1>3. ASSUME NEW p \in Publishers, Cancelled(p) PROVE BusTypes' /\ DeliveryInv'
    <2>1. /\ post' = [post EXCEPT ![p] = Idle] /\ cutShort' = cutShort \cup {post[p].event}
          /\ UNCHANGED <<log, attached, stopped, queue, missed, status, seen, audience>>
      BY <1>3 DEF Cancelled, busVars, subVars
    <2>2. post'[p] = Idle /\ \A q \in Publishers \ {p} : post'[q] = post[q]
      BY <2>1 DEF BusTypes
    <2>3. Idle \in [event : Nat, left : Seq(Known), woken : BOOLEAN] /\ Idle.left = <<>> /\ ~Idle.woken
      BY DEF Idle
    <2>4. BusTypes' BY <1>c, <2>1, <2>2, <2>3 DEF BusTypes
    <2>5. ASSUME NEW m \in DOMAIN log, NEW s \in audience[m], Due(m, s) PROVE Due(m, s)'
      <3>1. Held(s)' = Held(s) /\ Closed(s)' = Closed(s) BY <1>b, <2>1 DEF Closed
      <3> QED BY <2>1, <2>2, <2>5, <3>1 DEF Due
    <2> QED BY <1>c, <2>1, <2>4, <2>5, StaysDue
  <1>4. ASSUME NEW p \in Publishers, NEW kind \in Kinds, Publish(p, kind)
        PROVE  BusTypes' /\ DeliveryInv'
    BY <1>4, PublishStep
  <1>5. ASSUME NEW s \in Subs, Get(s) PROVE BusTypes' /\ DeliveryInv' BY <1>5, GetStep
  <1>6. ASSUME UNCHANGED <<queue, missed, seen, log, audience, cutShort>>, StatusMoves,
               stopped' \in BOOLEAN, stopped' = stopped \/ \A s \in Known : Closed(s)',
               attached' \in Seq(Known'),
               status' \in [Subs -> {"new", "open", "closed", "left"}],
               post' = post \/ \E S : Wake(S)
        PROVE  BusTypes' /\ DeliveryInv'
    <2>1. CASE post' = post
      <3>1. Wake({}) BY <2>1 DEF Wake, BusTypes
      <3> QED BY <1>a, <1>b, <1>6, <3>1, SubscriberStep
    <2>2. CASE \E S : Wake(S) BY <1>a, <1>b, <1>6, <2>2, SubscriberStep
    <2> QED BY <1>6, <2>1, <2>2
  <1>7. ASSUME NEW s \in Subs, ReaderEnds(s) PROVE BusTypes' /\ DeliveryInv'
    <2>1. /\ status[s] = "closed" /\ status' = [status EXCEPT ![s] = "left"]
          /\ UNCHANGED <<queue, missed, seen, log, audience, cutShort, stopped, attached, post>>
      BY <1>7 DEF ReaderEnds, busVars
    <2>2. StatusMoves BY <1>a, <2>1 DEF StatusMoves, Closed
    <2> QED BY <1>a, <1>6, <2>1, <2>2, Grows
  <1>8. ASSUME NEW s \in Subs, Subscribe(s) PROVE BusTypes' /\ DeliveryInv'
    <2>1. /\ status[s] = "new" /\ status' = [status EXCEPT ![s] = "open"]
          /\ attached' = Append(attached, s)
          /\ UNCHANGED <<queue, missed, seen, log, audience, cutShort, stopped, post>>
      BY <1>8 DEF Subscribe
    <2>2. StatusMoves /\ s \in Known' BY <1>a, <2>1 DEF StatusMoves, Closed, Known
    <2>3. attached \in Seq(Known') BY <1>a, <2>2, Grows
    <2>4. attached' \in Seq(Known') BY <2>1, <2>2, <2>3
    <2> QED BY <1>a, <1>6, <2>1, <2>2, <2>4
  <1>9. ASSUME NEW s \in Subs, Unsubscribe(s) PROVE BusTypes' /\ DeliveryInv'
    <2>1. /\ status[s] = "open" /\ Wake({s})
          /\ status' = [status EXCEPT ![s] = IF s \in Screens THEN "left" ELSE "closed"]
          /\ attached' = RemoveFirst(attached, s)
          /\ UNCHANGED <<queue, missed, seen, log, audience, cutShort, stopped>>
      BY <1>9 DEF Unsubscribe
    <2>2. StatusMoves BY <1>a, <2>1 DEF StatusMoves, Closed
    <2>3. attached' \in Seq(Known') BY <1>a, <2>1, <2>2, Removed, Grows
    <2> QED BY <1>a, <1>6, <2>1, <2>2, <2>3
  <1>10. CASE Close
    <2>1. /\ stopped' = TRUE
          /\ status' = [s \in Subs |-> IF status[s] = "open" THEN "closed" ELSE status[s]]
          /\ \E S : Wake(S)
          /\ UNCHANGED <<queue, missed, seen, log, audience, cutShort, attached>>
      BY <1>10 DEF Close
    <2>2. StatusMoves BY <1>a, <2>1 DEF StatusMoves, Closed
    <2>3. \A s \in Known : Closed(s)' BY <1>a, <2>1 DEF Known, Closed
    <2>4. attached' \in Seq(Known') BY <1>a, <2>1, <2>2, Grows
    <2> QED BY <1>a, <1>6, <2>1, <2>2, <2>3, <2>4
  <1>11. CASE Rest BY <1>1, <1>11 DEF Rest
  <1> QED
    BY <1>1, <1>2, <1>3, <1>4, <1>5, <1>7, <1>8, <1>9, <1>10, <1>11 DEF Next, Reading

LEMMA BusInit == Init => BusTypes /\ DeliveryInv
  <1> SUFFICES ASSUME Init PROVE BusTypes /\ DeliveryInv OBVIOUS
  <1>1. attached \in Seq(Known)
    <2>1. ToSet(Early) \subseteq Known BY SubsAssumption DEF Init, Known, ToSet
    <2>2. Early \in Seq(ToSet(Early)) BY SubsAssumption, SeqOfElements
    <2> QED BY <2>1, <2>2 DEF Init
  <1>2. \A s \in Subs : seen[s] = <<>> /\ seen[s] \in Seq(ToSet(seen[s])) BY DEF Init
  <1>3. Idle \in [event : Nat, left : Seq(Known), woken : BOOLEAN] /\ Idle.left = <<>> /\ ~Idle.woken
    BY DEF Idle
  <1>4. status \in [Subs -> {"new", "open", "closed", "left"}] BY DEF Init
  <1>6. /\ <<>> \in Seq([by : Publishers, kind : Kinds]) /\ <<>> \in Seq(SUBSET Known)
        /\ <<>> \in Seq([id : Nat, dropped : Nat])
    OBVIOUS
  <1>7. /\ queue \in [Subs -> Seq([id : Nat, dropped : Nat])] /\ missed \in [Subs -> Nat]
        /\ post \in [Publishers -> [event : Nat, left : Seq(Known), woken : BOOLEAN]]
        /\ DOMAIN seen = Subs
    BY <1>3, <1>6 DEF Init
  <1>8. \A p \in Publishers : ~(post[p].woken \/ post[p].left # <<>>) BY <1>3 DEF Init
  <1>9. log = <<>> /\ audience = <<>> /\ stopped = FALSE BY DEF Init
  <1>10. BusTypes BY <1>1, <1>2, <1>4, <1>6, <1>7, <1>8, <1>9 DEF BusTypes
  <1>5. DeliveryInv BY DEF Init, DeliveryInv, StoppedForAll, LifecycleDelivered
  <1> QED BY <1>5, <1>10

\* A lifecycle event gets to every subscriber that stays: it has it, or its publisher
\* waits for room to give it, unless that publish() was cancelled (publish(), R-U-4).
THEOREM LifecycleIsNotDropped == Spec => []LifecycleDelivered
  <1>1. BusTypes /\ DeliveryInv /\ [Next]_vars => (BusTypes /\ DeliveryInv)' BY BusStep
  <1>2. DeliveryInv => LifecycleDelivered BY DEF DeliveryInv
  <1> QED BY <1>1, <1>2, BusInit, PTL DEF Spec

-----------------------------------------------------------------------------
(* Induction and recursion over numbers, and what Reports adds up *)

LEMMA Induction ==
    ASSUME NEW S, 0 \in S, \A n \in Nat : n \in S => n + 1 \in S
    PROVE  Nat \subseteq S
  <1> SUFFICES ASSUME Nat \ S # {} PROVE FALSE OBVIOUS
  <1>1. Nat \ S \subseteq Nat OBVIOUS
  <1>2. PICK x \in Nat \ S : \A y \in Nat \ S : x <= y BY <1>1, NatMin
  <1>3. x # 0 /\ x - 1 \in Nat /\ (x - 1) + 1 = x /\ ~(x <= x - 1) BY <1>2
  <1>4. x - 1 \in S BY <1>2, <1>3
  <1> QED BY <1>2, <1>3, <1>4

\* A function can be defined by recursion over the numbers up to a bound.
LEMMA Recursion ==
    ASSUME NEW V, NEW a \in V, NEW N \in Nat, NEW g \in [1 .. N -> [V -> V]]
    PROVE  \E f \in [0 .. N -> V] : f[0] = a /\ \A i \in 1 .. N : f[i] = g[i][f[i - 1]]
  <1> DEFINE Is(n, f) == f[0] = a /\ \A i \in 1 .. N : i <= n => f[i] = g[i][f[i - 1]]
             S == {n \in Nat : \E f \in [0 .. N -> V] : Is(n, f)}
  <1>1. 0 \in S
    <2>1. [i \in 0 .. N |-> a] \in [0 .. N -> V] OBVIOUS
    <2>2. Is(0, [i \in 0 .. N |-> a]) OBVIOUS
    <2> QED BY <2>1, <2>2
  <1>2. ASSUME NEW n \in Nat, n \in S PROVE n + 1 \in S
    <2>1. PICK f \in [0 .. N -> V] : Is(n, f) BY <1>2
    <2>2. CASE n + 1 \in 1 .. N
      <3> DEFINE h == [i \in 0 .. N |-> IF i = n + 1 THEN g[n + 1][f[n]] ELSE f[i]]
      <3>1. n \in 0 .. N /\ f[n] \in V /\ g[n + 1] \in [V -> V] BY <2>2
      <3>2. g[n + 1][f[n]] \in V BY <3>1
      <3>3. h \in [0 .. N -> V] BY <3>2
      <3>4. h[0] = a BY <2>1
      <3>5. ASSUME NEW i \in 1 .. N, i <= n + 1 PROVE h[i] = g[i][h[i - 1]]
        <4>1. i - 1 \in 0 .. N /\ i - 1 # n + 1 /\ i \in 0 .. N BY <3>5
        <4>2. h[i - 1] = f[i - 1] BY <4>1
        <4>3. CASE i = n + 1 BY <4>2, <4>3, <4>1
        <4>4. CASE i # n + 1
          <5>1. i <= n BY <3>5, <4>4
          <5>2. f[i] = g[i][f[i - 1]] BY <2>1, <5>1
          <5> QED BY <4>1, <4>2, <4>4, <5>2
        <4> QED BY <4>3, <4>4
      <3>6. Is(n + 1, h) BY <3>4, <3>5
      <3> HIDE DEF h
      <3>7. \E e \in [0 .. N -> V] : Is(n + 1, e) BY <3>3, <3>6
      <3> HIDE DEF Is
      <3> QED BY <3>7
    <2>3. CASE n + 1 \notin 1 .. N
      <3>1. \A i \in 1 .. N : i <= n BY <2>3
      <3>2. Is(n + 1, f) BY <2>1, <3>1
      <3> QED BY <3>2
    <2> QED BY <2>2, <2>3
  <1> HIDE DEF S
  <1>3. N \in S BY <1>1, <1>2, Induction
  <1> QED BY <1>3 DEF S

\* What Reports gives of the first i entries.
Counts(items, f) ==
    /\ f \in [0 .. Len(items) -> Nat] /\ f[0] = 0
    /\ \A i \in 1 .. Len(items) : f[i] = f[i - 1] + items[i].dropped
    /\ Reports(items) = f[Len(items)]

Entries(items) == Len(items) \in Nat /\ \A i \in 1 .. Len(items) : items[i].dropped \in Nat

LEMMA ReportsCount ==
    ASSUME NEW items, Entries(items)
    PROVE  \E f : Counts(items, f)
  <1> DEFINE n == Len(items)
             upto[i \in 0 .. n] == IF i = 0 THEN 0 ELSE upto[i - 1] + items[i].dropped
             IsUpto(h) == h = [i \in 0 .. n |-> IF i = 0 THEN 0 ELSE h[i - 1] + items[i].dropped]
  <1>1. n \in Nat /\ \A i \in 1 .. n : items[i].dropped \in Nat BY DEF Entries
  <1>2. Reports(items) = upto[n] BY DEF Reports
  <1>3. upto = CHOOSE h : IsUpto(h) OBVIOUS
  <1> HIDE DEF n, upto
  <1> DEFINE g == [i \in 1 .. n |-> [v \in Nat |-> v + items[i].dropped]]
  <1>4. g \in [1 .. n -> [Nat -> Nat]] BY <1>1
  <1>5. \A i \in 1 .. n : \A v \in Nat : g[i][v] = v + items[i].dropped OBVIOUS
  <1> HIDE DEF g
  <1>6. PICK f \in [0 .. n -> Nat] : f[0] = 0 /\ \A i \in 1 .. n : f[i] = g[i][f[i - 1]]
    <2> DEFINE V == Nat
               a == 0
    <2>1. a \in V /\ g \in [1 .. n -> [V -> V]] /\ n \in Nat BY <1>1, <1>4
    <2> HIDE DEF V, a
    <2>2. \E f \in [0 .. n -> V] : f[0] = a /\ \A i \in 1 .. n : f[i] = g[i][f[i - 1]]
      BY <2>1, Recursion
    <2> QED BY <2>2 DEF V, a
  <1>7. \A i \in 1 .. n : f[i] = f[i - 1] + items[i].dropped
    <2> TAKE i \in 1 .. n
    <2>1. i - 1 \in 0 .. n BY <1>1
    <2> QED BY <2>1, <1>5, <1>6
  <1>8. IsUpto(f)
    <2>1. f = [i \in 0 .. n |-> f[i]] OBVIOUS
    <2>2. \A i \in 0 .. n : i # 0 => i \in 1 .. n BY <1>1
    <2> QED BY <1>6, <1>7, <2>1, <2>2
  <1> HIDE DEF IsUpto
  <1>9. IsUpto(upto) BY <1>3, <1>8
  <1>10. upto = [i \in 0 .. n |-> IF i = 0 THEN 0 ELSE upto[i - 1] + items[i].dropped]
    BY <1>9 DEF IsUpto
  <1> DEFINE G == {i \in Nat : i <= n => upto[i] = f[i]}
  <1>11. 0 \in G
    <2>1. upto[0] = 0 BY <1>1, <1>10
    <2> QED BY <2>1, <1>6
  <1>12. ASSUME NEW i \in Nat, i \in G PROVE i + 1 \in G
    <2> SUFFICES ASSUME i + 1 <= n PROVE upto[i + 1] = f[i + 1] OBVIOUS
    <2>1. i <= n /\ upto[i] = f[i] /\ i + 1 \in 0 .. n /\ i + 1 \in 1 .. n BY <1>12, <1>1
    <2>2. upto[i + 1] = upto[(i + 1) - 1] + items[i + 1].dropped BY <2>1, <1>10
    <2>3. f[i + 1] = f[(i + 1) - 1] + items[i + 1].dropped BY <2>1, <1>7
    <2>4. (i + 1) - 1 = i OBVIOUS
    <2> QED BY <2>1, <2>2, <2>3, <2>4
  <1> HIDE DEF G
  <1>13. n \in G BY <1>1, <1>11, <1>12, Induction
  <1>14. upto[n] = f[n] BY <1>1, <1>13 DEF G
  <1> QED BY <1>2, <1>6, <1>7, <1>14 DEF Counts, n

LEMMA ReportsNat ==
    ASSUME NEW items, Entries(items)
    PROVE  Reports(items) \in Nat /\ (Len(items) = 0 => Reports(items) = 0)
  <1>1. PICK f : Counts(items, f) BY ReportsCount
  <1> QED BY <1>1 DEF Counts, Entries

LEMMA ReportsLonger ==
    ASSUME NEW q, NEW r, Entries(q), Len(r) = Len(q) + 1, r[Len(r)].dropped \in Nat,
           \A i \in 1 .. Len(q) : r[i] = q[i]
    PROVE  Reports(r) = Reports(q) + r[Len(r)].dropped
  <1> DEFINE n == Len(q)
  <1>1. n \in Nat /\ Len(r) = n + 1 /\ n + 1 \in 1 .. n + 1 BY DEF Entries
  <1>2. Entries(r)
    <2>1. \A i \in 1 .. n + 1 : i \in 1 .. n \/ i = n + 1 BY <1>1
    <2> QED BY <1>1, <2>1 DEF Entries
  <1>3. PICK f : Counts(q, f) BY ReportsCount
  <1>4. PICK h : Counts(r, h) BY <1>2, ReportsCount
  <1> DEFINE G == {i \in Nat : i <= n => f[i] = h[i]}
  <1>5. 0 \in G BY <1>3, <1>4 DEF Counts
  <1>6. ASSUME NEW i \in Nat, i \in G PROVE i + 1 \in G
    <2> SUFFICES ASSUME i + 1 <= n PROVE f[i + 1] = h[i + 1] OBVIOUS
    <2>1. f[i] = h[i] /\ i + 1 \in 1 .. n /\ i + 1 \in 1 .. n + 1 BY <1>6, <1>1
    <2>2. f[i + 1] = f[(i + 1) - 1] + q[i + 1].dropped BY <2>1, <1>3 DEF Counts
    <2>3. h[i + 1] = h[(i + 1) - 1] + r[i + 1].dropped BY <2>1, <1>1, <1>4 DEF Counts
    <2>4. (i + 1) - 1 = i /\ r[i + 1] = q[i + 1] BY <2>1
    <2> QED BY <2>1, <2>2, <2>3, <2>4
  <1> HIDE DEF G
  <1>7. n \in G BY <1>1, <1>5, <1>6, Induction
  <1>8. f[n] = h[n] BY <1>1, <1>7 DEF G
  <1>9. h[n + 1] = h[(n + 1) - 1] + r[n + 1].dropped BY <1>1, <1>4 DEF Counts
  <1>10. (n + 1) - 1 = n BY <1>1
  <1> QED BY <1>1, <1>3, <1>4, <1>8, <1>9, <1>10 DEF Counts

LEMMA ReportsShorter ==
    ASSUME NEW q, NEW r, Entries(q), Len(r) \in Nat, Len(q) = Len(r) + 1,
           \A i \in 1 .. Len(r) : r[i] = q[i + 1]
    PROVE  Reports(q) = q[1].dropped + Reports(r)
  <1> DEFINE n == Len(r)
  <1>1. n \in Nat /\ Len(q) = n + 1 /\ 1 \in 1 .. n + 1 OBVIOUS
  <1>2. Entries(r)
    <2>1. \A i \in 1 .. n : i + 1 \in 1 .. n + 1 BY <1>1
    <2> QED BY <1>1, <2>1 DEF Entries
  <1>3. PICK f : Counts(q, f) BY ReportsCount
  <1>4. PICK h : Counts(r, h) BY <1>2, ReportsCount
  <1> DEFINE G == {i \in Nat : i <= n => f[i + 1] = q[1].dropped + h[i]}
  <1>0. q[1].dropped \in Nat BY <1>1 DEF Entries
  <1>5. 0 \in G
    <2>1. f[1] = f[1 - 1] + q[1].dropped BY <1>1, <1>3 DEF Counts
    <2>2. f[1] = q[1].dropped BY <2>1, <1>0, <1>3 DEF Counts
    <2> QED BY <2>2, <1>0, <1>4 DEF Counts
  <1>6. ASSUME NEW i \in Nat, i \in G PROVE i + 1 \in G
    <2> SUFFICES ASSUME i + 1 <= n PROVE f[(i + 1) + 1] = q[1].dropped + h[i + 1] OBVIOUS
    <2>1. f[i + 1] = q[1].dropped + h[i] /\ i + 1 \in 1 .. n /\ (i + 1) + 1 \in 1 .. n + 1 /\ i \in 0 .. n
      BY <1>6, <1>1
    <2>2. f[(i + 1) + 1] = f[((i + 1) + 1) - 1] + q[(i + 1) + 1].dropped BY <2>1, <1>1, <1>3 DEF Counts
    <2>3. h[i + 1] = h[(i + 1) - 1] + r[i + 1].dropped BY <2>1, <1>4 DEF Counts
    <2>4. (i + 1) - 1 = i /\ ((i + 1) + 1) - 1 = i + 1 /\ r[i + 1] = q[(i + 1) + 1] BY <2>1
    <2>5. h[i] \in Nat /\ r[i + 1].dropped \in Nat BY <2>1, <1>2, <1>4 DEF Counts, Entries
    <2> HIDE DEF n
    <2>6. f[(i + 1) + 1] = (q[1].dropped + h[i]) + r[i + 1].dropped BY <2>1, <2>2, <2>4
    <2>7. h[i + 1] = h[i] + r[i + 1].dropped BY <2>3, <2>4
    <2> QED BY <1>0, <2>5, <2>6, <2>7
  <1> HIDE DEF G
  <1>7. n \in G BY <1>1, <1>5, <1>6, Induction
  <1>8. f[n + 1] = q[1].dropped + h[n] BY <1>1, <1>7 DEF G
  <1> QED BY <1>1, <1>3, <1>4, <1>8 DEF Counts

-----------------------------------------------------------------------------
(* What is read, in its order and with its losses *)

\* What s was given and then what it has queued, by place.
Total(s) == Len(seen[s]) + Len(queue[s])
IdAt(s, k) == IF k <= Len(seen[s]) THEN seen[s][k].id ELSE queue[s][k - Len(seen[s])].id

StreamTypes ==
  /\ lost \in [Subs -> Nat]
  /\ DOMAIN body = DOMAIN log /\ \A o \in DOMAIN log : body[o] \in Seq(Nat)
  /\ \A s \in Subs : /\ seen[s] \in Seq([id : Nat, dropped : Nat, text : Seq(Nat)])
                     /\ \A k \in 1..Total(s) : IdAt(s, k) \in {0} \cup DOMAIN log

\* The text of an event is of its own stream, where it was queued and where it was read.
TextsHold ==
  /\ \A o \in DOMAIN log : \A n \in ToSet(body[o]) : n \in DOMAIN log /\ log[n] = log[o]
  /\ \A s \in Subs : \A i \in DOMAIN seen[s] :
       seen[s][i].id # 0 => \A n \in ToSet(seen[s][i].text) :
                              n \in DOMAIN log /\ log[n] = log[seen[s][i].id]

\* What was lost is reported in the queue, or will be behind what is in it.
BalanceHolds ==
  \A s \in Subs : /\ Len(queue[s]) <= Room[s]
                  /\ missed[s] > 0 => queue[s] # <<>>
                  /\ Reports(seen[s]) + Reports(queue[s]) + missed[s] = lost[s]

\* Each publisher's events are given in its order, and the one it waits with is last.
OrderHolds ==
  /\ \A s \in Subs : \A i, j \in 1..Total(s) :
       i < j /\ IdAt(s, i) # 0 /\ IdAt(s, j) # 0 /\ log[IdAt(s, i)].by = log[IdAt(s, j)].by
         => IdAt(s, i) < IdAt(s, j)
  /\ \A p \in Publishers : \A s \in ToSet(post[p].left) : \A k \in 1..Total(s) :
       IdAt(s, k) # 0 /\ log[IdAt(s, k)].by = p => IdAt(s, k) < post[p].event

\* A publisher waits with an event of its own that is no delta, each subscriber once.
Once(q) == \A i, j \in DOMAIN q : q[i] = q[j] => i = j
WaitersHold ==
  /\ Once(attached)
  /\ \A p \in Publishers :
       /\ Once(post[p].left)
       /\ post[p].woken \/ post[p].left # <<>> =>
            log[post[p].event].by = p /\ ~IsDelta(log[post[p].event])

StreamInv ==
  /\ StreamTypes /\ TextsHold /\ BalanceHolds /\ OrderHolds /\ WaitersHold /\ LossesCounted

\* What s was given and has queued is as it was, or longer by an entry of x.
SameLine(s) == Total(s)' = Total(s) /\ \A k \in 1..Total(s) : IdAt(s, k)' = IdAt(s, k)
LongerLine(s, x) ==
  /\ Total(s)' = Total(s) + 1 /\ \A k \in 1..Total(s) : IdAt(s, k)' = IdAt(s, k)
  /\ IdAt(s, Total(s))' = x

LEMMA QueueLonger ==
  ASSUME BusTypes, StreamTypes, NEW s \in Subs, NEW x, seen'[s] = seen[s],
         queue'[s] = Append(queue[s], x)
  PROVE  LongerLine(s, x.id)
  <1> DEFINE m == Len(seen[s])
             q == queue[s]
             r == queue'[s]
             c == Len(q)
             t == m + c
  <1>1. m \in Nat /\ c \in Nat /\ Len(seen'[s]) = m BY DEF BusTypes, StreamTypes
  <1>2. Len(r) = c + 1 /\ r[c + 1] = x /\ \A j \in 1..c : r[j] = q[j]
    BY DEF BusTypes
  <1>3. Total(s) = t /\ Total(s)' = m + Len(r) BY <1>1 DEF Total
  <1>4. \A k : IdAt(s, k) = IF k <= m THEN seen[s][k].id ELSE q[k - m].id BY DEF IdAt
  <1>5. \A k : IdAt(s, k)' = IF k <= m THEN seen[s][k].id ELSE r[k - m].id BY <1>1 DEF IdAt
  <1>6. IdAt(s, Total(s))' = IF Total(s)' <= m THEN seen[s][Total(s)'].id ELSE r[Total(s)' - m].id
    BY <1>1 DEF IdAt
  <1> HIDE DEF m, q, r, c
  <1>7. Total(s)' = t + 1 BY ONLY <1>1, <1>2, <1>3
  <1>8. ASSUME NEW k \in 1..t PROVE IdAt(s, k)' = IdAt(s, k)
    <2>1. k <= m \/ (k - m \in 1..c /\ ~(k <= m)) BY ONLY <1>1, k \in 1..t
    <2>2. k - m \in 1..c => r[k - m] = q[k - m] BY ONLY <1>2
    <2> QED BY ONLY <1>4, <1>5, <2>1, <2>2
  <1>9. IdAt(s, Total(s))' = x.id
    <2>1. ~(t + 1 <= m) /\ (t + 1) - m = c + 1 BY ONLY <1>1
    <2> HIDE DEF t
    <2> QED BY ONLY <1>2, <1>6, <1>7, <2>1
  <1> QED BY <1>3, <1>7, <1>8, <1>9 DEF LongerLine

LEMMA QueueRead ==
  ASSUME BusTypes, StreamTypes, NEW s \in Subs, NEW x, NEW y, queue[s] # <<>>,
         seen'[s] = Append(seen[s], x), x.id = Head(queue[s]).id, y.id = 0,
         queue'[s] = Tail(queue[s]) \/ queue'[s] = Append(Tail(queue[s]), y)
  PROVE  SameLine(s) \/ LongerLine(s, 0)
  <1> DEFINE m == Len(seen[s])
             q == queue[s]
             u == Tail(q)
             r == queue'[s]
             c == Len(q)
             t == m + c
             old == seen[s]
             new == seen'[s]
  <1>1. m \in Nat /\ c \in Nat \ {0} /\ Head(q) = q[1] BY DEF BusTypes, StreamTypes
  <1>2. Len(new) = m + 1 /\ new[m + 1] = x /\ \A i \in 1..m : new[i] = old[i]
    BY DEF StreamTypes
  <1>3. /\ u \in Seq([id : Nat, dropped : Nat]) /\ Len(u) = c - 1
        /\ \A j \in 1..(c - 1) : u[j] = q[j + 1]
    BY DEF BusTypes
  <1>4. Total(s) = t /\ Total(s)' = Len(new) + Len(r) BY DEF Total
  <1>5. \A k : IdAt(s, k) = IF k <= m THEN old[k].id ELSE q[k - m].id BY DEF IdAt
  <1>6. \A k : IdAt(s, k)' = IF k <= Len(new) THEN new[k].id ELSE r[k - Len(new)].id BY DEF IdAt
  <1>7. IdAt(s, Total(s))' = IF Total(s)' <= Len(new) THEN new[Total(s)'].id ELSE r[Total(s)' - Len(new)].id
    BY DEF IdAt
  <1>8. r = u \/ r = Append(u, y) OBVIOUS
  <1>9. x.id = q[1].id BY <1>1
  <1> HIDE DEF m, q, u, r, c, old, new
  <1>10. /\ Len(r) = c - 1 \/ (Len(r) = c /\ r[c] = y)
         /\ \A j \in 1..(c - 1) : r[j] = q[j + 1]
    <2>1. /\ Len(Append(u, y)) = Len(u) + 1 /\ Append(u, y)[Len(u) + 1] = y
          /\ \A j \in 1..Len(u) : Append(u, y)[j] = u[j]
      BY ONLY <1>3
    <2>2. Len(u) + 1 = c BY ONLY <1>1, <1>3
    <2> QED BY ONLY <1>3, <1>8, <2>1, <2>2
  <1>11. ASSUME NEW k \in 1..t PROVE IdAt(s, k)' = IdAt(s, k)
    <2>1. \/ k \in 1..m /\ k <= m /\ k <= m + 1
          \/ k = m + 1 /\ ~(k <= m) /\ k - m = 1
          \/ k - (m + 1) \in 1..(c - 1) /\ k - m = (k - (m + 1)) + 1 /\ ~(k <= m) /\ ~(k <= m + 1)
      BY ONLY <1>1, k \in 1..t
    <2>2. CASE k \in 1..m /\ k <= m /\ k <= m + 1 BY ONLY <1>2, <1>5, <1>6, <2>2
    <2>3. CASE k = m + 1 /\ ~(k <= m) /\ k - m = 1
      <3>1. k <= m + 1 BY ONLY <1>1, <2>3
      <3> QED BY ONLY <1>2, <1>5, <1>6, <1>9, <2>3, <3>1
    <2>4. CASE /\ k - (m + 1) \in 1..(c - 1) /\ k - m = (k - (m + 1)) + 1
               /\ ~(k <= m) /\ ~(k <= m + 1)
      <3>1. r[k - (m + 1)] = q[k - m] BY ONLY <1>10, <2>4
      <3> QED BY ONLY <1>2, <1>5, <1>6, <2>4, <3>1
    <2> QED BY <2>1, <2>2, <2>3, <2>4
  <1>12. CASE Len(r) = c - 1
    <2>1. Total(s)' = t BY ONLY <1>1, <1>2, <1>4, <1>12
    <2> QED BY <1>4, <1>11, <2>1 DEF SameLine
  <1>13. CASE Len(r) = c /\ r[c] = y
    <2>1. Total(s)' = t + 1 BY ONLY <1>1, <1>2, <1>4, <1>13
    <2>2. ~(t + 1 <= m + 1) /\ (t + 1) - (m + 1) = c BY ONLY <1>1
    <2> HIDE DEF t
    <2>3. IdAt(s, Total(s))' = y.id BY ONLY <1>2, <1>7, <1>13, <2>1, <2>2
    <2> QED BY <1>4, <1>11, <2>1, <2>3 DEF LongerLine
  <1> QED BY <1>10, <1>12, <1>13

LEMMA LineStays ==
  ASSUME NEW s, seen'[s] = seen[s], queue'[s] = queue[s]
  PROVE  SameLine(s)
  BY DEF SameLine, Total, IdAt

\* The numbers of events published later are not those of earlier ones.
LogGrows == DOMAIN log \subseteq DOMAIN log' /\ \A m \in DOMAIN log : log'[m] = log[m]

\* An entry of n is behind everything of its publisher, and nobody it waits with n.
Follows(s, n) ==
  /\ n \in DOMAIN log'
  /\ \A k \in 1..Total(s) : IdAt(s, k) # 0 /\ log[IdAt(s, k)].by = log'[n].by => IdAt(s, k) < n
  /\ \A p \in Publishers : log'[n].by = p => s \notin ToSet(post'[p].left)

LEMMA OrderStep ==
  ASSUME BusTypes, StreamTypes, OrderHolds, LogGrows, NEW n,
         \A s \in Subs : SameLine(s) \/ LongerLine(s, 0) \/ (LongerLine(s, n) /\ Follows(s, n)),
         \A p \in Publishers : \A s \in ToSet(post'[p].left) : s \in Subs /\ \A k \in 1..Total(s) :
           IdAt(s, k) # 0 /\ log[IdAt(s, k)].by = p => IdAt(s, k) < post'[p].event
  PROVE  /\ OrderHolds'
         /\ \A s \in Subs : \A k \in 1..Total(s)' : IdAt(s, k)' \in {0} \cup DOMAIN log'
  <1>1. \A s \in Subs : \A k \in 1..Total(s) : IdAt(s, k) \in {0} \cup DOMAIN log BY DEF StreamTypes
  <1>2. \A s \in Subs : Total(s) \in Nat BY DEF Total, BusTypes, StreamTypes
  <1>3. ASSUME NEW s \in Subs
        PROVE  \A k \in 1..Total(s)' : \/ k \in 1..Total(s) /\ IdAt(s, k)' = IdAt(s, k)
                                       \/ k = Total(s) + 1 /\ IdAt(s, k)' = 0
                                       \/ k = Total(s) + 1 /\ IdAt(s, k)' = n /\ Follows(s, n)
    <2> TAKE k \in 1..Total(s)'
    <2>1. CASE SameLine(s) BY <2>1 DEF SameLine
    <2>2. ASSUME NEW x, LongerLine(s, x)
          PROVE  \/ k \in 1..Total(s) /\ IdAt(s, k)' = IdAt(s, k)
                 \/ k = Total(s) + 1 /\ IdAt(s, k)' = x
      <3>1. CASE k \in 1..Total(s) BY <2>2, <3>1 DEF LongerLine
      <3>2. CASE k \notin 1..Total(s)
        <4>1. k = Total(s) + 1 /\ k = Total(s)' BY <1>2, <2>2, <3>2 DEF LongerLine
        <4>2. IdAt(s, k)' = IdAt(s, Total(s))' BY <4>1 DEF IdAt
        <4> QED BY <2>2, <4>1, <4>2 DEF LongerLine
      <3> QED BY <3>1, <3>2
    <2> QED BY <2>1, <2>2
  <1>4. \A s \in Subs : \A k \in 1..Total(s)' : IdAt(s, k)' \in {0} \cup DOMAIN log'
    BY <1>1, <1>3 DEF LogGrows, Follows
  <1>5. ASSUME NEW s \in Subs, NEW i \in 1..Total(s)', NEW j \in 1..Total(s)', i < j,
               IdAt(s, i)' # 0, IdAt(s, j)' # 0,
               log'[IdAt(s, i)'].by = log'[IdAt(s, j)'].by
        PROVE  IdAt(s, i)' < IdAt(s, j)'
    <2>1. i \in 1..Total(s) /\ IdAt(s, i)' = IdAt(s, i) BY <1>2, <1>3, <1>5
    <2>2. log'[IdAt(s, i)] = log[IdAt(s, i)] BY <1>1, <1>5, <2>1 DEF LogGrows
    <2>3. CASE j \in 1..Total(s) /\ IdAt(s, j)' = IdAt(s, j)
      <3>1. log'[IdAt(s, j)] = log[IdAt(s, j)] BY <1>1, <1>5, <2>3 DEF LogGrows
      <3> QED BY <1>5, <2>1, <2>2, <2>3, <3>1 DEF OrderHolds
    <2>4. CASE IdAt(s, j)' = n /\ Follows(s, n) BY <1>5, <2>1, <2>2, <2>4 DEF Follows
    <2> QED BY <1>3, <1>5, <2>3, <2>4
  <1>6. ASSUME NEW p \in Publishers, NEW s \in ToSet(post'[p].left), NEW k \in 1..Total(s)',
               IdAt(s, k)' # 0, log'[IdAt(s, k)'].by = p
        PROVE  IdAt(s, k)' < post'[p].event
    <2>1. s \in Subs OBVIOUS
    <2>2. CASE k \in 1..Total(s) /\ IdAt(s, k)' = IdAt(s, k)
      <3>1. log'[IdAt(s, k)] = log[IdAt(s, k)] BY <1>1, <1>6, <2>1, <2>2 DEF LogGrows
      <3> QED BY <1>6, <2>2, <3>1
    <2>3. CASE IdAt(s, k)' = n /\ Follows(s, n) BY <1>6, <2>3 DEF Follows
    <2> QED BY <1>3, <1>6, <2>1, <2>2, <2>3
  <1> QED BY <1>4, <1>5, <1>6 DEF OrderHolds

\* A subscriber loses nothing more, or one event more and it is counted.
LEMMA LossesStep ==
  ASSUME BusTypes, StreamTypes, LossesCounted,
         \A s \in Subs : \/ Losses(s)' \subseteq Losses(s) /\ lost'[s] = lost[s]
                         \/ \E n : Losses(s)' \subseteq Losses(s) \cup {n} /\ lost'[s] = lost[s] + 1
  PROVE  LossesCounted'
  <1> SUFFICES ASSUME NEW s \in Subs PROVE Cardinality(Losses(s)') <= lost'[s]
    BY DEF LossesCounted
  <1>1. DOMAIN log = 1..Len(log) /\ Len(log) \in Nat /\ lost[s] \in Nat BY DEF BusTypes, StreamTypes
  <1>2. Losses(s) \subseteq 1..Len(log) BY <1>1 DEF Losses
  <1>3. IsFiniteSet(1..Len(log)) BY <1>1, FS_Interval
  <1>4. IsFiniteSet(Losses(s)) BY <1>2, <1>3, FS_Subset
  <1>5. Cardinality(Losses(s)) \in Nat /\ Cardinality(Losses(s)) <= lost[s]
    BY <1>4, FS_CardinalityType DEF LossesCounted
  <1>6. CASE Losses(s)' \subseteq Losses(s) /\ lost'[s] = lost[s]
    <2> DEFINE A == Losses(s)
               C == Losses(s)'
    <2>1. C \subseteq A /\ IsFiniteSet(A) BY <1>4, <1>6
    <2> HIDE DEF A, C
    <2>2. IsFiniteSet(C) /\ Cardinality(C) <= Cardinality(A) BY <2>1, FS_Subset
    <2>3. Cardinality(C) \in Nat BY <2>2, FS_CardinalityType
    <2>4. Cardinality(A) \in Nat /\ Cardinality(A) <= lost[s] BY <1>5 DEF A
    <2>5. Cardinality(C) <= lost'[s] BY <1>1, <1>6, <2>2, <2>3, <2>4
    <2> QED BY <2>5 DEF C
  <1>7. ASSUME NEW n, Losses(s)' \subseteq Losses(s) \cup {n}, lost'[s] = lost[s] + 1
        PROVE  Cardinality(Losses(s)') <= lost'[s]
    <2> DEFINE A == Losses(s)
               C == Losses(s)'
               D == A \cup {n}
    <2>1. C \subseteq D /\ IsFiniteSet(A) BY <1>4, <1>7
    <2>0. Cardinality(A) \in Nat /\ Cardinality(A) <= lost[s] BY <1>5 DEF A
    <2> HIDE DEF A, C
    <2>2. IsFiniteSet(D) /\ Cardinality(D) = IF n \in A THEN Cardinality(A) ELSE Cardinality(A) + 1
      BY <2>1, FS_AddElement
    <2> HIDE DEF D
    <2>3. IsFiniteSet(C) /\ Cardinality(C) <= Cardinality(D) BY <2>1, <2>2, FS_Subset
    <2>4. Cardinality(C) \in Nat BY <2>3, FS_CardinalityType
    <2>5. Cardinality(C) <= lost'[s] BY <1>1, <1>7, <2>0, <2>2, <2>3, <2>4
    <2> QED BY <2>5 DEF C
  <1> QED BY <1>6, <1>7

-----------------------------------------------------------------------------
(* A round of publish(), and what it leaves in the texts *)

\* r is q and then n, c times.
Extended(q, n, c, r) ==
  /\ ToSet(q) \subseteq ToSet(r)
  /\ \A x \in ToSet(r) : x \in ToSet(q) \/ (x = n /\ c # 0)
  /\ c # 0 => n \in ToSet(r)

LEMMA Repeated ==
  ASSUME NEW q \in Seq(Nat), NEW n \in Nat, NEW c \in Nat, NEW r \in Seq(Nat),
         Len(r) = Len(q) + c, \A i \in 1..Len(q) : r[i] = q[i],
         \A i \in 1..c : r[Len(q) + i] = n
  PROVE  Extended(q, n, c, r)
  <1> DEFINE m == Len(q)
  <1>2. /\ m \in Nat /\ DOMAIN q = 1..m /\ DOMAIN r = 1..(m + c)
        /\ \A i \in 1..m : r[i] = q[i]
        /\ \A i \in 1..c : r[m + i] = n
    OBVIOUS
  <1> HIDE DEF m
  <1>0. c \in Nat OBVIOUS
  <1>3. \A i \in 1..(m + c) : i \in 1..m \/ (i - m \in 1..c /\ m + (i - m) = i /\ c # 0)
    BY ONLY <1>2, <1>0
  <1>4. \A i \in 1..m : i \in 1..(m + c) BY ONLY <1>2, <1>0
  <1>5. c # 0 => 1 \in 1..c /\ m + 1 \in 1..(m + c) BY ONLY <1>2, <1>0
  <1>6. ToSet(q) \subseteq ToSet(r) BY ONLY <1>2, <1>4 DEF ToSet
  <1>7. \A i \in 1..(m + c) : r[i] \in ToSet(q) \/ (r[i] = n /\ c # 0)
    <2> TAKE i \in 1..(m + c)
    <2>1. CASE i \in 1..m BY ONLY <1>2, <2>1 DEF ToSet
    <2>2. CASE i - m \in 1..c /\ m + (i - m) = i /\ c # 0
      <3>1. r[m + (i - m)] = n BY ONLY <1>2, <2>2
      <3> QED BY ONLY <2>2, <3>1
    <2> QED BY <1>3, <2>1, <2>2
  <1>8. \A x \in ToSet(r) : x \in ToSet(q) \/ (x = n /\ c # 0) BY ONLY <1>2, <1>7 DEF ToSet
  <1>9. c # 0 => n \in ToSet(r)
    <2>1. c # 0 => r[m + 1] = n /\ m + 1 \in DOMAIN r BY ONLY <1>2, <1>5
    <2> QED BY ONLY <2>1 DEF ToSet
  <1> QED BY ONLY <1>6, <1>8, <1>9 DEF Extended

LEMMA FirstAreFinite ==
  ASSUME NEW q, NEW k \in Nat
  PROVE  IsFiniteSet({q[i] : i \in 1..k})
  <1> DEFINE T == {q[i] : i \in 1..k}
             f == [i \in 1..k |-> q[i]]
             S == 1..k
  <1>1. f \in Surjection(S, T) BY DEF Surjection
  <1>2. IsFiniteSet(S) BY FS_Interval
  <1> HIDE DEF T, f, S
  <1>3. IsFiniteSet(T) BY <1>1, <1>2, FS_Surjection
  <1> QED BY <1>3 DEF T

\* The events of a round are what they were, and n is one of them, of the publisher p.
LogTurn(n, e) ==
  /\ LogGrows /\ log' \in Seq([by : Publishers, kind : Kinds])
  /\ n \in DOMAIN log' /\ log'[n] = e
  /\ \/ n = Len(log) + 1 /\ Len(log') = n
     \/ n \in DOMAIN log /\ log' = log

\* The text of n is added to what it is merged into, and to nothing else.
BodyTurn(n, e, merged) ==
  /\ DOMAIN body' = DOMAIN log' /\ \A o \in DOMAIN log' : body'[o] \in Seq(Nat)
  /\ \A o \in DOMAIN log :
       /\ ToSet(body[o]) \subseteq ToSet(body'[o])
       /\ \A x \in ToSet(body'[o]) : x \in ToSet(body[o]) \/ (x = n /\ log[o] = e)
  /\ n \notin DOMAIN log => ToSet(body'[n]) = {n}
  /\ \A s \in merged : /\ queue[s] # <<>> /\ Last(queue[s]).id \in DOMAIN log
                       /\ n \in ToSet(body'[Last(queue[s]).id])

LEMMA BodyTurns ==
  ASSUME BusTypes, StreamTypes, NEW n \in Nat, NEW e, LogTurn(n, e),
         NEW merged \in SUBSET Subs, IsFiniteSet(merged), \A s \in merged : Merges(s, e),
         body' = [o \in 1..Len(log') |->
                    LET old == IF o = n /\ n > Len(log) THEN <<n>> ELSE body[o]
                        times == Cardinality({s \in merged : Last(queue[s]).id = o})
                    IN  old \o [i \in 1..times |-> n]]
  PROVE  BodyTurn(n, e, merged)
  <1> DEFINE M(o) == {s \in merged : Last(queue[s]).id = o}
             old(o) == IF o = n /\ n > Len(log) THEN <<n>> ELSE body[o]
             times(o) == Cardinality(M(o))
  <1>1. /\ DOMAIN log' = 1..Len(log') /\ Len(log') \in Nat /\ DOMAIN log = 1..Len(log) /\ Len(log) \in Nat
        /\ n \in 1..Len(log')
    BY DEF LogTurn, BusTypes
  <1>a. \/ n = Len(log) + 1 /\ Len(log') = n
        \/ n \in 1..Len(log) /\ Len(log') = Len(log)
    BY <1>1 DEF LogTurn
  <1>b. /\ \A o \in 1..Len(log') : o \in 1..Len(log) \/ (o = n /\ n > Len(log))
        /\ \A o \in 1..Len(log) : o \in 1..Len(log') /\ ~(o = n /\ n > Len(log))
    <2> DEFINE a == Len(log)
               b == Len(log')
    <2>1. a \in Nat /\ b \in Nat /\ ((n = a + 1 /\ b = n) \/ (n \in 1..a /\ b = a)) BY <1>1, <1>a
    <2> HIDE DEF a, b
    <2>2. /\ \A o \in 1..b : o \in 1..a \/ (o = n /\ n > a)
          /\ \A o \in 1..a : o \in 1..b /\ ~(o = n /\ n > a)
      BY ONLY <2>1
    <2> QED BY <2>2 DEF a, b
  <1>2. DOMAIN body' = DOMAIN log' BY <1>1
  <1>3. \A o \in 1..Len(log') : body'[o] = old(o) \o [i \in 1..times(o) |-> n] OBVIOUS
  <1>4. ASSUME NEW o PROVE times(o) \in Nat /\ (times(o) # 0 <=> \E s \in merged : Last(queue[s]).id = o)
    <2> DEFINE T == M(o)
    <2>1. T \subseteq merged OBVIOUS
    <2>2. T = {} <=> ~ \E s \in merged : Last(queue[s]).id = o OBVIOUS
    <2> HIDE DEF T
    <2>3. IsFiniteSet(T) BY <2>1, FS_Subset
    <2>4. Cardinality(T) \in Nat /\ (Cardinality(T) = 0 <=> T = {}) BY <2>3, FS_CardinalityType, FS_EmptySet
    <2> QED BY <2>2, <2>4 DEF T
  <1>5. ASSUME NEW s \in merged
        PROVE  queue[s] # <<>> /\ Last(queue[s]).id \in DOMAIN log /\ log[Last(queue[s]).id] = e
    <2> DEFINE q == queue[s]
               m == Len(seen[s])
    <2>1. q # <<>> /\ Last(q).id # 0 /\ log[Last(q).id] = e BY DEF Merges
    <2>2. q \in Seq([id : Nat, dropped : Nat]) /\ m \in Nat BY DEF BusTypes, StreamTypes
    <2>3. Len(q) \in Nat /\ Len(q) # 0 /\ Last(q) = q[Len(q)] BY <2>1, <2>2 DEF Last
    <2>4. \A k \in 1..Total(s) : IdAt(s, k) \in {0} \cup DOMAIN log BY DEF StreamTypes
    <2>5. Total(s) = m + Len(q) /\ \A k : IdAt(s, k) = IF k <= m THEN seen[s][k].id ELSE q[k - m].id
      BY DEF Total, IdAt
    <2> HIDE DEF q, m
    <2>6. Total(s) \in 1..Total(s) /\ ~(Total(s) <= m) /\ Total(s) - m = Len(q)
      BY ONLY <2>2, <2>3, <2>5
    <2>7. IdAt(s, Total(s)) = q[Len(q)].id BY ONLY <2>5, <2>6
    <2>8. Last(q).id \in {0} \cup DOMAIN log BY ONLY <2>3, <2>4, <2>6, <2>7
    <2> QED BY <2>1, <2>8 DEF q
  <1>6. ASSUME NEW o \in 1..Len(log') PROVE old(o) \in Seq(Nat)
    <2>1. CASE o \in DOMAIN log /\ ~(o = n /\ n > Len(log)) BY <2>1 DEF StreamTypes
    <2>2. CASE o = n /\ n > Len(log) BY <2>2
    <2> QED BY <1>1, <1>b, <2>1, <2>2
  <1> HIDE DEF old, times, M
  <1>7. ASSUME NEW o \in 1..Len(log')
        PROVE  /\ body'[o] \in Seq(Nat) /\ ToSet(old(o)) \subseteq ToSet(body'[o])
               /\ \A x \in ToSet(body'[o]) : x \in ToSet(old(o)) \/ (x = n /\ times(o) # 0)
               /\ times(o) # 0 => n \in ToSet(body'[o])
    <2> DEFINE b == old(o)
               c == times(o)
               u == [i \in 1..c |-> n]
               r == b \o u
    <2>1. b \in Seq(Nat) /\ c \in Nat /\ body'[o] = r BY <1>3, <1>4, <1>6
    <2> HIDE DEF b, c
    <2>5. u \in Seq(Nat) /\ Len(u) = c /\ \A i \in 1..c : u[i] = n BY <2>1
    <2> HIDE DEF u
    <2>3. /\ r \in Seq(Nat) /\ Len(r) = Len(b) + c /\ Len(b) \in Nat
          /\ \A i \in 1..Len(b) : r[i] = b[i]
          /\ \A i \in 1..c : r[Len(b) + i] = n
      BY <2>1, <2>5
    <2> HIDE DEF r
    <2>4. n \in Nat OBVIOUS
    <2>2. Extended(b, n, c, r) BY ONLY <2>1, <2>3, <2>4, Repeated
    <2> QED BY ONLY <2>1, <2>2, <2>3 DEF b, c, Extended
  <1>8. \A o \in DOMAIN log : o \in 1..Len(log') /\ old(o) = body[o]
    BY <1>1, <1>b DEF old
  <1>9. \A o : times(o) # 0 => \E s \in merged : Last(queue[s]).id = o BY <1>4
  <1>10. ASSUME NEW o \in DOMAIN log
         PROVE  /\ ToSet(body[o]) \subseteq ToSet(body'[o])
                /\ \A x \in ToSet(body'[o]) : x \in ToSet(body[o]) \/ (x = n /\ log[o] = e)
    <2>1. o \in 1..Len(log') /\ old(o) = body[o] BY <1>8
    <2>2. ToSet(body[o]) \subseteq ToSet(body'[o]) BY <1>7, <2>1
    <2>3. times(o) # 0 => log[o] = e
      <3>1. times(o) # 0 => \E s \in merged : Last(queue[s]).id = o BY <1>9
      <3> QED BY <1>5, <3>1
    <2>4. \A x \in ToSet(body'[o]) : x \in ToSet(old(o)) \/ (x = n /\ times(o) # 0) BY <1>7, <2>1
    <2> QED BY ONLY <2>1, <2>2, <2>3, <2>4
  <1>11. ASSUME n \notin DOMAIN log PROVE ToSet(body'[n]) = {n}
    <2>1. old(n) = <<n>> BY <1>1, <1>11 DEF LogTurn, old
    <2>2. ToSet(<<n>>) = {n} BY DEF ToSet
    <2> QED BY <1>1, <1>7, <2>1, <2>2
  <1>12. \A s \in merged : n \in ToSet(body'[Last(queue[s]).id])
    <2> TAKE s \in merged
    <2>1. times(Last(queue[s]).id) # 0 BY <1>4
    <2>2. Last(queue[s]).id \in 1..Len(log') BY <1>5, <1>8
    <2> QED BY <1>7, <2>1, <2>2
  <1> QED BY <1>1, <1>2, <1>5, <1>7, <1>10, <1>11, <1>12 DEF BodyTurn

\* The rest of a sequence has each of its elements once, and none of those before.
RestIs(q, k, r) ==
  Once(r) /\ ToSet(r) \subseteq ToSet(q) /\ \A i \in 1..k : q[i] \notin ToSet(r)

LEMMA RestOnce ==
  ASSUME NEW S, NEW q \in Seq(S), Once(q), NEW k \in Nat, k < Len(q)
  PROVE  RestIs(q, k, SubSeq(q, k + 1, Len(q)))
  <1> DEFINE m == Len(q)
             r == SubSeq(q, k + 1, Len(q))
  <1>1. /\ m \in Nat /\ DOMAIN q = 1..m /\ k \in Nat /\ k < m
        /\ DOMAIN r = 1..(m - k) /\ \A i \in 1..(m - k) : r[i] = q[i + k]
    OBVIOUS
  <1>2. \A i, j \in 1..m : q[i] = q[j] => i = j BY <1>1 DEF Once
  <1> HIDE DEF m, r
  <1>3. \A i \in 1..(m - k) : i \in Nat /\ i + k \in 1..m /\ i + k \notin 1..k BY ONLY <1>1
  <1>4. \A i, j \in 1..(m - k) : r[i] = r[j] => i + k = j + k BY ONLY <1>1, <1>2, <1>3
  <1>5. \A i, j \in 1..(m - k) : i + k = j + k => i = j BY ONLY <1>1, <1>3
  <1>6. Once(r) BY ONLY <1>1, <1>4, <1>5 DEF Once
  <1>7. \A x \in ToSet(r) : \E i \in 1..(m - k) : x = q[i + k] BY ONLY <1>1 DEF ToSet
  <1>8. ToSet(r) \subseteq ToSet(q) BY ONLY <1>1, <1>3, <1>7 DEF ToSet
  <1>9. \A i \in 1..k : q[i] \notin ToSet(r)
    <2>1. \A i \in 1..k : i \in 1..m BY ONLY <1>1
    <2> QED BY ONLY <1>2, <1>3, <1>7, <2>1
  <1> QED BY <1>6, <1>8, <1>9 DEF RestIs, r

\* What a round of publish() over todo does: room takes the event, merged has its text,
\* shed drops it, and left is to be waited for.
RoundOf(n, e, todo, room, merged, shed, left) ==
  /\ room \subseteq Subs /\ merged \subseteq Subs /\ shed \subseteq Subs
  /\ \A s \in Subs : queue'[s] = IF s \in room THEN Append(queue[s], Item(n)) ELSE queue[s]
  /\ \A s \in Subs : missed'[s] = IF s \in shed THEN missed[s] + 1 ELSE missed[s]
  /\ lost' \in [Subs -> Nat]
  /\ \A s \in Subs : lost'[s] = IF s \in shed THEN lost[s] + 1 ELSE lost[s]
  /\ \A s \in room : ~Full(s)
  /\ \A s \in merged : Full(s) /\ Merges(s, e)
  /\ \A s \in shed : Full(s) /\ IsDelta(e)
  /\ \A s \in room \cup merged \cup shed : s \in ToSet(todo) /\ s \notin ToSet(left)
  /\ left \in Seq(Known) /\ Once(left) /\ ToSet(left) \subseteq ToSet(todo)
  /\ IsDelta(e) => left = <<>>
  /\ BodyTurn(n, e, merged)

LEMMA Rounds ==
  ASSUME BusTypes, StreamTypes, NEW p \in Publishers, NEW n \in Nat, NEW e, LogTurn(n, e),
         NEW todo \in Seq(Known), Once(todo), NEW Late, Deliver(p, n, e, todo, Late)
  PROVE  \E room, merged, shed, left :
           /\ RoundOf(n, e, todo, room, merged, shed, left)
           /\ Late = {} /\ IsDelta(e) => ToSet(todo) \subseteq room \cup merged \cup shed
           /\ post' = [post EXCEPT ![p] = IF left = <<>> THEN Idle
                                          ELSE [event |-> n, left |-> left, woken |-> FALSE]]
  <1> DEFINE k == Reached(todo, e)
             at == {todo[i] : i \in 1..k}
             room == {s \in at : ~Full(s)} \ {s \in Late : Closed(s)}
             merged == {s \in at : Full(s) /\ Merges(s, e)}
             shed == {s \in at \ merged : Full(s) /\ IsDelta(e)}
             left == IF k = Len(todo) THEN <<>> ELSE SubSeq(todo, k + 1, Len(todo))
  <1>1. /\ queue' = [s \in Subs |-> IF s \in room THEN Append(queue[s], Item(n)) ELSE queue[s]]
        /\ body' = [o \in 1..Len(log') |->
                      LET old == IF o = n /\ n > Len(log) THEN <<n>> ELSE body[o]
                          times == Cardinality({s \in merged : Last(queue[s]).id = o})
                      IN  old \o [i \in 1..times |-> n]]
        /\ Dropped(shed)
        /\ post' = [post EXCEPT ![p] = IF k = Len(todo) THEN Idle
                                       ELSE [event |-> n, left |-> SubSeq(todo, k + 1, Len(todo)),
                                             woken |-> FALSE]]
    BY DEF Deliver
  <1>2. k \in 0..Len(todo) /\ Len(todo) \in Nat BY ReachedStops
  <1>3. IsDelta(e) => k = Len(todo) BY DEF Reached, Waits
  <1>4. at \subseteq ToSet(todo) /\ ToSet(todo) \subseteq Subs /\ (k = Len(todo) => at = ToSet(todo))
    <2>1. ToSet(todo) = {todo[i] : i \in 1..Len(todo)} BY DEF ToSet
    <2>2. \A i \in 1..k : i \in 1..Len(todo) BY <1>2
    <2>3. ToSet(todo) \subseteq Subs BY DEF ToSet, Known
    <2> HIDE DEF k
    <2> QED BY <2>1, <2>2, <2>3
  <1>5. IsFiniteSet(at)
    <2>1. k \in Nat BY <1>2
    <2> HIDE DEF k
    <2> QED BY <2>1, FirstAreFinite
  <1>6. /\ left \in Seq(Known) /\ Once(left) /\ ToSet(left) \subseteq ToSet(todo)
        /\ \A s \in at : s \notin ToSet(left)
        /\ (left = <<>> <=> k = Len(todo))
    <2>1. CASE k = Len(todo) BY <2>1 DEF ToSet, Once
    <2>2. CASE k # Len(todo)
      <3> DEFINE r == SubSeq(todo, k + 1, Len(todo))
      <3>1. k \in Nat /\ k < Len(todo) /\ left = r /\ r = SubSeq(todo, k + 1, Len(todo))
        BY <1>2, <2>2, SMTT(30)
      <3> HIDE DEF k, left, r
      <3>2. r \in Seq(Known) /\ r # <<>> BY <3>1, RestOf
      <3>0. RestIs(todo, k, r)
        <4>1. RestIs(todo, k, SubSeq(todo, k + 1, Len(todo))) BY <3>1, RestOnce
        <4> QED BY <3>1, <4>1
      <3>3. Once(r) /\ ToSet(r) \subseteq ToSet(todo) /\ \A i \in 1..k : todo[i] \notin ToSet(r)
        BY <3>0 DEF RestIs
      <3> QED BY <2>2, <3>1, <3>2, <3>3
    <2> QED BY <2>1, <2>2
  <1>7. /\ room \subseteq at /\ merged \subseteq at /\ shed \subseteq at
        /\ \A s \in room : ~Full(s)
        /\ \A s \in merged : Full(s) /\ Merges(s, e)
        /\ \A s \in shed : Full(s) /\ IsDelta(e)
    OBVIOUS
  <1>8. Late = {} /\ IsDelta(e) => at \subseteq room \cup merged \cup shed OBVIOUS
  <1>9. post' = [post EXCEPT ![p] = IF left = <<>> THEN Idle
                                    ELSE [event |-> n, left |-> left, woken |-> FALSE]]
    BY <1>1, <1>6
  <1> HIDE DEF at, room, merged, shed, left, k
  <1>10. BodyTurn(n, e, merged)
    <2>1. IsFiniteSet(merged) /\ merged \subseteq Subs BY <1>4, <1>5, <1>7, FS_Subset
    <2> QED BY <1>1, <1>7, <2>1, BodyTurns
  <1>11. /\ \A s \in Subs : missed'[s] = IF s \in shed THEN missed[s] + 1 ELSE missed[s]
         /\ \A s \in Subs : lost'[s] = IF s \in shed THEN lost[s] + 1 ELSE lost[s]
         /\ lost' \in [Subs -> Nat]
    BY <1>1 DEF Dropped, StreamTypes
  <1>12. RoundOf(n, e, todo, room, merged, shed, left)
    BY <1>1, <1>3, <1>4, <1>6, <1>7, <1>10, <1>11 DEF RoundOf
  <1> QED BY <1>3, <1>4, <1>8, <1>9, <1>12

-----------------------------------------------------------------------------
(* What a round keeps *)

LEMMA Ids ==
  ASSUME BusTypes, StreamTypes, NEW s \in Subs
  PROVE  /\ \A i \in DOMAIN seen[s] : seen[s][i].id \in {0} \cup DOMAIN log
         /\ \A j \in DOMAIN queue[s] : queue[s][j].id \in {0} \cup DOMAIN log
  <1> DEFINE m == Len(seen[s])
             c == Len(queue[s])
  <1>1. m \in Nat /\ c \in Nat /\ DOMAIN seen[s] = 1..m /\ DOMAIN queue[s] = 1..c
    BY DEF BusTypes, StreamTypes
  <1>2. \A k \in 1..(m + c) : IdAt(s, k) \in {0} \cup DOMAIN log BY DEF StreamTypes, Total
  <1>3. \A k : IdAt(s, k) = IF k <= m THEN seen[s][k].id ELSE queue[s][k - m].id BY DEF IdAt
  <1> HIDE DEF m, c
  <1>4. ASSUME NEW i \in 1..m PROVE seen[s][i].id \in {0} \cup DOMAIN log
    <2>1. i \in 1..(m + c) /\ i <= m BY ONLY <1>1, i \in 1..m
    <2> QED BY ONLY <1>2, <1>3, <2>1
  <1>5. ASSUME NEW j \in 1..c PROVE queue[s][j].id \in {0} \cup DOMAIN log
    <2>1. m + j \in 1..(m + c) /\ ~(m + j <= m) /\ (m + j) - m = j BY ONLY <1>1, j \in 1..c
    <2> QED BY ONLY <1>2, <1>3, <2>1
  <1> QED BY <1>1, <1>4, <1>5

LEMMA Elements ==
  ASSUME NEW S, NEW q \in Seq(S)
  PROVE  Len(q) \in Nat /\ DOMAIN q = 1..Len(q) /\ \A i \in 1..Len(q) : q[i] \in S
  OBVIOUS

LEMMA EntriesHold ==
  ASSUME BusTypes, StreamTypes, NEW s \in Subs
  PROVE  /\ Entries(seen[s]) /\ Entries(queue[s]) /\ missed[s] \in Nat /\ lost[s] \in Nat
         /\ Reports(seen[s]) \in Nat /\ Reports(queue[s]) \in Nat
  <1>1. seen[s] \in Seq([id : Nat, dropped : Nat, text : Seq(Nat)]) BY DEF StreamTypes
  <1>2. queue[s] \in Seq([id : Nat, dropped : Nat]) /\ missed[s] \in Nat /\ lost[s] \in Nat
    BY DEF BusTypes, StreamTypes
  <1>3. Entries(seen[s])
    <2>1. \A i \in 1..Len(seen[s]) : seen[s][i] \in [id : Nat, dropped : Nat, text : Seq(Nat)]
      BY <1>1, Elements
    <2>2. \A i \in 1..Len(seen[s]) : seen[s][i].dropped \in Nat BY <2>1
    <2> QED BY <1>1, <2>2 DEF Entries
  <1>4. Entries(queue[s])
    <2>1. \A i \in 1..Len(queue[s]) : queue[s][i] \in [id : Nat, dropped : Nat] BY <1>2, Elements
    <2>2. \A i \in 1..Len(queue[s]) : queue[s][i].dropped \in Nat BY <2>1
    <2> QED BY <1>2, <2>2 DEF Entries
  <1> QED BY <1>2, <1>3, <1>4, ReportsNat

LEMMA LogAfter ==
  ASSUME BusTypes, NEW n, NEW e, LogTurn(n, e)
  PROVE  \A o \in DOMAIN log' : o \in DOMAIN log \/ o = n
  <1>1. DOMAIN log' = 1..Len(log') /\ DOMAIN log = 1..Len(log) /\ Len(log) \in Nat
    BY DEF LogTurn, BusTypes
  <1> QED BY <1>1 DEF LogTurn

LEMMA TurnTexts ==
  ASSUME BusTypes, StreamTypes, TextsHold, NEW n, NEW e, NEW merged,
         LogTurn(n, e), BodyTurn(n, e, merged), UNCHANGED seen
  PROVE  TextsHold'
  <1>1. \A o \in DOMAIN log' : o \in DOMAIN log \/ o = n BY LogAfter
  <1>2. /\ DOMAIN log \subseteq DOMAIN log' /\ \A m \in DOMAIN log : log'[m] = log[m]
        /\ n \in DOMAIN log' /\ log'[n] = e
    BY DEF LogTurn, LogGrows
  <1>3. ASSUME NEW o \in DOMAIN log', NEW x \in ToSet(body'[o])
        PROVE  x \in DOMAIN log' /\ log'[x] = log'[o]
    <2>1. CASE o \in DOMAIN log
      <3>1. x \in ToSet(body[o]) \/ (x = n /\ log[o] = e) BY <2>1, <1>3 DEF BodyTurn
      <3>2. CASE x \in ToSet(body[o])
        <4>1. x \in DOMAIN log /\ log[x] = log[o] BY <2>1, <3>2 DEF TextsHold
        <4> QED BY <1>2, <2>1, <4>1
      <3>3. CASE x = n /\ log[o] = e BY <1>2, <2>1, <3>3
      <3> QED BY <3>1, <3>2, <3>3
    <2>2. CASE o \notin DOMAIN log
      <3>1. o = n BY <1>1, <2>2
      <3>2. x = n BY <1>3, <2>2, <3>1 DEF BodyTurn
      <3> QED BY <1>2, <3>1, <3>2
    <2> QED BY <2>1, <2>2
  <1>4. ASSUME NEW s \in Subs, NEW i \in DOMAIN seen[s], seen[s][i].id # 0, NEW x \in ToSet(seen[s][i].text)
        PROVE  x \in DOMAIN log' /\ log'[x] = log'[seen[s][i].id]
    <2>1. x \in DOMAIN log /\ log[x] = log[seen[s][i].id] BY <1>4 DEF TextsHold
    <2>2. seen[s][i].id \in DOMAIN log BY <1>4, Ids
    <2> QED BY <1>2, <2>1, <2>2
  <1> QED BY <1>3, <1>4 DEF TextsHold

LEMMA TurnBalance ==
  ASSUME BusTypes, StreamTypes, BalanceHolds, NEW n \in Nat, NEW e, NEW todo, NEW room, NEW merged,
         NEW shed, NEW left, RoundOf(n, e, todo, room, merged, shed, left), UNCHANGED seen
  PROVE  BalanceHolds'
  <1> SUFFICES ASSUME NEW s \in Subs
               PROVE  /\ Len(queue'[s]) <= Room[s]
                      /\ missed'[s] > 0 => queue'[s] # <<>>
                      /\ Reports(seen'[s]) + Reports(queue'[s]) + missed'[s] = lost'[s]
    BY DEF BalanceHolds
  <1>1. /\ Entries(seen[s]) /\ Entries(queue[s]) /\ missed[s] \in Nat /\ lost[s] \in Nat
        /\ Reports(seen[s]) \in Nat /\ Reports(queue[s]) \in Nat
    BY EntriesHold
  <1>2. /\ Len(queue[s]) <= Room[s] /\ (missed[s] > 0 => queue[s] # <<>>)
        /\ Reports(seen[s]) + Reports(queue[s]) + missed[s] = lost[s]
    BY DEF BalanceHolds
  <1>3. Room[s] \in Nat \ {0} /\ queue[s] \in Seq([id : Nat, dropped : Nat]) /\ Len(queue[s]) \in Nat
    BY RoomAssumption DEF BusTypes
  <1>4. /\ queue'[s] = IF s \in room THEN Append(queue[s], Item(n)) ELSE queue[s]
        /\ missed'[s] = IF s \in shed THEN missed[s] + 1 ELSE missed[s]
        /\ lost'[s] = IF s \in shed THEN lost[s] + 1 ELSE lost[s]
        /\ (s \in room => ~(Len(queue[s]) >= Room[s])) /\ (s \in shed => Len(queue[s]) >= Room[s])
    BY DEF RoundOf, Full
  <1>5. CASE s \in room
    <2> DEFINE q == queue[s]
               r == queue'[s]
               x == Item(n)
    <2>1. s \notin shed /\ r = Append(q, x) BY <1>3, <1>4, <1>5
    <2>2. x.dropped = 0 BY DEF Item
    <2>5. q \in Seq([id : Nat, dropped : Nat]) BY <1>3
    <2> HIDE DEF q, r, x
    <2>3. /\ Len(r) = Len(q) + 1 /\ r[Len(r)] = x /\ \A i \in 1..Len(q) : r[i] = q[i]
          /\ Len(q) \in Nat
      BY ONLY <2>1, <2>5
    <2>4. Reports(r) = Reports(q) + r[Len(r)].dropped
      <3>1. Entries(q) BY <1>1 DEF q
      <3> QED BY ONLY <2>2, <2>3, <3>1, ReportsLonger
    <2>6. Reports(r) = Reports(q) BY ONLY <1>1, <2>2, <2>3, <2>4 DEF q
    <2>7. r # <<>> /\ Len(r) <= Room[s]
      <3>1. Len(q) < Room[s] BY ONLY <1>3, <1>4, <1>5 DEF q
      <3>2. Len(r) <= Room[s] BY ONLY <1>3, <2>3, <3>1
      <3>3. r # <<>> BY <2>3
      <3> QED BY <3>2, <3>3
    <2>8. missed'[s] = missed[s] /\ lost'[s] = lost[s] BY <1>4, <2>1
    <2> QED BY ONLY <1>2, <2>6, <2>7, <2>8, UNCHANGED seen DEF q, r
  <1>6. CASE s \notin room
    <2>1. queue'[s] = queue[s] /\ seen'[s] = seen[s] BY <1>4, <1>6
    <2>2. CASE s \notin shed BY ONLY <1>2, <1>4, <2>1, <2>2
    <2>3. CASE s \in shed
      <3>1. Len(queue[s]) # 0 BY <1>3, <1>4, <2>3
      <3>2. queue[s] # <<>> BY <3>1
      <3>3. missed'[s] = missed[s] + 1 /\ lost'[s] = lost[s] + 1 BY <1>4, <2>3
      <3> QED BY ONLY <1>1, <1>2, <2>1, <3>2, <3>3
    <2> QED BY <2>2, <2>3
  <1> QED BY <1>5, <1>6

LEMMA TurnOrder ==
  ASSUME BusTypes, StreamTypes, OrderHolds, NEW p \in Publishers, NEW n \in Nat, NEW e, NEW todo, NEW room,
         NEW merged, NEW shed, NEW left, LogTurn(n, e), RoundOf(n, e, todo, room, merged, shed, left),
         UNCHANGED seen, e.by = p, \A q \in Publishers \ {p} : post'[q] = post[q],
         post'[p].left = left, left # <<>> => post'[p].event = n,
         \A s \in ToSet(todo) : \A k \in 1..Total(s) :
           IdAt(s, k) # 0 /\ log[IdAt(s, k)].by = p => IdAt(s, k) < n
  PROVE  /\ OrderHolds'
         /\ \A s \in Subs : \A k \in 1..Total(s)' : IdAt(s, k)' \in {0} \cup DOMAIN log'
  <1>1. LogGrows /\ n \in DOMAIN log' /\ log'[n] = e BY DEF LogTurn
  <1>2. ASSUME NEW s \in Subs PROVE SameLine(s) \/ (LongerLine(s, n) /\ Follows(s, n))
    <2>1. CASE s \notin room
      <3>1. queue'[s] = queue[s] /\ seen'[s] = seen[s] BY <2>1 DEF RoundOf
      <3> QED BY <3>1, LineStays
    <2>2. CASE s \in room
      <3>1. queue'[s] = Append(queue[s], Item(n)) /\ seen'[s] = seen[s] BY <2>2 DEF RoundOf
      <3>2. LongerLine(s, Item(n).id) BY <3>1, QueueLonger
      <3>3. Item(n).id = n BY DEF Item
      <3>4. s \in ToSet(todo) /\ s \notin ToSet(left) BY <2>2 DEF RoundOf
      <3>5. Follows(s, n) BY <1>1, <3>4 DEF Follows
      <3> QED BY <3>2, <3>3, <3>5
    <2> QED BY <2>1, <2>2
  <1>3. ASSUME NEW q \in Publishers, NEW s \in ToSet(post'[q].left)
        PROVE  s \in Subs /\ \A k \in 1..Total(s) :
                 IdAt(s, k) # 0 /\ log[IdAt(s, k)].by = q => IdAt(s, k) < post'[q].event
    <2>1. CASE q # p
      <3>1. post'[q] = post[q] /\ s \in ToSet(post[q].left) BY <1>3, <2>1
      <3>2. post[q].left \in Seq(Known) BY DEF BusTypes
      <3>3. ToSet(post[q].left) \subseteq Subs BY <3>2 DEF ToSet, Known
      <3> QED BY <3>1, <3>3 DEF OrderHolds
    <2>2. CASE q = p
      <3>1. s \in ToSet(left) /\ ToSet(left) \subseteq ToSet(todo) BY <1>3, <2>2 DEF RoundOf
      <3>2. left # <<>> BY <3>1 DEF ToSet
      <3>3. left \in Seq(Known) BY DEF RoundOf
      <3>4. ToSet(left) \subseteq Subs BY <3>3 DEF ToSet, Known
      <3> QED BY <2>2, <3>1, <3>2, <3>4
    <2> QED BY <2>1, <2>2
  <1> QED BY <1>1, <1>2, <1>3, OrderStep

LEMMA TurnWaiters ==
  ASSUME BusTypes, WaitersHold, NEW p \in Publishers, NEW n \in Nat, NEW e, NEW todo, NEW room,
         NEW merged, NEW shed, NEW left, LogTurn(n, e), RoundOf(n, e, todo, room, merged, shed, left),
         UNCHANGED attached, e.by = p, \A q \in Publishers \ {p} : post'[q] = post[q],
         post'[p].left = left, ~post'[p].woken, left # <<>> => post'[p].event = n
  PROVE  WaitersHold'
  <1>1. /\ \A m \in DOMAIN log : log'[m] = log[m]
        /\ log'[n] = e
    BY DEF LogTurn, LogGrows
  <1>2. Once(attached') BY DEF WaitersHold
  <1>3. ASSUME NEW q \in Publishers
        PROVE  /\ Once(post'[q].left)
               /\ post'[q].woken \/ post'[q].left # <<>> =>
                    log'[post'[q].event].by = q /\ ~IsDelta(log'[post'[q].event])
    <2>1. CASE q = p
      <3>1. Once(left) /\ (IsDelta(e) => left = <<>>) BY DEF RoundOf
      <3> QED BY <1>1, <2>1, <3>1
    <2>2. CASE q # p
      <3>1. post'[q] = post[q] BY <2>2
      <3>2. post[q].woken \/ post[q].left # <<>> => post[q].event \in DOMAIN log BY DEF BusTypes
      <3>3. /\ Once(post[q].left)
            /\ post[q].woken \/ post[q].left # <<>> =>
                 log[post[q].event].by = q /\ ~IsDelta(log[post[q].event])
        BY DEF WaitersHold
      <3> QED BY <1>1, <3>1, <3>2, <3>3
    <2> QED BY <2>1, <2>2
  <1> QED BY <1>2, <1>3 DEF WaitersHold, IsDelta

\* The fragments s was given or has queued, by place.
InText(s, m) ==
  \/ \E i \in DOMAIN seen[s] : m \in ToSet(seen[s][i].text)
  \/ \E j \in DOMAIN queue[s] : queue[s][j].id # 0 /\ m \in ToSet(body[queue[s][j].id])

LEMMA TextByPlace == \A s, m : m \in TextOf(s) <=> InText(s, m)
  BY DEF TextOf, InText

LEMMA TextByPlaceNext == \A s, m : m \in TextOf(s)' <=> InText(s, m)'
  BY DEF TextOf, InText

LEMMA TurnLosses ==
  ASSUME BusTypes, StreamTypes, LossesCounted, NEW n \in Nat, NEW e, NEW todo, NEW room,
         NEW merged, NEW shed, NEW left, LogTurn(n, e), RoundOf(n, e, todo, room, merged, shed, left),
         UNCHANGED seen, n # 0, \A m \in DOMAIN log : audience'[m] = audience[m],
         \/ n \notin DOMAIN log /\ audience'[n] = ToSet(todo)
            /\ (IsDelta(e) => ToSet(todo) \subseteq room \cup merged \cup shed)
         \/ n \in DOMAIN log /\ ~IsDelta(e)
  PROVE  LossesCounted'
  <1>1. \A o \in DOMAIN log' : o \in DOMAIN log \/ o = n BY LogAfter
  <1>2. /\ \A m \in DOMAIN log : m \in DOMAIN log' /\ log'[m] = log[m]
        /\ n \in DOMAIN log' /\ log'[n] = e
    BY DEF LogTurn, LogGrows
  <1>b. BodyTurn(n, e, merged) BY DEF RoundOf
  <1> SUFFICES ASSUME NEW s \in Subs
               PROVE  \/ Losses(s)' \subseteq Losses(s) /\ lost'[s] = lost[s]
                      \/ \E m : Losses(s)' \subseteq Losses(s) \cup {m} /\ lost'[s] = lost[s] + 1
    BY LossesStep
  <1>q. /\ queue[s] \in Seq([id : Nat, dropped : Nat]) /\ Len(queue[s]) \in Nat
        /\ DOMAIN queue[s] = 1..Len(queue[s])
        /\ \A j \in DOMAIN queue[s] : queue[s][j].id \in {0} \cup DOMAIN log
    <2>1. queue[s] \in Seq([id : Nat, dropped : Nat]) BY DEF BusTypes
    <2>2. Len(queue[s]) \in Nat /\ DOMAIN queue[s] = 1..Len(queue[s]) BY <2>1, Elements
    <2> QED BY <2>1, <2>2, Ids
  <1>3. \A j \in DOMAIN queue[s] : j \in DOMAIN queue'[s] /\ queue'[s][j] = queue[s][j]
    <2>1. CASE s \in room
      <3>1. queue'[s] = Append(queue[s], Item(n)) BY <2>1 DEF RoundOf
      <3> QED BY ONLY <3>1, <1>q
    <2>2. CASE s \notin room BY <2>2 DEF RoundOf
    <2> QED BY <2>1, <2>2
  <1>4. ASSUME NEW m, m \in TextOf(s) PROVE m \in TextOf(s)'
    <2>1. InText(s, m) BY <1>4, TextByPlace
    <2>2. CASE \E i \in DOMAIN seen[s] : m \in ToSet(seen[s][i].text)
      <3>1. InText(s, m)' BY <2>2 DEF InText
      <3> QED BY <3>1, TextByPlaceNext
    <2>3. ASSUME NEW j \in DOMAIN queue[s], queue[s][j].id # 0, m \in ToSet(body[queue[s][j].id])
          PROVE  m \in TextOf(s)'
      <3>1. queue[s][j].id \in DOMAIN log BY <1>q, <2>3
      <3>2. m \in ToSet(body'[queue[s][j].id]) BY <1>b, <2>3, <3>1 DEF BodyTurn
      <3>3. InText(s, m)' BY <1>3, <2>3, <3>2 DEF InText
      <3> QED BY <3>3, TextByPlaceNext
    <2> QED BY <2>1, <2>2, <2>3 DEF InText
  <1>5. ASSUME NEW m \in DOMAIN log, m \in Losses(s)' PROVE m \in Losses(s)
    <2>1. m \notin TextOf(s)' /\ IsDelta(log'[m]) /\ s \in audience'[m] BY <1>5 DEF Losses, IsDelta
    <2>2. audience'[m] = audience[m] /\ log'[m] = log[m] BY <1>2
    <2>3. m \notin TextOf(s) BY <1>4, <2>1
    <2> QED BY <2>1, <2>2, <2>3 DEF Losses
  <1>6. Losses(s)' \subseteq DOMAIN log' BY DEF Losses
  <1>7. Losses(s)' \subseteq Losses(s) \cup {n} BY <1>1, <1>5, <1>6
  <1>8. CASE s \in shed
    <2>1. lost'[s] = lost[s] + 1 BY <1>8 DEF RoundOf
    <2> QED BY <1>7, <2>1
  <1>9. CASE s \notin shed
    <2>1. lost'[s] = lost[s] BY <1>9 DEF RoundOf
    <2>2. ASSUME n \notin DOMAIN log, n \in Losses(s)' PROVE FALSE
      <3>1. IsDelta(e) /\ s \in ToSet(todo) /\ n \notin TextOf(s)' BY <1>2, <2>2 DEF Losses, IsDelta
      <3>2. s \in room \/ s \in merged BY <1>9, <2>2, <3>1
      <3>3. CASE s \in room
        <4>1. queue'[s] = Append(queue[s], Item(n)) BY <3>3 DEF RoundOf
        <4>2. /\ Len(queue[s]) + 1 \in DOMAIN queue'[s] /\ queue'[s][Len(queue[s]) + 1] = Item(n)
          BY ONLY <4>1, <1>q
        <4>3. Item(n).id = n BY DEF Item
        <4>4. n \in ToSet(body'[n]) BY <1>b, <2>2 DEF BodyTurn
        <4>5. InText(s, n)' BY <4>2, <4>3, <4>4, n # 0 DEF InText
        <4> QED BY <3>1, <4>5, TextByPlaceNext
      <3>4. CASE s \in merged
        <4> DEFINE o == Last(queue[s]).id
        <4>1. queue[s] # <<>> /\ o \in DOMAIN log /\ n \in ToSet(body'[o]) BY <1>b, <3>4 DEF BodyTurn
        <4>2. o # 0 BY <4>1 DEF BusTypes
        <4>3. Len(queue[s]) \in DOMAIN queue[s] /\ queue[s][Len(queue[s])].id = o
          BY <1>q, <4>1 DEF Last
        <4>4. InText(s, n)' BY <1>3, <4>1, <4>2, <4>3 DEF InText
        <4> QED BY <3>1, <4>4, TextByPlaceNext
      <3> QED BY <3>2, <3>3, <3>4
    <2>3. ASSUME n \in DOMAIN log, n \in Losses(s)' PROVE FALSE
      <3>1. IsDelta(e) BY <1>2, <2>3 DEF Losses, IsDelta
      <3> QED BY <2>3, <3>1
    <2>4. Losses(s)' \subseteq Losses(s) BY <1>1, <1>5, <1>6, <2>2, <2>3
    <2> QED BY <2>1, <2>4
  <1> QED BY <1>8, <1>9

-----------------------------------------------------------------------------
(* The steps keep what is read whole *)

LEMMA TurnKeeps ==
  ASSUME BusTypes, StreamInv, NEW p \in Publishers, NEW n \in Nat \ {0}, NEW e, NEW todo, NEW room,
         NEW merged, NEW shed, NEW left, LogTurn(n, e), RoundOf(n, e, todo, room, merged, shed, left),
         post' = [post EXCEPT ![p] = IF left = <<>> THEN Idle
                                     ELSE [event |-> n, left |-> left, woken |-> FALSE]],
         UNCHANGED <<seen, attached>>, e.by = p,
         \A s \in ToSet(todo) : \A k \in 1..Total(s) :
           IdAt(s, k) # 0 /\ log[IdAt(s, k)].by = p => IdAt(s, k) < n,
         \A m \in DOMAIN log : audience'[m] = audience[m],
         \/ n \notin DOMAIN log /\ audience'[n] = ToSet(todo)
            /\ (IsDelta(e) => ToSet(todo) \subseteq room \cup merged \cup shed)
         \/ n \in DOMAIN log /\ ~IsDelta(e)
  PROVE  StreamInv'
  <1> USE DEF StreamInv
  <1>1. BodyTurn(n, e, merged) /\ lost' \in [Subs -> Nat] /\ left \in Seq(Known) BY DEF RoundOf
  <1>2. /\ \A q \in Publishers \ {p} : post'[q] = post[q]
        /\ left # <<>> => post'[p].event = n
        /\ post'[p].left = left /\ ~post'[p].woken
    BY <1>1, RoundTypes
  <1>3. TextsHold' BY <1>1, TurnTexts
  <1>4. BalanceHolds' BY TurnBalance
  <1>5. OrderHolds' /\ \A s \in Subs : \A k \in 1..Total(s)' : IdAt(s, k)' \in {0} \cup DOMAIN log'
    BY <1>2, TurnOrder
  <1>6. WaitersHold' BY <1>2, TurnWaiters
  <1>7. LossesCounted' BY TurnLosses
  <1>8. StreamTypes'
    <2>1. DOMAIN body' = DOMAIN log' /\ \A o \in DOMAIN log' : body'[o] \in Seq(Nat)
      BY <1>1 DEF BodyTurn
    <2>2. \A s \in Subs : seen'[s] \in Seq([id : Nat, dropped : Nat, text : Seq(Nat)])
      BY DEF StreamTypes
    <2> QED BY <1>1, <1>5, <2>1, <2>2 DEF StreamTypes
  <1> QED BY <1>3, <1>4, <1>5, <1>6, <1>7, <1>8

LEMMA PublishKeeps ==
  ASSUME BusTypes, StreamInv, NEW p \in Publishers, NEW kind \in Kinds, Publish(p, kind)
  PROVE  StreamInv'
  <1> DEFINE e == [by |-> p, kind |-> kind]
             n == Len(log) + 1
  <1>1. /\ log' = Append(log, e) /\ audience' = Append(audience, ToSet(attached))
        /\ Deliver(p, n, e, attached, {}) /\ UNCHANGED <<attached, seen>>
    BY DEF Publish, ToSet
  <1>2. /\ Len(log) \in Nat /\ Len(audience) = Len(log) /\ n \in Nat \ {0}
        /\ DOMAIN log = 1..Len(log) /\ attached \in Seq(Known)
        /\ e \in [by : Publishers, kind : Kinds] /\ e.by = p
    BY DEF BusTypes
  <1>3. /\ log' \in Seq([by : Publishers, kind : Kinds]) /\ Len(log') = n /\ DOMAIN log' = 1..n
        /\ log'[n] = e /\ \A m \in 1..Len(log) : log'[m] = log[m]
    BY <1>1, <1>2 DEF BusTypes
  <1>4. audience'[n] = ToSet(attached) /\ \A m \in 1..Len(log) : audience'[m] = audience[m]
    BY <1>1, <1>2 DEF BusTypes
  <1>5. n \in 1..n /\ n \notin 1..Len(log) /\ 1..Len(log) \subseteq 1..n BY <1>2
  <1>6. n = Len(log) + 1 OBVIOUS
  <1> HIDE DEF e, n
  <1>7. LogTurn(n, e) BY <1>2, <1>3, <1>5, <1>6 DEF LogTurn, LogGrows
  <1>8. Once(attached) BY DEF StreamInv, WaitersHold
  <1>9. PICK room, merged, shed, left :
          /\ RoundOf(n, e, attached, room, merged, shed, left)
          /\ IsDelta(e) => ToSet(attached) \subseteq room \cup merged \cup shed
          /\ post' = [post EXCEPT ![p] = IF left = <<>> THEN Idle
                                         ELSE [event |-> n, left |-> left, woken |-> FALSE]]
    <2> DEFINE Late == {}
    <2>1. Deliver(p, n, e, attached, Late) /\ Late = {} BY <1>1
    <2> HIDE DEF Late
    <2>2. \E room, merged, shed, left :
            /\ RoundOf(n, e, attached, room, merged, shed, left)
            /\ Late = {} /\ IsDelta(e) => ToSet(attached) \subseteq room \cup merged \cup shed
            /\ post' = [post EXCEPT ![p] = IF left = <<>> THEN Idle
                                           ELSE [event |-> n, left |-> left, woken |-> FALSE]]
      BY <1>2, <1>7, <1>8, <2>1, Rounds, StreamInv DEF StreamInv
    <2> QED BY <2>1, <2>2
  <1>10. ASSUME NEW s \in ToSet(attached), NEW k \in 1..Total(s), IdAt(s, k) # 0
         PROVE  IdAt(s, k) < n
    <2>1. ToSet(attached) \subseteq Subs BY <1>2 DEF ToSet, Known
    <2>2. IdAt(s, k) \in 1..Len(log) BY <1>2, <1>10, <2>1 DEF StreamInv, StreamTypes
    <2> QED BY <1>2, <1>6, <2>2
  <1> QED BY <1>1, <1>2, <1>4, <1>5, <1>7, <1>9, <1>10, TurnKeeps

LEMMA ResumeKeeps ==
  ASSUME BusTypes, StreamInv, NEW p \in Publishers, Resume(p)
  PROVE  StreamInv'
  <1> DEFINE n == post[p].event
             todo == post[p].left
             Late == {post[p].left[1]}
             e == log[n]
  <1>1. /\ post[p].woken /\ Deliver(p, n, e, todo, Late)
        /\ UNCHANGED <<log, attached, stopped, status, seen, audience>>
    BY DEF Resume, histVars
  <1>2. n \in DOMAIN log /\ n \in Nat \ {0} /\ todo \in Seq(Known) BY <1>1 DEF BusTypes
  <1>3. e.by = p /\ ~IsDelta(e) /\ Once(todo) BY <1>1 DEF StreamInv, WaitersHold
  <1>4. LogTurn(n, e) BY <1>1, <1>2 DEF LogTurn, LogGrows, BusTypes
  <1>5. \A s \in ToSet(todo) : \A k \in 1..Total(s) :
          IdAt(s, k) # 0 /\ log[IdAt(s, k)].by = p => IdAt(s, k) < n
    BY DEF StreamInv, OrderHolds
  <1> HIDE DEF n, todo, Late, e
  <1>6. PICK room, merged, shed, left :
          /\ RoundOf(n, e, todo, room, merged, shed, left)
          /\ post' = [post EXCEPT ![p] = IF left = <<>> THEN Idle
                                         ELSE [event |-> n, left |-> left, woken |-> FALSE]]
    BY <1>1, <1>2, <1>3, <1>4, Rounds DEF StreamInv
  <1> QED BY <1>1, <1>2, <1>3, <1>4, <1>5, <1>6, TurnKeeps

\* What a step may do to the publishers when it publishes nothing.
PostQuiet ==
  \A p \in Publishers :
    \/ post'[p] = Idle
    \/ /\ post'[p].left = post[p].left /\ post'[p].event = post[p].event
       /\ post'[p].woken => post[p].woken \/ post[p].left # <<>>

LEMMA PostKeeps ==
  ASSUME BusTypes, StreamInv, UNCHANGED log, Once(attached'), PostQuiet
  PROVE  /\ WaitersHold'
         /\ \A p \in Publishers : \A s \in ToSet(post'[p].left) : s \in Subs /\ \A k \in 1..Total(s) :
              IdAt(s, k) # 0 /\ log[IdAt(s, k)].by = p => IdAt(s, k) < post'[p].event
  <1>1. ASSUME NEW p \in Publishers
        PROVE  /\ Once(post'[p].left)
               /\ post'[p].woken \/ post'[p].left # <<>> =>
                    log'[post'[p].event].by = p /\ ~IsDelta(log'[post'[p].event])
               /\ \A s \in ToSet(post'[p].left) : s \in Subs /\ \A k \in 1..Total(s) :
                    IdAt(s, k) # 0 /\ log[IdAt(s, k)].by = p => IdAt(s, k) < post'[p].event
    <2>1. CASE post'[p] = Idle
      <3>1. post'[p].left = <<>> /\ ~post'[p].woken BY <2>1 DEF Idle
      <3>2. Once(<<>>) /\ ToSet(<<>>) = {} BY DEF Once, ToSet
      <3> QED BY <3>1, <3>2
    <2>2. CASE /\ post'[p].left = post[p].left /\ post'[p].event = post[p].event
               /\ post'[p].woken => post[p].woken \/ post[p].left # <<>>
      <3>1. post[p].left \in Seq(Known) BY DEF BusTypes
      <3>2. ToSet(post[p].left) \subseteq Subs BY <3>1 DEF ToSet, Known
      <3>3. /\ Once(post[p].left)
            /\ post[p].woken \/ post[p].left # <<>> =>
                 log[post[p].event].by = p /\ ~IsDelta(log[post[p].event])
        BY DEF StreamInv, WaitersHold
      <3>4. \A s \in ToSet(post[p].left) : \A k \in 1..Total(s) :
              IdAt(s, k) # 0 /\ log[IdAt(s, k)].by = p => IdAt(s, k) < post[p].event
        BY DEF StreamInv, OrderHolds
      <3> QED BY <2>2, <3>2, <3>3, <3>4
    <2> QED BY <2>1, <2>2 DEF PostQuiet
  <1> QED BY <1>1 DEF WaitersHold, IsDelta

LEMMA QuietKeeps ==
  ASSUME BusTypes, StreamInv, UNCHANGED <<log, body, queue, missed, lost, seen, audience>>,
         Once(attached'), PostQuiet
  PROVE  StreamInv'
  <1> USE DEF StreamInv
  <1>1. WaitersHold' BY PostKeeps
  <1>2. \A s : Total(s)' = Total(s) /\ \A k : IdAt(s, k)' = IdAt(s, k) BY DEF Total, IdAt
  <1>3. StreamTypes' BY <1>2 DEF StreamTypes
  <1>4. TextsHold' BY DEF TextsHold
  <1>5. BalanceHolds' BY DEF BalanceHolds
  <1>6. OrderHolds'
    <2>1. \A p \in Publishers : \A s \in ToSet(post'[p].left) : s \in Subs /\ \A k \in 1..Total(s) :
            IdAt(s, k) # 0 /\ log[IdAt(s, k)].by = p => IdAt(s, k) < post'[p].event
      BY PostKeeps
    <2>2. \A s \in Subs : SameLine(s) BY LineStays
    <2>3. LogGrows BY DEF LogGrows
    <2> QED BY <2>1, <2>2, <2>3, OrderStep
  <1>7. LossesCounted'
    <2>1. \A s : Losses(s)' = Losses(s) BY DEF Losses, TextOf, IsDelta
    <2> QED BY <2>1 DEF LossesCounted
  <1> QED BY <1>1, <1>3, <1>4, <1>5, <1>6, <1>7

LEMMA WakeIsQuiet ==
  ASSUME BusTypes, NEW S, Wake(S)
  PROVE  PostQuiet
  <1>1. \A p \in Publishers : post'[p].event = post[p].event /\ post'[p].left = post[p].left
    BY WakeTypes
  <1>2. \A p \in Publishers : post'[p] = post[p] \/ post[p].left # <<>> BY DEF Wake
  <1> QED BY <1>1, <1>2 DEF PostQuiet

LEMMA GetKeeps ==
  ASSUME BusTypes, StreamInv, NEW s \in Subs, Get(s)
  PROVE  StreamInv'
  <1>0. lost' = lost BY DEF Get
  <1> DEFINE q == queue[s]
             item == Head(q)
             report == missed[s] > 0 /\ Len(Tail(q)) < Room[s]
             text == IF item.id = 0 THEN <<>> ELSE body[item.id]
             given == [id |-> item.id, dropped |-> item.dropped, text |-> text]
             mark == Marker(missed[s])
             old == seen[s]
             new == seen'[s]
             r == queue'[s]
  <1>1. /\ q # <<>> /\ Wake({s})
        /\ seen' = [seen EXCEPT ![s] = Append(seen[s], given)]
        /\ queue' = [queue EXCEPT ![s] = IF report THEN Append(Tail(q), mark) ELSE Tail(q)]
        /\ missed' = [missed EXCEPT ![s] = IF report THEN 0 ELSE missed[s]]
        /\ UNCHANGED <<log, body, attached, lost, audience>>
    BY DEF Get, busVars, histVars
  <1>2. /\ q \in Seq([id : Nat, dropped : Nat]) /\ missed[s] \in Nat
        /\ old \in Seq([id : Nat, dropped : Nat, text : Seq(Nat)])
    BY DEF BusTypes, StreamInv, StreamTypes
  <1>3. /\ \A t \in Subs \ {s} : seen'[t] = seen[t] /\ queue'[t] = queue[t] /\ missed'[t] = missed[t]
        /\ new = Append(old, given) /\ r = (IF report THEN Append(Tail(q), mark) ELSE Tail(q))
        /\ missed'[s] = IF report THEN 0 ELSE missed[s]
    BY <1>1 DEF BusTypes, StreamInv, StreamTypes
  <1>4. mark.id = 0 /\ mark.dropped = missed[s] BY DEF Marker
  <1>5. /\ Len(q) \in Nat \ {0} /\ item = q[1] /\ 1 \in DOMAIN q /\ DOMAIN q = 1..Len(q)
        /\ Tail(q) \in Seq([id : Nat, dropped : Nat]) /\ Len(Tail(q)) = Len(q) - 1
        /\ \A j \in 1..(Len(q) - 1) : Tail(q)[j] = q[j + 1]
    BY <1>1, <1>2
  <1>6. item.id \in {0} \cup DOMAIN log /\ item.id \in Nat /\ item.dropped \in Nat
    <2>1. q[1].id \in {0} \cup DOMAIN log BY <1>5, Ids DEF StreamInv
    <2>2. q[1] \in [id : Nat, dropped : Nat]
      <3> HIDE DEF q
      <3>1. 1 \in 1..Len(q) BY <1>5
      <3> QED BY <1>2, <3>1, Elements
    <2> QED BY <1>5, <2>1, <2>2
  <1>7. text \in Seq(Nat) BY <1>6 DEF StreamInv, StreamTypes
  <1>8. given.id = item.id /\ given.dropped = item.dropped /\ given.text = text OBVIOUS
  <1>9. given \in [id : Nat, dropped : Nat, text : Seq(Nat)] BY <1>6, <1>7
  <1> HIDE DEF item, given, mark
  <1>10. PostQuiet BY <1>1, WakeIsQuiet
  <1>11. Once(attached') BY <1>1 DEF StreamInv, WaitersHold
  <1>12. WaitersHold' BY <1>1, <1>10, <1>11, PostKeeps
  <1>13. OrderHolds' /\ \A t \in Subs : \A k \in 1..Total(t)' : IdAt(t, k)' \in {0} \cup DOMAIN log'
    <2>1. \A p \in Publishers : \A t \in ToSet(post'[p].left) : t \in Subs /\ \A k \in 1..Total(t) :
            IdAt(t, k) # 0 /\ log[IdAt(t, k)].by = p => IdAt(t, k) < post'[p].event
      BY <1>1, <1>10, <1>11, PostKeeps
    <2>2. SameLine(s) \/ LongerLine(s, 0)
      <3>1. queue'[s] = Tail(queue[s]) \/ queue'[s] = Append(Tail(queue[s]), mark) BY <1>3
      <3>2. seen'[s] = Append(seen[s], given) /\ queue[s] # <<>> BY <1>1, <1>3
      <3>3. given.id = Head(queue[s]).id BY <1>8 DEF item
      <3> HIDE DEF q, old, new, r, report
      <3> QED BY <1>4, <3>1, <3>2, <3>3, QueueRead DEF StreamInv
    <2>3. \A t \in Subs \ {s} : SameLine(t) BY <1>3, LineStays
    <2>4. LogGrows BY <1>1 DEF LogGrows
    <2> HIDE DEF q, old, new, r, report
    <2> QED BY <2>1, <2>2, <2>3, <2>4, OrderStep DEF StreamInv
  <1>14. /\ Append(old, given) \in Seq([id : Nat, dropped : Nat, text : Seq(Nat)])
         /\ Len(new) = Len(old) + 1 /\ Len(old) \in Nat /\ DOMAIN old = 1..Len(old) /\ DOMAIN new = 1..Len(new)
         /\ new[Len(new)] = given /\ \A i \in 1..Len(old) : new[i] = old[i]
    <2>1. new = Append(old, given) BY ONLY <1>3
    <2> HIDE DEF old, new
    <2> QED BY ONLY <1>2, <1>9, <2>1
  <1>15. StreamTypes'
    <2>1. \A t \in Subs : seen'[t] \in Seq([id : Nat, dropped : Nat, text : Seq(Nat)])
      BY <1>3, <1>14 DEF StreamInv, StreamTypes
    <2> QED BY <1>1, <1>13, <2>1 DEF StreamInv, StreamTypes
  <1>16. TextsHold'
    <2>1. ASSUME NEW t \in Subs, NEW i \in DOMAIN seen'[t], seen'[t][i].id # 0,
                 NEW x \in ToSet(seen'[t][i].text)
          PROVE  x \in DOMAIN log' /\ log'[x] = log'[seen'[t][i].id]
      <3>1. CASE i \in DOMAIN seen[t] /\ seen'[t][i] = seen[t][i]
        BY <1>1, <2>1, <3>1 DEF StreamInv, TextsHold
      <3>2. CASE t = s /\ seen'[t][i] = given
        <4>1. item.id # 0 /\ item.id \in DOMAIN log /\ given.text = body[item.id]
          BY <1>6, <1>8, <2>1, <3>2
        <4>2. x \in ToSet(body[item.id]) BY <2>1, <3>2, <4>1
        <4>3. x \in DOMAIN log /\ log[x] = log[item.id] BY <4>1, <4>2 DEF StreamInv, TextsHold
        <4> QED BY <1>1, <1>8, <3>2, <4>3
      <3>3. CASE t = s
        <4>1. i \in 1..Len(new) BY <1>14, <2>1, <3>3
        <4>2. i \in 1..Len(old) \/ i = Len(new) BY ONLY <1>14, <4>1
        <4> QED BY <1>14, <3>1, <3>2, <3>3, <4>2
      <3>4. CASE t # s BY <1>3, <2>1, <3>1, <3>4
      <3> QED BY <3>3, <3>4
    <2>2. \A o \in DOMAIN log' : \A x \in ToSet(body'[o]) : x \in DOMAIN log' /\ log'[x] = log'[o]
      BY <1>1 DEF StreamInv, TextsHold
    <2> QED BY <2>1, <2>2 DEF TextsHold
  <1>17. BalanceHolds'
    <2>1. \A t \in Subs \ {s} : /\ Len(queue'[t]) <= Room[t]
                                /\ missed'[t] > 0 => queue'[t] # <<>>
                                /\ Reports(seen'[t]) + Reports(queue'[t]) + missed'[t] = lost'[t]
      BY <1>1, <1>3 DEF StreamInv, BalanceHolds
    <2>2. /\ Entries(old) /\ Entries(q) /\ lost[s] \in Nat /\ Reports(old) \in Nat /\ Reports(q) \in Nat
      BY EntriesHold DEF StreamInv
    <2>3. /\ Len(q) <= Room[s] /\ Reports(old) + Reports(q) + missed[s] = lost[s]
      BY DEF StreamInv, BalanceHolds
    <2>4. Room[s] \in Nat \ {0} BY RoomAssumption
    <2>5. Reports(new) = Reports(old) + item.dropped
      <3>1. new[Len(new)].dropped \in Nat /\ new[Len(new)].dropped = item.dropped BY <1>6, <1>8, <1>14
      <3> HIDE DEF new, old
      <3> QED BY <1>14, <2>2, <3>1, ReportsLonger
    <2> DEFINE u == Tail(q)
    <2>6. Reports(q) = item.dropped + Reports(u)
      <3>1. Len(u) \in Nat /\ Len(q) = Len(u) + 1 /\ \A j \in 1..Len(u) : u[j] = q[j + 1]
        BY <1>5
      <3> HIDE DEF u, q
      <3>2. Reports(q) = q[1].dropped + Reports(u) BY <2>2, <3>1, ReportsShorter
      <3> QED BY <1>5, <3>2
    <2>7. Entries(u) /\ Reports(u) \in Nat
      <3>1. u \in Seq([id : Nat, dropped : Nat]) BY <1>5
      <3> HIDE DEF u
      <3>2. \A i \in 1..Len(u) : u[i] \in [id : Nat, dropped : Nat] BY <3>1, Elements
      <3>3. \A i \in 1..Len(u) : u[i].dropped \in Nat BY <3>2
      <3>4. Entries(u) BY <3>1, <3>3 DEF Entries
      <3> QED BY <3>4, ReportsNat
    <2>10. missed[s] \in Nat /\ item.dropped \in Nat /\ lost[s] \in Nat BY ONLY <1>2, <1>6, <2>2
    <2>11. Reports(old) \in Nat /\ Reports(q) \in Nat /\ Reports(u) \in Nat BY ONLY <2>2, <2>7
    <2>12. Reports(old) + Reports(q) + missed[s] = lost[s] BY ONLY <2>3
    <2>13. Reports(new) \in Nat /\ Reports(new) + Reports(u) + missed[s] = lost[s]
      <3> HIDE DEF new, old, q, u
      <3> QED BY ONLY <2>5, <2>6, <2>10, <2>11, <2>12
    <2>8. CASE report
      <3>1. r = Append(u, mark) /\ missed'[s] = 0 BY <1>3, <2>8
      <3>2. u \in Seq([id : Nat, dropped : Nat]) /\ Len(u) = Len(q) - 1 BY <1>5
      <3> HIDE DEF u, r, q
      <3>3. Len(r) = Len(u) + 1 /\ r[Len(r)] = mark /\ \A i \in 1..Len(u) : r[i] = u[i]
        BY ONLY <3>1, <3>2
      <3>4. Reports(r) = Reports(u) + missed[s]
        <4>1. r[Len(r)].dropped \in Nat BY <1>2, <1>4, <3>3
        <4>2. Reports(r) = Reports(u) + r[Len(r)].dropped BY <2>7, <3>3, <4>1, ReportsLonger
        <4> QED BY <1>4, <3>3, <4>2
      <3>5. Len(r) = Len(q) BY ONLY <1>5, <3>2, <3>3
      <3>6. Reports(new) + Reports(r) + missed'[s] = lost'[s]
        <4> HIDE DEF new, old
        <4>1. lost'[s] = lost[s] BY ONLY <1>0
        <4>2. missed'[s] = 0 BY ONLY <3>1
        <4> HIDE DEF item
        <4> QED BY ONLY <2>10, <2>11, <2>13, <3>4, <4>1, <4>2
      <3>7. Len(r) <= Room[s] /\ ~(missed'[s] > 0) BY ONLY <2>3, <3>1, <3>5
      <3> QED BY <2>1, <3>6, <3>7 DEF BalanceHolds, r, new
    <2>9. CASE ~report
      <3>1. r = u /\ missed'[s] = missed[s] BY <1>3, <2>9
      <3>2. Len(u) = Len(q) - 1 BY <1>5
      <3>3. Len(r) <= Room[s]
        <4> HIDE DEF u, q, r, report
        <4> QED BY ONLY <1>5, <2>3, <2>4, <3>1, <3>2
      <3>4. ~(missed[s] > 0)
        <4>1. missed[s] > 0 => ~(Len(u) < Room[s]) BY <2>9
        <4> HIDE DEF u, q, r, report
        <4> QED BY ONLY <1>5, <2>3, <2>4, <3>2, <4>1
      <3>5. Reports(new) + Reports(r) + missed'[s] = lost'[s]
        <4> HIDE DEF u, q, r, new, old
        <4>1. lost'[s] = lost[s] BY ONLY <1>0
        <4> QED BY ONLY <2>13, <3>1, <4>1
      <3> QED BY <2>1, <3>1, <3>3, <3>4, <3>5 DEF BalanceHolds, r, new
    <2> QED BY <2>8, <2>9
  <1>18. LossesCounted'
    <2>1. \A j \in 1..(Len(q) - 1) : j \in DOMAIN r /\ r[j] = q[j + 1]
      <3> DEFINE u == Tail(q)
      <3>1. u \in Seq([id : Nat, dropped : Nat]) /\ Len(u) = Len(q) - 1
            /\ \A j \in 1..(Len(q) - 1) : u[j] = q[j + 1]
        BY <1>5
      <3>2. r = u \/ r = Append(u, mark) BY <1>3
      <3> HIDE DEF u, r, q
      <3>3. \A j \in 1..Len(u) : j \in DOMAIN Append(u, mark) /\ Append(u, mark)[j] = u[j]
        BY ONLY <3>1
      <3>4. \A j \in 1..Len(u) : j \in DOMAIN u BY ONLY <3>1
      <3>5. \A j \in 1..Len(u) : j \in DOMAIN r /\ r[j] = u[j] BY ONLY <3>2, <3>3, <3>4
      <3> QED BY ONLY <3>1, <3>5
    <2>2. ASSUME NEW t \in Subs, NEW m, m \in TextOf(t) PROVE m \in TextOf(t)'
      <3>1. InText(t, m) BY <2>2, TextByPlace
      <3>2. CASE t # s
        <4>1. InText(t, m)' BY <1>1, <1>3, <3>1, <3>2 DEF InText
        <4> QED BY <4>1, TextByPlaceNext
      <3>3. ASSUME t = s, NEW i \in DOMAIN seen[s], m \in ToSet(seen[s][i].text)
            PROVE  m \in TextOf(t)'
        <4>1. i \in DOMAIN new /\ new[i] = old[i]
          <5>1. i \in 1..Len(old) BY <1>14, <3>3
          <5> HIDE DEF old, new
          <5>2. i \in 1..Len(new) BY ONLY <1>14, <5>1
          <5> QED BY ONLY <1>14, <5>1, <5>2
        <4>2. InText(t, m)' BY <3>3, <4>1 DEF InText
        <4> QED BY <4>2, TextByPlaceNext
      <3>4. ASSUME t = s, NEW j \in DOMAIN q, q[j].id # 0, m \in ToSet(body[q[j].id])
            PROVE  m \in TextOf(t)'
        <4>1. CASE j = 1
          <5>1. given.text = body[q[j].id] BY <1>5, <1>8, <3>4, <4>1
          <5>2. Len(new) \in DOMAIN new BY ONLY <1>14
          <5>3. InText(t, m)' BY <1>14, <3>4, <5>1, <5>2 DEF InText
          <5> QED BY <5>3, TextByPlaceNext
        <4>2. CASE j # 1
          <5>1. j - 1 \in 1..(Len(q) - 1) /\ (j - 1) + 1 = j
            <6> HIDE DEF q
            <6> QED BY <1>5, <3>4, <4>2
          <5>2. j - 1 \in DOMAIN r /\ r[j - 1] = q[j] BY <2>1, <5>1
          <5>3. InText(t, m)' BY <1>1, <3>4, <5>2 DEF InText
          <5> QED BY <5>3, TextByPlaceNext
        <4> QED BY <4>1, <4>2
      <3> QED BY <3>1, <3>2, <3>3, <3>4 DEF InText
    <2>3. \A t \in Subs : Losses(t)' \subseteq Losses(t)
      BY <1>1, <2>2 DEF Losses, IsDelta
    <2> QED BY <1>1, <2>3, LossesStep DEF StreamInv
  <1> QED BY <1>12, <1>13, <1>15, <1>16, <1>17, <1>18 DEF StreamInv

LEMMA LongerOnce ==
  ASSUME NEW S, NEW q \in Seq(S), Once(q), NEW e, e \notin S
  PROVE  Once(Append(q, e))
  <1> DEFINE r == Append(q, e)
             m == Len(q)
  <1>1. /\ m \in Nat /\ DOMAIN q = 1..m /\ DOMAIN r = 1..(m + 1) /\ r[m + 1] = e
        /\ \A i \in 1..m : r[i] = q[i] /\ q[i] \in S
    OBVIOUS
  <1> HIDE DEF r, m
  <1>2. \A i \in 1..(m + 1) : i \in 1..m \/ i = m + 1 BY ONLY <1>1
  <1>3. \A i, j \in 1..m : q[i] = q[j] => i = j BY <1>1 DEF Once
  <1>4. \A i, j \in 1..(m + 1) : r[i] = r[j] => i = j BY <1>1, <1>2, <1>3
  <1> QED BY <1>1, <1>4 DEF Once, r

JoinedIs(u, v, r) ==
  /\ DOMAIN r = 1..(Len(u) + Len(v))
  /\ \A i \in 1..Len(u) : r[i] = u[i]
  /\ \A i \in 1..Len(v) : r[Len(u) + i] = v[i]

LEMMA Joined ==
  ASSUME NEW S, NEW u \in Seq(S), NEW v \in Seq(S)
  PROVE  JoinedIs(u, v, u \o v)
  BY DEF JoinedIs

LEMMA RemovedOnce ==
  ASSUME NEW S, NEW q \in Seq(S), Once(q), NEW e
  PROVE  Once(RemoveFirst(q, e))
  <1>1. CASE \E i \in 1..Len(q) : q[i] = e
    <2> DEFINE I == {i \in 1..Len(q) : q[i] = e}
               k == Min(I)
               m == Len(q)
               one == SubSeq(q, 1, k - 1)
               two == SubSeq(q, k + 1, m)
               r == one \o two
    <2>1. SelectInSeq(q, LAMBDA v : v = e) = k BY <1>1 DEF SelectInSeq
    <2>2. RemoveFirst(q, e) = r BY <1>1, <2>1 DEF RemoveFirst, RemoveAt
    <2>3. I \subseteq Nat /\ I # {} BY <1>1
    <2>0. I \subseteq 1..m /\ m \in Nat OBVIOUS
    <2> HIDE DEF I
    <2>4. k \in 1..m /\ m \in Nat BY <2>0, <2>3, NatMin
    <2> HIDE DEF k
    <2>5. /\ one \in Seq(S) /\ Len(one) = k - 1 /\ \A i \in 1..(k - 1) : one[i] = q[i]
          /\ two \in Seq(S) /\ Len(two) = m - k /\ \A i \in 1..(m - k) : two[i] = q[i + k]
      BY <2>4
    <2>6. \A i, j \in 1..m : q[i] = q[j] => i = j BY DEF Once
    <2> HIDE DEF one, two, m
    <2>7. /\ DOMAIN r = 1..((k - 1) + (m - k))
          /\ \A i \in 1..(k - 1) : r[i] = one[i]
          /\ \A i \in 1..(m - k) : r[(k - 1) + i] = two[i]
      <3>1. /\ DOMAIN r = 1..(Len(one) + Len(two))
            /\ \A i \in 1..Len(one) : r[i] = one[i]
            /\ \A i \in 1..Len(two) : r[Len(one) + i] = two[i]
        <4>1. one \in Seq(S) /\ two \in Seq(S) BY <2>5
        <4>2. JoinedIs(one, two, one \o two) BY ONLY <4>1, Joined
        <4> QED BY ONLY <4>2 DEF JoinedIs
      <3> HIDE DEF r
      <3> QED BY ONLY <2>5, <3>1
    <2> HIDE DEF r
    <2> DEFINE from(i) == IF i < k THEN i ELSE i + 1
    <2>8. ASSUME NEW i \in 1..((k - 1) + (m - k)) PROVE from(i) \in 1..m /\ r[i] = q[from(i)]
      <3>1. CASE i < k
        <4>1. i \in 1..(k - 1) /\ i \in 1..m BY ONLY <2>4, <3>1, i \in 1..((k - 1) + (m - k))
        <4> QED BY ONLY <2>5, <2>7, <3>1, <4>1
      <3>2. CASE ~(i < k)
        <4> DEFINE h == i - (k - 1)
        <4>1. h \in 1..(m - k) /\ (k - 1) + h = i /\ h + k = i + 1 /\ i + 1 \in 1..m
          BY ONLY <2>4, <3>2, i \in 1..((k - 1) + (m - k))
        <4> HIDE DEF h
        <4>2. r[(k - 1) + h] = two[h] /\ two[h] = q[h + k] BY ONLY <2>5, <2>7, <4>1
        <4>3. r[i] = q[i + 1] BY ONLY <4>1, <4>2
        <4> QED BY ONLY <3>2, <4>1, <4>3
      <3> QED BY <3>1, <3>2
    <2>9. \A i, j \in 1..((k - 1) + (m - k)) : from(i) = from(j) => i = j BY ONLY <2>4
    <2> HIDE DEF from
    <2>10. \A i, j \in 1..((k - 1) + (m - k)) : r[i] = r[j] => i = j BY <2>6, <2>8, <2>9
    <2>11. Once(r) BY ONLY <2>7, <2>10 DEF Once
    <2> QED BY <2>2, <2>11
  <1>2. CASE ~ \E i \in 1..Len(q) : q[i] = e BY <1>2 DEF RemoveFirst
  <1> QED BY <1>1, <1>2

LEMMA StreamStep ==
  ASSUME BusTypes, StreamInv, [Next]_vars
  PROVE  StreamInv'
  <1>a. Once(attached) /\ attached \in Seq(Known) BY DEF StreamInv, WaitersHold, BusTypes
  <1>b. post' = post => PostQuiet BY DEF PostQuiet
  <1>1. CASE UNCHANGED vars
    <2>1. UNCHANGED <<log, body, queue, missed, lost, seen, audience, attached, post>>
      BY <1>1 DEF vars, busVars, subVars, histVars
    <2> QED BY <1>a, <1>b, <2>1, QuietKeeps
  <1>2. ASSUME NEW p \in Publishers, Resume(p) PROVE StreamInv' BY <1>2, ResumeKeeps
  <1>3. ASSUME NEW p \in Publishers, Cancelled(p) PROVE StreamInv'
    <2>1. /\ post' = [post EXCEPT ![p] = Idle]
          /\ UNCHANGED <<log, body, queue, missed, lost, seen, audience, attached>>
      BY <1>3 DEF Cancelled, busVars, subVars
    <2>2. \A q \in Publishers : post'[q] = Idle \/ post'[q] = post[q] BY <2>1 DEF BusTypes
    <2>3. PostQuiet BY <2>2 DEF PostQuiet
    <2> QED BY <1>a, <2>1, <2>3, QuietKeeps
  <1>4. ASSUME NEW p \in Publishers, NEW kind \in Kinds, Publish(p, kind) PROVE StreamInv'
    BY <1>4, PublishKeeps
  <1>5. ASSUME NEW s \in Subs, Get(s) PROVE StreamInv' BY <1>5, GetKeeps
  <1>6. ASSUME NEW s \in Subs, ReaderEnds(s) PROVE StreamInv'
    <2>1. UNCHANGED <<log, body, queue, missed, lost, seen, audience, attached, post>>
      BY <1>6 DEF ReaderEnds, busVars, histVars
    <2> QED BY <1>a, <1>b, <2>1, QuietKeeps
  <1>7. ASSUME NEW s \in Subs, Subscribe(s) PROVE StreamInv'
    <2>1. /\ attached' = Append(attached, s) /\ s \notin Known
          /\ UNCHANGED <<log, body, queue, missed, lost, seen, audience, post>>
      BY <1>7 DEF Subscribe, histVars, Known
    <2>2. Once(attached') BY <1>a, <2>1, LongerOnce
    <2> QED BY <1>b, <2>1, <2>2, QuietKeeps
  <1>8. ASSUME NEW s \in Subs, Unsubscribe(s) PROVE StreamInv'
    <2>1. /\ attached' = RemoveFirst(attached, s) /\ Wake({s})
          /\ UNCHANGED <<log, body, queue, missed, lost, seen, audience>>
      BY <1>8 DEF Unsubscribe, histVars
    <2>2. Once(attached') BY <1>a, <2>1, RemovedOnce
    <2>3. PostQuiet BY <2>1, WakeIsQuiet
    <2> QED BY <2>1, <2>2, <2>3, QuietKeeps
  <1>9. CASE Close
    <2>1. UNCHANGED <<log, body, queue, missed, lost, seen, audience, attached>>
      BY <1>9 DEF Close, histVars
    <2>2. PostQuiet BY <1>9, WakeIsQuiet DEF Close
    <2> QED BY <1>a, <2>1, <2>2, QuietKeeps
  <1>10. CASE Rest BY <1>1, <1>10 DEF Rest
  <1> QED BY <1>1, <1>2, <1>3, <1>4, <1>5, <1>6, <1>7, <1>8, <1>9, <1>10 DEF Next, Reading

LEMMA StreamInit == Init => StreamInv
  <1> SUFFICES ASSUME Init PROVE StreamInv OBVIOUS
  <1>1. /\ log = <<>> /\ body = <<>> /\ DOMAIN log = {} /\ DOMAIN body = {}
        /\ \A s \in Subs : /\ queue[s] = <<>> /\ seen[s] = <<>> /\ missed[s] = 0 /\ lost[s] = 0
                           /\ DOMAIN seen[s] = {}
        /\ lost \in [Subs -> Nat]
    BY DEF Init
  <1>2. ASSUME NEW s \in Subs PROVE Total(s) = 0 /\ 1..Total(s) = {}
    <2>1. Len(<<>>) = 0 OBVIOUS
    <2>3. Len(seen[s]) = 0 /\ Len(queue[s]) = 0 BY <1>1, <2>1
    <2>2. Total(s) = 0 BY ONLY <2>3 DEF Total
    <2> QED BY <2>2
  <1>3. StreamTypes
    <2>1. <<>> \in Seq([id : Nat, dropped : Nat, text : Seq(Nat)]) OBVIOUS
    <2>2. \A s \in Subs : /\ seen[s] \in Seq([id : Nat, dropped : Nat, text : Seq(Nat)])
                         /\ \A k \in 1..Total(s) : IdAt(s, k) \in {0} \cup DOMAIN log
      BY <1>1, <1>2, <2>1
    <2>3. DOMAIN body = DOMAIN log /\ \A o \in DOMAIN log : body[o] \in Seq(Nat) BY <1>1
    <2> QED BY <1>1, <2>2, <2>3 DEF StreamTypes
  <1>4. TextsHold BY <1>1 DEF TextsHold
  <1>5. BalanceHolds
    <2>1. Reports(<<>>) = 0
      <3> DEFINE none == <<>>
      <3>1. Entries(none) /\ Len(none) = 0 BY DEF Entries
      <3> HIDE DEF none
      <3>2. Reports(none) = 0 BY <3>1, ReportsNat
      <3> QED BY <3>2 DEF none
    <2>2. \A s \in Subs : Room[s] \in Nat \ {0} BY RoomAssumption
    <2> QED BY <1>1, <2>1, <2>2 DEF BalanceHolds
  <1>6. \A p \in Publishers : post[p].left = <<>> /\ ~post[p].woken BY DEF Init, Idle
  <1>7. OrderHolds
    <2>1. \A p \in Publishers : ToSet(post[p].left) = {} BY <1>6 DEF ToSet
    <2> QED BY <1>2, <2>1 DEF OrderHolds
  <1>8. WaitersHold
    <2>1. Once(attached) BY SubsAssumption DEF Init, Once
    <2>2. Once(<<>>) BY DEF Once
    <2> QED BY <1>6, <2>1, <2>2 DEF WaitersHold
  <1>9. LossesCounted
    <2>1. \A s : Losses(s) = {} BY <1>1 DEF Losses
    <2>2. Cardinality({}) = 0 BY FS_EmptySet
    <2>3. ASSUME NEW s \in Subs PROVE Cardinality(Losses(s)) <= lost[s]
      <3>1. lost[s] = 0 BY <1>1
      <3>2. Cardinality(Losses(s)) = 0 BY <2>1, <2>2
      <3> QED BY ONLY <3>1, <3>2
    <2> QED BY <2>3 DEF LossesCounted
  <1> QED BY <1>3, <1>4, <1>5, <1>7, <1>8, <1>9 DEF StreamInv

LEMMA StreamGives == BusTypes /\ StreamInv => StreamHolds
  <1> SUFFICES ASSUME BusTypes, StreamInv PROVE StreamHolds OBVIOUS
  <1>1. LossesInMarkers BY DEF StreamInv, BalanceHolds, LossesInMarkers
  <1>2. CaughtUpIsTold
    <2>1. \A s \in Subs : missed[s] \in Nat BY DEF BusTypes
    <2> QED BY <2>1 DEF StreamInv, BalanceHolds, CaughtUpIsTold
  <1>3. PublisherOrder
    <2> SUFFICES ASSUME NEW s \in Subs, NEW i \in DOMAIN seen[s], NEW j \in DOMAIN seen[s]
                 PROVE  LET a == seen[s][i].id
                            b == seen[s][j].id
                        IN  /\ i < j /\ a # 0 /\ b # 0 /\ log[a].by = log[b].by => a < b
                            /\ a # 0 => \A n \in ToSet(seen[s][i].text) : log[n] = log[a]
      BY DEF PublisherOrder
    <2>1. ASSUME NEW k \in DOMAIN seen[s] PROVE k \in 1..Total(s) /\ IdAt(s, k) = seen[s][k].id
      <3> DEFINE m == Len(seen[s])
                 c == Len(queue[s])
      <3>1. DOMAIN seen[s] = 1..m /\ m \in Nat /\ c \in Nat
        <4>1. seen[s] \in Seq([id : Nat, dropped : Nat, text : Seq(Nat)]) BY DEF StreamInv, StreamTypes
        <4>2. queue[s] \in Seq([id : Nat, dropped : Nat]) BY DEF BusTypes
        <4> HIDE DEF m, c
        <4> QED BY <4>1, <4>2, Elements DEF m, c
      <3>3. k \in 1..m BY <3>1
      <3> HIDE DEF m, c
      <3>2. k \in 1..(m + c) /\ k <= m BY ONLY <3>1, <3>3
      <3> QED BY <3>2 DEF Total, IdAt, m, c
    <2>2. i \in 1..Total(s) /\ j \in 1..Total(s) /\ IdAt(s, i) = seen[s][i].id /\ IdAt(s, j) = seen[s][j].id
      BY <2>1
    <2> QED BY <2>2 DEF StreamInv, OrderHolds, TextsHold
  <1> QED BY <1>1, <1>2, <1>3 DEF StreamInv, StreamHolds, LossesReported

\* What a subscriber reads is each publisher's stream in its order, with the text of no
\* other stream, and short of no more text than the markers tell it (publish(), get(),
\* _try_coalesce() and _drop()).
THEOREM StreamIsWhole == Spec => []StreamHolds
  <1>1. BusTypes /\ DeliveryInv /\ StreamInv /\ [Next]_vars => (BusTypes /\ DeliveryInv /\ StreamInv)'
    BY BusStep, StreamStep
  <1>2. Init => BusTypes /\ DeliveryInv /\ StreamInv BY BusInit, StreamInit
  <1>3. BusTypes /\ DeliveryInv /\ StreamInv => StreamHolds BY StreamGives
  <1> QED BY <1>1, <1>2, <1>3, PTL DEF Spec
=============================================================================
