--------------------------- MODULE ApprovalsProofs ---------------------------
(***************************************************************************)
(* For any calls, any requests pending in the session and any keys: what a *)
(* call is told was decided of its own request, and a decision carried     *)
(* over from a session is spent at most once.                              *)
(***************************************************************************)
EXTENDS ApprovalsProps, FiniteSetTheorems, TLAPS

Keys == {Key[c] : c \in Requests}

\* The types the argument needs of the gate.
GateTypes ==
  /\ task \in [Calls -> {"new", "requesting", "announcing", "waiting", "typed", "over"}]
  /\ future \in [Requests -> Decisions \cup {"open"}]
  /\ outcome \in [Calls -> Decisions \cup {"none", "cut"}]
  /\ reason \in [Calls -> {"none", "carried", "auto", "policy", "answer", "cut"}]
  /\ restored \subseteq Saved /\ carried \subseteq Keys \X Decisions

\* What a dismissed screen reports and what a worker is about to tell the gate, a human
\* said of that request; a request that is settled was settled the way somebody said.
ScreensSaid ==
  /\ answered \in Seq(ToSet(answered))
  /\ \A r \in ToSet(answered) : r.says = "none" \/ <<r.req, r.says>> \in said
  /\ workers \subseteq said
FuturesSaid == \A c \in Requests : future[c] # "open" => <<c, future[c]>> \in said

ToldInv == ScreensSaid /\ FuturesSaid /\ AnsweredForItself

\* Before a session is opened nothing is carried.  A carried decision is the only one of
\* its key, and was made of a request of the session.
CarriedSaid ==
  /\ ~opened => /\ carried = {} /\ restored = {}
                /\ \A c \in Calls : reason[c] # "carried"
  /\ \A k \in Keys, d, e \in Decisions : <<k, d>> \in carried /\ <<k, e>> \in carried => d = e
  /\ \A kd \in carried : \E r \in Saved : Key[r] = kd[1] /\ <<r, kd[2]>> \in said
  /\ \A c \in Calls : reason[c] = "carried" =>
       \E r \in Saved : Key[r] = Key[c] /\ <<r, outcome[c]>> \in said

\* Each request of the session is still open, or its decision waits to be used, or some
\* call used it, or it is lost: of the requests of one key no more were used than there are.
UsedOf(k) == {c \in Calls : reason[c] = "carried" /\ Key[c] = k}
RestoredOf(k) == {r \in restored : Key[r] = k}
SavedOf(k) == {r \in Saved : Key[r] = k}
Waiting(k) == IF \E d \in Decisions : <<k, d>> \in carried THEN 1 ELSE 0
Counted ==
  \A k \in Keys :
    /\ IsFiniteSet(UsedOf(k))
    /\ Cardinality(UsedOf(k)) + Waiting(k) + Cardinality(RestoredOf(k)) <= Cardinality(SavedOf(k))

SpentInv == CarriedSaid /\ Counted

-----------------------------------------------------------------------------
(* The screen *)

LEMMA SeqOfElements ==
  ASSUME NEW S, NEW q \in Seq(S)
  PROVE  q \in Seq(ToSet(q))
  <1>1. q = [i \in 1..Len(q) |-> q[i]] /\ Len(q) \in Nat /\ DOMAIN q = 1..Len(q) OBVIOUS
  <1>2. \A i \in 1..Len(q) : q[i] \in ToSet(q) BY <1>1 DEF ToSet
  <1> QED BY <1>1, <1>2

LEMMA LongerIsSeq ==
  ASSUME NEW q, q \in Seq(ToSet(q)), NEW e
  PROVE  Append(q, e) \in Seq(ToSet(Append(q, e))) /\ ToSet(Append(q, e)) = ToSet(q) \cup {e}
  <1>1. q \in Seq(ToSet(q) \cup {e}) BY DEF ToSet
  <1>2. ToSet(Append(q, e)) = ToSet(q) \cup {e}
    <2>1. /\ DOMAIN q = 1..Len(q) /\ Len(q) \in Nat
          /\ DOMAIN Append(q, e) = 1..(Len(q) + 1)
      BY <1>1
    <2>2. \A i \in 1..Len(q) : Append(q, e)[i] = q[i] BY <1>1
    <2>3. Append(q, e)[Len(q) + 1] = e BY <1>1
    <2>4. 1..(Len(q) + 1) = (1..Len(q)) \cup {Len(q) + 1} BY <2>1
    <2> QED BY <2>1, <2>2, <2>3, <2>4 DEF ToSet
  <1>3. Append(q, e) \in Seq(ToSet(q) \cup {e}) BY <1>1
  <1> QED BY <1>2, <1>3

LEMMA ShorterIsSeq ==
  ASSUME NEW q, q \in Seq(ToSet(q)), q # <<>>
  PROVE  /\ Tail(q) \in Seq(ToSet(Tail(q))) /\ ToSet(Tail(q)) \subseteq ToSet(q)
         /\ Head(q) \in ToSet(q)
  <1>1. Head(q) \in ToSet(q) /\ Tail(q) \in Seq(ToSet(q)) BY DEF ToSet
  <1>2. ToSet(Tail(q)) \subseteq ToSet(q)
    <2>1. /\ DOMAIN q = 1..Len(q) /\ Len(q) \in Nat \ {0}
          /\ DOMAIN Tail(q) = 1..(Len(q) - 1)
          /\ \A i \in 1..(Len(q) - 1) : Tail(q)[i] = q[i + 1] /\ i + 1 \in 1..Len(q)
      OBVIOUS
    <2> QED BY <2>1 DEF ToSet
  <1>3. Tail(q) \in Seq(ToSet(Tail(q))) BY <1>1, SeqOfElements
  <1> QED BY <1>1, <1>2, <1>3

LEMMA ScreensKept ==
  ASSUME ScreensSaid, said \subseteq said', workers' \subseteq said',
         \/ answered' = answered
         \/ answered # <<>> /\ answered' = Tail(answered)
         \/ \E e : answered' = Append(answered, e) /\ (e.says = "none" \/ <<e.req, e.says>> \in said')
  PROVE  ScreensSaid'
  <1>1. CASE answered' = answered BY <1>1 DEF ScreensSaid
  <1>2. CASE answered # <<>> /\ answered' = Tail(answered)
    BY <1>2, ShorterIsSeq DEF ScreensSaid
  <1>3. CASE \E e : answered' = Append(answered, e) /\ (e.says = "none" \/ <<e.req, e.says>> \in said')
    BY <1>3, LongerIsSeq DEF ScreensSaid
  <1> QED BY <1>1, <1>2, <1>3

LEMMA WithdrawnAnswers ==
  ASSUME NEW C, Becomes(Withdrawn(Now, C))
  PROVE  \/ answered' = answered
         \/ \E e : answered' = Append(answered, e) /\ e.says = "none"
  <1> DEFINE w == [Now EXCEPT !.l = Without(@, C)]
  <1>1. w = [m |-> modal, l |-> Without(line, C), s |-> screens, a |-> answered]
    BY DEF Now
  <1> HIDE DEF w
  <1>2. answered' = Withdrawn(Now, C).a
        /\ Withdrawn(Now, C) = IF w.m \in C THEN DismissScreen([w EXCEPT !.m = None], w.m, "none") ELSE w
    BY DEF Becomes, Withdrawn, w
  <1>3. CASE modal \in C
    BY <1>1, <1>2, <1>3 DEF DismissScreen
  <1>4. CASE modal \notin C
    BY <1>1, <1>2, <1>4
  <1> QED BY <1>3, <1>4

LEMMA CancelledAnswers ==
  ASSUME NEW C, Cancelled(C)
  PROVE  \/ answered' = answered
         \/ \E e : answered' = Append(answered, e) /\ e.says = "none"
  BY WithdrawnAnswers DEF Cancelled, screenVars

LEMMA ShownAnswers ==
  /\ \A c : Becomes(Shown(Now, c)) => answered' = answered
  /\ \A q : Becomes(AllShown(Now, q)) => answered' = answered
  BY DEF Becomes, Shown, AllShown, Pushed, Now

LEMMA PressAnswers ==
  ASSUME NEW c, NEW d, Becomes(DismissScreen(Now, c, d))
  PROVE  answered' = answered \/ answered' = Append(answered, [req |-> c, says |-> d])
  BY DEF Becomes, DismissScreen, Now

LEMMA DrainedAnswers ==
  ASSUME Becomes(Drained([Now EXCEPT !.m = None, !.a = Tail(@)]))
  PROVE  answered' = Tail(answered)
  BY DEF Becomes, Drained, Pushed, Now

-----------------------------------------------------------------------------
(* What a call is told *)

LEMMA SettleFutures ==
  ASSUME GateTypes, FuturesSaid, NEW C, NEW d \in Decisions, Settle(C, d),
         said \subseteq said', \A c \in C : <<c, d>> \in said'
  PROVE  FuturesSaid' /\ future' \in [Requests -> Decisions \cup {"open"}]
  BY DEF GateTypes, FuturesSaid, Settle

LEMMA SettleTypes ==
  ASSUME GateTypes, NEW C, NEW d \in Decisions, Settle(C, d)
  PROVE  restored' \subseteq Saved /\ carried' \subseteq Keys \X Decisions
  <1> DEFINE keys == {Key[c] : c \in C \cap restored}
  <1>1. keys \subseteq Keys BY DEF GateTypes, Keys, Requests
  <1>2. carried' = {kd \in carried : kd[1] \notin keys} \cup (keys \X {d}) BY DEF Settle
  <1>3. restored' = restored \ C BY DEF Settle
  <1> HIDE DEF keys
  <1> QED BY <1>1, <1>2, <1>3 DEF GateTypes

LEMMA OverTypes ==
  ASSUME GateTypes, NEW c \in Calls, NEW d \in Decisions \cup {"cut"},
         NEW why \in {"carried", "auto", "policy", "answer", "cut"}, Over(c, d, why)
  PROVE  /\ task' \in [Calls -> {"new", "requesting", "announcing", "waiting", "typed", "over"}]
         /\ outcome' \in [Calls -> Decisions \cup {"none", "cut"}]
         /\ reason' \in [Calls -> {"none", "carried", "auto", "policy", "answer", "cut"}]
         /\ reason'[c] = why /\ outcome'[c] = d
         /\ \A b \in Calls : b # c => reason'[b] = reason[b] /\ outcome'[b] = outcome[b]
  BY DEF GateTypes, Over

\* A cancel: the calls that are cut, and the others.
LEMMA CutTypes ==
  ASSUME GateTypes, CancelRun
  PROVE  /\ task' \in [Calls -> {"new", "requesting", "announcing", "waiting", "typed", "over"}]
         /\ outcome' \in [Calls -> Decisions \cup {"none", "cut"}]
         /\ reason' \in [Calls -> {"none", "carried", "auto", "policy", "answer", "cut"}]
         /\ \A c \in Calls : \/ reason'[c] = "cut"
                             \/ reason'[c] = reason[c] /\ outcome'[c] = outcome[c]
  BY DEF GateTypes, CancelRun

LEMMA TypesStep ==
  ASSUME GateTypes, [Next]_vars
  PROVE  GateTypes'
  <1>1. CASE UNCHANGED vars BY <1>1 DEF vars, gateVars, GateTypes
  <1>2. ASSUME NEW c \in Calls, UseCarried(c) PROVE GateTypes'
    BY <1>2, OverTypes DEF UseCarried, GateTypes
  <1>3. ASSUME NEW c \in Calls, DecideAlone(c) PROVE GateTypes'
    BY <1>3, OverTypes DEF DecideAlone, GateTypes, Decisions
  <1>4. ASSUME NEW c \in Calls, Ask(c) \/ Announce(c) \/ PutToHandler(c) PROVE GateTypes'
    BY <1>4 DEF Ask, Announce, PutToHandler, GateTypes
  <1>5. ASSUME NEW C, NEW d \in Decisions, Settle(C, d), UNCHANGED <<task, outcome, reason>>
        PROVE  GateTypes'
    <2>1. future' \in [Requests -> Decisions \cup {"open"}] BY <1>5 DEF Settle, GateTypes
    <2> QED BY <1>5, <2>1, SettleTypes DEF GateTypes
  <1>6. ASSUME NEW c \in Calls, PromptAnswers(c) PROVE GateTypes'
    <2>1. PICK d \in Decisions : Settle({c} \cap pending, d) BY <1>6 DEF PromptAnswers
    <2>2. future' \in [Requests -> Decisions \cup {"open"}] BY <2>1 DEF Settle, GateTypes
    <2>3. task' \in [Calls -> {"new", "requesting", "announcing", "waiting", "typed", "over"}]
          /\ UNCHANGED <<outcome, reason>>
      BY <1>6 DEF PromptAnswers, GateTypes
    <2> QED BY <2>1, <2>2, <2>3, SettleTypes DEF GateTypes
  <1>7. ASSUME NEW c \in Calls, Return(c) PROVE GateTypes'
    <2>1. future[c] \in Decisions BY <1>7 DEF Return, GateTypes, Requests
    <2> QED BY <1>7, <2>1, OverTypes DEF Return, GateTypes
  <1>8. ASSUME NEW c \in Calls, CutCall(c) PROVE GateTypes'
    BY <1>8, OverTypes DEF CutCall, GateTypes
  <1>9. CASE SwitchMode
    <2>1. CASE mode = "manual" BY <1>5, <1>9, <2>1 DEF SwitchMode, Decisions
    <2>2. CASE mode # "manual" BY <1>9, <2>2 DEF SwitchMode, GateTypes
    <2> QED BY <2>1, <2>2
  <1>10. CASE CancelRun BY <1>10, CutTypes DEF CancelRun, GateTypes
  <1>11. CASE Pump \/ Callback \/ Rest BY <1>11 DEF Pump, Callback, Rest, vars, gateVars, GateTypes
  <1>12. ASSUME NEW d \in Decisions, Press(d) PROVE GateTypes'
    BY <1>12 DEF Press, gateVars, GateTypes
  <1>13. ASSUME NEW w \in Requests \X Decisions, Work(w) PROVE GateTypes'
    BY <1>5, <1>13 DEF Work
  <1>14. ASSUME NEW R \in SUBSET Saved, NEW m \in {"manual", "auto"}, Open(R, m) PROVE GateTypes'
    BY <1>14 DEF Open, GateTypes
  <1> QED
    BY <1>1, <1>2, <1>3, <1>4, <1>6, <1>7, <1>8, <1>9, <1>10, <1>11, <1>12, <1>13, <1>14
    DEF Next, GateStep, AppStep, Answers

LEMMA ToldStep ==
  ASSUME GateTypes, ToldInv, [Next]_vars
  PROVE  ToldInv'
  <1>a. ScreensSaid /\ FuturesSaid /\ AnsweredForItself BY DEF ToldInv
  <1>b. ASSUME said \subseteq said',
               \A c \in Calls : \/ reason'[c] # "answer"
                                \/ reason'[c] = reason[c] /\ outcome'[c] = outcome[c]
        PROVE  AnsweredForItself'
    BY <1>a, <1>b DEF AnsweredForItself
  <1>c. ASSUME UNCHANGED <<said, answered, workers, future>>
        PROVE  ScreensSaid' /\ FuturesSaid'
    BY <1>a, <1>c DEF ScreensSaid, FuturesSaid
  <1>1. CASE UNCHANGED vars
    BY <1>1, <1>b, <1>c DEF vars, gateVars, screenVars, ToldInv
  <1>2. ASSUME NEW c \in Calls, UseCarried(c) \/ DecideAlone(c) PROVE ToldInv'
    <2>1. UNCHANGED <<said, answered, workers, future>>
      BY <1>2 DEF UseCarried, DecideAlone, screenVars
    <2>2. \E d \in Decisions \cup {"cut"}, why \in {"carried", "auto", "policy"} : Over(c, d, why)
      BY <1>2 DEF UseCarried, DecideAlone, Decisions
    <2>3. AnsweredForItself' BY <1>b, <2>1, <2>2, OverTypes
    <2> QED BY <1>c, <2>1, <2>3 DEF ToldInv
  <1>3. ASSUME NEW c \in Calls, Ask(c) \/ Announce(c) \/ PutToHandler(c) PROVE ToldInv'
    <2>1. UNCHANGED <<said, answered, workers, future, outcome, reason>>
      BY <1>3 DEF Ask, Announce, PutToHandler, screenVars
    <2> QED BY <1>b, <1>c, <2>1 DEF ToldInv
  <1>4. ASSUME NEW C, NEW d \in Decisions, Settle(C, d), UNCHANGED <<outcome, reason, answered>>,
               workers' \subseteq workers, said \subseteq said', \A c \in C : <<c, d>> \in said'
        PROVE  ToldInv'
    <2>1. ScreensSaid' BY <1>a, <1>4, ScreensKept DEF ScreensSaid
    <2> QED BY <1>a, <1>b, <1>4, <2>1, SettleFutures DEF ToldInv
  <1>5. ASSUME NEW c \in Calls, PromptAnswers(c) PROVE ToldInv'
    <2>1. PICK d \in Decisions : said' = said \cup {<<c, d>>} /\ Settle({c} \cap pending, d)
      BY <1>5 DEF PromptAnswers
    <2> QED BY <1>4, <1>5, <2>1 DEF PromptAnswers, screenVars
  <1>6. ASSUME NEW c \in Calls, Return(c) PROVE ToldInv'
    <2>1. /\ future[c] # "open" /\ Over(c, future[c], "answer")
          /\ UNCHANGED <<said, answered, workers, future>>
      BY <1>6 DEF Return, screenVars
    <2>2. future[c] \in Decisions /\ <<c, future[c]>> \in said
      BY <1>a, <2>1 DEF FuturesSaid, GateTypes, Requests
    <2>3. AnsweredForItself'
      BY <1>a, <2>1, <2>2, OverTypes DEF AnsweredForItself
    <2> QED BY <1>c, <2>1, <2>3 DEF ToldInv
  <1>7. ASSUME NEW c \in Calls, CutCall(c) PROVE ToldInv'
    <2>1. Over(c, "cut", "cut") /\ UNCHANGED <<said, workers, future>> BY <1>7 DEF CutCall
    <2>2. \/ answered' = answered
          \/ \E e : answered' = Append(answered, e) /\ e.says = "none"
      BY <1>7, CancelledAnswers DEF CutCall, screenVars
    <2>3. ScreensSaid' BY <1>a, <2>1, <2>2, ScreensKept DEF ScreensSaid
    <2>4. AnsweredForItself' BY <1>b, <2>1, OverTypes
    <2> QED BY <1>a, <2>1, <2>3, <2>4 DEF ToldInv, FuturesSaid
  <1>8. CASE SwitchMode
    <2>1. CASE mode = "manual"
      <3>1. /\ said' = said \cup (pending \X {"allow"}) /\ Settle(pending, "allow")
            /\ UNCHANGED <<outcome, reason, answered, workers>>
        BY <1>8, <2>1 DEF SwitchMode, screenVars
      <3>2. "allow" \in Decisions /\ \A c \in pending : <<c, "allow">> \in said'
        BY <3>1 DEF Decisions
      <3> QED BY <1>4, <3>1, <3>2
    <2>2. CASE mode # "manual"
      BY <1>b, <1>c, <1>8, <2>2 DEF SwitchMode, ToldInv, screenVars
    <2> QED BY <2>1, <2>2
  <1>9. CASE CancelRun
    <2>1. UNCHANGED <<said, workers, future>> BY <1>9 DEF CancelRun
    <2>2. \/ answered' = answered
          \/ \E e : answered' = Append(answered, e) /\ e.says = "none"
      BY <1>9, CancelledAnswers DEF CancelRun
    <2>3. ScreensSaid' BY <1>a, <2>1, <2>2, ScreensKept DEF ScreensSaid
    <2>4. AnsweredForItself' BY <1>b, <1>9, <2>1, CutTypes
    <2> QED BY <1>a, <2>1, <2>3, <2>4 DEF ToldInv, FuturesSaid
  <1>10. CASE Pump
    <2>1. UNCHANGED <<said, workers, future, outcome, reason>> BY <1>10 DEF Pump, gateVars
    <2>2. \E e : Becomes(Shown(Now, e.req)) \/ Becomes(Withdrawn(Now, {e.req}))
      BY <1>10 DEF Pump
    <2>3. \/ answered' = answered
          \/ \E e : answered' = Append(answered, e) /\ e.says = "none"
      BY <2>2, ShownAnswers, WithdrawnAnswers
    <2>4. ScreensSaid' BY <1>a, <2>1, <2>3, ScreensKept DEF ScreensSaid
    <2> QED BY <1>a, <1>b, <2>1, <2>4 DEF ToldInv, FuturesSaid
  <1>11. ASSUME NEW d \in Decisions, Press(d) PROVE ToldInv'
    <2>1. /\ UNCHANGED <<workers, future, outcome, reason>>
          /\ said' = said \cup {<<Last(screens), d>>}
          /\ Becomes(DismissScreen(Now, Last(screens), d))
      BY <1>11 DEF Press, gateVars
    <2> DEFINE e == [req |-> Last(screens), says |-> d]
    <2>2. answered' = answered \/ answered' = Append(answered, e) BY <2>1, PressAnswers
    <2>5. <<e.req, e.says>> \in said' BY <2>1
    <2> HIDE DEF e
    <2>3. ScreensSaid' BY <1>a, <2>1, <2>2, <2>5, ScreensKept DEF ScreensSaid
    <2>4. FuturesSaid' BY <1>a, <2>1 DEF FuturesSaid
    <2> QED BY <1>b, <2>1, <2>3, <2>4 DEF ToldInv
  <1>12. CASE Callback
    <2>1. /\ answered # <<>> /\ answered' = Tail(answered)
          /\ UNCHANGED <<said, future, outcome, reason>>
      BY <1>12, DrainedAnswers DEF Callback, gateVars
    <2> DEFINE r == Head(answered)
    <2>2. r \in ToSet(answered) BY <1>a, <2>1, ShorterIsSeq DEF ScreensSaid
    <2>3. workers' = workers \/ (workers' = workers \cup {<<r.req, r.says>>} /\ r.says # "none")
      BY <1>12 DEF Callback
    <2>4. workers' \subseteq said' BY <1>a, <2>1, <2>2, <2>3 DEF ScreensSaid
    <2>5. ScreensSaid' BY <1>a, <2>1, <2>4, ScreensKept
    <2> QED BY <1>a, <1>b, <2>1, <2>5 DEF ToldInv, FuturesSaid
  <1>13. ASSUME NEW w \in Requests \X Decisions, Work(w) PROVE ToldInv'
    <2>1. w \in said /\ w = <<w[1], w[2]>> BY <1>a, <1>13 DEF Work, ScreensSaid
    <2> QED BY <1>4, <1>13, <2>1 DEF Work, screenVars
  <1>14. ASSUME NEW R \in SUBSET Saved, NEW m \in {"manual", "auto"}, Open(R, m) PROVE ToldInv'
    <2>1. UNCHANGED <<said, workers, future, outcome, reason>> /\ answered' = answered
      BY <1>14, ShownAnswers DEF Open
    <2> QED BY <1>b, <1>c, <2>1 DEF ToldInv
  <1>15. CASE Rest BY <1>1, <1>15 DEF Rest
  <1> QED
    BY <1>1, <1>2, <1>3, <1>5, <1>6, <1>7, <1>8, <1>9, <1>10, <1>11, <1>12, <1>13, <1>14, <1>15
    DEF Next, GateStep, AppStep, Answers

-----------------------------------------------------------------------------
(* What a decision carried over from a session is spent on *)

\* The sets that are counted.
LEMMA CountedSets ==
  ASSUME GateTypes, Counted, NEW k \in Keys
  PROVE  /\ IsFiniteSet(UsedOf(k)) /\ IsFiniteSet(RestoredOf(k)) /\ IsFiniteSet(SavedOf(k))
         /\ Cardinality(UsedOf(k)) \in Nat /\ Cardinality(RestoredOf(k)) \in Nat
         /\ Cardinality(SavedOf(k)) \in Nat /\ Waiting(k) \in {0, 1}
  <1>1. RestoredOf(k) \in SUBSET Saved /\ SavedOf(k) \in SUBSET Saved
    BY DEF RestoredOf, SavedOf, GateTypes
  <1>2. IsFiniteSet(UsedOf(k)) BY DEF Counted
  <1>3. IsFiniteSet(RestoredOf(k)) /\ IsFiniteSet(SavedOf(k))
    BY <1>1, CallsAssumption, FS_Subset
  <1> QED BY <1>2, <1>3, FS_CardinalityType DEF Waiting
\* A step that settles nothing and uses nothing.
LEMMA NothingSpent ==
  ASSUME GateTypes, SpentInv, said \subseteq said', UNCHANGED <<carried, restored, opened>>,
         reason' \in [Calls -> {"none", "carried", "auto", "policy", "answer", "cut"}],
         \A c \in Calls : \/ reason'[c] # "carried"
                          \/ reason'[c] = reason[c] /\ outcome'[c] = outcome[c]
  PROVE  SpentInv'
  <1>1. CarriedSaid' BY DEF SpentInv, CarriedSaid
  <1>2. ASSUME NEW k \in Keys
        PROVE  /\ IsFiniteSet(UsedOf(k)')
               /\ Cardinality(UsedOf(k)') + Waiting(k)' + Cardinality(RestoredOf(k)')
                    <= Cardinality(SavedOf(k))
    <2>1. UsedOf(k)' \subseteq UsedOf(k) BY DEF UsedOf
    <2>2. Waiting(k)' = Waiting(k) /\ RestoredOf(k)' = RestoredOf(k) BY DEF Waiting, RestoredOf
    <2>3. IsFiniteSet(UsedOf(k)) /\ Cardinality(UsedOf(k)) + Waiting(k) + Cardinality(RestoredOf(k))
            <= Cardinality(SavedOf(k))
      BY <1>2 DEF SpentInv, Counted
    <2>4. IsFiniteSet(UsedOf(k)') /\ Cardinality(UsedOf(k)') <= Cardinality(UsedOf(k))
      BY <2>1, <2>3, FS_Subset
    <2>5. Cardinality(UsedOf(k)') \in Nat BY <2>4, FS_CardinalityType
    <2> QED BY <2>2, <2>3, <2>4, <2>5, CountedSets DEF SpentInv
  <1> QED BY <1>1, <1>2 DEF SpentInv, Counted, SavedOf

LEMMA SettleSpent ==
  ASSUME GateTypes, SpentInv, NEW C, NEW d \in Decisions, Settle(C, d),
         said \subseteq said', \A c \in C : <<c, d>> \in said',
         UNCHANGED <<reason, outcome, opened>>
  PROVE  SpentInv'
  <1> DEFINE keys == {Key[c] : c \in C \cap restored}
  <1>1. /\ carried' = {kd \in carried : kd[1] \notin keys} \cup (keys \X {d})
        /\ restored' = restored \ C
    BY DEF Settle
  <1>2. \A k \in keys : \E r \in Saved : Key[r] = k /\ <<r, d>> \in said'
    BY DEF GateTypes
  <1>3. keys # {} => opened BY DEF SpentInv, CarriedSaid
  <1>4. keys \subseteq Keys BY DEF Keys, Requests, GateTypes
  <1>5. \A k \in keys : RestoredOf(k) \cap C # {} BY DEF RestoredOf
  <1>6. \A k \in Keys : RestoredOf(k)' = RestoredOf(k) \ C BY <1>1 DEF RestoredOf
  <1>7. \A k \in Keys \ keys : RestoredOf(k) \cap C = {} BY DEF RestoredOf
  <1> HIDE DEF keys
  <1>8. CarriedSaid'
    <2>1. ~opened' => carried' = {} /\ restored' = {} /\ \A c \in Calls : reason'[c] # "carried"
      BY <1>1, <1>3 DEF SpentInv, CarriedSaid
    <2>2. \A k \in Keys, e, f \in Decisions :
            <<k, e>> \in carried' /\ <<k, f>> \in carried' => e = f
      BY <1>1 DEF SpentInv, CarriedSaid
    <2>3. \A kd \in carried' : \E r \in Saved : Key[r] = kd[1] /\ <<r, kd[2]>> \in said'
      BY <1>1, <1>2 DEF SpentInv, CarriedSaid
    <2>4. \A c \in Calls : reason'[c] = "carried" =>
            \E r \in Saved : Key[r] = Key[c] /\ <<r, outcome'[c]>> \in said'
      BY DEF SpentInv, CarriedSaid
    <2> QED BY <2>1, <2>2, <2>3, <2>4 DEF CarriedSaid
  <1>9. ASSUME NEW k \in Keys
        PROVE  Waiting(k)' + Cardinality(RestoredOf(k)') <= Waiting(k) + Cardinality(RestoredOf(k))
    <2>a. /\ IsFiniteSet(RestoredOf(k)) /\ Cardinality(RestoredOf(k)) \in Nat
          /\ Waiting(k) \in {0, 1} /\ Waiting(k)' \in {0, 1}
      BY <1>9, CountedSets DEF SpentInv, Waiting
    <2>1. CASE k \in keys
      <3>1. PICK c \in RestoredOf(k) : c \in C BY <1>5, <2>1
      <3>2. RestoredOf(k)' \in SUBSET (RestoredOf(k) \ {c}) BY <1>6, <1>9, <3>1
      <3>3. /\ IsFiniteSet(RestoredOf(k) \ {c})
            /\ Cardinality(RestoredOf(k) \ {c}) = Cardinality(RestoredOf(k)) - 1
        BY <2>a, <3>1, FS_RemoveElement
      <3>4. /\ Cardinality(RestoredOf(k)') <= Cardinality(RestoredOf(k)) - 1
            /\ IsFiniteSet(RestoredOf(k)')
        BY <3>2, <3>3, FS_Subset
      <3>5. Cardinality(RestoredOf(k)') \in Nat BY <3>4, FS_CardinalityType
      <3> QED BY <2>a, <3>4, <3>5
    <2>2. CASE k \notin keys
      <3>1. RestoredOf(k)' = RestoredOf(k) BY <1>6, <1>7, <1>9, <2>2
      <3>2. \A e : <<k, e>> \in carried' <=> <<k, e>> \in carried BY <1>1, <2>2
      <3>3. Waiting(k)' = Waiting(k) BY <3>2 DEF Waiting
      <3> QED BY <2>a, <3>1, <3>3
    <2> QED BY <2>1, <2>2
  <1>10. Counted'
    <2> SUFFICES ASSUME NEW k \in Keys
                 PROVE  /\ IsFiniteSet(UsedOf(k)')
                        /\ Cardinality(UsedOf(k)') + Waiting(k)' + Cardinality(RestoredOf(k)')
                             <= Cardinality(SavedOf(k))
      BY DEF Counted, SavedOf
    <2>1. UsedOf(k)' = UsedOf(k) BY DEF UsedOf
    <2>2. /\ IsFiniteSet(UsedOf(k)) /\ IsFiniteSet(RestoredOf(k))
          /\ Cardinality(UsedOf(k)) \in Nat /\ Cardinality(RestoredOf(k)) \in Nat
          /\ Cardinality(SavedOf(k)) \in Nat /\ Waiting(k) \in {0, 1} /\ Waiting(k)' \in {0, 1}
          /\ Cardinality(UsedOf(k)) + Waiting(k) + Cardinality(RestoredOf(k)) <= Cardinality(SavedOf(k))
      BY CountedSets DEF SpentInv, Counted, Waiting
    <2>3. RestoredOf(k)' \in SUBSET RestoredOf(k) BY <1>6
    <2>4. Cardinality(RestoredOf(k)') \in Nat BY <2>2, <2>3, FS_Subset, FS_CardinalityType
    <2> QED BY <1>9, <2>1, <2>2, <2>4
  <1> QED BY <1>8, <1>10 DEF SpentInv

LEMMA UseSpent ==
  ASSUME GateTypes, SpentInv, NEW c \in Calls, UseCarried(c)
  PROVE  SpentInv'
  <1>1. PICK d \in Decisions :
          /\ <<Key[c], d>> \in carried /\ carried' = carried \ {<<Key[c], d>>}
          /\ Over(c, d, "carried") /\ UNCHANGED <<restored, opened, said>>
    BY DEF UseCarried
  <1>2. /\ reason'[c] = "carried" /\ outcome'[c] = d
        /\ \A b \in Calls : b # c => reason'[b] = reason[b] /\ outcome'[b] = outcome[b]
    BY <1>1, OverTypes
  <1>3. CarriedSaid' BY <1>1, <1>2 DEF SpentInv, CarriedSaid
  <1>4. \A k \in Keys : RestoredOf(k)' = RestoredOf(k) BY <1>1 DEF RestoredOf
  <1>5. ASSUME NEW k \in Keys
        PROVE  /\ IsFiniteSet(UsedOf(k)')
               /\ Cardinality(UsedOf(k)') + Waiting(k)' <= Cardinality(UsedOf(k)) + Waiting(k)
               /\ Cardinality(UsedOf(k)') \in Nat
    <2>a. IsFiniteSet(UsedOf(k)) /\ Cardinality(UsedOf(k)) \in Nat BY CountedSets DEF SpentInv
    <2>1. CASE k = Key[c]
      <3>1. UsedOf(k)' = UsedOf(k) \cup {c} BY <1>2, <2>1 DEF UsedOf
      <3>2. Waiting(k) = 1 /\ Waiting(k)' = 0
        BY <1>1, <1>5, <2>1 DEF Waiting, SpentInv, CarriedSaid
      <3>3. /\ IsFiniteSet(UsedOf(k) \cup {c})
            /\ Cardinality(UsedOf(k) \cup {c}) = IF c \in UsedOf(k) THEN Cardinality(UsedOf(k))
                                                 ELSE Cardinality(UsedOf(k)) + 1
        BY <2>a, FS_AddElement
      <3> QED BY <2>a, <3>1, <3>2, <3>3
    <2>2. CASE k # Key[c]
      <3>1. UsedOf(k)' = UsedOf(k) BY <1>2, <2>2 DEF UsedOf
      <3>2. Waiting(k)' = Waiting(k) BY <1>1, <2>2 DEF Waiting
      <3> QED BY <2>a, <3>1, <3>2 DEF Waiting
    <2> QED BY <2>1, <2>2
  <1>6. Counted'
    <2> SUFFICES ASSUME NEW k \in Keys
                 PROVE  /\ IsFiniteSet(UsedOf(k)')
                        /\ Cardinality(UsedOf(k)') + Waiting(k)' + Cardinality(RestoredOf(k)')
                             <= Cardinality(SavedOf(k))
      BY DEF Counted, SavedOf
    <2>1. /\ Cardinality(UsedOf(k)) \in Nat /\ Cardinality(RestoredOf(k)) \in Nat
          /\ Cardinality(SavedOf(k)) \in Nat /\ Waiting(k) \in {0, 1} /\ Waiting(k)' \in {0, 1}
          /\ Cardinality(UsedOf(k)) + Waiting(k) + Cardinality(RestoredOf(k)) <= Cardinality(SavedOf(k))
      BY CountedSets DEF SpentInv, Counted, Waiting
    <2> QED BY <1>4, <1>5, <2>1
  <1> QED BY <1>3, <1>6 DEF SpentInv

LEMMA OpenSpent ==
  ASSUME GateTypes, SpentInv, NEW R \in SUBSET Saved, NEW m \in {"manual", "auto"}, Open(R, m)
  PROVE  SpentInv'
  <1>1. /\ ~opened /\ opened' = TRUE /\ restored' = R /\ carried' = {}
        /\ UNCHANGED <<said, reason>>
    BY DEF Open
  <1>2. \A c \in Calls : reason'[c] # "carried" BY <1>1 DEF SpentInv, CarriedSaid
  <1>3. CarriedSaid' BY <1>1, <1>2 DEF CarriedSaid
  <1>4. ASSUME NEW k \in Keys
        PROVE  /\ IsFiniteSet(UsedOf(k)')
               /\ Cardinality(UsedOf(k)') + Waiting(k)' + Cardinality(RestoredOf(k)')
                    <= Cardinality(SavedOf(k))
    <2>1. UsedOf(k)' = {} BY <1>2 DEF UsedOf
    <2>2. Waiting(k)' = 0 BY <1>1 DEF Waiting
    <2>3. RestoredOf(k)' \in SUBSET SavedOf(k) BY <1>1 DEF RestoredOf, SavedOf
    <2>4. IsFiniteSet(SavedOf(k)) BY <1>4, CountedSets DEF SpentInv
    <2>5. /\ IsFiniteSet(RestoredOf(k)') /\ Cardinality(RestoredOf(k)') <= Cardinality(SavedOf(k))
      BY <2>3, <2>4, FS_Subset
    <2>6. Cardinality(RestoredOf(k)') \in Nat BY <2>5, FS_CardinalityType
    <2>7. IsFiniteSet(UsedOf(k)') /\ Cardinality(UsedOf(k)') = 0 BY <2>1, FS_EmptySet
    <2> QED BY <2>2, <2>5, <2>6, <2>7
  <1> QED BY <1>3, <1>4 DEF SpentInv, Counted, SavedOf

LEMMA SpentStep ==
  ASSUME GateTypes, ToldInv, SpentInv, [Next]_vars
  PROVE  SpentInv'
  <1>a. GateTypes' BY TypesStep
  <1>b. ASSUME said \subseteq said', UNCHANGED <<carried, restored, opened>>,
               \A c \in Calls : \/ reason'[c] # "carried"
                                \/ reason'[c] = reason[c] /\ outcome'[c] = outcome[c]
        PROVE  SpentInv'
    BY <1>a, <1>b, NothingSpent DEF GateTypes
  <1>1. CASE UNCHANGED vars BY <1>1, <1>b DEF vars, gateVars
  <1>2. ASSUME NEW c \in Calls, NEW d \in Decisions \cup {"cut"},
               NEW why \in {"auto", "policy", "answer", "cut"}, Over(c, d, why),
               UNCHANGED <<said, carried, restored, opened>>
        PROVE  SpentInv'
    BY <1>2, <1>b, OverTypes
  <1>3. ASSUME NEW c \in Calls, UseCarried(c) PROVE SpentInv' BY <1>3, UseSpent
  <1>4. ASSUME NEW c \in Calls, DecideAlone(c) PROVE SpentInv'
    BY <1>2, <1>4 DEF DecideAlone, Decisions
  <1>5. ASSUME NEW c \in Calls, Ask(c) \/ Announce(c) \/ PutToHandler(c) PROVE SpentInv'
    BY <1>b, <1>5 DEF Ask, Announce, PutToHandler
  <1>6. ASSUME NEW c \in Calls, PromptAnswers(c) PROVE SpentInv'
    <2>1. PICK d \in Decisions : said' = said \cup {<<c, d>>} /\ Settle({c} \cap pending, d)
      BY <1>6 DEF PromptAnswers
    <2> QED BY <1>6, <2>1, SettleSpent DEF PromptAnswers
  <1>7. ASSUME NEW c \in Calls, Return(c) PROVE SpentInv'
    <2>1. future[c] \in Decisions BY <1>7 DEF Return, GateTypes, Requests
    <2> QED BY <1>2, <1>7, <2>1 DEF Return
  <1>8. ASSUME NEW c \in Calls, CutCall(c) PROVE SpentInv' BY <1>2, <1>8 DEF CutCall
  <1>9. CASE SwitchMode
    <2>1. CASE mode = "manual"
      <3>1. /\ said' = said \cup (pending \X {"allow"}) /\ Settle(pending, "allow")
            /\ UNCHANGED <<outcome, reason, opened>>
        BY <1>9, <2>1 DEF SwitchMode
      <3>2. "allow" \in Decisions /\ \A c \in pending : <<c, "allow">> \in said'
        BY <3>1 DEF Decisions
      <3> QED BY <3>1, <3>2, SettleSpent
    <2>2. CASE mode # "manual" BY <1>b, <1>9, <2>2 DEF SwitchMode
    <2> QED BY <2>1, <2>2
  <1>10. CASE CancelRun BY <1>b, <1>10, CutTypes DEF CancelRun
  <1>11. CASE Pump \/ Callback \/ Rest
    BY <1>b, <1>11 DEF Pump, Callback, Rest, vars, gateVars
  <1>12. ASSUME NEW d \in Decisions, Press(d) PROVE SpentInv' BY <1>b, <1>12 DEF Press, gateVars
  <1>13. ASSUME NEW w \in Requests \X Decisions, Work(w) PROVE SpentInv'
    <2>1. w \in said /\ w = <<w[1], w[2]>> BY <1>13 DEF Work, ToldInv, ScreensSaid
    <2> QED BY <1>13, <2>1, SettleSpent DEF Work
  <1>14. ASSUME NEW R \in SUBSET Saved, NEW m \in {"manual", "auto"}, Open(R, m) PROVE SpentInv'
    BY <1>14, OpenSpent
  <1> QED
    BY <1>1, <1>3, <1>4, <1>5, <1>6, <1>7, <1>8, <1>9, <1>10, <1>11, <1>12, <1>13, <1>14
    DEF Next, GateStep, AppStep, Answers

-----------------------------------------------------------------------------
LEMMA ApprovalsInit == Init => GateTypes /\ ToldInv /\ SpentInv
  <1> SUFFICES ASSUME Init PROVE GateTypes /\ ToldInv /\ SpentInv OBVIOUS
  <1>1. GateTypes BY DEF Init, GateTypes
  <1>2. ToldInv
    <2>1. <<>> \in Seq(ToSet(<<>>)) /\ ToSet(<<>>) = {} BY DEF ToSet
    <2> QED BY <2>1 DEF Init, ToldInv, ScreensSaid, FuturesSaid, AnsweredForItself
  <1>3. CarriedSaid BY DEF Init, CarriedSaid
  <1>4. ASSUME NEW k \in Keys
        PROVE  /\ IsFiniteSet(UsedOf(k))
               /\ Cardinality(UsedOf(k)) + Waiting(k) + Cardinality(RestoredOf(k))
                    <= Cardinality(SavedOf(k))
    <2>1. UsedOf(k) = {} /\ RestoredOf(k) = {} /\ Waiting(k) = 0
      BY DEF Init, UsedOf, RestoredOf, Waiting
    <2>2. SavedOf(k) \in SUBSET Saved BY DEF SavedOf
    <2>3. IsFiniteSet(SavedOf(k)) BY <2>2, CallsAssumption, FS_Subset
    <2>4. Cardinality(SavedOf(k)) \in Nat BY <2>3, FS_CardinalityType
    <2> QED BY <2>1, <2>4, FS_EmptySet
  <1> QED BY <1>1, <1>2, <1>3, <1>4 DEF SpentInv, Counted

LEMMA ApprovalsHold == Spec => [](GateTypes /\ ToldInv /\ SpentInv)
  <1>1. GateTypes /\ ToldInv /\ SpentInv /\ [Next]_vars => (GateTypes /\ ToldInv /\ SpentInv)'
    BY TypesStep, ToldStep, SpentStep
  <1> QED BY <1>1, ApprovalsInit, PTL DEF Spec

\* What a waiting call is told was decided of its own request: the key press on a modal, the
\* worker behind it, a prompt or the switch to auto (gate.resolve(), app.answered()).
THEOREM AnswersAreForTheirRequest == Spec => []AnsweredForItself
  <1>1. ToldInv => AnsweredForItself BY DEF ToldInv
  <1> QED BY <1>1, ApprovalsHold, PTL

\* A decision made on a request of the loaded session lets through at most one call, the
\* same one (gate._carried).
THEOREM CarriedIsSpentOnce == Spec => []CarriedOnce
  <1>1. ASSUME GateTypes, SpentInv PROVE CarriedOnce
    <2> SUFFICES ASSUME NEW k \in Keys
                 PROVE  /\ Cardinality(UsedOf(k)) <= Cardinality(SavedOf(k))
                        /\ \A c \in UsedOf(k) : \E r \in SavedOf(k) : <<r, outcome[c]>> \in said
      BY DEF CarriedOnce, Keys, UsedOf, SavedOf
    <2>1. /\ Cardinality(UsedOf(k)) \in Nat /\ Cardinality(RestoredOf(k)) \in Nat
          /\ Cardinality(SavedOf(k)) \in Nat /\ Waiting(k) \in {0, 1}
          /\ Cardinality(UsedOf(k)) + Waiting(k) + Cardinality(RestoredOf(k)) <= Cardinality(SavedOf(k))
      BY <1>1, CountedSets DEF SpentInv, Counted
    <2>2. \A c \in UsedOf(k) : \E r \in SavedOf(k) : <<r, outcome[c]>> \in said
      BY <1>1 DEF UsedOf, SavedOf, SpentInv, CarriedSaid
    <2> QED BY <2>1, <2>2
  <1> QED BY <1>1, ApprovalsHold, PTL
=============================================================================
