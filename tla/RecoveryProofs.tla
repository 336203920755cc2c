--------------------------- MODULE RecoveryProofs ---------------------------
(***************************************************************************)
(* For any agents, plans and commands, and any number of crashes: what a   *)
(* person approves is done once, in whichever process, and no agent gets   *)
(* an id that was another's.  When no batch has two delegates, every text  *)
(* accepted stays with its agent and the session file only ever grows.     *)
(***************************************************************************)
EXTENDS RecoveryProps, FiniteSetTheorems, WellFoundedInduction, SequenceTheorems, TLAPS
-----------------------------------------------------------------------------
(* Approvals *)

GatedRan == {c \in ran : c.tool = "gated"}
\* The approval that waits for a call to use it.
Spare == IF carried = "approve" THEN 1 ELSE 0

\* An approval is behind a call that ran, or waits for one, or was lost with its process.
ApprovalsHold ==
  /\ IsFiniteSet(ran) /\ granted \in Nat
  /\ Cardinality(GatedRan) + Spare <= granted

LEMMA GatedCounted ==
  ASSUME IsFiniteSet(ran)
  PROVE  IsFiniteSet(GatedRan) /\ Cardinality(GatedRan) \in Nat
<1>1. GatedRan \subseteq ran
  BY DEF GatedRan
<1>2. IsFiniteSet(GatedRan)
  BY <1>1, FS_Subset
<1> QED  BY <1>2, FS_CardinalityType

\* A call that starts adds one to the calls that ran, if it is gated.
LEMMA OneMoreRan ==
  ASSUME IsFiniteSet(ran), NEW c, ran' = ran \cup {c}
  PROVE  /\ IsFiniteSet(ran')
         /\ Cardinality(GatedRan') \in Nat
         /\ Cardinality(GatedRan') <= Cardinality(GatedRan) + 1
         /\ c.tool # "gated" => Cardinality(GatedRan') = Cardinality(GatedRan)
<1>1. IsFiniteSet(ran')
  BY FS_AddElement
<1>2. IsFiniteSet(GatedRan) /\ Cardinality(GatedRan) \in Nat
  BY GatedCounted
<1>3. GatedRan' = IF c.tool = "gated" THEN GatedRan \cup {c} ELSE GatedRan
  BY DEF GatedRan
<1>4. CASE c.tool = "gated"
  <2> DEFINE one == GatedRan \cup {c}
  <2>1. Cardinality(one) = Cardinality(GatedRan) \/ Cardinality(one) = Cardinality(GatedRan) + 1
    BY <1>2, FS_AddElement
  <2>2. GatedRan' = one
    BY <1>3, <1>4
  <2> HIDE DEF one
  <2> QED  BY <1>1, <1>2, <1>4, <2>1, <2>2
<1>5. CASE c.tool # "gated"
  BY <1>1, <1>2, <1>3, <1>5
<1> QED  BY <1>4, <1>5

\* Nothing runs and nothing is approved; what waits may be lost.
LEMMA NothingApproved ==
  ASSUME ApprovalsHold, ran' = ran, granted' = granted, carried' \in {carried, "none", "deny"}
  PROVE  ApprovalsHold'
<1>1. Cardinality(GatedRan) \in Nat /\ GatedRan' = GatedRan
  BY GatedCounted DEF ApprovalsHold, GatedRan
<1>2. Spare' <= Spare /\ Spare \in Nat /\ Spare' \in Nat
  BY DEF Spare
<1>3. Cardinality(GatedRan) + Spare <= granted /\ granted \in Nat
  BY DEF ApprovalsHold
<1>4. Cardinality(GatedRan) + Spare' <= granted
  BY ONLY <1>1, <1>2, <1>3
<1> QED  BY <1>1, <1>4 DEF ApprovalsHold

\* A call that starts on no approval is not gated.
LEMMA LeafKeepsApprovals ==
  ASSUME ApprovalsHold, NEW c, ran' = ran \cup {c}, c.tool # "gated", granted' = granted,
         carried' = carried
  PROVE  ApprovalsHold'
<1>1. IsFiniteSet(ran') /\ Cardinality(GatedRan') = Cardinality(GatedRan)
  BY OneMoreRan DEF ApprovalsHold
<1> QED  BY <1>1 DEF ApprovalsHold, Spare

LEMMA UseKeepsApprovals ==
  ASSUME ApprovalsHold, NEW a, NEW i, UseCarried(a, i)
  PROVE  ApprovalsHold'
<1>1. carried # "none" /\ carried' = "none" /\ granted' = granted
  BY DEF UseCarried
<1>2. CASE ran' = ran
  BY <1>1, <1>2, NothingApproved
<1>3. CASE carried = "approve" /\ ran' = ran \cup {Batch(a)[i]}
  <2>1. IsFiniteSet(ran') /\ Cardinality(GatedRan') \in Nat
        /\ Cardinality(GatedRan') <= Cardinality(GatedRan) + 1
    BY <1>3, OneMoreRan DEF ApprovalsHold
  <2>2. Cardinality(GatedRan) \in Nat /\ Cardinality(GatedRan) + 1 <= granted /\ granted \in Nat
    BY <1>3, GatedCounted DEF ApprovalsHold, Spare
  <2>3. Spare' = 0
    BY <1>1 DEF Spare
  <2>4. Cardinality(GatedRan') + 0 <= granted
    BY ONLY <2>1, <2>2
  <2> QED  BY <1>1, <2>1, <2>2, <2>3, <2>4 DEF ApprovalsHold
<1> QED  BY <1>2, <1>3 DEF UseCarried

LEMMA ResolveKeepsApprovals ==
  ASSUME ApprovalsHold, NEW q, NEW approved \in BOOLEAN, Resolve(q, approved)
  PROVE  ApprovalsHold'
<1>1. IsFiniteSet(ran) /\ granted \in Nat /\ Cardinality(GatedRan) \in Nat
      /\ Cardinality(GatedRan) + Spare <= granted /\ Spare \in {0, 1}
  BY GatedCounted DEF ApprovalsHold, Spare
<1>2. CASE ran' = ran /\ carried' = (IF approved THEN "approve" ELSE "deny")
           /\ granted' = (IF approved THEN granted + 1 ELSE granted)
  <2>1. CASE approved
    <3>1. GatedRan' = GatedRan /\ Spare' = 1 /\ granted' = granted + 1
      BY <1>2, <2>1 DEF GatedRan, Spare
    <3>2. Cardinality(GatedRan) + 1 <= granted + 1
      BY ONLY <1>1
    <3> QED  BY <1>1, <1>2, <3>1, <3>2 DEF ApprovalsHold
  <2>2. CASE ~approved
    BY <1>2, <2>2, NothingApproved
  <2> QED  BY <2>1, <2>2
<1>3. CASE ran' = ran \cup {[id |-> q, tool |-> "gated"]} /\ granted' = granted + 1 /\ carried' = carried
  <2>1. IsFiniteSet(ran') /\ Cardinality(GatedRan') \in Nat
        /\ Cardinality(GatedRan') <= Cardinality(GatedRan) + 1
    BY <1>1, <1>3, OneMoreRan
  <2>2. Cardinality(GatedRan') + Spare <= granted + 1
    BY ONLY <1>1, <2>1
  <2>3. Spare' = Spare
    BY <1>3 DEF Spare
  <2> QED  BY <1>1, <1>3, <2>1, <2>2, <2>3 DEF ApprovalsHold
<1>4. CASE UNCHANGED <<carried, ran, granted>>
  BY <1>4, NothingApproved
<1> QED  BY <1>2, <1>3, <1>4 DEF Resolve

LEMMA StepKeepsApprovals ==
  ASSUME ApprovalsHold, NEW a \in Agents, AgentStep(a)
  PROVE  ApprovalsHold'
<1>1. CASE UNCHANGED <<ran, granted, carried>>
  BY <1>1, NothingApproved
<1>2. CASE ChildStart(a) \/ Fold(a) \/ Written(a) \/ ModelDone(a) \/ ModelFail(a) \/ ModelCut(a)
  BY <1>1, <1>2 DEF ChildStart, Fold, Written, ModelDone, ModelFail, ModelCut, ghostVars, procVars
<1>3. ASSUME NEW i, RunCall(a, i) PROVE ApprovalsHold'
  <2>1. Batch(a)[i].tool # "gated" /\ ran' = ran \cup {Batch(a)[i]} /\ UNCHANGED <<granted, carried>>
    BY <1>3 DEF RunCall, procVars
  <2> QED  BY <2>1, LeafKeepsApprovals
<1>4. ASSUME NEW i, RefuseCall(a, i) \/ FinishCall(a, i) \/ CollectChild(a, i) PROVE ApprovalsHold'
  BY <1>1, <1>4 DEF RefuseCall, FinishCall, CollectChild, ghostVars, procVars
<1>5. ASSUME NEW i, UseCarried(a, i) PROVE ApprovalsHold'
  BY <1>5, UseKeepsApprovals
<1>6. ASSUME NEW i, Ask(i) \/ Delegate(i) PROVE ApprovalsHold'
  BY <1>1, <1>6 DEF Ask, Delegate, ghostVars, procVars
<1>7. CASE FinishBatch(a) \/ CollectRevived(a) \/ Propagate(a) \/ Unwind(a)
  BY <1>1, <1>7 DEF FinishBatch, CollectRevived, Propagate, Unwind, ghostVars, procVars
<1> QED  BY <1>2, <1>3, <1>4, <1>5, <1>6, <1>7 DEF AgentStep

LEMMA ApprovalsStay == ApprovalsHold /\ [Next]_vars => ApprovalsHold'
<1> SUFFICES ASSUME ApprovalsHold, [Next]_vars PROVE ApprovalsHold'
  OBVIOUS
<1>1. CASE UNCHANGED <<ran, granted, carried>>
  BY <1>1, NothingApproved
<1>2. CASE Begin \/ LastFold \/ LastWrite \/ StrayWrite
  BY <1>1, <1>2 DEF Begin, LastFold, LastWrite, StrayWrite, ghostVars, procVars
<1>3. CASE Crash \/ Load
  BY <1>3, NothingApproved DEF Crash, Load, Forgotten
<1>4. CASE Answering
  BY <1>4, ResolveKeepsApprovals DEF Answering
<1>5. ASSUME NEW a \in Agents, AgentStep(a) PROVE ApprovalsHold'
  BY <1>5, StepKeepsApprovals
<1>6. ASSUME NEW a \in Agents, Send(a) \/ Interrupt(a) PROVE ApprovalsHold'
  BY <1>1, <1>6 DEF Send, Interrupt, procVars
<1>7. CASE Over \/ UNCHANGED vars
  BY <1>1, <1>7 DEF Over, vars, ghostVars, procVars
<1> QED  BY <1>2, <1>3, <1>4, <1>5, <1>6, <1>7 DEF Next

\* No gated tool runs that nobody approved, and no approval is used twice: not by the call
\* it was asked for and another, not across a crash, not after a reload (gate.check(),
\* resolve(), _carried, _restored_ids).
THEOREM ApprovalsAreSpentOnce == Spec => []OneApproval
<1>1. Init => ApprovalsHold
  <2> SUFFICES ASSUME Init PROVE ApprovalsHold
    OBVIOUS
  <2>1. ran = {} /\ granted = 0 /\ carried = "none"
    BY DEF Init
  <2>2. GatedRan = {} /\ Spare = 0
    BY <2>1 DEF GatedRan, Spare
  <2> QED  BY <2>1, <2>2, FS_EmptySet DEF ApprovalsHold
<1>2. ApprovalsHold /\ [Next]_vars => ApprovalsHold'
  BY ApprovalsStay
<1>3. ApprovalsHold => OneApproval
  <2> SUFFICES ASSUME ApprovalsHold PROVE Cardinality(GatedRan) <= granted
    BY DEF OneApproval, GatedRan
  <2>1. Cardinality(GatedRan) \in Nat /\ Spare \in {0, 1}
        /\ Cardinality(GatedRan) + Spare <= granted /\ granted \in Nat
    BY GatedCounted DEF ApprovalsHold, Spare
  <2> QED  BY ONLY <2>1
<1> QED  BY <1>1, <1>2, <1>3, PTL DEF Spec

-----------------------------------------------------------------------------
(* Induction and recursion over numbers *)

LEMMA Induction ==
  ASSUME NEW S, 0 \in S, \A n \in Nat : n \in S => n + 1 \in S
  PROVE  Nat \subseteq S
<1> SUFFICES ASSUME Nat \ S # {} PROVE FALSE
  OBVIOUS
<1> DEFINE R == OpToRel(<, Nat)
<1>1. IsWellFoundedOn(R, Nat)
  BY NatLessThanWellFounded
<1>2. \A x, y \in Nat : x < y => <<x, y>> \in R
  BY DEF OpToRel
<1> HIDE DEF R
<1>3. PICK x \in Nat \ S : \A y \in Nat \ S : ~ (<<y, x>> \in R)
  BY <1>1, WFMin
<1>4. x # 0 /\ x - 1 \in Nat /\ (x - 1) + 1 = x /\ x - 1 < x
  BY <1>3
<1>5. x - 1 \in S
  BY <1>2, <1>3, <1>4
<1> QED  BY <1>3, <1>4, <1>5

\* A function can be defined by recursion over the numbers up to a bound.
LEMMA Recursion ==
  ASSUME NEW V, NEW a \in V, NEW N \in Nat, NEW g \in [1 .. N -> [V -> V]]
  PROVE  \E f \in [0 .. N -> V] : f[0] = a /\ \A i \in 1 .. N : f[i] = g[i][f[i - 1]]
<1> DEFINE Is(n, f) == f[0] = a /\ \A i \in 1 .. N : i <= n => f[i] = g[i][f[i - 1]]
           S == {n \in Nat : \E f \in [0 .. N -> V] : Is(n, f)}
<1>1. 0 \in S
  <2>1. [i \in 0 .. N |-> a] \in [0 .. N -> V]
    OBVIOUS
  <2>2. Is(0, [i \in 0 .. N |-> a])
    OBVIOUS
  <2> QED  BY <2>1, <2>2
<1>2. ASSUME NEW n \in Nat, n \in S PROVE n + 1 \in S
  <2>1. PICK f \in [0 .. N -> V] : Is(n, f)
    BY <1>2
  <2>2. CASE n + 1 \in 1 .. N
    <3> DEFINE h == [i \in 0 .. N |-> IF i = n + 1 THEN g[n + 1][f[n]] ELSE f[i]]
    <3>1. n \in 0 .. N /\ f[n] \in V /\ g[n + 1] \in [V -> V]
      BY <2>2
    <3>2. g[n + 1][f[n]] \in V
      BY <3>1
    <3>3. h \in [0 .. N -> V]
      BY <3>2
    <3>4. h[0] = a
      BY <2>1
    <3>5. ASSUME NEW i \in 1 .. N, i <= n + 1 PROVE h[i] = g[i][h[i - 1]]
      <4>1. i - 1 \in 0 .. N /\ i - 1 # n + 1 /\ i \in 0 .. N
        BY <3>5
      <4>2. h[i - 1] = f[i - 1]
        BY <4>1
      <4>3. CASE i = n + 1
        BY <4>2, <4>3, <4>1
      <4>4. CASE i # n + 1
        <5>1. i <= n
          BY <3>5, <4>4
        <5>2. f[i] = g[i][f[i - 1]]
          BY <2>1, <5>1
        <5> QED  BY <4>1, <4>2, <4>4, <5>2
      <4> QED  BY <4>3, <4>4
    <3>6. Is(n + 1, h)
      BY <3>4, <3>5
    <3> HIDE DEF h
    <3>7. \E e \in [0 .. N -> V] : Is(n + 1, e)
      BY <3>3, <3>6
    <3> HIDE DEF Is
    <3> QED  BY <3>7
  <2>3. CASE n + 1 \notin 1 .. N
    <3>1. \A i \in 1 .. N : i <= n
      BY <2>3
    <3>2. Is(n + 1, f)
      BY <2>1, <3>1
    <3> QED  BY <3>2
  <2> QED  BY <2>2, <2>3
<1> HIDE DEF S
<1>3. N \in S
  BY <1>1, <1>2, Induction
<1> QED  BY <1>3 DEF S

-----------------------------------------------------------------------------
(* What is picked from a sequence *)

\* f is the function that Picked unfolds to.
Picks(s, P, f) ==
  /\ f[0] = <<>>
  /\ \A n \in 1..Len(s) : f[n] = IF n \in P THEN Append(f[n - 1], s[n]) ELSE f[n - 1]
  /\ Picked(s, P) = f[Len(s)]

LEMMA PickedUnfolds ==
  ASSUME NEW S, NEW s \in Seq(S), NEW P
  PROVE  \E f \in [0..Len(s) -> Seq(S)] : Picks(s, P, f)
<1> DEFINE n == Len(s)
           upto[i \in 0..n] ==
             IF i = 0 THEN <<>> ELSE IF i \in P THEN Append(upto[i - 1], s[i]) ELSE upto[i - 1]
           IsUpto(h) == h = [i \in 0..n |->
             IF i = 0 THEN <<>> ELSE IF i \in P THEN Append(h[i - 1], s[i]) ELSE h[i - 1]]
           V == Seq(S)
           a == <<>>
           g == [i \in 1..n |-> [v \in V |-> IF i \in P THEN Append(v, s[i]) ELSE v]]
<1>1. n \in Nat /\ \A i \in 1..n : s[i] \in S
  OBVIOUS
<1>2. Picked(s, P) = upto[n]
  BY DEF Picked
<1>3. upto = CHOOSE h : IsUpto(h)
  OBVIOUS
<1> HIDE DEF n, upto
<1>4. a \in V /\ g \in [1..n -> [V -> V]]
  BY <1>1
<1>5. \A i \in 1..n : \A v \in V : g[i][v] = IF i \in P THEN Append(v, s[i]) ELSE v
  OBVIOUS
<1> HIDE DEF g, V
<1>6. PICK f \in [0..n -> V] : f[0] = a /\ \A i \in 1..n : f[i] = g[i][f[i - 1]]
  <2>1. a \in V /\ g \in [1..n -> [V -> V]] /\ n \in Nat
    BY <1>1, <1>4
  <2> HIDE DEF a
  <2> QED  BY <2>1, Recursion
<1>7. \A i \in 1..n : f[i] = IF i \in P THEN Append(f[i - 1], s[i]) ELSE f[i - 1]
  <2> TAKE i \in 1..n
  <2>1. i - 1 \in 0..n
    BY <1>1
  <2> QED  BY <2>1, <1>5, <1>6
<1>8. IsUpto(f)
  <2>1. f = [i \in 0..n |-> f[i]]
    OBVIOUS
  <2>2. \A i \in 0..n : i # 0 => i \in 1..n
    BY <1>1
  <2> QED  BY <1>6, <1>7, <2>1, <2>2
<1> HIDE DEF IsUpto
<1>9. IsUpto(upto)
  BY <1>3, <1>8
<1>10. upto = [i \in 0..n |->
           IF i = 0 THEN <<>> ELSE IF i \in P THEN Append(upto[i - 1], s[i]) ELSE upto[i - 1]]
  BY <1>9 DEF IsUpto
<1> DEFINE G == {i \in Nat : i <= n => upto[i] = f[i]}
<1>11. 0 \in G
  <2>1. upto[0] = <<>>
    BY <1>1, <1>10
  <2> QED  BY <2>1, <1>6
<1>12. ASSUME NEW i \in Nat, i \in G PROVE i + 1 \in G
  <2> SUFFICES ASSUME i + 1 <= n PROVE upto[i + 1] = f[i + 1]
    OBVIOUS
  <2>1. i <= n /\ upto[i] = f[i] /\ i + 1 \in 0..n /\ i + 1 \in 1..n /\ i + 1 # 0
    BY <1>12, <1>1
  <2>2. (i + 1) - 1 = i
    OBVIOUS
  <2>3. upto[i + 1] = IF i + 1 \in P THEN Append(upto[i], s[i + 1]) ELSE upto[i]
    BY <2>1, <2>2, <1>10
  <2>4. f[i + 1] = IF i + 1 \in P THEN Append(f[i], s[i + 1]) ELSE f[i]
    BY <2>1, <2>2, <1>7
  <2> QED  BY <2>1, <2>3, <2>4
<1> HIDE DEF G
<1>13. n \in G
  BY <1>1, <1>11, <1>12, Induction
<1>14. upto[n] = f[n]
  BY <1>1, <1>13 DEF G
<1>15. f \in [0..Len(s) -> Seq(S)]
  BY DEF n, V
<1>16. Picks(s, P, f)
  BY <1>2, <1>6, <1>7, <1>14 DEF Picks, n
<1> QED  BY <1>15, <1>16

\* What is picked are members of the sequence at those places.
LEMMA PickedFrom ==
  ASSUME NEW S, NEW s \in Seq(S), NEW P, NEW T, \A n \in DOMAIN s : n \in P => s[n] \in T
  PROVE  Picked(s, P) \in Seq(T)
<1>1. PICK f \in [0..Len(s) -> Seq(S)] : Picks(s, P, f)
  BY PickedUnfolds
<1> DEFINE G == {i \in Nat : i <= Len(s) => f[i] \in Seq(T)}
<1>2. 0 \in G
  BY <1>1 DEF Picks
<1>3. ASSUME NEW i \in Nat, i \in G PROVE i + 1 \in G
  <2> SUFFICES ASSUME i + 1 <= Len(s) PROVE f[i + 1] \in Seq(T)
    OBVIOUS
  <2>1. i <= Len(s) /\ f[i] \in Seq(T) /\ i + 1 \in 1..Len(s) /\ (i + 1) - 1 = i
    BY <1>3
  <2>2. f[i + 1] = IF i + 1 \in P THEN Append(f[i], s[i + 1]) ELSE f[i]
    BY <1>1, <2>1 DEF Picks
  <2> QED  BY <2>1, <2>2
<1> HIDE DEF G
<1>4. Len(s) \in G
  BY <1>2, <1>3, Induction
<1> QED  BY <1>1, <1>4 DEF G, Picks

LEMMA PickedAppend ==
  ASSUME NEW S, NEW s \in Seq(S), NEW x \in S, NEW P, NEW Q,
         \A n \in 1..Len(s) : n \in P <=> n \in Q
  PROVE  Picked(Append(s, x), Q) =
           IF Len(s) + 1 \in Q THEN Append(Picked(s, P), x) ELSE Picked(s, P)
<1> DEFINE t == Append(s, x)
<1>1. t \in Seq(S) /\ Len(t) = Len(s) + 1 /\ Len(s) \in Nat /\ t[Len(s) + 1] = x
      /\ \A n \in 1..Len(s) : t[n] = s[n]
  OBVIOUS
<1> HIDE DEF t
<1>2. PICK f \in [0..Len(s) -> Seq(S)] : Picks(s, P, f)
  BY PickedUnfolds
<1>3. PICK h \in [0..Len(t) -> Seq(S)] : Picks(t, Q, h)
  BY <1>1, PickedUnfolds
<1> DEFINE G == {i \in Nat : i <= Len(s) => f[i] = h[i]}
<1>4. 0 \in G
  BY <1>2, <1>3 DEF Picks
<1>5. ASSUME NEW i \in Nat, i \in G PROVE i + 1 \in G
  <2> SUFFICES ASSUME i + 1 <= Len(s) PROVE f[i + 1] = h[i + 1]
    OBVIOUS
  <2>1. /\ i <= Len(s) /\ f[i] = h[i] /\ (i + 1) - 1 = i
        /\ i + 1 \in 1..Len(s) /\ i + 1 \in 1..Len(t)
    BY <1>1, <1>5
  <2>2. f[i + 1] = IF i + 1 \in P THEN Append(f[i], s[i + 1]) ELSE f[i]
    BY <1>2, <2>1 DEF Picks
  <2>3. h[i + 1] = IF i + 1 \in Q THEN Append(h[i], t[i + 1]) ELSE h[i]
    BY <1>3, <2>1 DEF Picks
  <2> QED  BY <1>1, <2>1, <2>2, <2>3
<1> HIDE DEF G
<1>6. Len(s) \in G
  BY <1>1, <1>4, <1>5, Induction
<1>7. f[Len(s)] = h[Len(s)]
  BY <1>1, <1>6 DEF G
<1>8. Len(t) \in 1..Len(t) /\ Len(t) - 1 = Len(s)
  BY <1>1
<1>9. h[Len(t)] = IF Len(t) \in Q THEN Append(h[Len(s)], t[Len(t)]) ELSE h[Len(s)]
  BY <1>3, <1>8 DEF Picks
<1> QED  BY <1>1, <1>2, <1>3, <1>7, <1>9 DEF Picks, t

LEMMA OneLonger ==
  ASSUME NEW S, NEW s \in Seq(S), NEW k \in Nat, k + 1 <= Len(s), NEW r \in Seq(S)
  PROVE  /\ SubSeq(s, 1, k) \in Seq(S) /\ s[k + 1] \in S
         /\ r \o SubSeq(s, 1, k + 1) = Append(r \o SubSeq(s, 1, k), s[k + 1])
<1> DEFINE a == SubSeq(s, 1, k)
           b == SubSeq(s, 1, k + 1)
<1>1. a \in Seq(S) /\ Len(a) = k /\ \A i \in 1..k : a[i] = s[i]
  OBVIOUS
<1>2. b \in Seq(S) /\ Len(b) = k + 1 /\ \A i \in 1..(k + 1) : b[i] = s[i]
  OBVIOUS
<1>3. s[k + 1] \in S
  OBVIOUS
<1> HIDE DEF a, b
<1> DEFINE c == Append(r \o a, s[k + 1])
           d == r \o b
<1>4. d \in Seq(S) /\ Len(d) = Len(r) + k + 1
      /\ \A i \in 1..Len(d) : d[i] = IF i <= Len(r) THEN r[i] ELSE s[i - Len(r)]
  BY <1>2
<1>5. c \in Seq(S) /\ Len(c) = Len(r) + k + 1
      /\ \A i \in 1..Len(c) : c[i] = IF i <= Len(r) THEN r[i] ELSE s[i - Len(r)]
  <2>1. r \o a \in Seq(S) /\ Len(r \o a) = Len(r) + k
        /\ \A i \in 1..(Len(r) + k) : (r \o a)[i] = IF i <= Len(r) THEN r[i] ELSE a[i - Len(r)]
    BY <1>1, SMTT(30)
  <2> HIDE DEF a
  <2>2. c \in Seq(S) /\ Len(c) = Len(r) + k + 1 /\ c[Len(r) + k + 1] = s[k + 1]
        /\ \A i \in 1..(Len(r) + k) : c[i] = (r \o a)[i]
    BY <1>3, <2>1
  <2> HIDE DEF c
  <2>3. ASSUME NEW i \in 1..Len(c) PROVE c[i] = IF i <= Len(r) THEN r[i] ELSE s[i - Len(r)]
    <3>1. CASE i = Len(r) + k + 1
      <4>1. i - Len(r) = k + 1 /\ ~(i <= Len(r))
        BY <3>1
      <4> QED  BY <2>2, <3>1, <4>1
    <3>2. CASE i # Len(r) + k + 1
      <4>1. i \in 1..(Len(r) + k) /\ (i <= Len(r) \/ i - Len(r) \in 1..k)
        BY <2>2, <3>2
      <4> QED  BY <1>1, <2>1, <2>2, <4>1
    <3> QED  BY <3>1, <3>2
  <2> QED  BY <2>2, <2>3
<1> HIDE DEF c, d
<1>6. c = d
  BY <1>4, <1>5, SeqEqual
<1> QED  BY <1>1, <1>3, <1>6 DEF a, b, c, d

-----------------------------------------------------------------------------
(* Types *)

Locs == {"unborn", "spawned", "turn", "model", "post", "tools", "after", "resuming", "exited"}
Statuses == {"queued", "requesting", "asking", "running", "done", "gone"}
Outcomes == {"ok", "failed", "denied", "refused", "not_run", "interrupted", "cancelled"}
CallIds == Agents \X Nat \X Nat
Calls == [id : CallIds, tool : {"leaf", "gated", "delegate"}]
Messages == [role : {"assistant"}, calls : Seq(Calls)]
            \cup [role : {"result"}, call : CallIds, result : Outcomes]
            \cup [role : {"user"}, text : Nat]
Kept == [call : CallIds, result : Outcomes]
Entries == [call : Calls, child : Agents]
AgentStates == [msgs : Seq(Messages), results : SUBSET Kept, inj : Seq(Nat \ {0}),
                resume : Seq(Entries), kids : Nat, phase : {"unknown", "live", "finished"}]
Documents == [agents : [Agents -> AgentStates], kids : [Agents -> Seq(Agents)],
              pending : SUBSET CallIds, over : BOOLEAN]

-----------------------------------------------------------------------------
(* The texts of a transcript *)

LEMMA TextsAppend ==
  ASSUME NEW ms \in Seq(Messages), NEW m \in Messages
  PROVE  /\ UserTexts(ms) \in Seq(Nat)
         /\ UserTexts(Append(ms, m)) =
              IF m.role = "user" THEN Append(UserTexts(ms), m.text) ELSE UserTexts(ms)
<1> DEFINE U == [role : {"user"}, text : Nat]
           P == {n \in DOMAIN ms : ms[n].role = "user"}
           ns == Append(ms, m)
           Q == {n \in DOMAIN ns : ns[n].role = "user"}
           us == Picked(ms, P)
           vs == Picked(ns, Q)
<1>1. \A x \in Messages : x.role = "user" => x \in U
  BY DEF Messages
<1>2. /\ ns \in Seq(Messages) /\ Len(ns) = Len(ms) + 1 /\ ns[Len(ms) + 1] = m
      /\ \A n \in 1..Len(ms) : ns[n] = ms[n]
      /\ DOMAIN ns = 1..Len(ns) /\ DOMAIN ms = 1..Len(ms) /\ Len(ms) \in Nat
  OBVIOUS
<1>3. UserTexts(ms) = [i \in DOMAIN us |-> us[i].text]
      /\ UserTexts(ns) = [i \in DOMAIN vs |-> vs[i].text]
  BY DEF UserTexts
<1>4. \A n \in DOMAIN ms : n \in P => ms[n] \in U
  BY <1>1
<1>5. us \in Seq(U)
  <2> HIDE DEF P, U
  <2> QED  BY <1>4, PickedFrom
<1>6. (\A n \in 1..Len(ms) : n \in P <=> n \in Q) /\ (Len(ms) + 1 \in Q <=> m.role = "user")
  BY <1>2
<1> HIDE DEF P, Q, us, vs, U, ns
<1>7. vs = IF Len(ms) + 1 \in Q THEN Append(us, m) ELSE us
  BY <1>6, PickedAppend DEF us, vs, ns
<1>8. DOMAIN us = 1..Len(us) /\ Len(us) \in Nat /\ \A i \in 1..Len(us) : us[i].text \in Nat
  <2>1. DOMAIN us = 1..Len(us) /\ Len(us) \in Nat /\ \A i \in 1..Len(us) : us[i] \in U
    BY <1>5
  <2> QED  BY <2>1 DEF U
<1>9. UserTexts(ms) \in Seq(Nat) /\ Len(UserTexts(ms)) = Len(us)
  BY <1>3, <1>8
<1>10. CASE m.role # "user"
  BY <1>3, <1>6, <1>7, <1>9, <1>10 DEF ns
<1>11. CASE m.role = "user"
  <2>1. vs = Append(us, m) /\ m \in U
    BY <1>1, <1>6, <1>7, <1>11
  <2>2. /\ DOMAIN vs = 1..(Len(us) + 1) /\ vs[Len(us) + 1] = m
        /\ \A i \in 1..Len(us) : vs[i] = us[i]
    BY <1>5, <2>1
  <2>3. m.text \in Nat
    BY <2>1 DEF U
  <2>4. UserTexts(ns) = Append(UserTexts(ms), m.text)
    <3> DEFINE a == Append(UserTexts(ms), m.text)
    <3>1. a \in Seq(Nat) /\ Len(a) = Len(us) + 1 /\ a[Len(us) + 1] = m.text
          /\ \A i \in 1..Len(us) : a[i] = UserTexts(ms)[i]
      BY <1>9, <2>3
    <3>2. \A i \in 1..Len(us) : a[i] = us[i].text
      BY <1>3, <1>8, <3>1
    <3> HIDE DEF a
    <3>3. a = [i \in 1..(Len(us) + 1) |-> a[i]]
      BY <3>1
    <3>4. \A i \in 1..(Len(us) + 1) : a[i] = vs[i].text
      BY <1>8, <2>2, <3>1, <3>2
    <3>5. UserTexts(ns) = [i \in 1..(Len(us) + 1) |-> vs[i].text]
      BY <1>3, <2>2
    <3>6. UserTexts(ns) = a
      BY ONLY <3>3, <3>4, <3>5
    <3> QED  BY <3>6 DEF a
  <2> QED  BY <1>9, <1>11, <2>4 DEF ns
<1> QED  BY <1>10, <1>11

LEMMA NoTexts == UserTexts(<<>>) = <<>>
<1> DEFINE e == <<>>
           P == {n \in DOMAIN e : e[n].role = "user"}
<1>1. e \in Seq({}) /\ Len(e) = 0 /\ DOMAIN e = {}
  OBVIOUS
<1> HIDE DEF P, e
<1>2. Picked(e, P) \in Seq({})
  BY <1>1, PickedFrom
<1>3. Picked(e, P) = <<>>
  BY <1>2
<1>4. UserTexts(e) = [i \in DOMAIN Picked(e, P) |-> Picked(e, P)[i].text]
  BY DEF UserTexts, P
<1>5. UserTexts(e) = <<>>
  BY <1>3, <1>4
<1> QED  BY <1>5 DEF e

\* Answers and replies add no text.
LEMMA TextsOfAnswers ==
  ASSUME NEW ms \in Seq(Messages), NEW rs \in Seq(Messages),
         \A i \in DOMAIN rs : rs[i].role # "user"
  PROVE  UserTexts(ms \o rs) = UserTexts(ms)
<1> DEFINE G == {k \in Nat : k <= Len(rs) => UserTexts(ms \o SubSeq(rs, 1, k)) = UserTexts(ms)}
<1>1. 0 \in G
  <2>1. ms \o SubSeq(rs, 1, 0) = ms
    OBVIOUS
  <2> QED  BY <2>1
<1>2. ASSUME NEW k \in Nat, k \in G PROVE k + 1 \in G
  <2> SUFFICES ASSUME k + 1 <= Len(rs)
               PROVE  UserTexts(ms \o SubSeq(rs, 1, k + 1)) = UserTexts(ms)
    OBVIOUS
  <2> DEFINE t == ms \o SubSeq(rs, 1, k)
  <2>1. UserTexts(t) = UserTexts(ms)
    BY <1>2
  <2>2. ms \o SubSeq(rs, 1, k + 1) = Append(t, rs[k + 1]) /\ rs[k + 1] \in Messages
    BY OneLonger
  <2>3. t \in Seq(Messages)
    BY OneLonger
  <2>4. rs[k + 1].role # "user"
    OBVIOUS
  <2> HIDE DEF t
  <2> QED  BY <2>1, <2>2, <2>3, <2>4, TextsAppend
<1> HIDE DEF G
<1>3. Len(rs) \in G
  BY <1>1, <1>2, Induction
<1>4. UserTexts(ms \o SubSeq(rs, 1, Len(rs))) = UserTexts(ms)
  BY <1>3 DEF G
<1>5. SubSeq(rs, 1, Len(rs)) = rs
  OBVIOUS
<1>6. UserTexts(ms \o SubSeq(rs, 1, Len(rs))) = UserTexts(ms \o rs)
  BY ONLY <1>5
<1> QED  BY <1>4, <1>6

\* The messages made of texts.
LEMMA TextMessages ==
  ASSUME NEW inj \in Seq(Nat \ {0})
  PROVE  [i \in DOMAIN inj |-> UserText(inj[i])] \in Seq(Messages)
<1>1. \A u \in Nat : UserText(u) \in Messages
  BY DEF UserText, Messages
<1>2. DOMAIN inj = 1..Len(inj) /\ Len(inj) \in Nat /\ \A i \in DOMAIN inj : inj[i] \in Nat
  OBVIOUS
<1>3. \A i \in DOMAIN inj : UserText(inj[i]) \in Messages
  BY <1>1, <1>2
<1> QED  BY <1>2, <1>3

\* Texts that are written are the texts that waited.
LEMMA TextsOfTexts ==
  ASSUME NEW ms \in Seq(Messages), NEW inj \in Seq(Nat \ {0})
  PROVE  /\ ms \o [i \in DOMAIN inj |-> UserText(inj[i])] \in Seq(Messages)
         /\ UserTexts(ms \o [i \in DOMAIN inj |-> UserText(inj[i])]) = UserTexts(ms) \o inj
<1> DEFINE ts == [i \in DOMAIN inj |-> UserText(inj[i])]
           old == UserTexts(ms)
<1>1. ts \in Seq(Messages) /\ Len(ts) = Len(inj) /\ Len(inj) \in Nat
      /\ \A i \in 1..Len(inj) : ts[i].role = "user" /\ ts[i].text = inj[i]
  BY DEF UserText, Messages
<1>2. old \in Seq(Nat) /\ inj \in Seq(Nat)
  <2>1. UserText(0) \in Messages
    BY DEF UserText, Messages
  <2> QED  BY <2>1, TextsAppend
<1> HIDE DEF ts, old
<1> DEFINE G == {k \in Nat : k <= Len(ts) =>
                   UserTexts(ms \o SubSeq(ts, 1, k)) = old \o SubSeq(inj, 1, k)}
<1>3. 0 \in G
  <2>1. ms \o SubSeq(ts, 1, 0) = ms /\ old \o SubSeq(inj, 1, 0) = old
    BY <1>1, <1>2
  <2> QED  BY <2>1 DEF old
<1>4. ASSUME NEW k \in Nat, k \in G PROVE k + 1 \in G
  <2> SUFFICES ASSUME k + 1 <= Len(ts)
               PROVE  UserTexts(ms \o SubSeq(ts, 1, k + 1)) = old \o SubSeq(inj, 1, k + 1)
    OBVIOUS
  <2> DEFINE t == ms \o SubSeq(ts, 1, k)
             u == old \o SubSeq(inj, 1, k)
  <2>1. UserTexts(t) = u
    BY <1>4
  <2>2. /\ t \in Seq(Messages) /\ ts[k + 1] \in Messages
        /\ ms \o SubSeq(ts, 1, k + 1) = Append(t, ts[k + 1])
    <3>1. /\ SubSeq(ts, 1, k) \in Seq(Messages) /\ ts[k + 1] \in Messages
          /\ ms \o SubSeq(ts, 1, k + 1) = Append(ms \o SubSeq(ts, 1, k), ts[k + 1])
      BY <1>1, OneLonger, SMTT(30)
    <3> QED  BY <3>1
  <2>3. old \o SubSeq(inj, 1, k + 1) = Append(u, inj[k + 1])
    BY <1>1, <1>2, OneLonger, SMTT(30)
  <2>4. ts[k + 1].role = "user" /\ ts[k + 1].text = inj[k + 1]
    BY <1>1
  <2> HIDE DEF t, u
  <2> QED  BY <2>1, <2>2, <2>3, <2>4, TextsAppend
<1> HIDE DEF G
<1>5. Len(ts) \in G
  BY <1>1, <1>3, <1>4, Induction
<1>6. SubSeq(ts, 1, Len(ts)) = ts /\ SubSeq(inj, 1, Len(ts)) = inj
  BY <1>1, <1>2
<1>7. UserTexts(ms \o ts) = old \o inj
  <2>1. UserTexts(ms \o SubSeq(ts, 1, Len(ts))) = old \o SubSeq(inj, 1, Len(ts))
    BY <1>1, <1>5 DEF G
  <2> QED  BY ONLY <1>6, <2>1
<1>8. ms \o ts \in Seq(Messages)
  BY <1>1
<1> QED  BY <1>7, <1>8 DEF ts, old

-----------------------------------------------------------------------------
(* Transcripts that are written and repaired *)

LEMMA RequestedType ==
  ASSUME NEW ms \in Seq(Messages)
  PROVE  Requested(ms) \in Seq(Calls) /\ (ms = <<>> => Requested(ms) = <<>>)
<1> DEFINE n == Len(ms)
           upto[i \in 0..n] ==
             IF i = 0 THEN <<>>
             ELSE IF ms[i].role = "assistant" THEN upto[i - 1] \o ms[i].calls ELSE upto[i - 1]
           IsUpto(h) == h = [i \in 0..n |->
             IF i = 0 THEN <<>>
             ELSE IF ms[i].role = "assistant" THEN h[i - 1] \o ms[i].calls ELSE h[i - 1]]
           V == Seq(Calls)
           a == <<>>
           g == [i \in 1..n |-> [v \in V |->
                   IF ms[i].role = "assistant" THEN v \o ms[i].calls ELSE v]]
<1>1. n \in Nat
  OBVIOUS
<1>2. Requested(ms) = upto[n]
  BY DEF Requested
<1>3. upto = CHOOSE h : IsUpto(h)
  OBVIOUS
<1>4. \A i \in 1..n : ms[i].role = "assistant" => ms[i].calls \in V
  <2> TAKE i \in 1..n
  <2>1. ms[i] \in Messages
    OBVIOUS
  <2> QED  BY <2>1 DEF Messages
<1> HIDE DEF n, upto
<1>5. a \in V /\ g \in [1..n -> [V -> V]]
  <2>1. \A i \in 1..n : \A v \in V : ms[i].role = "assistant" => v \o ms[i].calls \in V
    BY <1>4
  <2>2. a \in V
    OBVIOUS
  <2> HIDE DEF V
  <2> QED  BY <2>1, <2>2
<1>6. \A i \in 1..n : \A v \in V :
        g[i][v] = IF ms[i].role = "assistant" THEN v \o ms[i].calls ELSE v
  OBVIOUS
<1> HIDE DEF g, V
<1>7. PICK f \in [0..n -> V] : f[0] = a /\ \A i \in 1..n : f[i] = g[i][f[i - 1]]
  <2>1. a \in V /\ g \in [1..n -> [V -> V]] /\ n \in Nat
    BY <1>1, <1>5
  <2> HIDE DEF a
  <2> QED  BY <2>1, Recursion
<1>8. \A i \in 1..n :
        f[i] = IF ms[i].role = "assistant" THEN f[i - 1] \o ms[i].calls ELSE f[i - 1]
  <2> TAKE i \in 1..n
  <2>1. i - 1 \in 0..n
    BY <1>1
  <2> QED  BY <2>1, <1>6, <1>7
<1>9. IsUpto(f)
  <2>1. f = [i \in 0..n |-> f[i]]
    OBVIOUS
  <2>2. \A i \in 0..n : i # 0 => i \in 1..n
    BY <1>1
  <2> QED  BY <1>7, <1>8, <2>1, <2>2
<1> HIDE DEF IsUpto
<1>10. IsUpto(upto)
  BY <1>3, <1>9
<1>11. upto = [i \in 0..n |->
           IF i = 0 THEN <<>>
           ELSE IF ms[i].role = "assistant" THEN upto[i - 1] \o ms[i].calls ELSE upto[i - 1]]
  BY <1>10 DEF IsUpto
<1> DEFINE G == {i \in Nat : i <= n => upto[i] \in V}
<1>12. 0 \in G
  <2>1. upto[0] = <<>>
    BY <1>1, <1>11
  <2> QED  BY <2>1, <1>5
<1>13. ASSUME NEW i \in Nat, i \in G PROVE i + 1 \in G
  <2> SUFFICES ASSUME i + 1 <= n PROVE upto[i + 1] \in V
    OBVIOUS
  <2>1. i <= n /\ upto[i] \in V /\ i + 1 \in 0..n /\ i + 1 \in 1..n /\ i + 1 # 0
    BY <1>13, <1>1
  <2>2. (i + 1) - 1 = i
    OBVIOUS
  <2>3. upto[i + 1] = IF ms[i + 1].role = "assistant" THEN upto[i] \o ms[i + 1].calls
                                                      ELSE upto[i]
    BY <2>1, <2>2, <1>11
  <2> QED  BY <2>1, <2>3, <1>4 DEF V
<1> HIDE DEF G
<1>14. n \in G
  BY <1>1, <1>12, <1>13, Induction
<1>15. upto[n] \in V
  BY <1>1, <1>14 DEF G
<1>16. ASSUME ms = <<>> PROVE upto[n] = <<>>
  <2>1. n = 0
    BY <1>16 DEF n
  <2>2. 0 \in 0..n /\ upto[0] = <<>>
    BY <1>1, <1>11
  <2> QED  BY <2>1, <2>2
<1> QED  BY <1>2, <1>15, <1>16 DEF V

LEMMA OpenCallsType ==
  ASSUME NEW ms \in Seq(Messages)
  PROVE  /\ OpenCalls(ms) \in Seq(Calls)
         /\ \A d : ToFill(OpenCalls(ms), d) \in Seq(Calls)
         /\ ResumableCall(ms) = <<>> \/ ResumableCall(ms)[1] \in Calls
<1> DEFINE asked == Requested(ms)
           P == {n \in DOMAIN asked : asked[n].id \notin ToSet(Answered(ms))}
           open == OpenCalls(ms)
<1>1. asked \in Seq(Calls)
  BY RequestedType
<1>2. open = Picked(asked, P)
  BY DEF OpenCalls
<1> HIDE DEF asked, P, open
<1>3. open \in Seq(Calls)
  <2>1. \A n \in DOMAIN asked : asked[n] \in Calls
    BY <1>1
  <2> QED  BY <1>1, <1>2, <2>1, PickedFrom
<1>4. ASSUME NEW Q PROVE Picked(open, Q) \in Seq(Calls)
  <2>1. \A n \in DOMAIN open : open[n] \in Calls
    BY <1>3
  <2> QED  BY <1>3, <2>1, PickedFrom
<1>5. ASSUME NEW d PROVE ToFill(open, d) \in Seq(Calls)
  BY <1>4 DEF ToFill
<1>6. ResumableCall(ms) = <<>> \/ ResumableCall(ms)[1] \in Calls
  <2> DEFINE ds == Picked(open, {n \in DOMAIN open : open[n].tool = "delegate"})
  <2>1. ds \in Seq(Calls)
    BY <1>4
  <2>2. ResumableCall(ms) = IF ds = <<>> THEN <<>> ELSE <<Last(ds)>>
    BY DEF ResumableCall, open
  <2> HIDE DEF ds
  <2>3. ds # <<>> => Last(ds) \in Calls
    BY <2>1 DEF Last
  <2> QED  BY <2>2, <2>3
<1> QED  BY <1>3, <1>5, <1>6 DEF open

LEMMA ResultOfType ==
  ASSUME NEW results, results \subseteq Kept, NEW id, NEW fill \in Outcomes
  PROVE  ResultOf(results, id, fill) \in Outcomes
<1>1. CASE Has(results, id)
  <2> DEFINE r == CHOOSE x \in results : x.call = id
  <2>1. r \in results
    BY <1>1 DEF Has
  <2>2. ResultOf(results, id, fill) = r.result
    BY <1>1 DEF ResultOf
  <2> HIDE DEF r
  <2> QED  BY <2>1, <2>2 DEF Kept
<1>2. CASE ~Has(results, id)
  BY <1>2 DEF ResultOf
<1> QED  BY <1>1, <1>2

\* The sequence s is a beginning of t.
Begins(s, t) == Len(s) <= Len(t) /\ \A i \in 1..Len(s) : t[i] = s[i]
\* What is written behind a transcript when a turn ends or a session is repaired.
Behind(ms, new) ==
  /\ new \in Seq(Messages) /\ Begins(ms, new)
  /\ UserTexts(new) = UserTexts(ms)

LEMMA AnswersBehind ==
  ASSUME NEW ms \in Seq(Messages), NEW rs \in Seq(Messages),
         \A i \in DOMAIN rs : rs[i].role # "user"
  PROVE  Behind(ms, ms \o rs)
<1>1. UserTexts(ms \o rs) = UserTexts(ms)
  BY TextsOfAnswers
<1>2. ms \o rs \in Seq(Messages) /\ Begins(ms, ms \o rs)
  BY DEF Begins
<1> QED  BY <1>1, <1>2 DEF Behind

LEMMA FinalizeBehind ==
  ASSUME NEW ms \in Seq(Messages), NEW results, results \subseteq Kept,
         NEW calls, NEW n \in Nat, DOMAIN calls = 1..n, \A i \in 1..n : calls[i].id \in CallIds
  PROVE  Behind(ms, FinalizeTurn(ms, calls, results))
<1> DEFINE rs == [i \in DOMAIN calls |->
                    Result(calls[i].id, ResultOf(results, calls[i].id, "cancelled"))]
<1>1. \A i \in 1..n : ResultOf(results, calls[i].id, "cancelled") \in Outcomes
  BY ResultOfType DEF Outcomes
<1>2. rs \in Seq(Messages) /\ \A i \in DOMAIN rs : rs[i].role # "user"
  BY <1>1 DEF Result, Messages
<1>3. FinalizeTurn(ms, calls, results) = ms \o rs
  BY DEF FinalizeTurn
<1> HIDE DEF rs
<1> QED  BY <1>2, <1>3, AnswersBehind

LEMMA RepairBehind ==
  ASSUME NEW ms \in Seq(Messages), NEW results, results \subseteq Kept, NEW defer
  PROVE  Behind(ms, RepairTranscript(ms, results, defer))
<1> DEFINE filled == ToFill(OpenCalls(ms), defer)
           rs == [i \in DOMAIN filled |->
                    Result(filled[i].id, ResultOf(results, filled[i].id, "interrupted"))]
<1>1. filled \in Seq(Calls)
  BY OpenCallsType
<1>2. RepairTranscript(ms, results, defer) = ms \o rs
  BY DEF RepairTranscript
<1> HIDE DEF filled
<1>3. \A i \in DOMAIN filled : filled[i].id \in CallIds
                               /\ ResultOf(results, filled[i].id, "interrupted") \in Outcomes
  <2> TAKE i \in DOMAIN filled
  <2>1. filled[i] \in Calls
    BY <1>1
  <2>2. ResultOf(results, filled[i].id, "interrupted") \in Outcomes
    BY ResultOfType DEF Outcomes
  <2> QED  BY <2>1, <2>2 DEF Calls
<1>4. rs \in Seq(Messages) /\ \A i \in DOMAIN rs : rs[i].role # "user"
  BY <1>1, <1>3 DEF Result, Messages
<1> HIDE DEF rs
<1> QED  BY <1>2, <1>4, AnswersBehind

-----------------------------------------------------------------------------
(* The record of an agent *)

\* The texts an agent was given and those that wait for it, in order.
Said(x) == UserTexts(x.msgs) \o x.inj
\* The record x of an agent was gone on with, to y, by the agent itself.
Goes(x, y) ==
  /\ y \in AgentStates /\ Begins(x.msgs, y.msgs) /\ Said(y) = Said(x)
  /\ y.kids = x.kids /\ y.resume = x.resume

LEMMA SaidType ==
  ASSUME NEW x \in AgentStates
  PROVE  Said(x) \in Seq(Nat) /\ UserTexts(x.msgs) \in Seq(Nat)
<1>1. UserText(0) \in Messages
  BY DEF UserText, Messages
<1>2. x.msgs \in Seq(Messages) /\ x.inj \in Seq(Nat)
  BY DEF AgentStates
<1>3. UserTexts(x.msgs) \in Seq(Nat)
  BY <1>1, <1>2, TextsAppend
<1> QED  BY <1>2, <1>3 DEF Said

LEMMA GoesStays ==
  ASSUME NEW x \in AgentStates
  PROVE  Goes(x, x)
BY DEF Goes, Begins, AgentStates

LEMMA GoesOn ==
  ASSUME NEW x \in AgentStates, NEW y, NEW z, Goes(x, y), Goes(y, z)
  PROVE  Goes(x, z)
<1>1. x.msgs \in Seq(Messages) /\ y.msgs \in Seq(Messages) /\ z.msgs \in Seq(Messages)
  BY DEF Goes, AgentStates
<1>2. Begins(x.msgs, y.msgs) /\ Begins(y.msgs, z.msgs)
  BY DEF Goes
<1>3. Begins(x.msgs, z.msgs)
  BY <1>1, <1>2 DEF Begins
<1> QED  BY <1>3 DEF Goes

LEMMA DrainedGoes ==
  ASSUME NEW x \in AgentStates
  PROVE  /\ Goes(x, Drained(x)) /\ Drained(x).phase = x.phase /\ Drained(x).results = x.results
         /\ Drained(x).inj = <<>>
<1> DEFINE ms == x.msgs \o [i \in DOMAIN x.inj |-> UserText(x.inj[i])]
<1>1. x.msgs \in Seq(Messages) /\ x.inj \in Seq(Nat \ {0}) /\ UserTexts(x.msgs) \in Seq(Nat)
  BY SaidType DEF AgentStates
<1>2. ms \in Seq(Messages) /\ UserTexts(ms) = UserTexts(x.msgs) \o x.inj
  BY <1>1, TextsOfTexts
<1>3. Begins(x.msgs, ms)
  <2> DEFINE ts == [i \in DOMAIN x.inj |-> UserText(x.inj[i])]
  <2> HIDE DEF ms
  <2>2. ts \in Seq(Messages)
    BY <1>1, TextMessages
  <2> HIDE DEF ts
  <2>3. Begins(x.msgs, x.msgs \o ts)
    BY <1>1, <2>2 DEF Begins
  <2> QED  BY <2>3 DEF ts, ms
<1>4. Drained(x) = [x EXCEPT !.msgs = ms, !.inj = <<>>]
  BY DEF Drained
<1> HIDE DEF ms
<1>5. /\ Drained(x) \in AgentStates /\ Drained(x).msgs = ms /\ Drained(x).inj = <<>>
      /\ Drained(x).kids = x.kids /\ Drained(x).resume = x.resume
      /\ Drained(x).phase = x.phase /\ Drained(x).results = x.results
  <2>1. <<>> \in Seq(Nat \ {0})
    OBVIOUS
  <2> QED  BY <1>2, <1>4, <2>1 DEF AgentStates
<1>6. Said(Drained(x)) = Said(x)
  <2>1. UserTexts(ms) \in Seq(Nat)
    BY <1>5, SaidType
  <2>2. UserTexts(ms) \o <<>> = UserTexts(ms)
    BY <2>1
  <2> QED  BY <1>2, <1>5, <2>2 DEF Said
<1> QED  BY <1>3, <1>5, <1>6 DEF Goes

LEMMA FinishedGoes ==
  ASSUME NEW x \in AgentStates
  PROVE  Goes(x, Finished(x)) /\ Finished(x).phase = "finished"
<1> DEFINE d == Drained(x)
<1>1. Goes(x, d)
  BY DrainedGoes
<1>2. Finished(x) = [d EXCEPT !.phase = "finished"] /\ d \in AgentStates
  BY <1>1 DEF Finished, Goes
<1> HIDE DEF d
<1>3. /\ Finished(x) \in AgentStates /\ Finished(x).phase = "finished"
      /\ Finished(x).msgs = d.msgs /\ Finished(x).inj = d.inj
      /\ Finished(x).kids = d.kids /\ Finished(x).resume = d.resume
  BY <1>2 DEF AgentStates
<1>4. Goes(x, Finished(x))
  BY <1>1, <1>3 DEF Goes, Said
<1> QED  BY <1>3, <1>4

\* More messages, none of them a text.
LEMMA BehindGoes ==
  ASSUME NEW x \in AgentStates, NEW ms, Behind(x.msgs, ms)
  PROVE  Goes(x, [x EXCEPT !.msgs = ms])
<1> DEFINE y == [x EXCEPT !.msgs = ms]
<1>1. /\ y \in AgentStates /\ y.msgs = ms /\ y.inj = x.inj /\ y.kids = x.kids
      /\ y.resume = x.resume
  BY DEF AgentStates, Behind
<1> HIDE DEF y
<1>2. Goes(x, y)
  BY <1>1 DEF Goes, Said, Behind
<1> QED  BY <1>2 DEF y

LEMMA ResultsGo ==
  ASSUME NEW x \in AgentStates, NEW rs, rs \subseteq Kept
  PROVE  Goes(x, [x EXCEPT !.results = rs]) /\ [x EXCEPT !.results = rs].phase = x.phase
<1> DEFINE y == [x EXCEPT !.results = rs]
<1>1. /\ y \in AgentStates /\ y.msgs = x.msgs /\ y.inj = x.inj /\ y.kids = x.kids
      /\ y.resume = x.resume /\ y.phase = x.phase
  BY DEF AgentStates
<1> HIDE DEF y
<1>2. Begins(x.msgs, x.msgs)
  BY DEF AgentStates, Begins
<1>3. Goes(x, y)
  BY <1>1, <1>2 DEF Goes, Said
<1> QED  BY <1>1, <1>3 DEF y

\* An agent that starts has its task, or goes on from what was restored.
LEMMA SeededIs ==
  ASSUME NEW x \in AgentStates
  PROVE  /\ Seeded(x) \in AgentStates /\ Begins(x.msgs, Seeded(x).msgs)
         /\ Seeded(x).phase = "live" /\ Seeded(x).kids = x.kids /\ Seeded(x).resume = x.resume
         /\ Seeded(x).inj = x.inj
         /\ Said(Seeded(x)) = IF x.msgs = <<>> THEN <<0>> \o x.inj ELSE Said(x)
<1> DEFINE ms == IF x.msgs = <<>> THEN <<UserText(Task)>> ELSE x.msgs
<1>1. Seeded(x) = [x EXCEPT !.msgs = ms, !.phase = "live"]
  BY DEF Seeded
<1>2. ms \in Seq(Messages) /\ Begins(x.msgs, ms)
  <2>1. UserText(Task) \in Messages
    BY DEF UserText, Task, Messages
  <2>2. x.msgs \in Seq(Messages)
    BY DEF AgentStates
  <2> QED  BY <2>1, <2>2 DEF Begins
<1>3. UserTexts(ms) = IF x.msgs = <<>> THEN <<0>> ELSE UserTexts(x.msgs)
  <2>1. UserText(0) \in Messages /\ UserText(0).role = "user" /\ UserText(0).text = 0
    BY DEF UserText, Messages
  <2>2. <<>> \in Seq(Messages)
    OBVIOUS
  <2>3. UserTexts(Append(<<>>, UserText(0))) = Append(UserTexts(<<>>), 0)
    BY <2>1, <2>2, TextsAppend
  <2>4. Append(<<>>, UserText(0)) = <<UserText(0)>> /\ Append(<<>>, 0) = <<0>>
    OBVIOUS
  <2>5. UserTexts(<<UserText(0)>>) = <<0>>
    BY <2>3, <2>4, NoTexts
  <2> QED  BY <2>5 DEF Task
<1> HIDE DEF ms
<1>4. /\ Seeded(x) \in AgentStates /\ Seeded(x).msgs = ms /\ Seeded(x).inj = x.inj
      /\ Seeded(x).kids = x.kids /\ Seeded(x).resume = x.resume /\ Seeded(x).phase = "live"
  BY <1>1, <1>2 DEF AgentStates
<1> QED  BY <1>2, <1>3, <1>4 DEF Said

LEMMA NewStateIs ==
  /\ NewState \in AgentStates /\ [NewState EXCEPT !.phase = "live"] \in AgentStates
  /\ NewState.phase = "unknown" /\ NewState.kids = 0 /\ NewState.resume = <<>>
  /\ NewState.msgs = <<>> /\ NewState.inj = <<>>
  /\ [NewState EXCEPT !.phase = "live"] =
       [msgs |-> <<>>, results |-> {}, inj |-> <<>>, resume |-> <<>>, kids |-> 0,
        phase |-> "live"]
  /\ Said(NewState) = <<>> /\ Said([NewState EXCEPT !.phase = "live"]) = <<>>
<1> DEFINE e == <<>>
           live == [msgs |-> e, results |-> {}, inj |-> e, resume |-> e, kids |-> 0,
                    phase |-> "live"]
<1>1. e \o e = e /\ e \in Seq(Messages) /\ e \in Seq(Nat \ {0}) /\ e \in Seq(Entries)
  OBVIOUS
<1>2. UserTexts(e) = e
  BY NoTexts
<1>3. NewState = [msgs |-> e, results |-> {}, inj |-> e, resume |-> e, kids |-> 0,
                  phase |-> "unknown"]
  BY DEF NewState
<1> HIDE DEF e
<1>4. NewState \in AgentStates /\ live \in AgentStates
  BY <1>1, <1>3 DEF AgentStates
<1>5. [NewState EXCEPT !.phase = "live"] = live
  BY <1>3
<1>6. Said(NewState) = e /\ Said(live) = e
  BY <1>1, <1>2, <1>3 DEF Said
<1> QED  BY <1>3, <1>4, <1>5, <1>6 DEF e

LEMMA PlaceholderRecord ==
  ASSUME NEW q \in Seq(Nat \ {0})
  PROVE  LET x == [NewState EXCEPT !.phase = "live", !.inj = q]
         IN  /\ x \in AgentStates /\ x.phase = "live" /\ x.msgs = <<>> /\ x.inj = q
             /\ x.resume = <<>> /\ Said(x) = q
<1> PICK n \in AgentStates : n = NewState
  BY NewStateIs
<1> DEFINE x == [n EXCEPT !.phase = "live", !.inj = q]
<1>1. x \in AgentStates /\ x.phase = "live" /\ x.inj = q /\ x.msgs = n.msgs /\ x.resume = n.resume
  BY DEF AgentStates
<1> HIDE DEF x
<1>2. x.msgs = <<>> /\ x.resume = <<>> /\ <<>> \o q = q
  BY <1>1, NewStateIs
<1>3. Said(x) = q
  BY <1>1, <1>2, NoTexts DEF Said
<1> QED  BY <1>1, <1>2, <1>3 DEF x

LEMMA InjectedIs ==
  ASSUME NEW x \in AgentStates, NEW u \in Nat \ {0}
  PROVE  /\ [x EXCEPT !.inj = Append(@, u)] \in AgentStates
         /\ Said([x EXCEPT !.inj = Append(@, u)]) = Append(Said(x), u)
<1>1. UserTexts(x.msgs) \in Seq(Nat) /\ x.inj \in Seq(Nat)
  BY SaidType DEF AgentStates
<1>2. UserTexts(x.msgs) \o Append(x.inj, u) = Append(UserTexts(x.msgs) \o x.inj, u)
  <2> DEFINE p == UserTexts(x.msgs)
             q == x.inj
  <2> HIDE DEF p, q
  <2>1. p \in Seq(Nat) /\ q \in Seq(Nat)
    BY <1>1 DEF p, q
  <2>2. p \o Append(q, u) = Append(p \o q, u)
    BY <2>1
  <2> QED  BY <2>2 DEF p, q
<1>3. [x EXCEPT !.inj = Append(@, u)] \in AgentStates
      /\ [x EXCEPT !.inj = Append(@, u)].msgs = x.msgs
      /\ [x EXCEPT !.inj = Append(@, u)].inj = Append(x.inj, u)
  <2>1. Append(x.inj, u) \in Seq(Nat \ {0})
    BY DEF AgentStates
  <2> QED  BY <2>1 DEF AgentStates
<1> QED  BY <1>2, <1>3 DEF Said

-----------------------------------------------------------------------------
(* Types of the run *)

DocTypes ==
  /\ cp = Free \/ cp \in [owner : Agents \cup {"run"}, session : Documents]
  /\ stray \subseteq Documents
  /\ disk = NoSession \/ disk \in Documents
LoopTypes ==
  /\ loc \in [Agents -> Locs] /\ turns \in [Agents -> Nat]
  /\ cut \in [Agents -> {"no", "step", "agent"}]
  /\ call \in [Agents -> Seq(Statuses)] /\ child \in [Agents -> Seq(Agents)]
  /\ redo \in [Agents -> Seq(Entries)] /\ redone \in [Agents -> Seq(Kept)]
  /\ fate \in [Agents -> {"ok", "failed", "cancelled"}]
GhostTypes ==
  /\ minted \in [Agents -> Nat] /\ ran \subseteq Calls /\ granted \in Nat
  /\ accepted \subseteq Agents \X Nat /\ blank \in [Agents -> Seq(Nat \ {0})]
  /\ sent \in Nat /\ crashes \in Nat
ProcTypes ==
  /\ proc \in {"new", "up", "ending", "ended", "down", "loaded"}
  /\ restored \subseteq Agents /\ pending \subseteq CallIds /\ revived \subseteq CallIds
  /\ carried \in {"none", "approve", "deny"}

\* The turn an agent is in: its calls have ids of their own, the ones asked about are gated,
\* and a delegate that runs has a child.
TurnHolds(a) ==
  /\ loc[a] \in {"post", "tools"} =>
       /\ state[a].msgs # <<>> /\ Last(state[a].msgs).role = "assistant"
       /\ \A i, j \in DOMAIN Batch(a) : Batch(a)[i].id = Batch(a)[j].id => i = j
  /\ loc[a] = "tools" =>
       /\ Len(call[a]) = Len(Batch(a))
       /\ \A i \in DOMAIN call[a] :
            /\ call[a][i] \in {"requesting", "asking"} => Batch(a)[i].tool = "gated"
            /\ call[a][i] = "running" /\ Batch(a)[i].tool = "delegate" => i \in DOMAIN child[a]
  /\ loc[a] = "resuming" => redo[a] # <<>>

TypesHold ==
  /\ state \in [Agents -> AgentStates]
  /\ ProcTypes /\ DocTypes /\ LoopTypes /\ GhostTypes
  /\ \A a \in Agents : TurnHolds(a)

LEMMA PlaceholderIs ==
  ASSUME TypesHold, NEW a \in Agents
  PROVE  /\ Placeholder(a) \in AgentStates /\ Placeholder(a).phase = "live"
         /\ Placeholder(a).msgs = <<>> /\ Placeholder(a).resume = <<>>
         /\ Said(Placeholder(a)) = blank[a]
<1>1. blank[a] \in Seq(Nat \ {0})
  BY DEF TypesHold, GhostTypes
<1> QED  BY <1>1, PlaceholderRecord DEF Placeholder

LEMMA BatchType ==
  ASSUME TypesHold, NEW a \in Agents, loc[a] \in {"post", "tools"}
  PROVE  /\ Batch(a) \in Seq(Calls) /\ state[a].msgs # <<>>
         /\ loc[a] = "tools" => DOMAIN call[a] = DOMAIN Batch(a) /\ call[a] \in Seq(Statuses)
<1>1. state[a].msgs \in Seq(Messages) /\ state[a].msgs # <<>>
      /\ Last(state[a].msgs).role = "assistant"
  BY DEF TypesHold, TurnHolds, AgentStates
<1>2. Last(state[a].msgs) \in Messages
  BY <1>1 DEF Last
<1>3. Batch(a) \in Seq(Calls)
  BY <1>1, <1>2 DEF Batch, Messages
<1>4. loc[a] = "tools" => Len(call[a]) = Len(Batch(a)) /\ call[a] \in Seq(Statuses)
  BY DEF TypesHold, TurnHolds, LoopTypes
<1> QED  BY <1>1, <1>3, <1>4

\* An agent whose own variables are left alone.
LEMMA TurnStays ==
  ASSUME NEW a, TurnHolds(a), state'[a].msgs = state[a].msgs,
         loc'[a] = loc[a], call'[a] = call[a], child'[a] = child[a], redo'[a] = redo[a]
  PROVE  TurnHolds(a)'
BY DEF TurnHolds, Batch

\* An agent that is not in a turn.
LEMMA TurnOver ==
  ASSUME NEW a, loc'[a] \notin {"post", "tools", "resuming"}
  PROVE  TurnHolds(a)'
BY DEF TurnHolds

-----------------------------------------------------------------------------
(* Documents *)

LEMMA InflightType ==
  ASSUME TypesHold, NEW a \in Agents
  PROVE  /\ InflightKids(a) \in Seq(Agents)
         /\ \A n \in DOMAIN InflightKids(a) :
              \/ loc[a] = "resuming" /\ InflightKids(a)[n] = Head(redo[a]).child
              \/ /\ loc[a] = "tools"
                 /\ \E i \in DOMAIN call[a] : /\ Batch(a)[i].tool = "delegate"
                                              /\ call[a][i] = "running" /\ i \in DOMAIN child[a]
                                              /\ InflightKids(a)[n] = child[a][i]
<1>1. CASE loc[a] = "tools"
  <2> DEFINE s == [i \in DOMAIN call[a] |-> i]
             P == {i \in DOMAIN call[a] : Batch(a)[i].tool = "delegate" /\ call[a][i] = "running"}
             waits == Picked(s, P)
  <2>1. call[a] \in Seq(Statuses)
    BY <1>1, BatchType
  <2>2. s \in Seq(Nat) /\ \A n \in DOMAIN s : n \in P => s[n] \in P
    BY <2>1
  <2> HIDE DEF s
  <2>3. waits \in Seq(P)
    <3> HIDE DEF P
    <3> QED  BY <2>2, PickedFrom
  <2>4. InflightKids(a) = [n \in DOMAIN waits |-> child[a][waits[n]]]
    BY <1>1 DEF InflightKids, s
  <2>5. \A i \in P : /\ i \in DOMAIN call[a] /\ Batch(a)[i].tool = "delegate"
                     /\ call[a][i] = "running" /\ i \in DOMAIN child[a] /\ child[a][i] \in Agents
    BY <1>1 DEF TypesHold, TurnHolds, LoopTypes
  <2> HIDE DEF P, waits
  <2>6. DOMAIN waits = 1..Len(waits) /\ Len(waits) \in Nat /\ \A n \in DOMAIN waits : waits[n] \in P
    BY <2>3
  <2>7. InflightKids(a) \in Seq(Agents)
    BY <2>4, <2>5, <2>6
  <2>8. ASSUME NEW n \in DOMAIN InflightKids(a)
        PROVE  \E i \in DOMAIN call[a] : /\ Batch(a)[i].tool = "delegate"
                                         /\ call[a][i] = "running" /\ i \in DOMAIN child[a]
                                         /\ InflightKids(a)[n] = child[a][i]
    <3>1. n \in DOMAIN waits /\ InflightKids(a)[n] = child[a][waits[n]]
      BY <2>4
    <3> QED  BY <2>5, <2>6, <3>1
  <2> QED  BY <1>1, <2>7, <2>8
<1>2. CASE loc[a] = "resuming"
  <2>1. redo[a] \in Seq(Entries) /\ redo[a] # <<>>
    BY <1>2 DEF TypesHold, TurnHolds, LoopTypes
  <2>2. Head(redo[a]).child \in Agents
    <3>1. Head(redo[a]) \in Entries
      BY <2>1
    <3> QED  BY <3>1 DEF Entries
  <2>3. InflightKids(a) = <<Head(redo[a]).child>>
    BY <1>2 DEF InflightKids
  <2> QED  BY <1>2, <2>2, <2>3
<1>3. CASE loc[a] \notin {"tools", "resuming"}
  BY <1>3 DEF InflightKids
<1> QED  BY <1>1, <1>2, <1>3

LEMMA SessionType ==
  ASSUME TypesHold
  PROVE  /\ Session \in Documents /\ [Session EXCEPT !.pending = {}] \in Documents
         /\ Session.over = (proc = "ending") /\ Session.pending = pending
         /\ \A a \in Agents : /\ Session.kids[a] = InflightKids(a)
                              /\ Session.agents[a] =
                                   IF Covered(a) THEN Placeholder(a) ELSE state[a]
<1> DEFINE ag == [a \in Agents |-> IF Covered(a) THEN Placeholder(a) ELSE state[a]]
           ks == [a \in Agents |-> InflightKids(a)]
<1>1. ag \in [Agents -> AgentStates]
  BY PlaceholderIs DEF TypesHold
<1>2. ks \in [Agents -> Seq(Agents)]
  BY InflightType
<1>3. Session = [agents |-> ag, kids |-> ks, pending |-> pending, over |-> proc = "ending"]
  BY DEF Session
<1>4. \A a \in Agents : ks[a] = InflightKids(a)
         /\ ag[a] = IF Covered(a) THEN Placeholder(a) ELSE state[a]
  OBVIOUS
<1> HIDE DEF ag, ks
<1>5. pending \subseteq CallIds
  BY DEF TypesHold, ProcTypes
<1>6. Session \in Documents /\ [Session EXCEPT !.pending = {}] \in Documents
  BY <1>1, <1>2, <1>3, <1>5 DEF Documents
<1> QED  BY <1>3, <1>4, <1>6

\* What load() makes of the record of an agent.
LEMMA ReconciledIs ==
  ASSUME NEW s \in Documents, NEW a \in Agents
  PROVE  LET x == s.agents[a]
             y == Reconciled(s, a)
         IN  /\ y \in AgentStates /\ Begins(x.msgs, y.msgs) /\ Said(y) = Said(x)
             /\ y.kids = x.kids /\ y.phase = x.phase /\ y.results = {}
             /\ \/ y.resume = x.resume
                \/ /\ Len(y.resume) = Len(x.resume) + Len(s.kids[a])
                   /\ \A n \in DOMAIN y.resume :
                        \/ n \in DOMAIN x.resume /\ y.resume[n] = x.resume[n]
                        \/ \E k \in DOMAIN s.kids[a] : y.resume[n].child = s.kids[a][k]
<1> DEFINE x == s.agents[a]
           y == Reconciled(s, a)
           call1 == ResumableCall(x.msgs)[1]
           entries == IF ResumableCall(x.msgs) = <<>> THEN <<>>
                      ELSE [n \in DOMAIN s.kids[a] |->
                              [call |-> call1, child |-> s.kids[a][n]]]
           blocked == {[call |-> id, result |-> "not_run"] :
                         id \in {q \in s.pending : q[1] = a /\ ~Has(x.results, q)}}
           defer == {entries[n].call.id : n \in DOMAIN entries}
           ms == RepairTranscript(x.msgs, x.results \cup blocked, defer)
<1>1. x \in AgentStates /\ s.kids[a] \in Seq(Agents) /\ s.pending \subseteq CallIds
  BY DEF Documents
<1>2. y = [x EXCEPT !.msgs = ms, !.results = {}, !.resume = x.resume \o entries]
  BY DEF Reconciled
<1>3. Behind(x.msgs, ms)
  <2>1. x.msgs \in Seq(Messages) /\ x.results \subseteq Kept
    BY <1>1 DEF AgentStates
  <2>2. blocked \subseteq Kept
    BY <1>1 DEF Kept, Outcomes
  <2>3. x.results \cup blocked \subseteq Kept
    BY <2>1, <2>2
  <2> HIDE DEF blocked, defer
  <2> QED  BY <2>1, <2>3, RepairBehind
<1>4. entries \in Seq(Entries) /\ (entries = <<>> \/ (Len(entries) = Len(s.kids[a])
        /\ \A n \in DOMAIN entries : n \in DOMAIN s.kids[a] /\ entries[n].child = s.kids[a][n]))
  <2>1. x.msgs \in Seq(Messages)
    BY <1>1 DEF AgentStates
  <2>2. ResumableCall(x.msgs) = <<>> \/ call1 \in Calls
    BY <2>1, OpenCallsType
  <2>3. CASE ResumableCall(x.msgs) = <<>>
    BY <2>3
  <2>4. CASE ResumableCall(x.msgs) # <<>>
    <3>1. call1 \in Calls /\ entries = [n \in DOMAIN s.kids[a] |->
                                          [call |-> call1, child |-> s.kids[a][n]]]
      BY <2>2, <2>4
    <3> DEFINE ks == s.kids[a]
    <3>2. /\ ks \in Seq(Agents) /\ DOMAIN ks = 1..Len(ks) /\ Len(ks) \in Nat
          /\ \A n \in 1..Len(ks) : [call |-> call1, child |-> ks[n]] \in Entries
      BY <1>1, <3>1 DEF Entries
    <3>3. entries = [n \in 1..Len(ks) |-> [call |-> call1, child |-> ks[n]]]
      BY <3>1, <3>2
    <3> HIDE DEF call1, entries, ks, x, y, blocked, defer, ms
    <3>4. entries \in Seq(Entries) /\ Len(entries) = Len(ks) /\ DOMAIN entries = DOMAIN ks
          /\ \A n \in DOMAIN entries : entries[n].child = ks[n]
      BY <3>2, <3>3
    <3> QED  BY <3>4 DEF ks
  <2> QED  BY <2>3, <2>4
<1> HIDE DEF x, y, entries, ms, blocked, defer
<1>5. x.resume \in Seq(Entries) /\ x.resume \o entries \in Seq(Entries)
  BY <1>1, <1>4 DEF AgentStates
<1>6. /\ y \in AgentStates /\ y.msgs = ms /\ y.inj = x.inj /\ y.kids = x.kids
      /\ y.phase = x.phase /\ y.results = {} /\ y.resume = x.resume \o entries
  BY <1>1, <1>2, <1>3, <1>5 DEF AgentStates, Behind
<1>7. Begins(x.msgs, y.msgs) /\ Said(y) = Said(x)
  BY <1>3, <1>6 DEF Behind, Said
<1>8. CASE entries = <<>>
  <2>1. y.resume = x.resume
    BY <1>5, <1>6, <1>8
  <2> QED  BY <1>6, <1>7, <2>1 DEF x, y
<1>9. CASE entries # <<>>
  <2>1. Len(entries) = Len(s.kids[a])
        /\ \A n \in DOMAIN entries : n \in DOMAIN s.kids[a] /\ entries[n].child = s.kids[a][n]
    BY <1>4, <1>9
  <2>2. Len(y.resume) = Len(x.resume) + Len(entries)
    BY <1>4, <1>5, <1>6
  <2>3. ASSUME NEW n \in DOMAIN y.resume
        PROVE  \/ n \in DOMAIN x.resume /\ y.resume[n] = x.resume[n]
               \/ \E k \in DOMAIN s.kids[a] : y.resume[n].child = s.kids[a][k]
    <3>1. \/ n \in DOMAIN x.resume /\ y.resume[n] = x.resume[n]
          \/ n - Len(x.resume) \in DOMAIN entries /\ y.resume[n] = entries[n - Len(x.resume)]
      BY <1>4, <1>5, <1>6
    <3> QED  BY <2>1, <3>1
  <2> QED  BY <1>6, <1>7, <2>1, <2>2, <2>3 DEF x, y
<1> QED  BY <1>8, <1>9

-----------------------------------------------------------------------------
(* Types are kept *)

LEMMA RegisteredType ==
  ASSUME NEW st \in [Agents -> AgentStates], NEW c \in Agents
  PROVE  /\ Registered(st, c) \in [Agents -> AgentStates]
         /\ \A b \in Agents \ {c} : Registered(st, c)[b] = st[b]
         /\ Registered(st, c)[c] = IF c \in restored THEN st[c]
                                   ELSE [NewState EXCEPT !.phase = "live"]
<1> DEFINE live == [NewState EXCEPT !.phase = "live"]
<1>1. live \in AgentStates
  BY NewStateIs
<1>2. Registered(st, c) = IF c \in restored THEN st ELSE [st EXCEPT ![c] = live]
  BY DEF Registered
<1> HIDE DEF live
<1> QED  BY <1>1, <1>2 DEF live

\* What an agent's first step does.
LEMMA EnterIs ==
  ASSUME TypesHold, NEW a \in Agents, Enter(a)
  PROVE  /\ state' \in [Agents -> AgentStates] /\ loc' \in [Agents -> Locs]
         /\ turns' \in [Agents -> Nat] /\ restored' = restored \ {a}
         /\ redo' = [redo EXCEPT ![a] = state[a].resume] /\ redo' \in [Agents -> Seq(Entries)]
         /\ redone' \in [Agents -> Seq(Kept)]
         /\ \/ /\ state[a].resume = <<>> /\ loc' = [loc EXCEPT ![a] = "turn"]
               /\ state' = [state EXCEPT ![a] = Seeded(state[a])]
            \/ /\ state[a].resume # <<>> /\ Head(state[a].resume) \in Entries
               /\ LET c == Head(state[a].resume).child
                  IN  /\ c \in Agents
                      /\ loc' = [loc EXCEPT ![a] = "resuming", ![c] = "spawned"]
                      /\ state' = Registered([state EXCEPT ![a] =
                                    [Seeded(state[a]) EXCEPT !.resume = <<>>]], c)
<1> DEFINE s == Seeded(state[a])
           t == [s EXCEPT !.resume = <<>>]
           c == Head(s.resume).child
           st == [state EXCEPT ![a] = t]
<1>1. state \in [Agents -> AgentStates] /\ LoopTypes
  BY DEF TypesHold
<1>2. s \in AgentStates /\ s.resume = state[a].resume
  BY <1>1, SeededIs
<1>3. restored' = restored \ {a} /\ redo' = [redo EXCEPT ![a] = s.resume]
      /\ redone' = [redone EXCEPT ![a] = <<>>]
  BY DEF Enter
<1>4. s.resume \in Seq(Entries)
  BY <1>2 DEF AgentStates
<1>5. redo' \in [Agents -> Seq(Entries)] /\ redone' \in [Agents -> Seq(Kept)]
  BY <1>1, <1>3, <1>4 DEF LoopTypes
<1>6. CASE s.resume = <<>>
  <2>1. /\ state' = [state EXCEPT ![a] = s] /\ loc' = [loc EXCEPT ![a] = "turn"]
        /\ turns' = [turns EXCEPT ![a] = 1]
    BY <1>6 DEF Enter
  <2> HIDE DEF s
  <2>2. state' \in [Agents -> AgentStates] /\ loc' \in [Agents -> Locs] /\ turns' \in [Agents -> Nat]
    BY <1>1, <1>2, <2>1 DEF LoopTypes, Locs
  <2> QED  BY <1>2, <1>3, <1>5, <1>6, <2>1, <2>2 DEF s
<1>7. CASE s.resume # <<>>
  <2>1. /\ state' = Registered(st, c) /\ turns' = turns
        /\ loc' = [loc EXCEPT ![a] = "resuming", ![c] = "spawned"]
    BY <1>7 DEF Enter
  <2>2. Head(s.resume) \in Entries
    BY <1>4, <1>7
  <2>3. c \in Agents
    BY <2>2 DEF Entries
  <2>4. t \in AgentStates
    <3>1. <<>> \in Seq(Entries)
      OBVIOUS
    <3> HIDE DEF s
    <3> QED  BY <1>2, <3>1 DEF AgentStates
  <2> HIDE DEF s, c, t
  <2>5. st \in [Agents -> AgentStates]
    BY <1>1, <2>4
  <2>6. state' \in [Agents -> AgentStates]
    <3> HIDE DEF st
    <3> QED  BY <2>1, <2>3, <2>5, RegisteredType
  <2>7. loc' \in [Agents -> Locs] /\ turns' \in [Agents -> Nat]
    BY <1>1, <2>1, <2>3 DEF LoopTypes, Locs
  <2> QED  BY <1>2, <1>3, <1>5, <1>7, <2>1, <2>2, <2>3, <2>6, <2>7 DEF s, c, t
<1> QED  BY <1>6, <1>7

LEMMA EnterTypes ==
  ASSUME TypesHold, NEW a \in Agents, Enter(a), proc' \in {proc, "up"},
         UNCHANGED <<pending, revived, carried, cpVars, cut, call, child, fate, ghostVars>>
  PROVE  TypesHold'
<1>1. ProcTypes'
  BY EnterIs DEF TypesHold, ProcTypes
<1>2. DocTypes' /\ GhostTypes'
  BY DEF TypesHold, DocTypes, GhostTypes, cpVars, ghostVars
<1>3. LoopTypes'
  BY EnterIs DEF TypesHold, LoopTypes
<1>4. ASSUME NEW b \in Agents PROVE TurnHolds(b)'
  <2>0. state \in [Agents -> AgentStates] /\ loc \in [Agents -> Locs] /\ redo \in [Agents -> Seq(Entries)]
    BY DEF TypesHold, LoopTypes
  <2>1. CASE state[a].resume = <<>>
    <3>1. loc' = [loc EXCEPT ![a] = "turn"] /\ state' = [state EXCEPT ![a] = Seeded(state[a])]
          /\ redo' = [redo EXCEPT ![a] = state[a].resume]
      BY <2>1, EnterIs
    <3>2. CASE b = a
      <4>1. loc'[b] = "turn"
        BY <2>0, <3>1, <3>2
      <4> QED  BY <4>1, TurnOver
    <3>3. CASE b # a
      <4>1. state'[b] = state[b] /\ loc'[b] = loc[b] /\ redo'[b] = redo[b]
        BY <2>0, <3>1, <3>3
      <4> QED  BY <4>1, TurnStays DEF TypesHold
    <3> QED  BY <3>2, <3>3
  <2>2. CASE state[a].resume # <<>>
    <3> DEFINE c == Head(state[a].resume).child
               st == [state EXCEPT ![a] = [Seeded(state[a]) EXCEPT !.resume = <<>>]]
    <3>1. /\ c \in Agents /\ loc' = [loc EXCEPT ![a] = "resuming", ![c] = "spawned"]
          /\ state' = Registered(st, c) /\ redo' = [redo EXCEPT ![a] = state[a].resume]
      BY <2>2, EnterIs
    <3> HIDE DEF c
    <3>2. CASE b = c
      <4>1. loc'[b] = "spawned"
        BY <2>0, <3>1, <3>2
      <4> QED  BY <4>1, TurnOver
    <3>3. CASE b # c /\ b = a
      <4>1. loc'[b] = "resuming" /\ redo'[b] # <<>>
        BY <2>0, <2>2, <3>1, <3>3
      <4> QED  BY <4>1 DEF TurnHolds
    <3>4. CASE b # c /\ b # a
      <4>1. loc'[b] = loc[b] /\ redo'[b] = redo[b]
        BY <2>0, <3>1, <3>4
      <4>2. state'[b] = state[b]
        <5>1. Registered(st, c)[b] = st[b]
          <6>1. Registered(st, c) = IF c \in restored THEN st
                                    ELSE [st EXCEPT ![c] = [NewState EXCEPT !.phase = "live"]]
            BY DEF Registered
          <6>2. DOMAIN st = Agents
            BY <2>0
          <6> HIDE DEF st
          <6> QED  BY <3>4, <6>1, <6>2
        <5>2. st[b] = state[b]
          BY <2>0, <3>4
        <5> QED  BY <3>1, <5>1, <5>2
      <4> QED  BY <4>1, <4>2, TurnStays DEF TypesHold
    <3> QED  BY <3>2, <3>3, <3>4
  <2> QED  BY <2>1, <2>2
<1> QED  BY <1>1, <1>2, <1>3, <1>4, EnterIs DEF TypesHold

\* What an agent's end does.
LEMMA EndsIs ==
  ASSUME TypesHold, NEW a \in Agents, NEW s \in AgentStates, NEW f \in {"ok", "failed", "cancelled"},
         Ends(a, s, f)
  PROVE  /\ state' \in [Agents -> AgentStates] /\ loc' \in [Agents -> Locs]
         /\ fate' \in [Agents -> {"ok", "failed", "cancelled"}]
         /\ state' = [state EXCEPT ![a] = Finished(s)] /\ loc' = [loc EXCEPT ![a] = "exited"]
         /\ proc' = IF a = Main THEN "ending" ELSE proc
<1>1. Finished(s) \in AgentStates
  BY FinishedGoes DEF Goes
<1> QED  BY <1>1 DEF Ends, TypesHold, LoopTypes, Locs

\* The loop goes on with the record s, or the agent's last turn is over.
LEMMA OnwardIs ==
  ASSUME TypesHold, NEW a \in Agents, NEW s \in AgentStates, Onward(a, s)
  PROVE  /\ state' \in [Agents -> AgentStates] /\ loc' \in [Agents -> Locs]
         /\ fate' \in [Agents -> {"ok", "failed", "cancelled"}] /\ turns' \in [Agents -> Nat]
         /\ \/ /\ state' = [state EXCEPT ![a] = s] /\ loc' = [loc EXCEPT ![a] = "turn"]
               /\ proc' = proc
            \/ /\ state' = [state EXCEPT ![a] = Finished(s)] /\ loc' = [loc EXCEPT ![a] = "exited"]
               /\ proc' = IF a = Main THEN "ending" ELSE proc
<1>1. CASE Ends(a, s, "ok") /\ UNCHANGED turns
  BY <1>1, EndsIs DEF TypesHold, LoopTypes
<1>2. CASE /\ state' = [state EXCEPT ![a] = s] /\ loc' = [loc EXCEPT ![a] = "turn"]
           /\ turns' = [turns EXCEPT ![a] = @ + 1] /\ UNCHANGED <<proc, fate>>
  BY <1>2 DEF TypesHold, LoopTypes, Locs
<1> QED  BY <1>1, <1>2 DEF Onward

\* A step that leaves alone what the turns of the others are about.
OthersStay(a) ==
  \A b \in Agents \ {a} : /\ state'[b].msgs = state[b].msgs /\ loc'[b] = loc[b]
                          /\ call'[b] = call[b] /\ child'[b] = child[b] /\ redo'[b] = redo[b]

LEMMA OneTurn ==
  ASSUME TypesHold, NEW a \in Agents, OthersStay(a), TurnHolds(a)'
  PROVE  \A b \in Agents : TurnHolds(b)'
<1> SUFFICES ASSUME NEW b \in Agents, b # a PROVE TurnHolds(b)'
  OBVIOUS
<1> QED  BY TurnStays DEF TypesHold, OthersStay

\* Nothing changes that the types of documents or of the history are about.
LEMMA SameDocs ==
  ASSUME TypesHold, UNCHANGED cpVars
  PROVE  DocTypes'
BY DEF TypesHold, DocTypes, cpVars
LEMMA SameGhosts ==
  ASSUME TypesHold, UNCHANGED ghostVars
  PROVE  GhostTypes'
BY DEF TypesHold, GhostTypes, ghostVars
LEMMA SameProc ==
  ASSUME TypesHold, UNCHANGED <<restored, pending, revived, carried>>,
         proc' \in {proc, "ending"}
  PROVE  ProcTypes'
BY DEF TypesHold, ProcTypes

LEMMA PassTypes ==
  ASSUME TypesHold, NEW a \in Agents, PassSafePoint(a), DocTypes',
         UNCHANGED <<restored, pending, revived, carried, cut, child, redo, redone, ghostVars>>
  PROVE  TypesHold'
<1>0. state \in [Agents -> AgentStates] /\ loc \in [Agents -> Locs] /\ call \in [Agents -> Seq(Statuses)]
  BY DEF TypesHold, LoopTypes
<1>1. GhostTypes'
  BY SameGhosts
<1>2. CASE /\ loc[a] = "turn" /\ state' = [state EXCEPT ![a] = Drained(@)]
           /\ loc' = [loc EXCEPT ![a] = "model"] /\ UNCHANGED <<proc, turns, call, fate>>
  <2>1. Drained(state[a]) \in AgentStates
    BY <1>0, DrainedGoes DEF Goes
  <2>2. state' \in [Agents -> AgentStates] /\ LoopTypes' /\ ProcTypes'
    BY <1>2, <2>1 DEF TypesHold, LoopTypes, ProcTypes, Locs
  <2>3. OthersStay(a) /\ TurnHolds(a)'
    BY <1>0, <1>2, TurnOver DEF OthersStay
  <2> QED  BY <1>1, <2>2, <2>3, OneTurn DEF TypesHold
<1>3. CASE /\ loc[a] = "post" /\ Batch(a) # <<>>
           /\ loc' = [loc EXCEPT ![a] = "tools"]
           /\ call' = [call EXCEPT ![a] = [i \in DOMAIN Batch(a) |-> "queued"]]
           /\ UNCHANGED <<proc, state, turns, fate>>
  <2>1. Batch(a) \in Seq(Calls)
    BY <1>3, BatchType
  <2>2. call'[a] = [i \in DOMAIN Batch(a) |-> "queued"] /\ loc'[a] = "tools"
    BY <1>0, <1>3
  <2>3. call'[a] \in Seq(Statuses) /\ Len(call'[a]) = Len(Batch(a))
        /\ \A i \in DOMAIN call'[a] : call'[a][i] = "queued"
    BY <2>1, <2>2 DEF Statuses
  <2>4. call' \in [Agents -> Seq(Statuses)] /\ loc' \in [Agents -> Locs]
    BY <1>0, <1>3, <2>3 DEF Locs
  <2>5. state' \in [Agents -> AgentStates] /\ LoopTypes' /\ ProcTypes'
    BY <1>3, <2>4 DEF TypesHold, LoopTypes, ProcTypes
  <2>6. OthersStay(a)
    BY <1>0, <1>3 DEF OthersStay
  <2>7. TurnHolds(a)'
    BY <1>3, <2>2, <2>3 DEF TypesHold, TurnHolds, Batch
  <2> QED  BY <1>1, <2>5, <2>6, <2>7, OneTurn DEF TypesHold
<1>4. ASSUME NEW s \in AgentStates, Onward(a, s), UNCHANGED call PROVE TypesHold'
  <2>1. /\ state' \in [Agents -> AgentStates] /\ LoopTypes' /\ ProcTypes'
    BY <1>4, OnwardIs DEF TypesHold, LoopTypes, ProcTypes
  <2>2. \E x : /\ state' = [state EXCEPT ![a] = x]
               /\ loc' = [loc EXCEPT ![a] = "turn"] \/ loc' = [loc EXCEPT ![a] = "exited"]
    BY <1>4, OnwardIs
  <2>3. OthersStay(a) /\ loc'[a] \in {"turn", "exited"}
    BY <1>0, <1>4, <2>2 DEF OthersStay
  <2> QED  BY <1>1, <2>1, <2>3, OneTurn, TurnOver DEF TypesHold
<1>5. CASE Ends(a, state[a], "ok") /\ UNCHANGED <<turns, call>>
  <2>1. state[a] \in AgentStates
    BY <1>0
  <2>2. /\ state' \in [Agents -> AgentStates] /\ LoopTypes' /\ ProcTypes'
    BY <1>5, <2>1, EndsIs DEF TypesHold, LoopTypes, ProcTypes
  <2>3. /\ state' = [state EXCEPT ![a] = Finished(state[a])] /\ loc' = [loc EXCEPT ![a] = "exited"]
    BY <1>5, <2>1, EndsIs
  <2>4. OthersStay(a) /\ loc'[a] = "exited"
    BY <1>0, <1>5, <2>3 DEF OthersStay
  <2> QED  BY <1>1, <2>2, <2>4, OneTurn, TurnOver DEF TypesHold
<1>6. CASE /\ Requesting(a)
           /\ call' = [call EXCEPT ![a] = [i \in DOMAIN @ |->
                         IF @[i] = "requesting" THEN "asking" ELSE @[i]]]
           /\ UNCHANGED <<proc, state, loc, turns, fate>>
  <2>1. loc[a] = "tools" /\ call[a] \in Seq(Statuses)
    BY <1>0, <1>6 DEF Requesting
  <2>2. call'[a] = [i \in DOMAIN call[a] |->
                      IF call[a][i] = "requesting" THEN "asking" ELSE call[a][i]]
    BY <1>0, <1>6
  <2>3. call'[a] \in Seq(Statuses) /\ Len(call'[a]) = Len(call[a]) /\ DOMAIN call'[a] = DOMAIN call[a]
    BY <2>1, <2>2 DEF Statuses
  <2>4. call' \in [Agents -> Seq(Statuses)]
    BY <1>0, <1>6, <2>3
  <2>5. state' \in [Agents -> AgentStates] /\ LoopTypes' /\ ProcTypes'
    BY <1>6, <2>4 DEF TypesHold, LoopTypes, ProcTypes
  <2>6. OthersStay(a)
    BY <1>0, <1>6 DEF OthersStay
  <2>7. TurnHolds(a)'
    <3>1. TurnHolds(a)
      BY DEF TypesHold
    <3>2. Batch(a)' = Batch(a)
      BY <1>6 DEF Batch
    <3>3. \A i \in DOMAIN call[a] : call'[a][i] \in {"requesting", "asking"} =>
             call[a][i] \in {"requesting", "asking"}
      BY <2>2
    <3>4. \A i \in DOMAIN call[a] : call'[a][i] = "running" => call[a][i] = "running"
      BY <2>2
    <3> QED  BY <1>6, <2>1, <2>3, <3>1, <3>2, <3>3, <3>4 DEF TurnHolds
  <2> QED  BY <1>1, <2>5, <2>6, <2>7, OneTurn DEF TypesHold
<1>7. state[a] \in AgentStates /\ Drained(state[a]) \in AgentStates
  BY <1>0, DrainedGoes DEF Goes
<1> QED  BY <1>2, <1>3, <1>4, <1>5, <1>6, <1>7 DEF PassSafePoint

LEMMA FoldTypes ==
  ASSUME TypesHold, NEW a \in Agents, Fold(a)
  PROVE  TypesHold'
<1>1. DocTypes'
  BY SessionType DEF Fold, TypesHold, DocTypes
<1>2. UNCHANGED <<procVars, state, loopVars, ghostVars>>
  BY DEF Fold
<1>3. ProcTypes' /\ LoopTypes' /\ GhostTypes' /\ state' = state
  BY <1>2 DEF TypesHold, ProcTypes, LoopTypes, GhostTypes, procVars, loopVars, ghostVars
<1>4. \A b \in Agents : TurnHolds(b)'
  BY <1>2, TurnStays DEF TypesHold, loopVars
<1> QED  BY <1>1, <1>3, <1>4 DEF TypesHold

LEMMA WrittenTypes ==
  ASSUME TypesHold, NEW a \in Agents, Written(a)
  PROVE  TypesHold'
<1>1. cp # Free /\ cp \in [owner : Agents \cup {"run"}, session : Documents]
  <2>1. cp = Free => "nobody" = a
    BY DEF Written, Free
  <2> QED  BY <2>1, AgentsAssumption DEF TypesHold, DocTypes
<1>2. DocTypes'
  BY <1>1 DEF Written, TypesHold, DocTypes
<1>3. /\ PassSafePoint(a)
      /\ UNCHANGED <<restored, pending, revived, carried, cut, child, redo, redone, ghostVars>>
  BY DEF Written
<1> QED  BY <1>2, <1>3, PassTypes

\* Steps of the writer thread and of the run's last checkpoint.
LEMMA WriterTypes ==
  ASSUME TypesHold, StrayWrite \/ LastFold \/ LastWrite
  PROVE  TypesHold'
<1>1. DocTypes'
  <2>1. CASE StrayWrite
    BY <2>1 DEF StrayWrite, TypesHold, DocTypes
  <2>2. CASE LastFold
    <3>1. [Session EXCEPT !.pending = {}] \in Documents
      BY SessionType
    <3> QED  BY <2>2, <3>1 DEF LastFold, TypesHold, DocTypes
  <2>3. CASE LastWrite
    <3>1. cp # Free
      BY <2>3 DEF LastWrite, Free
    <3> QED  BY <2>3, <3>1 DEF LastWrite, TypesHold, DocTypes
  <2> QED  BY <2>1, <2>2, <2>3
<1>2. UNCHANGED <<restored, carried, state, loopVars, ghostVars>> /\ proc' \in {proc, "ended"}
      /\ pending' \subseteq pending /\ revived' \subseteq revived
  BY DEF StrayWrite, LastFold, LastWrite, procVars
<1>3. ProcTypes' /\ LoopTypes' /\ GhostTypes' /\ state' = state
  BY <1>2 DEF TypesHold, ProcTypes, LoopTypes, GhostTypes, loopVars, ghostVars
<1>4. \A b \in Agents : TurnHolds(b)'
  BY <1>2, TurnStays DEF TypesHold, loopVars
<1> QED  BY <1>1, <1>3, <1>4 DEF TypesHold

LEMMA AbandonTypes ==
  ASSUME TypesHold, NEW a \in Agents, Abandon(a), disk' = disk
  PROVE  DocTypes'
<1>1. CASE cp.owner = a
  <2>1. cp = Free => "nobody" = a
    BY <1>1 DEF Free
  <2>2. cp \in [owner : Agents \cup {"run"}, session : Documents]
    BY <2>1, AgentsAssumption DEF TypesHold, DocTypes
  <2> QED  BY <1>1, <2>2 DEF Abandon, TypesHold, DocTypes
<1>2. CASE cp.owner # a
  BY <1>2 DEF Abandon, TypesHold, DocTypes
<1> QED  BY <1>1, <1>2

LEMMA ModelDoneTypes ==
  ASSUME TypesHold, NEW a \in Agents, ModelDone(a)
  PROVE  TypesHold'
<1>0. state \in [Agents -> AgentStates] /\ loc \in [Agents -> Locs] /\ minted \in [Agents -> Nat]
  BY DEF TypesHold, LoopTypes, GhostTypes
<1> PICK p \in Plans[a] :
      state' = [state EXCEPT ![a].msgs = Append(@, Assistant(
                  [i \in DOMAIN p |-> [id |-> <<a, minted[a] + 1, i>>, tool |-> p[i]]]))]
  BY DEF ModelDone
<1> DEFINE cs == [i \in DOMAIN p |-> [id |-> <<a, minted[a] + 1, i>>, tool |-> p[i]]]
           m == Assistant(cs)
           x == state[a]
<1>1. p \in Seq({"leaf", "gated", "delegate"})
  BY PlansAssumption
<1>2. cs \in Seq(Calls) /\ \A i, j \in DOMAIN cs : cs[i].id = cs[j].id => i = j
  <2>1. /\ DOMAIN p = 1..Len(p) /\ Len(p) \in Nat /\ minted[a] + 1 \in Nat
        /\ \A i \in 1..Len(p) : p[i] \in {"leaf", "gated", "delegate"}
    BY <1>0, <1>1
  <2>2. \A i \in 1..Len(p) : [id |-> <<a, minted[a] + 1, i>>, tool |-> p[i]] \in Calls
    BY <2>1 DEF Calls, CallIds
  <2> QED  BY <2>1, <2>2
<1> HIDE DEF cs
<1>3. m \in Messages /\ m.role = "assistant" /\ m.calls = cs
  BY <1>2 DEF Assistant, Messages
<1> HIDE DEF m
<1>4. x.msgs \in Seq(Messages) /\ x \in AgentStates
  BY <1>0 DEF AgentStates
<1>5. Append(x.msgs, m) \in Seq(Messages) /\ Append(x.msgs, m) # <<>> /\ Last(Append(x.msgs, m)) = m
  BY <1>3, <1>4, SMTT(30) DEF Last
<1>6. state' = [state EXCEPT ![a] = [x EXCEPT !.msgs = Append(x.msgs, m)]]
  BY DEF m, cs
<1>7. [x EXCEPT !.msgs = Append(x.msgs, m)] \in AgentStates
      /\ [x EXCEPT !.msgs = Append(x.msgs, m)].msgs = Append(x.msgs, m)
  BY <1>4, <1>5 DEF AgentStates
<1>8. state' \in [Agents -> AgentStates] /\ state'[a].msgs = Append(x.msgs, m)
  BY <1>0, <1>6, <1>7
<1>9. LoopTypes' /\ GhostTypes'
  <2>1. /\ loc' = [loc EXCEPT ![a] = "post"] /\ cut' = [cut EXCEPT ![a] = "no"]
        /\ minted' = [minted EXCEPT ![a] = @ + 1]
        /\ UNCHANGED <<turns, call, child, redo, redone, fate, ran, granted, accepted, blank, sent, crashes>>
    BY DEF ModelDone
  <2>2. LoopTypes'
    BY <2>1 DEF TypesHold, LoopTypes, Locs
  <2>3. GhostTypes'
    BY <2>1 DEF TypesHold, GhostTypes
  <2> QED  BY <2>2, <2>3
<1>10. DocTypes' /\ ProcTypes'
  BY SameDocs DEF ModelDone, TypesHold, ProcTypes, procVars
<1>11. TurnHolds(a)'
  <2>1. loc'[a] = "post" /\ Batch(a)' = cs
    BY <1>0, <1>3, <1>5, <1>8 DEF ModelDone, Batch
  <2> QED  BY <1>2, <1>3, <1>5, <1>8, <2>1 DEF TurnHolds
<1>12. OthersStay(a)
  BY <1>0, <1>6 DEF ModelDone, OthersStay
<1> QED  BY <1>8, <1>9, <1>10, <1>11, <1>12, OneTurn DEF TypesHold

\* What may be kept of an interrupted reply.
LEMMA KeptReply ==
  ASSUME NEW x \in AgentStates, NEW kept \in {<<>>, <<Assistant(<<>>)>>}
  PROVE  Goes(x, [x EXCEPT !.msgs = @ \o kept])
         /\ [x EXCEPT !.msgs = @ \o kept].phase = x.phase
<1>1. Assistant(<<>>) \in Messages /\ Assistant(<<>>).role = "assistant"
  BY DEF Assistant, Messages
<1>2. kept \in Seq(Messages) /\ \A i \in DOMAIN kept : kept[i].role # "user"
  <2> DEFINE m == Assistant(<<>>)
  <2>1. m \in Messages /\ m.role # "user" /\ kept \in {<<>>, <<m>>}
    BY <1>1
  <2> HIDE DEF m
  <2>2. CASE kept = <<>>
    BY ONLY <2>2
  <2>3. CASE kept = <<m>>
    <3>1. kept \in Seq(Messages) /\ Len(kept) = 1 /\ kept[1] = m
      BY ONLY <2>1, <2>3
    <3>2. \A i \in DOMAIN kept : i = 1
      BY ONLY <3>1
    <3> QED  BY ONLY <2>1, <3>1, <3>2
  <2> QED  BY <2>1, <2>2, <2>3
<1>3. x.msgs \in Seq(Messages)
  BY DEF AgentStates
<1>4. Behind(x.msgs, x.msgs \o kept)
  BY <1>2, <1>3, AnswersBehind
<1>5. [x EXCEPT !.msgs = x.msgs \o kept].phase = x.phase
  BY DEF AgentStates
<1> QED  BY <1>4, <1>5, BehindGoes

LEMMA ModelEndTypes ==
  ASSUME TypesHold, NEW a \in Agents, ModelFail(a) \/ ModelCut(a)
  PROVE  TypesHold'
<1>0. state \in [Agents -> AgentStates] /\ loc \in [Agents -> Locs] /\ state[a] \in AgentStates
  BY DEF TypesHold, LoopTypes
<1>1. /\ UNCHANGED <<restored, pending, revived, carried, cpVars, call, child, redo, redone,
                     ghostVars>>
      /\ cut' = [cut EXCEPT ![a] = "no"]
  BY DEF ModelFail, ModelCut
<1>2. DocTypes' /\ GhostTypes'
  BY <1>1, SameDocs, SameGhosts
<1>3. CASE ModelFail(a)
  <2>1. Ends(a, state[a], "failed") /\ UNCHANGED turns
    BY <1>3 DEF ModelFail
  <2>2. /\ state' \in [Agents -> AgentStates] /\ LoopTypes' /\ ProcTypes'
    BY <1>0, <1>1, <2>1, EndsIs DEF TypesHold, LoopTypes, ProcTypes
  <2>3. state' = [state EXCEPT ![a] = Finished(state[a])] /\ loc' = [loc EXCEPT ![a] = "exited"]
    BY <1>0, <2>1, EndsIs
  <2>4. OthersStay(a) /\ loc'[a] = "exited"
    BY <1>0, <1>1, <2>3 DEF OthersStay
  <2> QED  BY <1>2, <2>2, <2>4, OneTurn, TurnOver DEF TypesHold
<1>4. CASE ModelCut(a)
  <2> PICK kept \in {<<>>, <<Assistant(<<>>)>>} :
        Onward(a, Drained([state[a] EXCEPT !.msgs = @ \o kept]))
    BY <1>4 DEF ModelCut
  <2> DEFINE s == Drained([state[a] EXCEPT !.msgs = @ \o kept])
  <2>1. s \in AgentStates
    BY <1>0, KeptReply, DrainedGoes DEF Goes
  <2>2. Onward(a, s)
    OBVIOUS
  <2> HIDE DEF s
  <2>3. /\ state' \in [Agents -> AgentStates] /\ LoopTypes' /\ ProcTypes'
    BY <1>1, <2>1, <2>2, OnwardIs DEF TypesHold, LoopTypes, ProcTypes
  <2>4. \E x : /\ state' = [state EXCEPT ![a] = x]
               /\ loc' = [loc EXCEPT ![a] = "turn"] \/ loc' = [loc EXCEPT ![a] = "exited"]
    BY <2>1, <2>2, OnwardIs
  <2>5. OthersStay(a) /\ loc'[a] \in {"turn", "exited"}
    BY <1>0, <1>1, <2>4 DEF OthersStay
  <2> QED  BY <1>2, <2>3, <2>5, OneTurn, TurnOver DEF TypesHold
<1> QED  BY <1>3, <1>4

\* A result is noted for a call of a's batch.
LEMMA StoredIs ==
  ASSUME TypesHold, NEW a \in Agents, loc[a] = "tools", NEW i \in DOMAIN call[a],
         NEW r \in Outcomes, Stored(a, i, r)
  PROVE  /\ state' \in [Agents -> AgentStates]
         /\ \E y : state' = [state EXCEPT ![a] = y] /\ Goes(state[a], y)
                   /\ y.phase = state[a].phase /\ y.msgs = state[a].msgs
<1> DEFINE x == state[a]
           rs == Record(x.results, Batch(a)[i].id, r)
           y == [x EXCEPT !.results = rs]
<1>1. state \in [Agents -> AgentStates] /\ x \in AgentStates /\ x.results \subseteq Kept
  BY DEF TypesHold, AgentStates
<1>2. Batch(a)[i].id \in CallIds
  <2>1. Batch(a)[i] \in Calls
    BY BatchType
  <2> QED  BY <2>1 DEF Calls
<1>3. rs \subseteq Kept
  BY <1>1, <1>2 DEF Record, Kept
<1>4. state' = [state EXCEPT ![a] = y]
  BY DEF Stored
<1> HIDE DEF rs
<1>5. Goes(x, y) /\ y.phase = x.phase /\ y.msgs = x.msgs /\ y \in AgentStates
  <2>1. y.msgs = x.msgs
    BY <1>1, <1>3 DEF AgentStates
  <2> QED  BY <1>1, <1>3, <2>1, ResultsGo DEF Goes
<1> HIDE DEF y
<1> QED  BY <1>1, <1>4, <1>5

\* One call of a batch goes a step further.
LEMMA CallTypes ==
  ASSUME TypesHold, NEW a \in Agents, loc[a] = "tools", NEW i \in DOMAIN call[a],
         NEW st \in Statuses, SetCall(a, i, st),
         state' \in [Agents -> AgentStates], \A b \in Agents : state'[b].msgs = state[b].msgs,
         st \in {"requesting", "asking"} => Batch(a)[i].tool = "gated",
         st = "running" => Batch(a)[i].tool # "delegate",
         ProcTypes', GhostTypes',
         UNCHANGED <<cpVars, loc, turns, cut, child, redo, redone, fate>>
  PROVE  TypesHold'
<1>0. call \in [Agents -> Seq(Statuses)] /\ call[a] \in Seq(Statuses)
  BY DEF TypesHold, LoopTypes
<1>1. call' = [call EXCEPT ![a] = [call[a] EXCEPT ![i] = st]]
  BY DEF SetCall
<1>2. [call[a] EXCEPT ![i] = st] \in Seq(Statuses)
      /\ Len([call[a] EXCEPT ![i] = st]) = Len(call[a])
      /\ DOMAIN [call[a] EXCEPT ![i] = st] = DOMAIN call[a]
  BY <1>0
<1>3. call' \in [Agents -> Seq(Statuses)] /\ call'[a] = [call[a] EXCEPT ![i] = st]
  BY <1>0, <1>1, <1>2
<1>4. LoopTypes' /\ DocTypes'
  BY <1>3, SameDocs DEF TypesHold, LoopTypes
<1>5. OthersStay(a)
  BY <1>0, <1>1 DEF OthersStay
<1>6. TurnHolds(a)'
  <2>1. TurnHolds(a)
    BY DEF TypesHold
  <2>2. Batch(a)' = Batch(a) /\ state'[a].msgs = state[a].msgs
    BY DEF Batch
  <2>3. \A j \in DOMAIN call[a] : call'[a][j] = IF j = i THEN st ELSE call[a][j]
    BY <1>0, <1>3
  <2> QED  BY <1>2, <1>3, <2>1, <2>2, <2>3 DEF TurnHolds
<1> QED  BY <1>4, <1>5, <1>6, OneTurn DEF TypesHold

LEMMA CallStepTypes ==
  ASSUME TypesHold, NEW a \in Agents, NEW i \in DOMAIN call[a],
         \/ RunCall(a, i) \/ RefuseCall(a, i) \/ UseCarried(a, i) \/ FinishCall(a, i)
         \/ CollectChild(a, i) \/ (a = Main /\ Ask(i))
  PROVE  TypesHold'
<1>1. loc[a] = "tools" /\ UNCHANGED <<cpVars, loc, turns, cut, child, redo, redone, fate>>
  BY DEF RunCall, RefuseCall, UseCarried, FinishCall, CollectChild, Ask, StartCall
<1>2. Batch(a)[i] \in Calls /\ Batch(a)[i].id \in CallIds
  <2>1. Batch(a)[i] \in Calls
    BY <1>1, BatchType
  <2> QED  BY <2>1 DEF Calls
<1>3. /\ state' \in [Agents -> AgentStates] /\ \A b \in Agents : state'[b].msgs = state[b].msgs
  <2>0. state \in [Agents -> AgentStates]
    BY DEF TypesHold
  <2>1. CASE state' = state
    BY <2>0, <2>1
  <2>2. ASSUME NEW r \in Outcomes, Stored(a, i, r)
        PROVE  /\ state' \in [Agents -> AgentStates]
               /\ \A b \in Agents : state'[b].msgs = state[b].msgs
    BY <1>1, <2>0, <2>2, StoredIs
  <2>3. state' = state \/ \E r \in Outcomes : Stored(a, i, r)
    BY DEF RunCall, RefuseCall, UseCarried, FinishCall, CollectChild, Ask, Outcomes
  <2> QED  BY <2>1, <2>2, <2>3
<1>4. ProcTypes'
  BY <1>2 DEF RunCall, RefuseCall, UseCarried, FinishCall, CollectChild, Ask, TypesHold,
              ProcTypes, procVars
<1>5. GhostTypes'
  BY <1>2, SameGhosts DEF RunCall, RefuseCall, UseCarried, FinishCall, CollectChild, Ask, TypesHold,
              GhostTypes
<1>6. PICK st \in {"requesting", "running", "done", "gone"} :
        SetCall(a, i, st) /\ (st = "requesting" => Batch(a)[i].tool = "gated")
                          /\ (st = "running" => Batch(a)[i].tool # "delegate")
  BY DEF RunCall, RefuseCall, UseCarried, FinishCall, CollectChild, Ask
<1>7. st \in Statuses /\ (st \in {"requesting", "asking"} => Batch(a)[i].tool = "gated")
  BY <1>6 DEF Statuses
<1> QED  BY <1>1, <1>3, <1>4, <1>5, <1>6, <1>7, CallTypes

LEMMA DelegateTypes ==
  ASSUME TypesHold, NEW i \in DOMAIN call[Main], Delegate(i)
  PROVE  TypesHold'
<1> DEFINE c == Kids[state[Main].kids + 1]
           live == [NewState EXCEPT !.phase = "live"]
           kids == [j \in DOMAIN Batch(Main) |->
                      IF j = i THEN c ELSE IF j \in DOMAIN child[Main] THEN child[Main][j] ELSE Main]
<1>0. /\ state \in [Agents -> AgentStates] /\ loc \in [Agents -> Locs] /\ Main \in Agents
      /\ call \in [Agents -> Seq(Statuses)] /\ child \in [Agents -> Seq(Agents)]
      /\ loc[Main] = "tools" /\ live \in AgentStates
  BY AgentsAssumption, NewStateIs DEF TypesHold, LoopTypes, Delegate, StartCall
<1>1. c \in Agents /\ c # Main
  <2>1. state[Main].kids \in Nat /\ state[Main].kids < Len(Kids)
    BY <1>0 DEF AgentStates, Delegate
  <2> QED  BY <2>1, AgentsAssumption
<1>2. /\ state' = [state EXCEPT ![c] = live, ![Main].kids = @ + 1]
      /\ loc' = [loc EXCEPT ![c] = "spawned"] /\ child' = [child EXCEPT ![Main] = kids]
      /\ SetCall(Main, i, "running") /\ Batch(Main)[i].tool = "delegate"
      /\ UNCHANGED <<procVars, cpVars, turns, cut, redo, redone, fate, ghostVars>>
  BY DEF Delegate
<1>3. Batch(Main) \in Seq(Calls) /\ DOMAIN call[Main] = DOMAIN Batch(Main)
  BY <1>0, BatchType
<1>4. kids \in Seq(Agents) /\ DOMAIN kids = DOMAIN Batch(Main)
  <2>1. \A j \in DOMAIN Batch(Main) : kids[j] \in Agents
    BY <1>0, <1>1
  <2>2. DOMAIN Batch(Main) = 1..Len(Batch(Main)) /\ Len(Batch(Main)) \in Nat
    BY <1>3
  <2>3. kids = [j \in 1..Len(Batch(Main)) |-> kids[j]]
    BY <2>2
  <2> HIDE DEF kids
  <2> QED  BY <2>1, <2>2, <2>3
<1> HIDE DEF c, live, kids
<1>5. state' \in [Agents -> AgentStates]
      /\ \A b \in Agents \ {c} : state'[b].msgs = state[b].msgs
  <2> DEFINE more == [state[Main] EXCEPT !.kids = @ + 1]
  <2>1. state[Main] \in AgentStates
    BY <1>0
  <2>2. more \in AgentStates /\ more.msgs = state[Main].msgs
    <3> DEFINE x == state[Main]
    <3>1. x \in AgentStates
      BY <2>1
    <3>2. x.kids + 1 \in Nat
      BY <3>1 DEF AgentStates
    <3> HIDE DEF x
    <3>3. [x EXCEPT !.kids = x.kids + 1] \in AgentStates
          /\ [x EXCEPT !.kids = x.kids + 1].msgs = x.msgs
      BY ONLY <3>1, <3>2 DEF AgentStates
    <3> QED  BY <3>3 DEF x
  <2>3. state' = [[state EXCEPT ![c] = live] EXCEPT ![Main] = more]
    <3>1. [state EXCEPT ![c] = live][Main] = state[Main]
      BY <1>0, <1>1
    <3> QED  BY <1>0, <1>1, <1>2, <3>1
  <2> HIDE DEF more
  <2> QED  BY <1>0, <1>1, <2>2, <2>3
<1>6. call' = [call EXCEPT ![Main] = [call[Main] EXCEPT ![i] = "running"]]
  BY <1>2 DEF SetCall
<1>7. [call[Main] EXCEPT ![i] = "running"] \in Seq(Statuses)
      /\ Len([call[Main] EXCEPT ![i] = "running"]) = Len(call[Main])
      /\ DOMAIN [call[Main] EXCEPT ![i] = "running"] = DOMAIN call[Main]
  BY <1>0 DEF Statuses
<1>8. LoopTypes'
  BY <1>0, <1>1, <1>2, <1>4, <1>6, <1>7 DEF TypesHold, LoopTypes, Locs
<1>9. DocTypes' /\ GhostTypes' /\ ProcTypes'
  BY <1>2, SameDocs, SameGhosts, SameProc DEF procVars
<1>10. TurnHolds(Main)'
  <2>1. TurnHolds(Main)
    BY <1>0 DEF TypesHold
  <2>2. Batch(Main)' = Batch(Main) /\ state'[Main].msgs = state[Main].msgs
    BY <1>0, <1>1, <1>5 DEF Batch
  <2>3. loc'[Main] = "tools" /\ child'[Main] = kids
    BY <1>0, <1>1, <1>2
  <2>4. Len(call'[Main]) = Len(call[Main]) /\ DOMAIN call'[Main] = DOMAIN call[Main]
        /\ \A j \in DOMAIN call[Main] : call'[Main][j] = IF j = i THEN "running" ELSE call[Main][j]
    BY <1>0, <1>6, <1>7
  <2> QED  BY <1>0, <1>3, <1>4, <2>1, <2>2, <2>3, <2>4 DEF TurnHolds
<1>11. ASSUME NEW b \in Agents PROVE TurnHolds(b)'
  <2>1. CASE b = c
    <3>1. loc'[b] = "spawned"
      BY <1>0, <1>2, <2>1
    <3> QED  BY <3>1, TurnOver
  <2>2. CASE b # c /\ b # Main
    <3>1. /\ state'[b].msgs = state[b].msgs /\ loc'[b] = loc[b] /\ call'[b] = call[b]
          /\ child'[b] = child[b] /\ redo'[b] = redo[b]
      BY <1>0, <1>2, <1>5, <1>6, <2>2
    <3> QED  BY <3>1, TurnStays DEF TypesHold
  <2> QED  BY <1>10, <2>1, <2>2
<1> QED  BY <1>5, <1>8, <1>9, <1>11 DEF TypesHold

\* What the end of a batch writes.
LEMMA FinishBatchIs ==
  ASSUME TypesHold, NEW a \in Agents, FinishBatch(a)
  PROVE  /\ state' \in [Agents -> AgentStates]
         /\ \E y : state' = [state EXCEPT ![a] = y] /\ Goes(state[a], y) /\ y.phase = state[a].phase
<1> DEFINE x == state[a]
           ms == FinalizeTurn(x.msgs, Batch(a), x.results)
           y == [[x EXCEPT !.msgs = ms] EXCEPT !.results = {}]
<1>1. state \in [Agents -> AgentStates] /\ x \in AgentStates /\ x.msgs \in Seq(Messages)
      /\ x.results \subseteq Kept
  BY DEF TypesHold, AgentStates
<1>2. Batch(a) \in Seq(Calls)
  BY BatchType DEF FinishBatch
<1>3. Behind(x.msgs, ms)
  <2>1. /\ DOMAIN Batch(a) = 1..Len(Batch(a)) /\ Len(Batch(a)) \in Nat
        /\ \A i \in 1..Len(Batch(a)) : Batch(a)[i] \in Calls
    BY <1>2
  <2>2. \A i \in 1..Len(Batch(a)) : Batch(a)[i].id \in CallIds
    BY <2>1 DEF Calls
  <2> QED  BY <1>1, <2>1, <2>2, FinalizeBehind
<1>4. state' = [state EXCEPT ![a].msgs = ms, ![a].results = {}]
  BY DEF FinishBatch
<1> HIDE DEF ms
<1>5. Goes(x, [x EXCEPT !.msgs = ms]) /\ [x EXCEPT !.msgs = ms].phase = x.phase
  BY <1>1, <1>3, BehindGoes DEF AgentStates
<1>6. Goes([x EXCEPT !.msgs = ms], y) /\ y.phase = x.phase
  <2>1. [x EXCEPT !.msgs = ms] \in AgentStates
    BY <1>5 DEF Goes
  <2>2. {} \subseteq Kept
    OBVIOUS
  <2> QED  BY <1>5, <2>1, <2>2, ResultsGo
<1>7. Goes(x, y)
  BY <1>1, <1>5, <1>6, GoesOn
<1>8. state' = [state EXCEPT ![a] = y]
  BY <1>1, <1>4
<1> HIDE DEF y
<1>9. state' \in [Agents -> AgentStates]
  BY <1>1, <1>7, <1>8 DEF Goes
<1> QED  BY <1>6, <1>7, <1>8, <1>9

LEMMA FinishBatchTypes ==
  ASSUME TypesHold, NEW a \in Agents, FinishBatch(a)
  PROVE  TypesHold'
<1>0. state \in [Agents -> AgentStates] /\ loc \in [Agents -> Locs]
      /\ call \in [Agents -> Seq(Statuses)] /\ child \in [Agents -> Seq(Agents)]
  BY DEF TypesHold, LoopTypes
<1>1. /\ loc' = [loc EXCEPT ![a] = "after"] /\ cut' = [cut EXCEPT ![a] = "no"]
      /\ call' = [call EXCEPT ![a] = <<>>] /\ child' = [child EXCEPT ![a] = <<>>]
      /\ UNCHANGED <<procVars, cpVars, turns, redo, redone, fate, ghostVars>>
  BY DEF FinishBatch
<1>2. LoopTypes'
  <2>1. <<>> \in Seq(Statuses) /\ <<>> \in Seq(Agents)
    OBVIOUS
  <2> QED  BY <1>1, <2>1 DEF TypesHold, LoopTypes, Locs
<1>3. DocTypes' /\ GhostTypes' /\ ProcTypes'
  BY <1>1, SameDocs, SameGhosts, SameProc DEF procVars
<1>4. OthersStay(a) /\ loc'[a] = "after"
  BY <1>0, <1>1, FinishBatchIs DEF OthersStay
<1> QED  BY <1>2, <1>3, <1>4, FinishBatchIs, OneTurn, TurnOver DEF TypesHold

\* The four ways a re-run delegate is collected.
Revived(a, c, s) ==
  \/ /\ state' = [state EXCEPT ![a] = Finished(s)] /\ loc' = [loc EXCEPT ![a] = "exited"]
     /\ proc' = (IF a = Main THEN "ending" ELSE proc) /\ fate' = [fate EXCEPT ![a] = "failed"]
     /\ turns' = turns
  \/ /\ Len(redo[a]) > 1 /\ redo[a][2].child \in Agents
     /\ loc' = [loc EXCEPT ![redo[a][2].child] = "spawned"]
     /\ state' = Registered(state, redo[a][2].child) /\ UNCHANGED <<proc, turns, fate>>
  \/ /\ Len(redo[a]) = 1 /\ state' = [state EXCEPT ![a] = s]
     /\ loc' = [loc EXCEPT ![a] = "turn"] /\ turns' = [turns EXCEPT ![a] = 1]
     /\ UNCHANGED <<proc, fate>>

LEMMA CollectRevivedIs ==
  ASSUME TypesHold, NEW a \in Agents, CollectRevived(a)
  PROVE  /\ Head(redo[a]) \in Entries /\ redo[a] \in Seq(Entries) /\ redo[a] # <<>>
         /\ loc[a] = "resuming" /\ loc[Head(redo[a]).child] = "exited"
         /\ redo' = [redo EXCEPT ![a] = Tail(@)] /\ cut' = [cut EXCEPT ![a] = "no"]
         /\ redone' \in [Agents -> Seq(Kept)]
         /\ UNCHANGED <<restored, pending, revived, carried, cpVars, call, child, ghostVars>>
         /\ \E s : /\ Goes(state[a], s) /\ s.phase = state[a].phase
                   /\ Revived(a, Head(redo[a]).child, s)
<1> DEFINE c == Head(redo[a]).child
           outcome == [call |-> Head(redo[a]).call.id,
                       result |-> IF fate[c] = "ok" THEN "ok" ELSE "failed"]
           done == Append(redone[a], outcome)
           firsts == {done[n] : n \in {k \in DOMAIN done :
                                         \A j \in 1..(k - 1) : done[j].call # done[k].call}}
           calls == [n \in DOMAIN done |-> [id |-> done[n].call]]
           ms == FinalizeTurn(state[a].msgs, calls, firsts)
           s == [state[a] EXCEPT !.msgs = ms]
<1>1. redo[a] \in Seq(Entries) /\ redo[a] # <<>> /\ loc[a] = "resuming" /\ redone[a] \in Seq(Kept)
  BY DEF CollectRevived, TypesHold, TurnHolds, LoopTypes
<1>2. Head(redo[a]) \in Entries /\ (Len(redo[a]) > 1 => redo[a][2] \in Entries)
  BY <1>1
<1>3. outcome \in Kept
  <2>1. Head(redo[a]).call.id \in CallIds
    BY <1>2 DEF Entries, Calls
  <2> QED  BY <2>1 DEF Kept, Outcomes
<1>4. done \in Seq(Kept)
  <2> HIDE DEF outcome
  <2> QED  BY <1>1, <1>3
<1>5. /\ loc[a] = "resuming" /\ loc[c] = "exited"
      /\ redone' = [redone EXCEPT ![a] = done]
      /\ redo' = [redo EXCEPT ![a] = Tail(@)] /\ cut' = [cut EXCEPT ![a] = "no"]
      /\ \/ /\ fate[c] = "failed"
            /\ Ends(a, state[a], "failed")
            /\ UNCHANGED turns
         \/ /\ fate[c] # "failed" /\ Len(redo[a]) > 1
            /\ loc' = [loc EXCEPT ![redo[a][2].child] = "spawned"]
            /\ state' = Registered(state, redo[a][2].child)
            /\ UNCHANGED <<proc, turns, fate>>
         \/ /\ fate[c] # "failed" /\ Len(redo[a]) = 1 /\ TranscriptOK(s.msgs)
            /\ state' = [state EXCEPT ![a] = s]
            /\ loc' = [loc EXCEPT ![a] = "turn"]
            /\ turns' = [turns EXCEPT ![a] = 1]
            /\ UNCHANGED <<proc, fate>>
         \/ /\ fate[c] # "failed" /\ Len(redo[a]) = 1 /\ ~TranscriptOK(s.msgs)
            /\ Ends(a, s, "failed")
            /\ UNCHANGED turns
      /\ UNCHANGED <<restored, pending, revived, carried, cpVars, call, child, ghostVars>>
  BY DEF CollectRevived
<1> HIDE DEF outcome, done
<1>6. redone' \in [Agents -> Seq(Kept)]
  BY <1>4, <1>5 DEF TypesHold, LoopTypes
<1>7. state[a] \in AgentStates
  BY DEF TypesHold
<1>8. Behind(state[a].msgs, ms)
  <2>1. /\ DOMAIN done = 1..Len(done) /\ Len(done) \in Nat /\ \A n \in 1..Len(done) : done[n] \in Kept
    BY <1>4
  <2>2. firsts \subseteq Kept
    BY <2>1
  <2>3. DOMAIN calls = 1..Len(done) /\ \A n \in 1..Len(done) : calls[n].id \in CallIds
    BY <2>1 DEF Kept
  <2>4. state[a].msgs \in Seq(Messages)
    BY <1>7 DEF AgentStates
  <2> HIDE DEF calls, firsts
  <2> QED  BY <2>1, <2>2, <2>3, <2>4, FinalizeBehind
<1> HIDE DEF ms, c
<1>9. Goes(state[a], s) /\ s.phase = state[a].phase
  BY <1>7, <1>8, BehindGoes DEF AgentStates
<1>10. Goes(state[a], state[a])
  BY <1>7, GoesStays
<1>11. Len(redo[a]) > 1 => redo[a][2].child \in Agents
  BY <1>2 DEF Entries
<1> HIDE DEF s
<1>12. Revived(a, c, state[a]) \/ Revived(a, c, s)
  BY <1>5, <1>11 DEF Ends, Revived
<1> QED  BY <1>1, <1>2, <1>5, <1>6, <1>9, <1>10, <1>12 DEF c

LEMMA CollectRevivedTypes ==
  ASSUME TypesHold, NEW a \in Agents, CollectRevived(a)
  PROVE  TypesHold'
<1>0. state \in [Agents -> AgentStates] /\ loc \in [Agents -> Locs] /\ redo \in [Agents -> Seq(Entries)]
      /\ call \in [Agents -> Seq(Statuses)] /\ child \in [Agents -> Seq(Agents)]
  BY DEF TypesHold, LoopTypes
<1>1. /\ redo[a] \in Seq(Entries) /\ redo[a] # <<>>
      /\ redo' = [redo EXCEPT ![a] = Tail(@)] /\ cut' = [cut EXCEPT ![a] = "no"]
      /\ redone' \in [Agents -> Seq(Kept)]
      /\ UNCHANGED <<restored, pending, revived, carried, cpVars, call, child, ghostVars>>
  BY CollectRevivedIs
<1> DEFINE c == Head(redo[a]).child
<1> PICK s : Goes(state[a], s) /\ Revived(a, c, s)
  BY CollectRevivedIs
<1> HIDE DEF c
<1>2. s \in AgentStates /\ Finished(s) \in AgentStates
  BY FinishedGoes DEF Goes
<1>3. redo' \in [Agents -> Seq(Entries)]
  BY <1>0, <1>1
<1>4. state' \in [Agents -> AgentStates]
  <2>1. ASSUME NEW d \in Agents PROVE Registered(state, d) \in [Agents -> AgentStates]
    BY <1>0, RegisteredType
  <2> QED  BY <1>0, <1>2, <2>1 DEF Revived
<1>5. LoopTypes' /\ proc' \in {proc, "ending"}
  <2>1. loc' \in [Agents -> Locs]
    BY <1>0 DEF Revived, Locs
  <2>2. turns' \in [Agents -> Nat]
    <3>1. turns' = turns \/ turns' = [turns EXCEPT ![a] = 1]
      BY DEF Revived
    <3>2. turns \in [Agents -> Nat]
      BY DEF TypesHold, LoopTypes
    <3> QED  BY ONLY <3>1, <3>2
  <2>3. fate' \in [Agents -> {"ok", "failed", "cancelled"}]
    BY DEF Revived, TypesHold, LoopTypes
  <2>4. proc' \in {proc, "ending"}
    BY DEF Revived
  <2>5. cut' \in [Agents -> {"no", "step", "agent"}] /\ call' = call /\ child' = child
    BY <1>1 DEF TypesHold, LoopTypes
  <2> QED  BY <1>0, <1>1, <1>3, <2>1, <2>2, <2>3, <2>4, <2>5 DEF LoopTypes
<1>6. DocTypes' /\ GhostTypes' /\ ProcTypes'
  BY <1>1, <1>5, SameDocs, SameGhosts, SameProc
<1>7. CASE \E y : /\ state' = [state EXCEPT ![a] = y]
                  /\ loc' = [loc EXCEPT ![a] = "exited"] \/ loc' = [loc EXCEPT ![a] = "turn"]
  <2>1. OthersStay(a) /\ loc'[a] \in {"exited", "turn"}
    BY <1>0, <1>1, <1>7 DEF OthersStay
  <2> QED  BY <1>4, <1>5, <1>6, <2>1, OneTurn, TurnOver DEF TypesHold
<1>8. CASE /\ Len(redo[a]) > 1 /\ redo[a][2].child \in Agents
           /\ loc' = [loc EXCEPT ![redo[a][2].child] = "spawned"]
           /\ state' = Registered(state, redo[a][2].child)
  <2> DEFINE d == redo[a][2].child
  <2>1. /\ d \in Agents /\ loc' = [loc EXCEPT ![d] = "spawned"] /\ state' = Registered(state, d)
        /\ Len(redo[a]) > 1
    BY <1>8
  <2> HIDE DEF d
  <2>2. ASSUME NEW b \in Agents PROVE TurnHolds(b)'
    <3>1. CASE b = d
      <4>1. loc'[b] = "spawned"
        BY <1>0, <2>1, <3>1
      <4> QED  BY <4>1, TurnOver
    <3>2. CASE b # d /\ b # a
      <4>1. state'[b] = state[b]
        <5>1. \A e \in Agents \ {d} : Registered(state, d)[e] = state[e]
          BY <1>0, <2>1, RegisteredType
        <5> QED  BY <2>1, <3>2, <5>1
      <4>2. loc'[b] = loc[b] /\ call'[b] = call[b] /\ child'[b] = child[b] /\ redo'[b] = redo[b]
        BY <1>0, <1>1, <2>1, <3>2
      <4> QED  BY <4>1, <4>2, TurnStays DEF TypesHold
    <3>3. CASE b # d /\ b = a
      <4>1. loc'[a] = "resuming"
        BY <1>0, <2>1, <3>3, CollectRevivedIs
      <4>2. redo'[a] # <<>>
        <5>1. redo'[a] = Tail(redo[a])
          BY <1>0, <1>1
        <5> DEFINE q == redo[a]
        <5>2. q \in Seq(Entries) /\ q # <<>> /\ Len(q) > 1
          BY <1>1, <2>1
        <5> HIDE DEF q
        <5>3. Tail(q) # <<>>
          <6>1. Len(Tail(q)) = Len(q) - 1 /\ Len(q) \in Nat
            BY <5>2, HeadTailProperties
          <6>2. Len(Tail(q)) # 0
            BY ONLY <5>2, <6>1
          <6>3. ASSUME Tail(q) = <<>> PROVE FALSE
            <7>1. Len(<<>>) = 0
              OBVIOUS
            <7> QED  BY ONLY <6>2, <6>3, <7>1
          <6> QED  BY <6>3
        <5> QED  BY <5>1, <5>3 DEF q
      <4> QED  BY <3>3, <4>1, <4>2 DEF TurnHolds
    <3> QED  BY <3>1, <3>2, <3>3
  <2> QED  BY <1>4, <1>5, <1>6, <2>2 DEF TypesHold
<1> QED  BY <1>7, <1>8 DEF Revived

LEMMA PropagateTypes ==
  ASSUME TypesHold, NEW a \in Agents, Propagate(a)
  PROVE  TypesHold'
<1>0. state \in [Agents -> AgentStates] /\ loc \in [Agents -> Locs] /\ redo \in [Agents -> Seq(Entries)]
      /\ call \in [Agents -> Seq(Statuses)] /\ child \in [Agents -> Seq(Agents)]
      /\ cut \in [Agents -> {"no", "step", "agent"}]
  BY DEF TypesHold, LoopTypes
<1>1. /\ cut' = [c \in Agents |-> IF c \in Awaited(a) /\ loc[c] # "exited" THEN "agent" ELSE cut[c]]
      /\ call' = [call EXCEPT ![a] = [i \in DOMAIN call[a] |->
                IF call[a][i] = "done" \/ (call[a][i] = "running" /\ Batch(a)[i].tool = "delegate")
                THEN call[a][i] ELSE "gone"]]
      /\ pending' \subseteq pending /\ Abandon(a)
      /\ UNCHANGED <<proc, restored, revived, carried, state, disk, loc, turns, child, redo,
                     redone, fate, ghostVars>>
  BY <1>0 DEF Propagate
<1>2. ProcTypes' /\ GhostTypes' /\ DocTypes'
  BY <1>1, AbandonTypes, SameGhosts DEF TypesHold, ProcTypes
<1>3. call'[a] \in Seq(Statuses) /\ Len(call'[a]) = Len(call[a])
      /\ \A i \in DOMAIN call'[a] : i \in DOMAIN call[a] /\ call'[a][i] \in {call[a][i], "gone"}
                                    /\ call'[a][i] \notin {"requesting", "asking"}
  <2> DEFINE q == call[a]
             stays(i) == q[i] = "done" \/ (q[i] = "running" /\ Batch(a)[i].tool = "delegate")
             new == [i \in DOMAIN q |-> IF stays(i) THEN q[i] ELSE "gone"]
  <2>1. q \in Seq(Statuses) /\ call'[a] = new
    BY <1>0, <1>1
  <2>2. \A i \in DOMAIN q : stays(i) => q[i] \in {"done", "running"}
    OBVIOUS
  <2> HIDE DEF q, stays
  <2>3. new \in Seq(Statuses) /\ Len(new) = Len(q) /\ DOMAIN new = DOMAIN q
    BY <2>1 DEF Statuses
  <2>4. \A i \in DOMAIN q : new[i] \in {q[i], "gone"} /\ new[i] \notin {"requesting", "asking"}
    BY <2>2
  <2> HIDE DEF new
  <2> QED  BY <2>1, <2>3, <2>4 DEF q
<1>4. LoopTypes'
  <2>1. cut' \in [Agents -> {"no", "step", "agent"}] /\ call' \in [Agents -> Seq(Statuses)]
    BY <1>0, <1>1, <1>3
  <2> QED  BY <1>1, <2>1 DEF TypesHold, LoopTypes
<1>5. OthersStay(a)
  BY <1>0, <1>1 DEF OthersStay
<1>6. TurnHolds(a)'
  <2>1. TurnHolds(a) /\ Batch(a)' = Batch(a)
    BY <1>1 DEF TypesHold, Batch
  <2> QED  BY <1>1, <1>3, <2>1 DEF TurnHolds
<1> QED  BY <1>1, <1>2, <1>4, <1>5, <1>6, OneTurn DEF TypesHold

LEMMA UnwindIs ==
  ASSUME TypesHold, NEW a \in Agents, Unwind(a)
  PROVE  /\ state' \in [Agents -> AgentStates]
         /\ state' = [state EXCEPT ![a] = CASE loc[a] # "spawned" -> Finished(state[a])
                                            [] Covered(a) -> Placeholder(a)
                                            [] OTHER -> state[a]]
<1>1. state \in [Agents -> AgentStates] /\ Finished(state[a]) \in AgentStates
      /\ Placeholder(a) \in AgentStates
  BY FinishedGoes, PlaceholderIs DEF TypesHold, Goes
<1>2. state' = [state EXCEPT ![a] = CASE loc[a] # "spawned" -> Finished(state[a])
                                      [] Covered(a) -> Placeholder(a)
                                      [] OTHER -> state[a]]
  BY <1>1 DEF Unwind
<1>3. (CASE loc[a] # "spawned" -> Finished(state[a])
         [] Covered(a) -> Placeholder(a)
         [] OTHER -> state[a]) \in AgentStates
  BY <1>1 DEF Covered
<1> QED  BY <1>1, <1>2, <1>3

LEMMA UnwindTypes ==
  ASSUME TypesHold, NEW a \in Agents, Unwind(a)
  PROVE  TypesHold'
<1>0. state \in [Agents -> AgentStates] /\ LoopTypes
  BY DEF TypesHold
<1>1. /\ loc' = [loc EXCEPT ![a] = "exited"] /\ fate' = [fate EXCEPT ![a] = "cancelled"]
      /\ cut' = [cut EXCEPT ![a] = "no"] /\ Abandon(a)
      /\ UNCHANGED <<procVars, disk, turns, call, child, redo, redone, ghostVars>>
  BY DEF Unwind
<1>2. \E y : state' = [state EXCEPT ![a] = y]
  BY UnwindIs
<1>3. LoopTypes'
  BY <1>0, <1>1 DEF LoopTypes, Locs
<1>4. ProcTypes' /\ GhostTypes' /\ DocTypes'
  BY <1>1, AbandonTypes, SameGhosts, SameProc DEF procVars
<1>5. OthersStay(a) /\ loc'[a] = "exited"
  BY <1>0, <1>1, <1>2 DEF OthersStay, LoopTypes
<1> QED  BY <1>3, <1>4, <1>5, OneTurn, TurnOver, UnwindIs DEF TypesHold

-----------------------------------------------------------------------------
(* The user *)

LEMMA InjectIs ==
  ASSUME TypesHold, NEW a \in Agents, Inject(a)
  PROVE  /\ state' \in [Agents -> AgentStates] /\ accepted' \subseteq Agents \X Nat
         /\ blank' \in [Agents -> Seq(Nat \ {0})]
         /\ accepted' = accepted \cup {<<a, sent + 1>>}
         /\ \/ /\ Covered(a) /\ blank' = [blank EXCEPT ![a] = Append(blank[a], sent + 1)]
               /\ UNCHANGED state
            \/ /\ ~Covered(a) /\ UNCHANGED blank
               /\ state' = [state EXCEPT ![a] = [state[a] EXCEPT !.inj = Append(@, sent + 1)]]
<1>1. /\ state \in [Agents -> AgentStates] /\ accepted \subseteq Agents \X Nat
      /\ sent \in Nat /\ blank \in [Agents -> Seq(Nat \ {0})]
      /\ accepted' = accepted \cup {<<a, sent + 1>>}
  BY DEF TypesHold, GhostTypes, Inject
<1>2. [state[a] EXCEPT !.inj = Append(@, sent + 1)] \in AgentStates
  <2>1. sent + 1 \in Nat \ {0}
    BY <1>1
  <2> QED  BY <1>1, <2>1, InjectedIs
<1>3. CASE /\ Covered(a) /\ blank' = [blank EXCEPT ![a] = Append(@, sent + 1)]
           /\ UNCHANGED state
  <2>1. Append(blank[a], sent + 1) \in Seq(Nat \ {0})
    BY <1>1
  <2>2. blank' \in [Agents -> Seq(Nat \ {0})] /\ accepted' \subseteq Agents \X Nat
    BY <1>1, <1>3, <2>1
  <2> QED  BY <1>1, <1>3, <2>2
<1>4. CASE /\ ~Covered(a) /\ UNCHANGED blank
           /\ state' = [state EXCEPT ![a].inj = Append(@, sent + 1)]
  <2>1. state' = [state EXCEPT ![a] = [state[a] EXCEPT !.inj = Append(@, sent + 1)]]
    BY <1>1, <1>4
  <2>2. accepted' \subseteq Agents \X Nat
    BY <1>1, <1>4
  <2>3. state' \in [Agents -> AgentStates]
    BY <1>1, <1>2, <2>1
  <2> QED  BY <1>1, <1>4, <2>1, <2>2, <2>3
<1> QED  BY <1>3, <1>4 DEF Inject

LEMMA InputTypes ==
  ASSUME TypesHold, NEW a \in Agents, Send(a) \/ Interrupt(a)
  PROVE  TypesHold'
<1>0. state \in [Agents -> AgentStates] /\ LoopTypes /\ GhostTypes
  BY DEF TypesHold
<1>1. /\ Inject(a) \/ UNCHANGED <<state, accepted, blank>>
      /\ sent' = sent + 1
      /\ cut' \in {cut, [cut EXCEPT ![a] = "step"]}
      /\ UNCHANGED <<procVars, cpVars, loc, turns, call, child, redo, redone, fate,
                     minted, ran, granted, crashes>>
  BY DEF Send, Interrupt, Input, loopVars
<1>2. state' \in [Agents -> AgentStates] /\ accepted' \subseteq Agents \X Nat
      /\ blank' \in [Agents -> Seq(Nat \ {0})]
      /\ \A b \in Agents : state'[b].msgs = state[b].msgs
  <2>1. CASE Inject(a)
    <3>1. CASE UNCHANGED state
      BY <2>1, <3>1, InjectIs
    <3>2. CASE state' = [state EXCEPT ![a] = [state[a] EXCEPT !.inj = Append(@, sent + 1)]]
      <4>1. [state[a] EXCEPT !.inj = Append(@, sent + 1)].msgs = state[a].msgs
        <5>1. state[a] \in AgentStates
          BY <1>0
        <5> QED  BY <5>1 DEF AgentStates
      <4> QED  BY <1>0, <2>1, <3>2, <4>1, InjectIs
    <3> QED  BY <2>1, <3>1, <3>2, InjectIs
  <2>2. CASE UNCHANGED <<state, accepted, blank>>
    BY <1>0, <2>2 DEF GhostTypes
  <2> QED  BY <1>1, <2>1, <2>2
<1>3. LoopTypes'
  <2>1. cut' \in [Agents -> {"no", "step", "agent"}]
    BY <1>0, <1>1 DEF LoopTypes
  <2> QED  BY <1>0, <1>1, <2>1 DEF LoopTypes
<1>4. GhostTypes'
  BY <1>0, <1>1, <1>2 DEF GhostTypes
<1>5. ProcTypes' /\ DocTypes'
  BY <1>1, SameProc, SameDocs DEF procVars
<1>6. \A b \in Agents : TurnHolds(b)'
  BY <1>1, <1>2, TurnStays DEF TypesHold
<1> QED  BY <1>2, <1>3, <1>4, <1>5, <1>6 DEF TypesHold

\* What an answer leaves alone, and what it does to the batch it is about.
LEMMA ResolveIs ==
  ASSUME TypesHold, NEW q \in pending, NEW ok \in BOOLEAN, Resolve(q, ok)
  PROVE  /\ state' \in [Agents -> AgentStates] /\ Main \in Agents
         /\ \/ UNCHANGED <<call, state>>
            \/ /\ loc[Main] = "tools" /\ call[Main] \in Seq(Statuses)
               /\ \E i \in DOMAIN call[Main], s \in {"running", "done"} :
                    /\ Batch(Main)[i].id = q /\ call[Main][i] = "asking"
                    /\ Batch(Main)[i].tool = "gated"
                    /\ call' = [call EXCEPT ![Main] = [call[Main] EXCEPT ![i] = s]]
               /\ \E rs : /\ rs \subseteq Kept
                          /\ state' = [state EXCEPT ![Main] = [state[Main] EXCEPT !.results = rs]]
<1>0. Main \in Agents /\ state \in [Agents -> AgentStates] /\ call \in [Agents -> Seq(Statuses)]
      /\ q \in CallIds
  BY AgentsAssumption DEF TypesHold, LoopTypes, ProcTypes
<1>1. state[Main] \in AgentStates /\ state[Main].results \subseteq Kept
  BY <1>0 DEF AgentStates
<1>2. CASE UNCHANGED <<call, state>>
  BY <1>0, <1>2
<1>3. CASE /\ Asking(q)
           /\ \/ /\ call' = [call EXCEPT ![Main] = [i \in DOMAIN @ |->
                               IF Batch(Main)[i].id = q THEN "running" ELSE @[i]]]
                 /\ state' = state
              \/ /\ call' = [call EXCEPT ![Main] = [i \in DOMAIN @ |->
                               IF Batch(Main)[i].id = q THEN "done" ELSE @[i]]]
                 /\ state' = [state EXCEPT ![Main].results = Record(@, q, "denied")]
  <2>1. PICK i \in DOMAIN call[Main] : Batch(Main)[i].id = q /\ call[Main][i] = "asking"
    BY <1>3 DEF Asking
  <2>2. loc[Main] = "tools" /\ Batch(Main) \in Seq(Calls) /\ DOMAIN call[Main] = DOMAIN Batch(Main)
    BY <1>0, <1>3, BatchType DEF Asking
  <2>3. /\ Batch(Main)[i].tool = "gated"
        /\ \A k, j \in DOMAIN Batch(Main) : Batch(Main)[k].id = Batch(Main)[j].id => k = j
    BY <1>0, <2>1, <2>2 DEF TypesHold, TurnHolds
  <2>4. \A j \in DOMAIN call[Main] : Batch(Main)[j].id = q <=> j = i
    BY <2>1, <2>2, <2>3
  <2>5. \E s \in {"running", "done"} :
          call' = [call EXCEPT ![Main] = [call[Main] EXCEPT ![i] = s]]
    <3>1. ASSUME NEW s
          PROVE  [j \in DOMAIN call[Main] |-> IF Batch(Main)[j].id = q THEN s ELSE call[Main][j]]
                   = [call[Main] EXCEPT ![i] = s]
      BY <1>0, <2>4
    <3> QED  BY <1>0, <1>3, <3>1
  <2>6. \E rs : /\ rs \subseteq Kept
                /\ state' = [state EXCEPT ![Main] = [state[Main] EXCEPT !.results = rs]]
    <3>1. CASE state' = state
      <4>1. [state[Main] EXCEPT !.results = state[Main].results] = state[Main]
        BY <1>1 DEF AgentStates
      <4>2. [state EXCEPT ![Main] = state[Main]] = state
        BY <1>0
      <4> QED  BY <1>1, <3>1, <4>1, <4>2
    <3>2. CASE state' = [state EXCEPT ![Main].results = Record(@, q, "denied")]
      <4>1. Record(state[Main].results, q, "denied") \subseteq Kept
        BY <1>0, <1>1 DEF Record, Kept, Outcomes
      <4>2. state' = [state EXCEPT ![Main] =
                        [state[Main] EXCEPT !.results = Record(state[Main].results, q, "denied")]]
        BY <1>0, <3>2
      <4> QED  BY <4>1, <4>2
    <3> QED  BY <1>3, <3>1, <3>2
  <2>7. state' \in [Agents -> AgentStates]
    <3>1. PICK rs : /\ rs \subseteq Kept
                    /\ state' = [state EXCEPT ![Main] = [state[Main] EXCEPT !.results = rs]]
      BY <2>6
    <3>2. [state[Main] EXCEPT !.results = rs] \in AgentStates
      BY <1>1, <3>1, ResultsGo DEF Goes
    <3> QED  BY <1>0, <3>1, <3>2
  <2> QED  BY <1>0, <2>1, <2>2, <2>3, <2>5, <2>6, <2>7
<1> QED  BY <1>2, <1>3 DEF Resolve

LEMMA ResolveTypes ==
  ASSUME TypesHold, NEW q \in pending, NEW ok \in BOOLEAN, Resolve(q, ok)
  PROVE  TypesHold'
<1>0. Main \in Agents /\ state \in [Agents -> AgentStates] /\ call \in [Agents -> Seq(Statuses)]
      /\ q \in CallIds /\ ran \subseteq Calls /\ granted \in Nat
  BY AgentsAssumption DEF TypesHold, LoopTypes, ProcTypes, GhostTypes
<1>1. /\ pending' = pending \ {q} /\ revived' = revived \ {q}
      /\ carried' \in {carried, "approve", "deny"} /\ granted' \in {granted, granted + 1}
      /\ ran' \subseteq ran \cup {[id |-> q, tool |-> "gated"]}
      /\ UNCHANGED <<proc, restored, cpVars, loc, turns, cut, child, redo, redone, fate,
                     minted, accepted, blank, sent, crashes>>
  BY DEF Resolve
<1>2. ProcTypes' /\ DocTypes' /\ GhostTypes'
  <2>1. [id |-> q, tool |-> "gated"] \in Calls
    BY <1>0 DEF Calls
  <2> QED  BY <1>0, <1>1, <2>1, SameDocs DEF TypesHold, ProcTypes, GhostTypes
<1>3. CASE UNCHANGED <<call, state>>
  <2>1. LoopTypes' /\ \A b \in Agents : TurnHolds(b)'
    BY <1>1, <1>3, TurnStays DEF TypesHold, LoopTypes
  <2> QED  BY <1>2, <2>1, ResolveIs DEF TypesHold
<1>4. CASE ~UNCHANGED <<call, state>>
  <2>1. /\ loc[Main] = "tools" /\ call[Main] \in Seq(Statuses)
        /\ \E rs : state' = [state EXCEPT ![Main] = [state[Main] EXCEPT !.results = rs]]
    BY <1>4, ResolveIs
  <2>2. PICK i \in DOMAIN call[Main], s \in {"running", "done"} :
              /\ Batch(Main)[i].tool = "gated"
              /\ call' = [call EXCEPT ![Main] = [call[Main] EXCEPT ![i] = s]]
    BY <1>4, ResolveIs
  <2>3. /\ call'[Main] \in Seq(Statuses) /\ Len(call'[Main]) = Len(call[Main])
        /\ DOMAIN call'[Main] = DOMAIN call[Main]
        /\ \A j \in DOMAIN call[Main] : call'[Main][j] = IF j = i THEN s ELSE call[Main][j]
    <3>1. call'[Main] = [call[Main] EXCEPT ![i] = s]
      BY <1>0, <2>2
    <3> QED  BY <2>1, <3>1 DEF Statuses
  <2>4. LoopTypes'
    <3>1. call' \in [Agents -> Seq(Statuses)]
      BY <1>0, <2>2, <2>3
    <3> QED  BY <1>1, <3>1 DEF TypesHold, LoopTypes
  <2>5. OthersStay(Main) /\ state'[Main].msgs = state[Main].msgs
    <3>1. state[Main] \in AgentStates
      BY <1>0
    <3>2. \A rs : [state[Main] EXCEPT !.results = rs].msgs = state[Main].msgs
      BY <3>1 DEF AgentStates
    <3> QED  BY <1>0, <1>1, <2>1, <2>2, <3>2 DEF OthersStay
  <2>6. TurnHolds(Main)'
    <3>1. TurnHolds(Main) /\ Batch(Main)' = Batch(Main)
      BY <1>0, <2>5 DEF TypesHold, Batch
    <3> QED  BY <1>1, <2>1, <2>2, <2>3, <2>5, <3>1 DEF TurnHolds
  <2> QED  BY <1>0, <1>2, <2>4, <2>5, <2>6, OneTurn, ResolveIs DEF TypesHold
<1> QED  BY <1>3, <1>4

-----------------------------------------------------------------------------
(* Death, resurrection and the whole *)

LEMMA ForgottenTypes ==
  ASSUME TypesHold, Forgotten, disk' = disk
  PROVE  LoopTypes' /\ DocTypes' /\ \A a \in Agents : TurnHolds(a)'
<1>1. /\ loc' = [a \in Agents |-> "unborn"] /\ turns' = [a \in Agents |-> 0]
      /\ cut' = [a \in Agents |-> "no"] /\ fate' = [a \in Agents |-> "ok"]
      /\ call' = [a \in Agents |-> <<>>] /\ child' = [a \in Agents |-> <<>>]
      /\ redo' = [a \in Agents |-> <<>>] /\ redone' = [a \in Agents |-> <<>>]
      /\ cp' = Free /\ stray' = {}
  BY DEF Forgotten
<1>2. <<>> \in Seq(Statuses) /\ <<>> \in Seq(Agents) /\ <<>> \in Seq(Entries) /\ <<>> \in Seq(Kept)
  OBVIOUS
<1>3. LoopTypes'
  BY <1>1, <1>2 DEF LoopTypes, Locs
<1>4. DocTypes'
  BY <1>1 DEF TypesHold, DocTypes
<1>5. \A a \in Agents : loc'[a] = "unborn"
  BY <1>1
<1> QED  BY <1>3, <1>4, <1>5, TurnOver

LEMMA LoadIs ==
  ASSUME TypesHold, Load
  PROVE  /\ disk \in Documents /\ state' \in [Agents -> AgentStates]
         /\ state' = [a \in Agents |-> Reconciled(disk, a)]
<1>1. disk \in Documents
  BY DEF Load, TypesHold, DocTypes
<1>2. \A a \in Agents : Reconciled(disk, a) \in AgentStates
  BY <1>1, ReconciledIs
<1> QED  BY <1>1, <1>2 DEF Load

LEMMA CrashTypes ==
  ASSUME TypesHold, Crash \/ Load
  PROVE  TypesHold'
<1>1. Forgotten /\ disk' = disk /\ carried' = "none" /\ UNCHANGED <<minted, ran, granted, sent>>
  BY DEF Crash, Load, Forgotten
<1>2. LoopTypes' /\ DocTypes' /\ \A a \in Agents : TurnHolds(a)'
  BY <1>1, ForgottenTypes
<1>5. blank' \in [Agents -> Seq(Nat \ {0})]
  <2>1. <<>> \in Seq(Nat \ {0})
    OBVIOUS
  <2> QED  BY <1>1, <2>1 DEF Forgotten
<1>3. CASE Crash
  <2>1. state' \in [Agents -> AgentStates]
    BY <1>3, NewStateIs DEF Crash
  <2>2. ProcTypes' /\ GhostTypes'
    BY <1>1, <1>3, <1>5 DEF Crash, TypesHold, ProcTypes, GhostTypes
  <2> QED  BY <1>2, <2>1, <2>2 DEF TypesHold
<1>4. CASE Load
  <2>1. disk.pending \subseteq CallIds
    BY <1>4, LoadIs DEF Documents
  <2>2. ProcTypes'
    BY <1>1, <1>4, <2>1 DEF Load, ProcTypes
  <2>3. accepted' \subseteq Agents \X Nat
    <3>1. 1..MaxInputs \subseteq Nat
      BY BoundsAssumption
    <3>2. accepted' \subseteq Agents \X (1..MaxInputs)
      BY <1>4 DEF Load
    <3> QED  BY <3>1, <3>2
  <2>4. GhostTypes'
    BY <1>1, <1>4, <1>5, <2>3 DEF Load, TypesHold, GhostTypes
  <2> QED  BY <1>2, <1>4, <2>2, <2>4, LoadIs DEF TypesHold
<1> QED  BY <1>3, <1>4

LEMMA InitTypes == Init => TypesHold
<1> SUFFICES ASSUME Init PROVE TypesHold
  OBVIOUS
<1>1. /\ <<>> \in Seq(Statuses) /\ <<>> \in Seq(Agents) /\ <<>> \in Seq(Entries) /\ <<>> \in Seq(Kept)
      /\ <<>> \in Seq(Nat \ {0})
  OBVIOUS
<1>2. LoopTypes
  BY <1>1 DEF Init, LoopTypes, Locs
<1>3. ProcTypes /\ DocTypes /\ GhostTypes
  BY <1>1 DEF Init, ProcTypes, DocTypes, GhostTypes
<1>4. state \in [Agents -> AgentStates]
  BY NewStateIs DEF Init
<1>5. \A a \in Agents : TurnHolds(a)
  BY DEF Init, TurnHolds
<1> QED  BY <1>2, <1>3, <1>4, <1>5 DEF TypesHold

LEMMA TypesStay ==
  ASSUME TypesHold, [Next]_vars
  PROVE  TypesHold'
<1>1. CASE UNCHANGED vars
  <2>1. UNCHANGED <<procVars, state, cpVars, loopVars, ghostVars>>
    BY <1>1 DEF vars
  <2>2. ProcTypes' /\ LoopTypes' /\ GhostTypes' /\ DocTypes' /\ state' = state
    BY <2>1 DEF TypesHold, ProcTypes, LoopTypes, GhostTypes, DocTypes, procVars, loopVars,
                ghostVars, cpVars
  <2>3. \A b \in Agents : TurnHolds(b)'
    BY <2>1, TurnStays DEF TypesHold, loopVars
  <2> QED  BY <2>2, <2>3 DEF TypesHold
<1>2. CASE Begin
  BY <1>2, EnterTypes, AgentsAssumption DEF Begin
<1>3. CASE StrayWrite \/ LastFold \/ LastWrite
  BY <1>3, WriterTypes
<1>4. CASE Crash \/ Load
  BY <1>4, CrashTypes
<1>5. CASE Answering
  BY <1>5, ResolveTypes DEF Answering
<1>6. ASSUME NEW a \in Agents, Send(a) \/ Interrupt(a) PROVE TypesHold'
  BY <1>6, InputTypes
<1>7. ASSUME NEW a \in Agents, AgentStep(a) PROVE TypesHold'
  <2>1. CASE ChildStart(a)
    BY <2>1, EnterTypes DEF ChildStart
  <2>2. CASE Fold(a)
    BY <2>2, FoldTypes
  <2>3. CASE Written(a)
    BY <2>3, WrittenTypes
  <2>4. CASE ModelDone(a)
    BY <2>4, ModelDoneTypes
  <2>5. CASE ModelFail(a) \/ ModelCut(a)
    BY <2>5, ModelEndTypes
  <2>6. ASSUME NEW i \in DOMAIN call[a],
               RunCall(a, i) \/ RefuseCall(a, i) \/ FinishCall(a, i) \/ CollectChild(a, i)
                 \/ UseCarried(a, i)
        PROVE  TypesHold'
    BY <2>6, CallStepTypes
  <2>7. ASSUME NEW i \in DOMAIN call[Main], Ask(i) PROVE TypesHold'
    BY <2>7, CallStepTypes, AgentsAssumption
  <2>8. ASSUME NEW i \in DOMAIN call[Main], Delegate(i) PROVE TypesHold'
    BY <2>8, DelegateTypes
  <2>9. CASE FinishBatch(a)
    BY <2>9, FinishBatchTypes
  <2>10. CASE CollectRevived(a)
    BY <2>10, CollectRevivedTypes
  <2>11. CASE Propagate(a)
    BY <2>11, PropagateTypes
  <2>12. CASE Unwind(a)
    BY <2>12, UnwindTypes
  <2> QED  BY <1>7, <2>1, <2>2, <2>3, <2>4, <2>5, <2>6, <2>7, <2>8, <2>9, <2>10, <2>11, <2>12
           DEF AgentStep
<1> QED  BY <1>1, <1>2, <1>3, <1>4, <1>5, <1>6, <1>7 DEF Next, Over

-----------------------------------------------------------------------------
(* What an agent's own steps do *)

\* The agents whose end the agent a waits for, while it does.
Waiting(a) == IF loc[a] \in {"tools", "resuming"} THEN Awaited(a) ELSE {}

\* A step of an agent that goes on from what it was, and starts nobody.
Moves(a) ==
  /\ loc[a] \notin {"unborn", "exited"}
  /\ \E y : /\ state' = [state EXCEPT ![a] = y] /\ Goes(state[a], y)
            /\ \/ y.phase = state[a].phase
               \/ y.phase = "finished" /\ loc'[a] = "exited" /\ loc[a] # "spawned"
  /\ \A b \in Agents \ {a} : /\ loc'[b] = loc[b] /\ call'[b] = call[b] /\ child'[b] = child[b]
                             /\ redo'[b] = redo[b]
  /\ loc'[a] = loc[a] \/ loc'[a] \notin {"unborn", "spawned"}
  /\ \A n \in DOMAIN redo'[a] : \E m \in DOMAIN redo[a] : redo'[a][n] = redo[a][m]
  /\ Len(redo'[a]) <= Len(redo[a])
  /\ Waiting(a)' \subseteq Waiting(a)
  /\ \A c \in Waiting(a) \ Waiting(a)' : loc[c] = "exited"
  /\ proc' = proc \/ (a = Main /\ proc' = "ending" /\ loc'[a] = "exited")
  /\ UNCHANGED <<restored, accepted, blank, sent>>

LEMMA WaitingStays ==
  ASSUME NEW a, state'[a].msgs = state[a].msgs,
         loc'[a] = loc[a], call'[a] = call[a], child'[a] = child[a], redo'[a] = redo[a]
  PROVE  Waiting(a)' = Waiting(a)
BY DEF Waiting, Awaited, Batch

LEMMA WaitingOver ==
  ASSUME NEW a, loc'[a] \notin {"tools", "resuming"}
  PROVE  Waiting(a)' = {}
BY DEF Waiting

LEMMA RedoStays ==
  ASSUME TypesHold, NEW a \in Agents, redo' = redo
  PROVE  /\ \A n \in DOMAIN redo'[a] : \E m \in DOMAIN redo[a] : redo'[a][n] = redo[a][m]
         /\ Len(redo'[a]) <= Len(redo[a])
<1>1. redo[a] \in Seq(Entries)
  BY DEF TypesHold, LoopTypes
<1> QED  BY <1>1

\* A coroutine that ends, or goes round its loop, with the record s.
LEMMA EndMoves ==
  ASSUME TypesHold, NEW a \in Agents, NEW s, Goes(state[a], s), s.phase = state[a].phase,
         NEW f \in {"ok", "failed", "cancelled"}, Ends(a, s, f) \/ Onward(a, s),
         loc[a] \notin {"unborn", "spawned", "exited"},
         \A c \in Waiting(a) : loc[c] = "exited",
         UNCHANGED <<call, child, restored, accepted, blank, sent>>,
         \A b \in Agents \ {a} : redo'[b] = redo[b],
         \A n \in DOMAIN redo'[a] : \E m \in DOMAIN redo[a] : redo'[a][n] = redo[a][m],
         Len(redo'[a]) <= Len(redo[a])
  PROVE  Moves(a)
<1>1. s \in AgentStates /\ state[a] \in AgentStates /\ loc \in [Agents -> Locs]
  BY DEF Goes, TypesHold, LoopTypes
<1>2. /\ Goes(state[a], Finished(s)) /\ Finished(s).phase = "finished"
  BY <1>1, FinishedGoes, GoesOn
<1>3. \/ /\ state' = [state EXCEPT ![a] = s] /\ loc' = [loc EXCEPT ![a] = "turn"]
         /\ proc' = proc
      \/ /\ state' = [state EXCEPT ![a] = Finished(s)] /\ loc' = [loc EXCEPT ![a] = "exited"]
         /\ proc' = IF a = Main THEN "ending" ELSE proc
  BY <1>1, EndsIs, OnwardIs
<1>4. \/ loc' = [loc EXCEPT ![a] = "turn"]
      \/ loc' = [loc EXCEPT ![a] = "exited"]
  BY <1>3
<1>5. loc'[a] \in {"turn", "exited"} /\ \A b \in Agents \ {a} : loc'[b] = loc[b]
  BY <1>1, <1>4
<1>6. Waiting(a)' = {}
  BY <1>5, WaitingOver
<1>7. \E y : /\ state' = [state EXCEPT ![a] = y] /\ Goes(state[a], y)
             /\ \/ y.phase = state[a].phase
                \/ y.phase = "finished" /\ loc'[a] = "exited" /\ loc[a] # "spawned"
  <2>1. CASE /\ state' = [state EXCEPT ![a] = s] /\ loc' = [loc EXCEPT ![a] = "turn"]
    BY <2>1
  <2>2. CASE /\ state' = [state EXCEPT ![a] = Finished(s)] /\ loc' = [loc EXCEPT ![a] = "exited"]
    <3>1. loc'[a] = "exited"
      BY <1>1, <2>2
    <3> QED  BY <1>2, <2>2, <3>1
  <2> QED  BY <1>3, <2>1, <2>2
<1>8. proc' = proc \/ (a = Main /\ proc' = "ending" /\ loc'[a] = "exited")
  BY <1>1, <1>3
<1> QED  BY <1>5, <1>6, <1>7, <1>8 DEF Moves

\* A step that changes only how far the calls of a batch are, and what is kept of them.
LEMMA CallMoves ==
  ASSUME TypesHold, NEW a \in Agents, loc[a] = "tools", loc' = loc,
         NEW y, state' = [state EXCEPT ![a] = y], Goes(state[a], y), y.phase = state[a].phase,
         y.msgs = state[a].msgs, NEW cs, call' = [call EXCEPT ![a] = cs], DOMAIN cs = DOMAIN call[a],
         \A i \in DOMAIN call[a] : cs[i] = "running" /\ Batch(a)[i].tool = "delegate"
                                     => call[a][i] = "running",
         \A i \in DOMAIN call[a] : call[a][i] = "running" /\ Batch(a)[i].tool = "delegate" =>
                                     cs[i] = "running" \/ loc[child[a][i]] = "exited",
         UNCHANGED <<proc, child, redo, restored, accepted, blank, sent>>
  PROVE  Moves(a)
<1>1. state \in [Agents -> AgentStates] /\ call \in [Agents -> Seq(Statuses)]
  BY DEF TypesHold, LoopTypes
<1>2. call'[a] = cs /\ Batch(a)' = Batch(a) /\ \A b \in Agents \ {a} : call'[b] = call[b]
  BY <1>1 DEF Batch
<1>3. /\ Waiting(a) = {child[a][i] : i \in {j \in DOMAIN call[a] :
                          call[a][j] = "running" /\ Batch(a)[j].tool = "delegate"}}
      /\ Waiting(a)' = {child[a][i] : i \in {j \in DOMAIN call[a] :
                          cs[j] = "running" /\ Batch(a)[j].tool = "delegate"}}
  BY <1>2 DEF Waiting, Awaited
<1>4. Waiting(a)' \subseteq Waiting(a) /\ \A c \in Waiting(a) \ Waiting(a)' : loc[c] = "exited"
  BY <1>3
<1> QED  BY <1>2, <1>4, RedoStays DEF Moves

-----------------------------------------------------------------------------
(* The steps of the loop *)

\* An agent that waits for nobody.
LEMMA NotWaiting ==
  ASSUME NEW a, loc[a] \notin {"tools", "resuming"}
  PROVE  Waiting(a) = {}
BY DEF Waiting

LEMMA WrittenMoves ==
  ASSUME TypesHold, NEW a \in Agents, Written(a)
  PROVE  Moves(a)
<1>0. state \in [Agents -> AgentStates] /\ loc \in [Agents -> Locs] /\ call \in [Agents -> Seq(Statuses)]
      /\ state[a] \in AgentStates
  BY DEF TypesHold, LoopTypes
<1>1. UNCHANGED <<restored, child, redo, accepted, blank, sent>>
  BY DEF Written, ghostVars
<1>2. Goes(state[a], Drained(state[a])) /\ Drained(state[a]).phase = state[a].phase
      /\ Goes(state[a], state[a]) /\ state = [state EXCEPT ![a] = state[a]]
  BY <1>0, DrainedGoes, GoesStays
<1>3. CASE /\ loc[a] = "turn" /\ state' = [state EXCEPT ![a] = Drained(@)]
           /\ loc' = [loc EXCEPT ![a] = "model"] /\ UNCHANGED <<proc, turns, call, fate>>
  <2>1. loc'[a] = "model" /\ \A b \in Agents \ {a} : loc'[b] = loc[b]
    BY <1>0, <1>3
  <2>2. state' = [state EXCEPT ![a] = Drained(state[a])]
    BY <1>0, <1>3
  <2> QED  BY <1>1, <1>2, <1>3, <2>1, <2>2, NotWaiting, WaitingOver, RedoStays DEF Moves
<1>4. CASE /\ loc[a] = "post" /\ Batch(a) # <<>>
           /\ loc' = [loc EXCEPT ![a] = "tools"]
           /\ call' = [call EXCEPT ![a] = [i \in DOMAIN Batch(a) |-> "queued"]]
           /\ UNCHANGED <<proc, state, turns, fate>>
  <2>1. loc'[a] = "tools" /\ \A b \in Agents \ {a} : loc'[b] = loc[b] /\ call'[b] = call[b]
    BY <1>0, <1>4
  <2>2. call'[a] = [i \in DOMAIN Batch(a) |-> "queued"]
    BY <1>0, <1>4
  <2>3. Waiting(a)' = {}
    BY <2>1, <2>2 DEF Waiting, Awaited
  <2> QED  BY <1>1, <1>2, <1>4, <2>1, <2>3, NotWaiting, RedoStays DEF Moves
<1>5. CASE /\ loc[a] = "post" \/ loc[a] = "after"
           /\ \/ Onward(a, Drained(state[a])) \/ Onward(a, state[a]) \/ Ends(a, state[a], "ok")
           /\ UNCHANGED call
  BY <1>1, <1>2, <1>5, NotWaiting, RedoStays, EndMoves
<1>6. CASE /\ Requesting(a)
           /\ call' = [call EXCEPT ![a] = [i \in DOMAIN @ |->
                         IF @[i] = "requesting" THEN "asking" ELSE @[i]]]
           /\ UNCHANGED <<proc, state, loc, turns, fate>>
  <2> DEFINE cs == [i \in DOMAIN call[a] |->
                      IF call[a][i] = "requesting" THEN "asking" ELSE call[a][i]]
  <2>1. call' = [call EXCEPT ![a] = cs]
    BY <1>0, <1>6
  <2>2. /\ DOMAIN cs = DOMAIN call[a]
        /\ \A i \in DOMAIN call[a] : cs[i] = "running" <=> call[a][i] = "running"
    OBVIOUS
  <2>3. loc[a] = "tools" /\ state' = [state EXCEPT ![a] = state[a]] /\ loc' = loc /\ proc' = proc
    BY <1>2, <1>6 DEF Requesting
  <2> HIDE DEF cs
  <2> QED  BY <1>1, <1>2, <2>1, <2>2, <2>3, CallMoves
<1> QED  BY <1>3, <1>4, <1>5, <1>6 DEF Written, PassSafePoint

\* The reply of a model: what is asked for is one of the agent's plans.
LEMMA ModelDoneIs ==
  ASSUME TypesHold, NEW a \in Agents, ModelDone(a)
  PROVE  /\ \E y : /\ state' = [state EXCEPT ![a] = y] /\ Goes(state[a], y)
                   /\ y.phase = state[a].phase
         /\ \E p \in Plans[a] : /\ DOMAIN Batch(a)' = DOMAIN p
                                /\ \A i \in DOMAIN p : Batch(a)'[i].tool = p[i]
<1>0. state \in [Agents -> AgentStates] /\ minted \in [Agents -> Nat]
  BY DEF TypesHold, GhostTypes
<1> PICK p \in Plans[a] :
      state' = [state EXCEPT ![a].msgs = Append(@, Assistant(
                  [i \in DOMAIN p |-> [id |-> <<a, minted[a] + 1, i>>, tool |-> p[i]]]))]
  BY DEF ModelDone
<1> DEFINE cs == [i \in DOMAIN p |-> [id |-> <<a, minted[a] + 1, i>>, tool |-> p[i]]]
           m == Assistant(cs)
           x == state[a]
           y == [x EXCEPT !.msgs = Append(x.msgs, m)]
<1>1. p \in Seq({"leaf", "gated", "delegate"})
  BY PlansAssumption
<1>2. cs \in Seq(Calls) /\ DOMAIN cs = DOMAIN p /\ \A i \in DOMAIN p : cs[i].tool = p[i]
  <2>1. /\ DOMAIN p = 1..Len(p) /\ Len(p) \in Nat /\ minted[a] + 1 \in Nat
        /\ \A i \in 1..Len(p) : p[i] \in {"leaf", "gated", "delegate"}
    BY <1>0, <1>1
  <2>2. \A i \in 1..Len(p) : [id |-> <<a, minted[a] + 1, i>>, tool |-> p[i]] \in Calls
    BY <2>1 DEF Calls, CallIds
  <2> QED  BY <2>1, <2>2
<1> HIDE DEF cs
<1>3. m \in Messages /\ m.role = "assistant" /\ m.calls = cs
  BY <1>2 DEF Assistant, Messages
<1> HIDE DEF m
<1>4. x.msgs \in Seq(Messages) /\ x \in AgentStates
  BY <1>0 DEF AgentStates
<1>5. Append(x.msgs, m) = x.msgs \o <<m>> /\ <<m>> \in Seq(Messages)
      /\ \A i \in DOMAIN <<m>> : <<m>>[i].role # "user"
  BY <1>3, <1>4
<1>6. Behind(x.msgs, Append(x.msgs, m))
  BY <1>4, <1>5, AnswersBehind
<1>7. Goes(x, y) /\ y.msgs = Append(x.msgs, m) /\ y.phase = x.phase
  BY <1>4, <1>6, BehindGoes DEF AgentStates
<1>8. state' = [state EXCEPT ![a] = y]
  BY DEF m, cs
<1> HIDE DEF y
<1>9. Batch(a)' = cs
  <2>1. Last(Append(x.msgs, m)) = m
    BY <1>3, <1>4 DEF Last
  <2> QED  BY <1>0, <1>3, <1>7, <1>8, <2>1 DEF Batch
<1> QED  BY <1>2, <1>7, <1>8, <1>9

LEMMA ModelMoves ==
  ASSUME TypesHold, NEW a \in Agents, ModelDone(a) \/ ModelFail(a) \/ ModelCut(a)
  PROVE  Moves(a)
<1>0. loc \in [Agents -> Locs] /\ state[a] \in AgentStates /\ loc[a] = "model"
  BY DEF TypesHold, LoopTypes, ModelDone, ModelFail, ModelCut
<1>1. UNCHANGED <<restored, call, child, redo, accepted, blank, sent>>
  BY DEF ModelDone, ModelFail, ModelCut, procVars, ghostVars
<1>2. CASE ModelDone(a)
  <2>1. loc'[a] = "post" /\ (\A b \in Agents \ {a} : loc'[b] = loc[b]) /\ proc' = proc
    BY <1>0, <1>2 DEF ModelDone, procVars
  <2> QED  BY <1>0, <1>1, <1>2, <2>1, ModelDoneIs, NotWaiting, WaitingOver, RedoStays DEF Moves
<1>3. CASE ModelFail(a)
  <2>1. Ends(a, state[a], "failed")
    BY <1>3 DEF ModelFail
  <2> QED  BY <1>0, <1>1, <2>1, GoesStays, NotWaiting, RedoStays, EndMoves
<1>4. CASE ModelCut(a)
  <2> PICK kept \in {<<>>, <<Assistant(<<>>)>>} :
        Onward(a, Drained([state[a] EXCEPT !.msgs = @ \o kept]))
    BY <1>4 DEF ModelCut
  <2> DEFINE x == [state[a] EXCEPT !.msgs = @ \o kept]
             s == Drained(x)
  <2>1. Goes(state[a], x) /\ x.phase = state[a].phase /\ x \in AgentStates
    BY <1>0, KeptReply DEF Goes
  <2>2. Onward(a, s)
    OBVIOUS
  <2> HIDE DEF x
  <2>3. Goes(state[a], s) /\ s.phase = state[a].phase
    BY <1>0, <2>1, DrainedGoes, GoesOn
  <2> HIDE DEF s
  <2> QED  BY <1>0, <1>1, <2>2, <2>3, NotWaiting, RedoStays, EndMoves
<1> QED  BY <1>2, <1>3, <1>4

LEMMA CallStepIs ==
  ASSUME TypesHold, NEW a \in Agents, NEW i \in DOMAIN call[a],
         \/ RunCall(a, i) \/ RefuseCall(a, i) \/ UseCarried(a, i) \/ FinishCall(a, i)
         \/ CollectChild(a, i) \/ (a = Main /\ Ask(i))
  PROVE  /\ loc[a] = "tools" /\ UNCHANGED <<proc, loc, child, redo, restored, accepted, blank, sent>>
         /\ \E y : /\ state' = [state EXCEPT ![a] = y] /\ Goes(state[a], y)
                  /\ y.phase = state[a].phase /\ y.msgs = state[a].msgs
<1>0. state \in [Agents -> AgentStates] /\ call \in [Agents -> Seq(Statuses)]
  BY DEF TypesHold, LoopTypes
<1>1. loc[a] = "tools" /\ UNCHANGED <<proc, loc, child, redo, restored, accepted, blank, sent>>
  BY DEF RunCall, RefuseCall, UseCarried, FinishCall, CollectChild, Ask, StartCall, procVars,
         ghostVars
<1>2. CASE state' = state
  <2>1. state' = [state EXCEPT ![a] = state[a]] /\ Goes(state[a], state[a])
    BY <1>0, <1>2, GoesStays
  <2> QED  BY <1>1, <2>1
<1>3. ASSUME NEW r \in Outcomes, Stored(a, i, r)
      PROVE  \E y : /\ state' = [state EXCEPT ![a] = y] /\ Goes(state[a], y)
                    /\ y.phase = state[a].phase /\ y.msgs = state[a].msgs
  BY <1>1, <1>3, StoredIs
<1>4. state' = state \/ \E r \in Outcomes : Stored(a, i, r)
  BY DEF RunCall, RefuseCall, UseCarried, FinishCall, CollectChild, Ask, Outcomes
<1> QED  BY <1>1, <1>2, <1>3, <1>4

LEMMA CallStepMoves ==
  ASSUME TypesHold, NEW a \in Agents, NEW i \in DOMAIN call[a],
         \/ RunCall(a, i) \/ RefuseCall(a, i) \/ UseCarried(a, i) \/ FinishCall(a, i)
         \/ CollectChild(a, i) \/ (a = Main /\ Ask(i))
  PROVE  Moves(a)
<1>0. state \in [Agents -> AgentStates] /\ call \in [Agents -> Seq(Statuses)]
  BY DEF TypesHold, LoopTypes
<1>1. loc[a] = "tools" /\ UNCHANGED <<proc, loc, child, redo, restored, accepted, blank, sent>>
  BY CallStepIs
<1>2. PICK y : /\ state' = [state EXCEPT ![a] = y] /\ Goes(state[a], y)
               /\ y.phase = state[a].phase /\ y.msgs = state[a].msgs
  BY CallStepIs
<1>3. PICK st : /\ SetCall(a, i, st) /\ (st = "running" => Batch(a)[i].tool # "delegate")
                /\ \/ call[a][i] = "queued" \/ Batch(a)[i].tool # "delegate"
                   \/ loc[child[a][i]] = "exited"
  BY DEF RunCall, RefuseCall, UseCarried, FinishCall, CollectChild, Ask, StartCall
<1> DEFINE cs == [call[a] EXCEPT ![i] = st]
<1>4. call' = [call EXCEPT ![a] = cs] /\ DOMAIN cs = DOMAIN call[a]
      /\ \A j \in DOMAIN call[a] : cs[j] = IF j = i THEN st ELSE call[a][j]
  BY <1>0, <1>3 DEF SetCall
<1> HIDE DEF cs
<1>5. /\ \A j \in DOMAIN call[a] : cs[j] = "running" /\ Batch(a)[j].tool = "delegate"
                                     => call[a][j] = "running"
      /\ \A j \in DOMAIN call[a] : call[a][j] = "running" /\ Batch(a)[j].tool = "delegate" =>
                                     cs[j] = "running" \/ loc[child[a][j]] = "exited"
  BY <1>3, <1>4
<1> QED  BY <1>1, <1>2, <1>4, <1>5, CallMoves

LEMMA FinishBatchMoves ==
  ASSUME TypesHold, NEW a \in Agents, FinishBatch(a)
  PROVE  Moves(a)
<1>0. loc \in [Agents -> Locs] /\ call \in [Agents -> Seq(Statuses)] /\ child \in [Agents -> Seq(Agents)]
  BY DEF TypesHold, LoopTypes
<1>1. /\ loc[a] = "tools" /\ loc' = [loc EXCEPT ![a] = "after"] /\ AllOver(a)
      /\ call' = [call EXCEPT ![a] = <<>>] /\ child' = [child EXCEPT ![a] = <<>>]
      /\ UNCHANGED <<proc, redo, restored, accepted, blank, sent>>
  BY DEF FinishBatch, procVars, ghostVars
<1>2. Waiting(a) = {}
  BY <1>1 DEF Waiting, Awaited, AllOver
<1>3. loc'[a] = "after" /\ \A b \in Agents \ {a} : /\ loc'[b] = loc[b] /\ call'[b] = call[b]
                                                   /\ child'[b] = child[b] /\ redo'[b] = redo[b]
  BY <1>0, <1>1
<1> QED  BY <1>1, <1>2, <1>3, FinishBatchIs, WaitingOver, RedoStays DEF Moves

\* A re-run delegate is collected: the agent goes on, or the next one is started.
Respawns(a) ==
  /\ loc[a] = "resuming" /\ Len(redo[a]) > 1
  /\ redo' = [redo EXCEPT ![a] = Tail(@)] /\ redo[a][2].child \in Agents
  /\ loc[Head(redo[a]).child] = "exited"
  /\ loc' = [loc EXCEPT ![redo[a][2].child] = "spawned"]
  /\ state' = Registered(state, redo[a][2].child)
  /\ UNCHANGED <<proc, restored, call, child, accepted, blank, sent>>

LEMMA CollectRevivedMoves ==
  ASSUME TypesHold, NEW a \in Agents, CollectRevived(a)
  PROVE  Moves(a) \/ Respawns(a)
<1> DEFINE c == Head(redo[a]).child
<1>0. state \in [Agents -> AgentStates] /\ loc \in [Agents -> Locs] /\ redo \in [Agents -> Seq(Entries)]
  BY DEF TypesHold, LoopTypes
<1>1. /\ redo[a] \in Seq(Entries) /\ redo[a] # <<>> /\ loc[a] = "resuming" /\ loc[c] = "exited"
      /\ redo' = [redo EXCEPT ![a] = Tail(@)]
      /\ UNCHANGED <<restored, call, child, accepted, blank, sent>>
  BY CollectRevivedIs DEF ghostVars
<1> PICK s : Goes(state[a], s) /\ s.phase = state[a].phase /\ Revived(a, c, s)
  BY CollectRevivedIs
<1>2. Waiting(a) = {c}
  BY <1>1 DEF Waiting, Awaited
<1> HIDE DEF c
<1>3. redo'[a] = Tail(redo[a]) /\ \A b \in Agents \ {a} : redo'[b] = redo[b]
  BY <1>0, <1>1
<1>4. /\ \A n \in DOMAIN redo'[a] : \E m \in DOMAIN redo[a] : redo'[a][n] = redo[a][m]
      /\ Len(redo'[a]) <= Len(redo[a])
  <2> DEFINE q == redo[a]
             t == Tail(redo[a])
  <2>1. /\ t \in Seq(Entries) /\ Len(t) = Len(q) - 1 /\ Len(q) \in Nat /\ Len(t) \in Nat
        /\ DOMAIN t = 1..Len(t) /\ DOMAIN q = 1..Len(q)
        /\ \A i \in 1..Len(t) : t[i] = q[i + 1]
    BY <1>1, HeadTailProperties
  <2> HIDE DEF q, t
  <2>2. \A n \in DOMAIN t : n + 1 \in DOMAIN q /\ t[n] = q[n + 1]
    BY <2>1
  <2>3. Len(t) <= Len(q)
    BY <2>1
  <2> QED  BY <1>3, <2>2, <2>3 DEF q, t
<1>5. CASE /\ state' = [state EXCEPT ![a] = Finished(s)] /\ loc' = [loc EXCEPT ![a] = "exited"]
           /\ proc' = (IF a = Main THEN "ending" ELSE proc)
  <2>1. Goes(state[a], Finished(s)) /\ Finished(s).phase = "finished"
    BY <1>0, FinishedGoes, GoesOn DEF Goes
  <2>2. loc'[a] = "exited" /\ \A b \in Agents \ {a} : loc'[b] = loc[b]
    BY <1>0, <1>5
  <2> QED  BY <1>1, <1>2, <1>3, <1>4, <1>5, <2>1, <2>2, WaitingOver DEF Moves
<1>6. CASE /\ state' = [state EXCEPT ![a] = s] /\ loc' = [loc EXCEPT ![a] = "turn"]
           /\ proc' = proc
  <2>1. loc'[a] = "turn" /\ \A b \in Agents \ {a} : loc'[b] = loc[b]
    BY <1>0, <1>6
  <2> QED  BY <1>1, <1>2, <1>3, <1>4, <1>6, <2>1, WaitingOver DEF Moves
<1>7. CASE /\ Len(redo[a]) > 1 /\ redo[a][2].child \in Agents
           /\ loc' = [loc EXCEPT ![redo[a][2].child] = "spawned"]
           /\ state' = Registered(state, redo[a][2].child) /\ UNCHANGED <<proc, turns, fate>>
  BY <1>1, <1>7 DEF Respawns, c
<1> QED  BY <1>5, <1>6, <1>7 DEF Revived

LEMMA PropagateMoves ==
  ASSUME TypesHold, NEW a \in Agents, Propagate(a)
  PROVE  Moves(a)
<1>0. state \in [Agents -> AgentStates] /\ loc \in [Agents -> Locs] /\ call \in [Agents -> Seq(Statuses)]
      /\ state[a] \in AgentStates
  BY DEF TypesHold, LoopTypes
<1> DEFINE cs == [i \in DOMAIN call[a] |->
                IF call[a][i] = "done" \/ (call[a][i] = "running" /\ Batch(a)[i].tool = "delegate")
                THEN call[a][i] ELSE "gone"]
<1>1. /\ loc[a] \in {"tools", "resuming"} /\ call' = [call EXCEPT ![a] = cs]
      /\ UNCHANGED <<proc, restored, state, loc, child, redo, accepted, blank, sent>>
  BY <1>0 DEF Propagate, ghostVars
<1>2. /\ DOMAIN cs = DOMAIN call[a]
      /\ \A i \in DOMAIN call[a] : Batch(a)[i].tool = "delegate" =>
           (cs[i] = "running" <=> call[a][i] = "running")
  OBVIOUS
<1> HIDE DEF cs
<1>3. Goes(state[a], state[a]) /\ state' = [state EXCEPT ![a] = state[a]]
  BY <1>0, <1>1, GoesStays
<1>4. CASE loc[a] = "tools"
  BY <1>1, <1>2, <1>3, <1>4, CallMoves
<1>5. CASE loc[a] = "resuming"
  <2>1. Waiting(a)' = Waiting(a)
    BY <1>1, <1>5 DEF Waiting, Awaited
  <2>2. \A b \in Agents \ {a} : call'[b] = call[b]
    BY <1>0, <1>1
  <2> QED  BY <1>1, <1>3, <1>5, <2>1, <2>2, RedoStays DEF Moves
<1> QED  BY <1>1, <1>4, <1>5

\* An agent cancelled before it claimed the state that was restored for it.
Unclaims(a) ==
  /\ loc[a] = "spawned" /\ a \in restored
  /\ state' = [state EXCEPT ![a] = Placeholder(a)]
  /\ loc' = [loc EXCEPT ![a] = "exited"]
  /\ UNCHANGED <<proc, restored, call, child, redo, accepted, blank, sent>>

LEMMA UnwindMoves ==
  ASSUME TypesHold, NEW a \in Agents, Unwind(a)
  PROVE  Moves(a) \/ Unclaims(a)
<1>0. state \in [Agents -> AgentStates] /\ loc \in [Agents -> Locs] /\ state[a] \in AgentStates
  BY DEF TypesHold, LoopTypes
<1>1. /\ loc[a] \notin {"unborn", "exited"} /\ loc' = [loc EXCEPT ![a] = "exited"]
      /\ loc[a] \in {"tools", "resuming"} => \A c \in Awaited(a) : loc[c] = "exited"
      /\ UNCHANGED <<proc, restored, call, child, redo, accepted, blank, sent>>
  BY DEF Unwind, Live, procVars, ghostVars
<1>2. loc'[a] = "exited" /\ \A b \in Agents \ {a} : loc'[b] = loc[b]
  BY <1>0, <1>1
<1>3. Waiting(a)' = {} /\ \A c \in Waiting(a) : loc[c] = "exited"
  BY <1>1, <1>2, WaitingOver DEF Waiting
<1>4. CASE loc[a] # "spawned"
  <2>1. state' = [state EXCEPT ![a] = Finished(state[a])]
    BY <1>4, UnwindIs DEF Covered
  <2>2. Goes(state[a], Finished(state[a])) /\ Finished(state[a]).phase = "finished"
    BY <1>0, FinishedGoes
  <2> QED  BY <1>1, <1>2, <1>3, <1>4, <2>1, <2>2, RedoStays DEF Moves
<1>5. CASE Covered(a)
  <2>1. state' = [state EXCEPT ![a] = Placeholder(a)]
    BY <1>5, UnwindIs DEF Covered
  <2> QED  BY <1>1, <1>5, <2>1 DEF Covered, Unclaims
<1>6. CASE loc[a] = "spawned" /\ ~Covered(a)
  <2>1. state' = [state EXCEPT ![a] = state[a]] /\ Goes(state[a], state[a])
    BY <1>0, <1>6, UnwindIs, GoesStays
  <2> QED  BY <1>1, <1>2, <1>3, <1>6, <2>1, RedoStays DEF Moves
<1> QED  BY <1>4, <1>5, <1>6

\* A step that is not about the agents at all.
Still ==
  UNCHANGED <<state, loc, call, child, redo, restored, accepted, blank, sent>> /\ proc' \in {proc, "ended"}

LEMMA ResolveMoves ==
  ASSUME TypesHold, NEW q \in pending, NEW ok \in BOOLEAN, Resolve(q, ok)
  PROVE  Still \/ Moves(Main)
<1>1. UNCHANGED <<proc, restored, loc, child, redo, accepted, blank, sent>>
  BY DEF Resolve
<1>2. CASE UNCHANGED <<call, state>>
  BY <1>1, <1>2 DEF Still
<1>3. CASE ~UNCHANGED <<call, state>>
  <2>1. Main \in Agents /\ loc[Main] = "tools" /\ call[Main] \in Seq(Statuses)
    BY <1>3, ResolveIs
  <2>2. PICK i \in DOMAIN call[Main], s \in {"running", "done"} :
              /\ call[Main][i] = "asking" /\ Batch(Main)[i].tool = "gated"
              /\ call' = [call EXCEPT ![Main] = [call[Main] EXCEPT ![i] = s]]
    BY <1>3, ResolveIs
  <2>3. PICK rs : /\ rs \subseteq Kept
                  /\ state' = [state EXCEPT ![Main] = [state[Main] EXCEPT !.results = rs]]
    BY <1>3, ResolveIs
  <2> DEFINE cs == [call[Main] EXCEPT ![i] = s]
             y == [state[Main] EXCEPT !.results = rs]
  <2>4. call' = [call EXCEPT ![Main] = cs] /\ DOMAIN cs = DOMAIN call[Main]
        /\ \A j \in DOMAIN call[Main] : cs[j] = IF j = i THEN s ELSE call[Main][j]
    BY <2>1, <2>2
  <2>5. Goes(state[Main], y) /\ y.phase = state[Main].phase /\ y.msgs = state[Main].msgs
    <3>1. state[Main] \in AgentStates
      BY <2>1 DEF TypesHold
    <3>2. y.msgs = state[Main].msgs
      BY <3>1 DEF AgentStates
    <3> QED  BY <2>3, <3>1, <3>2, ResultsGo
  <2>6. state' = [state EXCEPT ![Main] = y]
    BY <2>3
  <2> HIDE DEF cs, y
  <2>7. /\ \A j \in DOMAIN call[Main] : Batch(Main)[j].tool = "delegate" =>
             (cs[j] = "running" <=> call[Main][j] = "running")
    BY <2>2, <2>4
  <2> QED  BY <1>1, <2>1, <2>4, <2>5, <2>6, <2>7, CallMoves
<1> QED  BY <1>2, <1>3

-----------------------------------------------------------------------------
(* Every step of the run *)

Steps ==
  \/ Still \/ Crash \/ Load \/ Begin
  \/ \E a \in Agents : \/ ChildStart(a) \/ Moves(a) \/ Respawns(a) \/ Unclaims(a)
                       \/ Send(a) \/ Interrupt(a)
  \/ \E i \in DOMAIN call[Main] : Delegate(i)

LEMMA AgentSteps ==
  ASSUME TypesHold, NEW a \in Agents, AgentStep(a)
  PROVE  \/ Still \/ ChildStart(a) \/ Moves(a) \/ Respawns(a) \/ Unclaims(a)
         \/ a = Main /\ \E i \in DOMAIN call[Main] : Delegate(i)
<1>1. CASE Fold(a)
  BY <1>1 DEF Fold, procVars, loopVars, ghostVars, Still
<1>2. ASSUME NEW i \in DOMAIN call[a],
             RunCall(a, i) \/ RefuseCall(a, i) \/ FinishCall(a, i) \/ CollectChild(a, i)
               \/ UseCarried(a, i)
      PROVE  Moves(a)
  BY <1>2, CallStepMoves
<1>3. ASSUME a = Main, NEW i \in DOMAIN call[Main], Ask(i) PROVE Moves(a)
  BY <1>3, CallStepMoves
<1> QED  BY <1>1, <1>2, <1>3, WrittenMoves, ModelMoves, FinishBatchMoves, CollectRevivedMoves,
            PropagateMoves, UnwindMoves DEF AgentStep

LEMMA EveryStep ==
  ASSUME TypesHold, [Next]_vars
  PROVE  Steps
<1>1. CASE UNCHANGED vars
  BY <1>1 DEF vars, procVars, loopVars, ghostVars, Still, Steps
<1>2. CASE Begin \/ Crash \/ Load
  BY <1>2 DEF Steps
<1>3. CASE StrayWrite \/ LastFold \/ LastWrite
  BY <1>3 DEF StrayWrite, LastFold, LastWrite, procVars, loopVars, ghostVars, Still, Steps
<1>4. CASE Answering
  BY <1>4, ResolveMoves, AgentsAssumption DEF Answering, Steps
<1>5. ASSUME NEW a \in Agents, Send(a) \/ Interrupt(a) PROVE Steps
  BY <1>5 DEF Steps
<1>6. ASSUME NEW a \in Agents, AgentStep(a) PROVE Steps
  BY <1>6, AgentSteps DEF Steps
<1> QED  BY <1>1, <1>2, <1>3, <1>4, <1>5, <1>6 DEF Next, Over

\* The sessions there are: on disk, with a cancelled writer, or being written.
Docs ==
  (IF disk = NoSession THEN {} ELSE {disk}) \cup stray
    \cup (IF cp = Free THEN {} ELSE {cp.session})

\* A new one is made only where a checkpoint is folded.
LEMMA EveryDoc ==
  ASSUME TypesHold, [Next]_vars
  PROVE  /\ Docs' \subseteq Docs /\ cp' \in {cp, Free}
         \/ /\ cp = Free /\ cp' # Free /\ disk' = disk /\ stray' = stray
            /\ Docs' \subseteq Docs \cup {cp'.session}
            /\ \/ \E a \in Agents : Fold(a) /\ cp'.session = Session
               \/ LastFold /\ cp'.session = [Session EXCEPT !.pending = {}]
<1>1. CASE UNCHANGED cpVars
  BY <1>1 DEF cpVars, Docs
<1>2. CASE Crash \/ Load
  BY <1>2 DEF Crash, Load, Forgotten, Docs
<1>3. ASSUME NEW a \in Agents, Fold(a) PROVE
            /\ cp = Free /\ cp' # Free /\ disk' = disk /\ stray' = stray
            /\ Docs' \subseteq Docs \cup {cp'.session} /\ cp'.session = Session
  BY <1>3, AgentsAssumption DEF Fold, Free, Docs
<1>4. CASE LastFold
  BY <1>4 DEF LastFold, Free, Docs
<1>5. CASE StrayWrite
  BY <1>5 DEF StrayWrite, Docs
<1>6. ASSUME NEW o \in Agents \cup {"run"}, cp.owner = o,
             \/ cp' = Free /\ disk' = cp.session /\ stray' = stray
             \/ cp' = Free /\ disk' = disk /\ stray' = stray \cup {cp.session}
      PROVE  Docs' \subseteq Docs /\ cp' = Free
  <2>1. cp # Free
    BY <1>6, AgentsAssumption DEF Free
  <2> QED  BY <1>6, <2>1 DEF Docs
<1>7. CASE LastWrite
  BY <1>6, <1>7 DEF LastWrite
<1>8. ASSUME NEW a \in Agents, Written(a) \/ (Abandon(a) /\ disk' = disk)
      PROVE  Docs' \subseteq Docs /\ cp' \in {cp, Free}
  <2>1. CASE cp.owner = a
    BY <1>6, <1>8, <2>1 DEF Written, Abandon
  <2>2. CASE cp.owner # a
    BY <1>8, <2>2 DEF Written, Abandon, Docs
  <2> QED  BY <2>1, <2>2
<1>9. ASSUME NEW a \in Agents, Propagate(a) \/ Unwind(a)
      PROVE  Docs' \subseteq Docs /\ cp' \in {cp, Free}
  BY <1>8, <1>9 DEF Propagate, Unwind
<1>10. CASE Begin \/ Answering \/ UNCHANGED vars
  BY <1>1, <1>10 DEF Begin, Answering, Resolve, vars
<1>11. ASSUME NEW a \in Agents, Send(a) \/ Interrupt(a) PROVE UNCHANGED cpVars
  BY <1>11 DEF Send, Interrupt
<1>12. ASSUME NEW a \in Agents, AgentStep(a)
       PROVE  \/ UNCHANGED cpVars
              \/ Fold(a) \/ Written(a) \/ Propagate(a) \/ Unwind(a)
  BY <1>12 DEF AgentStep, ChildStart, ModelDone, ModelFail, ModelCut, RunCall, RefuseCall,
               FinishCall, CollectChild, UseCarried, Ask, Delegate, FinishBatch, CollectRevived
<1> QED  BY <1>1, <1>2, <1>3, <1>4, <1>5, <1>7, <1>8, <1>9, <1>10, <1>11, <1>12 DEF Next, Over

-----------------------------------------------------------------------------
(* The numbers of delegated agents *)

\* The ids given away once the main agent has taken k numbers.
Given(k) == {Kids[n] : n \in {m \in DOMAIN Kids : m <= k}}

NumbersDoc(d) ==
  LET known == Given(d.agents[Main].kids)
  IN  /\ \A b \in Agents \ {Main} : d.agents[b].phase # "unknown" => b \in known
      /\ \A a \in Agents :
           /\ \A n \in DOMAIN d.agents[a].resume : d.agents[a].resume[n].child \in known
           /\ \A n \in DOMAIN d.kids[a] : d.kids[a][n] \in known
\* The agents that a names: to be resumed, to be re-run, waited for.
NumbersOf(a, known) ==
  /\ \A n \in DOMAIN state[a].resume : state[a].resume[n].child \in known
  /\ \A n \in DOMAIN redo[a] : redo[a][n].child \in known
  /\ Waiting(a) \subseteq known
NumbersAgents ==
  LET known == Given(state[Main].kids)
  IN  /\ loc[Main] # "spawned"
      /\ \A b \in Agents \ {Main} : state[b].phase # "unknown" \/ loc[b] # "unborn" => b \in known
      /\ \A a \in Agents : NumbersOf(a, known)
\* No agent has a number the main agent has yet to take, in memory or in a session.
NumbersHold == NumbersAgents /\ \A d \in Docs : NumbersDoc(d)

LEMMA GivenIs ==
  ASSUME NEW k \in Nat
  PROVE  /\ Given(k) \subseteq Agents \ {Main} /\ Given(k) \subseteq Given(k + 1)
         /\ k < Len(Kids) => /\ Kids[k + 1] \in Given(k + 1) /\ Kids[k + 1] \notin Given(k)
                             /\ Kids[k + 1] \in Agents \ {Main}
<1>1. /\ Kids \in Seq(Agents \ {Main}) /\ DOMAIN Kids = 1..Len(Kids) /\ Len(Kids) \in Nat
      /\ \A i, j \in DOMAIN Kids : Kids[i] = Kids[j] => i = j
  BY AgentsAssumption
<1>2. Given(k) \subseteq Agents \ {Main} /\ Given(k) \subseteq Given(k + 1)
  BY <1>1 DEF Given
<1>3. ASSUME k < Len(Kids)
      PROVE  /\ Kids[k + 1] \in Given(k + 1) /\ Kids[k + 1] \notin Given(k)
             /\ Kids[k + 1] \in Agents \ {Main}
  <2>1. k + 1 \in DOMAIN Kids /\ k + 1 <= k + 1 /\ ~(k + 1 <= k)
    BY <1>1, <1>3
  <2> QED  BY <1>1, <2>1 DEF Given
<1> QED  BY <1>2, <1>3

LEMMA KnownType ==
  ASSUME TypesHold
  PROVE  state[Main].kids \in Nat /\ Main \in Agents /\ Main \notin Given(state[Main].kids)
<1>1. Main \in Agents /\ state[Main] \in AgentStates
  BY AgentsAssumption DEF TypesHold
<1>2. state[Main].kids \in Nat
  BY <1>1 DEF AgentStates
<1> QED  BY <1>1, <1>2, GivenIs

\* The one an agent re-runs is one of those it has to.
LEMMA ResumingWaits ==
  ASSUME TypesHold, NEW a \in Agents, loc[a] = "resuming"
  PROVE  /\ redo[a] # <<>> /\ Head(redo[a]).child = redo[a][1].child /\ 1 \in DOMAIN redo[a]
         /\ Waiting(a) = {redo[a][1].child}
<1>1. redo[a] \in Seq(Entries) /\ redo[a] # <<>>
  BY DEF TypesHold, LoopTypes, TurnHolds
<1>2. Head(redo[a]) = redo[a][1] /\ 1 \in DOMAIN redo[a]
  BY <1>1
<1> QED  BY <1>1, <1>2 DEF Waiting, Awaited

LEMMA NumbersSession ==
  ASSUME TypesHold, NumbersAgents
  PROVE  NumbersDoc(Session) /\ NumbersDoc([Session EXCEPT !.pending = {}])
<1> DEFINE d == Session
           known == Given(state[Main].kids)
<1>1. d.agents[Main] = state[Main] /\ Main \in Agents
  BY SessionType, KnownType DEF NumbersAgents, Covered
<1>2. ASSUME NEW b \in Agents \ {Main}, d.agents[b].phase # "unknown" PROVE b \in known
  <2>1. CASE Covered(b)
    BY <2>1 DEF Covered, NumbersAgents
  <2>2. CASE ~Covered(b)
    BY <1>2, <2>2, SessionType DEF NumbersAgents
  <2> QED  BY <2>1, <2>2
<1>3. ASSUME NEW a \in Agents, NEW n \in DOMAIN d.agents[a].resume
      PROVE  d.agents[a].resume[n].child \in known
  <2>1. CASE Covered(a)
    <3>1. d.agents[a].resume = <<>>
      BY <2>1, SessionType, PlaceholderIs
    <3> QED  BY <1>3, <3>1
  <2>2. CASE ~Covered(a)
    BY <1>3, <2>2, SessionType DEF NumbersAgents, NumbersOf
  <2> QED  BY <2>1, <2>2
<1>4. ASSUME NEW a \in Agents, NEW n \in DOMAIN d.kids[a] PROVE d.kids[a][n] \in known
  <2>1. d.kids[a] = InflightKids(a)
    BY SessionType
  <2>2. d.kids[a][n] \in Waiting(a)
    <3>1. CASE loc[a] = "resuming" /\ InflightKids(a)[n] = Head(redo[a]).child
      BY <2>1, <3>1 DEF Waiting, Awaited
    <3>2. CASE /\ loc[a] = "tools"
               /\ \E i \in DOMAIN call[a] : /\ Batch(a)[i].tool = "delegate"
                                            /\ call[a][i] = "running" /\ i \in DOMAIN child[a]
                                            /\ InflightKids(a)[n] = child[a][i]
      BY <2>1, <3>2 DEF Waiting, Awaited
    <3> QED  BY <1>4, <2>1, <3>1, <3>2, InflightType
  <2> QED  BY <2>2 DEF NumbersAgents, NumbersOf
<1>5. NumbersDoc(d)
  <2> HIDE DEF d
  <2> QED  BY <1>1, <1>2, <1>3, <1>4 DEF NumbersDoc
<1>6. [d EXCEPT !.pending = {}].agents = d.agents /\ [d EXCEPT !.pending = {}].kids = d.kids
  BY DEF Session
<1> HIDE DEF d
<1>7. NumbersDoc([d EXCEPT !.pending = {}])
  BY <1>5, <1>6 DEF NumbersDoc
<1> QED  BY <1>5, <1>7 DEF d

\* The documents there are after a step.
LEMMA NumbersDocs ==
  ASSUME TypesHold, NumbersHold, [Next]_vars
  PROVE  \A d \in Docs' : NumbersDoc(d)
BY EveryDoc, NumbersSession DEF NumbersHold

-----------------------------------------------------------------------------
(* Steps that give no number away *)

LEMMA MovesNumbers ==
  ASSUME TypesHold, NumbersAgents, NEW a \in Agents, Moves(a)
  PROVE  NumbersAgents'
<1> DEFINE known == Given(state[Main].kids)
<1>0. state \in [Agents -> AgentStates] /\ Main \in Agents /\ Main \notin known
  BY KnownType DEF TypesHold
<1> PICK y : /\ state' = [state EXCEPT ![a] = y] /\ Goes(state[a], y)
             /\ \/ y.phase = state[a].phase
                \/ y.phase = "finished" /\ loc'[a] = "exited" /\ loc[a] # "spawned"
  BY DEF Moves
<1>1. \A b \in Agents : /\ state'[b].kids = state[b].kids /\ state'[b].resume = state[b].resume
                        /\ b # a => state'[b] = state[b]
  BY <1>0 DEF Goes
<1>2. Given(state'[Main].kids) = known
  BY <1>0, <1>1
<1>3. loc'[Main] # "spawned"
  BY <1>0 DEF Moves, NumbersAgents
<1>4. ASSUME NEW b \in Agents \ {Main}, state'[b].phase # "unknown" \/ loc'[b] # "unborn"
      PROVE  b \in known
  BY <1>1, <1>4 DEF Moves, NumbersAgents
<1>5. ASSUME NEW b \in Agents PROVE NumbersOf(b, known)'
  <2>1. CASE b = a
    BY <1>1, <2>1 DEF Moves, NumbersAgents, NumbersOf
  <2>2. CASE b # a
    <3>1. Waiting(b)' = Waiting(b) /\ redo'[b] = redo[b]
      BY <1>1, <2>2, WaitingStays DEF Moves
    <3> QED  BY <1>1, <3>1 DEF NumbersAgents, NumbersOf
  <2> QED  BY <2>1, <2>2
<1> QED  BY <1>2, <1>3, <1>4, <1>5 DEF NumbersAgents

LEMMA WaitingKnown ==
  ASSUME TypesHold', NEW b \in Agents, NEW K, Waiting(b) \subseteq K,
         \A n \in DOMAIN redo'[b] : redo'[b][n].child \in K,
         loc'[b] = "tools" => loc[b] = "tools" /\ state'[b].msgs = state[b].msgs
                              /\ call'[b] = call[b] /\ child'[b] = child[b]
  PROVE  Waiting(b)' \subseteq K
<1>1. CASE loc'[b] = "tools"
  BY <1>1 DEF Waiting, Awaited, Batch
<1>2. CASE loc'[b] = "resuming"
  <2>1. redo'[b] \in Seq(Entries) /\ redo'[b] # <<>>
    BY <1>2 DEF TypesHold, LoopTypes, TurnHolds
  <2>2. Head(redo'[b]) = redo'[b][1] /\ 1 \in DOMAIN redo'[b]
    BY <2>1
  <2>3. Waiting(b)' = {Head(redo'[b]).child}
    BY <1>2 DEF Waiting, Awaited
  <2> QED  BY <2>2, <2>3
<1>3. CASE loc'[b] \notin {"tools", "resuming"}
  BY <1>3 DEF Waiting
<1> QED  BY <1>1, <1>2, <1>3

\* A step that starts, at most, one of the agents that have a number.
LEMMA SpawnNumbers ==
  ASSUME TypesHold, TypesHold', NumbersAgents, state'[Main].kids = state[Main].kids,
         loc'[Main] # "spawned",
         NEW c \in Given(state[Main].kids),
         \A b \in Agents \ {Main} : state'[b].phase # "unknown" \/ loc'[b] # "unborn" =>
                                      b = c \/ state[b].phase # "unknown" \/ loc[b] # "unborn",
         \A b \in Agents :
           /\ state'[b].resume = state[b].resume \/ state'[b].resume = <<>>
           /\ \/ redo'[b] = redo[b] \/ redo'[b] = state[b].resume
              \/ \A n \in DOMAIN redo'[b] : \E m \in DOMAIN redo[b] : redo'[b][n] = redo[b][m]
           /\ loc'[b] = "tools" => loc[b] = "tools" /\ state'[b].msgs = state[b].msgs
                                   /\ call'[b] = call[b] /\ child'[b] = child[b]
  PROVE  NumbersAgents'
<1> DEFINE known == Given(state[Main].kids)
<1>1. Given(state'[Main].kids) = known
  OBVIOUS
<1> HIDE DEF known
<1>2. known = Given(state[Main].kids)
  BY DEF known
<1>3. ASSUME NEW b \in Agents
      PROVE  /\ \A n \in DOMAIN state'[b].resume : state'[b].resume[n].child \in Given(state'[Main].kids)
             /\ \A n \in DOMAIN redo'[b] : redo'[b][n].child \in Given(state'[Main].kids)
             /\ Waiting(b)' \subseteq Given(state'[Main].kids)
  <2>1. /\ \A n \in DOMAIN state[b].resume : state[b].resume[n].child \in Given(state[Main].kids)
        /\ \A n \in DOMAIN redo[b] : redo[b][n].child \in Given(state[Main].kids)
        /\ Waiting(b) \subseteq Given(state[Main].kids)
    BY DEF NumbersAgents, NumbersOf
  <2>2. \A n \in DOMAIN redo'[b] : redo'[b][n].child \in Given(state[Main].kids)
    BY <2>1
  <2>3. Waiting(b)' \subseteq Given(state[Main].kids)
    BY <2>1, <2>2, WaitingKnown
  <2>4. \A n \in DOMAIN state'[b].resume : state'[b].resume[n].child \in Given(state[Main].kids)
    BY <2>1
  <2> QED  BY <2>2, <2>3, <2>4
<1>4. \A b \in Agents \ {Main} : state'[b].phase # "unknown" \/ loc'[b] # "unborn" =>
                                   b \in Given(state'[Main].kids)
  BY DEF NumbersAgents
<1> QED  BY <1>3, <1>4 DEF NumbersAgents, NumbersOf

LEMMA StillNumbers ==
  ASSUME NumbersAgents, Still
  PROVE  NumbersAgents'
<1>1. \A b \in Agents : Waiting(b)' = Waiting(b)
  BY WaitingStays DEF Still
<1> QED  BY <1>1 DEF Still, NumbersAgents, NumbersOf

LEMMA RespawnsNumbers ==
  ASSUME TypesHold, TypesHold', NumbersAgents, NEW a \in Agents, Respawns(a)
  PROVE  NumbersAgents'
<1> DEFINE c == redo[a][2].child
<1>0. state \in [Agents -> AgentStates] /\ loc \in [Agents -> Locs] /\ redo \in [Agents -> Seq(Entries)]
      /\ Main \in Agents /\ Main \notin Given(state[Main].kids)
  BY KnownType DEF TypesHold, LoopTypes
<1>1. 2 \in DOMAIN redo[a] /\ c \in Agents
  BY <1>0 DEF Respawns
<1>2. c \in Given(state[Main].kids) /\ c # Main
  BY <1>0, <1>1 DEF NumbersAgents, NumbersOf
<1>3. /\ state' = Registered(state, c) /\ loc' = [loc EXCEPT ![c] = "spawned"]
      /\ redo' = [redo EXCEPT ![a] = Tail(@)] /\ Len(redo[a]) > 1 /\ UNCHANGED <<call, child>>
  BY DEF Respawns
<1> HIDE DEF c
<1>4. \A b \in Agents \ {c} : state'[b] = state[b] /\ loc'[b] = loc[b]
  <2>1. \A b \in Agents \ {c} : Registered(state, c)[b] = state[b]
    BY <1>0, <1>1, RegisteredType
  <2> QED  BY <1>0, <1>1, <1>3, <2>1
<1>5. loc'[c] = "spawned" /\ (state'[c].resume = state[c].resume \/ state'[c].resume = <<>>)
  <2>1. state'[c] = state[c] \/ state'[c] = [NewState EXCEPT !.phase = "live"]
    BY <1>0, <1>1, <1>3 DEF Registered
  <2> QED  BY <1>0, <1>1, <1>3, <2>1, NewStateIs
<1>6. \A b \in Agents : \/ redo'[b] = redo[b]
                        \/ \A n \in DOMAIN redo'[b] : \E m \in DOMAIN redo[b] : redo'[b][n] = redo[b][m]
  <2>1. \A b \in Agents \ {a} : redo'[b] = redo[b]
    BY <1>0, <1>3
  <2>2. redo'[a] = Tail(redo[a]) /\ redo[a] \in Seq(Entries) /\ redo[a] # <<>>
    BY <1>0, <1>1, <1>3
  <2>3. \A n \in DOMAIN redo'[a] : \E m \in DOMAIN redo[a] : redo'[a][n] = redo[a][m]
    <3> DEFINE q == redo[a]
               t == Tail(redo[a])
    <3>1. /\ t \in Seq(Entries) /\ Len(t) = Len(q) - 1 /\ Len(q) \in Nat /\ Len(t) \in Nat
          /\ DOMAIN t = 1..Len(t) /\ DOMAIN q = 1..Len(q)
          /\ \A i \in 1..Len(t) : t[i] = q[i + 1]
      BY <2>2, HeadTailProperties
    <3> HIDE DEF q, t
    <3>2. \A n \in DOMAIN t : n + 1 \in DOMAIN q /\ t[n] = q[n + 1]
      BY <3>1
    <3> QED  BY <2>2, <3>2 DEF q, t
  <2> QED  BY <2>1, <2>3
<1>7. \A b \in Agents : /\ state'[b].resume = state[b].resume \/ state'[b].resume = <<>>
                        /\ loc'[b] = "tools" => loc[b] = "tools" /\ state'[b].msgs = state[b].msgs
                                                /\ call'[b] = call[b] /\ child'[b] = child[b]
  BY <1>3, <1>4, <1>5
<1>8. loc'[Main] # "spawned" /\ state'[Main].kids = state[Main].kids
  BY <1>0, <1>2, <1>4 DEF NumbersAgents
<1>9. \A b \in Agents \ {Main} : state'[b].phase # "unknown" \/ loc'[b] # "unborn" =>
                                   b = c \/ state[b].phase # "unknown" \/ loc[b] # "unborn"
  BY <1>4
<1> QED  BY <1>2, <1>6, <1>7, <1>8, <1>9, SpawnNumbers

LEMMA UnclaimsNumbers ==
  ASSUME TypesHold, TypesHold', NumbersAgents, NEW a \in Agents, Unclaims(a)
  PROVE  NumbersAgents'
<1>0. state \in [Agents -> AgentStates] /\ loc \in [Agents -> Locs] /\ a # Main /\ Main \in Agents
  BY KnownType DEF TypesHold, LoopTypes, Unclaims, NumbersAgents
<1>1. \A b \in Agents \ {a} : state'[b] = state[b] /\ loc'[b] = loc[b]
  BY <1>0 DEF Unclaims
<1>2. state'[a].resume = <<>> /\ loc'[a] = "exited" /\ a \in Given(state[Main].kids)
  BY <1>0, PlaceholderIs DEF Unclaims, NumbersAgents
<1>3. redo' = redo /\ call' = call /\ child' = child
  BY DEF Unclaims
<1>4. loc'[Main] # "spawned" /\ state'[Main].kids = state[Main].kids
  BY <1>0, <1>1 DEF NumbersAgents
<1>5. \A b \in Agents : /\ state'[b].resume = state[b].resume \/ state'[b].resume = <<>>
                        /\ loc'[b] = "tools" => loc[b] = "tools" /\ state'[b].msgs = state[b].msgs
                                                /\ call'[b] = call[b] /\ child'[b] = child[b]
  BY <1>1, <1>2, <1>3
<1>6. \A b \in Agents \ {Main} : state'[b].phase # "unknown" \/ loc'[b] # "unborn" =>
                                   b = a \/ state[b].phase # "unknown" \/ loc[b] # "unborn"
  BY <1>1
<1> QED  BY <1>2, <1>3, <1>4, <1>5, <1>6, SpawnNumbers

\* An agent's first step makes it live, and may start one that it resumes.
LEMMA EnterNumbers ==
  ASSUME TypesHold, TypesHold', NumbersAgents, NEW a \in Agents, Enter(a),
         a = Main \/ loc[a] = "spawned", UNCHANGED <<call, child>>
  PROVE  NumbersAgents'
<1> DEFINE known == Given(state[Main].kids)
           live == [Seeded(state[a]) EXCEPT !.resume = <<>>]
<1>0. state \in [Agents -> AgentStates] /\ loc \in [Agents -> Locs] /\ redo \in [Agents -> Seq(Entries)]
      /\ Main \in Agents /\ Main \notin known /\ (a # Main => a \in known)
  BY KnownType DEF TypesHold, LoopTypes, NumbersAgents
<1>1. redo' = [redo EXCEPT ![a] = state[a].resume]
  BY EnterIs
<1>2. \A b \in Agents : redo'[b] = redo[b] \/ redo'[b] = state[b].resume
  BY <1>0, <1>1
<1>3. Seeded(state[a]) \in AgentStates /\ Seeded(state[a]).kids = state[a].kids
      /\ Seeded(state[a]).resume = state[a].resume
  BY <1>0, SeededIs
<1>4. live.kids = state[a].kids /\ live.resume = <<>>
  BY <1>3 DEF AgentStates
<1> HIDE DEF live
<1>5. CASE loc' = [loc EXCEPT ![a] = "turn"] /\ state' = [state EXCEPT ![a] = Seeded(state[a])]
  <2>1. \A b \in Agents \ {a} : state'[b] = state[b] /\ loc'[b] = loc[b]
    BY <1>0, <1>5
  <2>2. loc'[a] = "turn" /\ state'[a].kids = state[a].kids /\ state'[a].resume = state[a].resume
    BY <1>0, <1>3, <1>5
  <2>3. \A b \in Agents :
          /\ state'[b].resume = state[b].resume \/ state'[b].resume = <<>>
          /\ loc'[b] = "tools" => loc[b] = "tools" /\ state'[b].msgs = state[b].msgs
                                  /\ call'[b] = call[b] /\ child'[b] = child[b]
    BY <2>1, <2>2
  <2>4. loc'[Main] # "spawned" /\ state'[Main].kids = state[Main].kids
    BY <1>0, <2>1, <2>2 DEF NumbersAgents
  <2>5. CASE a = Main
    <3>1. \A b \in Agents \ {Main} : state'[b] = state[b] /\ loc'[b] = loc[b]
      BY <2>1, <2>5
    <3>2. \A b \in Agents : Waiting(b)' \subseteq known
      <4> TAKE b \in Agents
      <4>1. Waiting(b) \subseteq known /\ \A n \in DOMAIN redo'[b] : redo'[b][n].child \in known
        BY <1>2 DEF NumbersAgents, NumbersOf
      <4> QED  BY <2>3, <4>1, WaitingKnown
    <3>3. \A b \in Agents : /\ \A n \in DOMAIN redo'[b] : redo'[b][n].child \in known
                            /\ \A n \in DOMAIN state'[b].resume : state'[b].resume[n].child \in known
      BY <1>2, <2>3 DEF NumbersAgents, NumbersOf
    <3> QED  BY <2>4, <3>1, <3>2, <3>3 DEF NumbersAgents, NumbersOf
  <2>6. CASE a # Main
    <3>1. a \in Given(state[Main].kids)
      BY <1>0, <2>6
    <3>2. \A b \in Agents \ {Main} : state'[b].phase # "unknown" \/ loc'[b] # "unborn" =>
                                       b = a \/ state[b].phase # "unknown" \/ loc[b] # "unborn"
      BY <2>1
    <3> QED  BY <1>2, <2>3, <2>4, <3>1, <3>2, SpawnNumbers
  <2> QED  BY <2>5, <2>6
<1>6. CASE state[a].resume # <<>>
  <2> DEFINE c == Head(state[a].resume).child
             st == [state EXCEPT ![a] = live]
  <2>1. c \in Agents /\ loc' = [loc EXCEPT ![a] = "resuming", ![c] = "spawned"]
        /\ state' = Registered(st, c)
    BY <1>6, EnterIs DEF live
  <2>2. c \in known /\ c # Main
    <3>1. state[a].resume \in Seq(Entries)
      BY <1>0 DEF AgentStates
    <3>2. Head(state[a].resume) = state[a].resume[1] /\ 1 \in DOMAIN state[a].resume
      BY <1>6, <3>1
    <3> QED  BY <1>0, <3>2 DEF NumbersAgents, NumbersOf
  <2> HIDE DEF c
  <2>3. \A b \in Agents : state'[b] = st[b] \/ (b = c /\ state'[b] = [NewState EXCEPT !.phase = "live"])
    <3>1. Registered(st, c) = IF c \in restored THEN st
                              ELSE [st EXCEPT ![c] = [NewState EXCEPT !.phase = "live"]]
      BY DEF Registered
    <3>2. DOMAIN st = Agents
      BY <1>0
    <3> HIDE DEF st
    <3> QED  BY <2>1, <3>1, <3>2
  <2>4. st[a] = live /\ \A b \in Agents \ {a} : st[b] = state[b]
    BY <1>0
  <2>5. \A b \in Agents \ {a, c} : state'[b] = state[b] /\ loc'[b] = loc[b]
    BY <1>0, <2>1, <2>3, <2>4
  <2>6. \A b \in Agents : state'[b].resume = state[b].resume \/ state'[b].resume = <<>>
    BY <1>4, <2>3, <2>4, NewStateIs
  <2>7. state'[Main].kids = state[Main].kids
    BY <1>0, <1>4, <2>2, <2>3, <2>4
  <2>8. loc'[c] = "spawned" /\ (a # c => loc'[a] = "resuming")
    BY <1>0, <2>1
  <2>9. \A b \in Agents : loc'[b] = "tools" => loc[b] = "tools" /\ state'[b].msgs = state[b].msgs
                                               /\ call'[b] = call[b] /\ child'[b] = child[b]
    BY <2>5, <2>8
  <2>10. loc'[Main] # "spawned"
    BY <1>0, <2>2, <2>5, <2>8 DEF NumbersAgents
  <2>11. \A b \in Agents \ {Main} : state'[b].phase # "unknown" \/ loc'[b] # "unborn" =>
                                     b = c \/ state[b].phase # "unknown" \/ loc[b] # "unborn"
    BY <1>0, <2>5 DEF NumbersAgents
  <2> QED  BY <1>2, <2>2, <2>6, <2>7, <2>9, <2>10, <2>11, SpawnNumbers
<1> QED  BY <1>5, <1>6, EnterIs

\* A delegate names an agent nobody knows, which the main agent waits for from now on.
LEMMA DelegateIs ==
  ASSUME TypesHold, NumbersAgents, NEW i \in DOMAIN call[Main], Delegate(i),
         NEW c, c = Kids[state[Main].kids + 1]
  PROVE  /\ c \in Agents \ {Main} /\ state[c].phase = "unknown" /\ loc[c] = "unborn"
         /\ state'[c] = [NewState EXCEPT !.phase = "live"] /\ loc'[c] = "spawned"
         /\ \A b \in Agents \ {c, Main} : state'[b] = state[b]
         /\ \A b \in Agents \ {c} : loc'[b] = loc[b]
         /\ state'[Main].kids = state[Main].kids + 1
         /\ state'[Main].resume = state[Main].resume /\ state'[Main].msgs = state[Main].msgs
         /\ state'[Main].phase = state[Main].phase /\ state'[Main].inj = state[Main].inj
         /\ loc[Main] = "tools" /\ SetCall(Main, i, "running") /\ StartCall(Main, i)
         /\ UNCHANGED <<proc, redo, restored, accepted, blank, sent>>
         /\ Waiting(Main)' = Waiting(Main) \cup {c}
         /\ \A b \in Agents \ {Main, c} : Waiting(b)' = Waiting(b)
         /\ Waiting(c)' = {}
<1> PICK k : k = state[Main].kids
  OBVIOUS
<1> DEFINE kids == [j \in DOMAIN Batch(Main) |->
                      IF j = i THEN c ELSE IF j \in DOMAIN child[Main] THEN child[Main][j] ELSE Main]
<1>0. /\ state \in [Agents -> AgentStates] /\ loc \in [Agents -> Locs] /\ Main \in Agents
      /\ call \in [Agents -> Seq(Statuses)] /\ child \in [Agents -> Seq(Agents)]
      /\ loc[Main] = "tools" /\ k \in Nat /\ k < Len(Kids) /\ state[Main] \in AgentStates
      /\ StartCall(Main, i) /\ UNCHANGED <<proc, redo, restored, accepted, blank, sent>>
  BY KnownType DEF TypesHold, LoopTypes, Delegate, StartCall, procVars, ghostVars
<1>1. c \in Agents \ {Main} /\ c \notin Given(k)
  BY <1>0, GivenIs
<1>2. /\ state' = [state EXCEPT ![c] = [NewState EXCEPT !.phase = "live"], ![Main].kids = @ + 1]
      /\ loc' = [loc EXCEPT ![c] = "spawned"] /\ child' = [child EXCEPT ![Main] = kids]
      /\ SetCall(Main, i, "running") /\ Batch(Main)[i].tool = "delegate"
      /\ call[Main][i] = "queued"
  BY DEF Delegate, StartCall
<1>3. Batch(Main) \in Seq(Calls) /\ DOMAIN call[Main] = DOMAIN Batch(Main)
  BY <1>0, BatchType
<1>4. state[c].phase = "unknown" /\ loc[c] = "unborn"
  BY <1>1 DEF NumbersAgents
<1>5. /\ state'[Main] = [state[Main] EXCEPT !.kids = k + 1]
      /\ state'[c] = [NewState EXCEPT !.phase = "live"]
      /\ \A b \in Agents \ {c, Main} : state'[b] = state[b]
  BY <1>0, <1>1, <1>2
<1>6. /\ state'[Main].kids = k + 1 /\ state'[Main].resume = state[Main].resume
      /\ state'[Main].msgs = state[Main].msgs /\ state'[Main].phase = state[Main].phase
      /\ state'[Main].inj = state[Main].inj
  <2> DEFINE x == state[Main]
             y == [x EXCEPT !.kids = k + 1]
  <2>1. x \in AgentStates
    BY <1>0
  <2> HIDE DEF x
  <2>2. /\ y.kids = k + 1 /\ y.resume = x.resume /\ y.msgs = x.msgs /\ y.phase = x.phase
        /\ y.inj = x.inj
    BY <2>1 DEF AgentStates
  <2> QED  BY <1>5, <2>2 DEF x
<1>7. loc'[c] = "spawned" /\ \A b \in Agents \ {c} : loc'[b] = loc[b]
  BY <1>0, <1>1, <1>2
<1>8. Waiting(Main)' = Waiting(Main) \cup {c}
  <2>1. kids[i] = c /\ \A j \in DOMAIN Batch(Main) : j # i /\ j \in DOMAIN child[Main] =>
                                                        kids[j] = child[Main][j]
    BY <1>3
  <2>2. child'[Main] = kids /\ Batch(Main)' = Batch(Main) /\ loc'[Main] = "tools"
    BY <1>0, <1>1, <1>2, <1>6, <1>7 DEF Batch
  <2>3. DOMAIN call'[Main] = DOMAIN call[Main] /\ call'[Main][i] = "running"
        /\ \A j \in DOMAIN call[Main] : j # i => call'[Main][j] = call[Main][j]
    BY <1>0, <1>2 DEF SetCall
  <2> HIDE DEF kids
  <2> DEFINE Delegates(j) == j \in DOMAIN call[Main] /\ call[Main][j] = "running"
                               /\ Batch(Main)[j].tool = "delegate"
  <2>4. ASSUME NEW j, Delegates(j) PROVE j # i /\ kids[j] = child[Main][j]
    <3>1. j \in DOMAIN child[Main]
      BY <1>0, <2>4 DEF TypesHold, TurnHolds
    <3> QED  BY <1>2, <1>3, <2>1, <2>4, <3>1
  <2>5. Waiting(Main)' = {kids[j] : j \in {n \in DOMAIN call[Main] :
                            call'[Main][n] = "running" /\ Batch(Main)[n].tool = "delegate"}}
    BY <2>2, <2>3 DEF Waiting, Awaited
  <2>6. Waiting(Main) = {child[Main][j] : j \in {n \in DOMAIN call[Main] : Delegates(n)}}
    BY <1>0 DEF Waiting, Awaited
  <2>7. {n \in DOMAIN call[Main] : call'[Main][n] = "running" /\ Batch(Main)[n].tool = "delegate"}
          = {n \in DOMAIN call[Main] : Delegates(n)} \cup {i}
    BY <1>2, <2>3
  <2> HIDE DEF Delegates
  <2> QED  BY <2>1, <2>4, <2>5, <2>6, <2>7
<1>9. \A b \in Agents \ {Main, c} : Waiting(b)' = Waiting(b)
  <2>1. \A b \in Agents \ {Main, c} : call'[b] = call[b] /\ child'[b] = child[b] /\ redo'[b] = redo[b]
    BY <1>0, <1>2 DEF SetCall
  <2> QED  BY <1>5, <1>7, <2>1, WaitingStays
<1>10. Waiting(c)' = {}
  BY <1>7 DEF Waiting
<1> QED  BY <1>0, <1>1, <1>2, <1>4, <1>5, <1>6, <1>7, <1>8, <1>9, <1>10

LEMMA DelegateNumbers ==
  ASSUME TypesHold, NumbersAgents, NEW i \in DOMAIN call[Main], Delegate(i)
  PROVE  NumbersAgents'
<1> PICK k, c : k = state[Main].kids /\ c = Kids[k + 1]
  OBVIOUS
<1>0. k \in Nat /\ k < Len(Kids) /\ Main \in Agents
  BY KnownType DEF Delegate
<1>1. /\ Given(k) \subseteq Given(k + 1) /\ c \in Given(k + 1) /\ c \in Agents \ {Main}
  BY <1>0, GivenIs
<1>2. /\ state'[c] = [NewState EXCEPT !.phase = "live"] /\ loc'[c] = "spawned" /\ redo' = redo
      /\ \A b \in Agents \ {c, Main} : state'[b] = state[b]
      /\ \A b \in Agents \ {c} : loc'[b] = loc[b]
      /\ state'[Main].kids = k + 1 /\ state'[Main].resume = state[Main].resume
      /\ Waiting(Main)' = Waiting(Main) \cup {c} /\ Waiting(c)' = {}
      /\ \A b \in Agents \ {Main, c} : Waiting(b)' = Waiting(b)
  BY DelegateIs
<1>3. ASSUME NEW b \in Agents
      PROVE  /\ \A n \in DOMAIN state'[b].resume : state'[b].resume[n].child \in Given(k + 1)
             /\ \A n \in DOMAIN redo'[b] : redo'[b][n].child \in Given(k + 1)
             /\ Waiting(b)' \subseteq Given(k + 1)
  <2>1. /\ \A n \in DOMAIN state[b].resume : state[b].resume[n].child \in Given(k + 1)
        /\ \A n \in DOMAIN redo[b] : redo[b][n].child \in Given(k + 1)
        /\ Waiting(b) \subseteq Given(k + 1)
    BY <1>1 DEF NumbersAgents, NumbersOf
  <2>2. state'[b].resume = state[b].resume \/ state'[b].resume = <<>>
    <3>1. [NewState EXCEPT !.phase = "live"].resume = <<>>
      BY DEF NewState
    <3>2. CASE b = Main
      BY <1>2, <3>2
    <3>3. CASE b = c
      BY <1>2, <3>1, <3>3
    <3>4. CASE b \notin {c, Main}
      BY <1>2, <3>4
    <3> QED  BY <3>2, <3>3, <3>4
  <2>3. \A n \in DOMAIN state'[b].resume : state'[b].resume[n].child \in Given(k + 1)
    BY <2>1, <2>2
  <2>4. Waiting(b)' \subseteq Given(k + 1)
    BY <1>1, <1>2, <2>1
  <2> QED  BY <1>2, <2>1, <2>3, <2>4
<1>4. \A b \in Agents \ {Main} : state'[b].phase # "unknown" \/ loc'[b] # "unborn" =>
                                    b \in Given(k + 1)
  BY <1>1, <1>2 DEF NumbersAgents
<1>5. loc'[Main] # "spawned"
  BY <1>0, <1>1, <1>2 DEF NumbersAgents
<1>6. Given(state'[Main].kids) = Given(k + 1)
  BY <1>2
<1> QED  BY <1>3, <1>4, <1>5, <1>6 DEF NumbersAgents, NumbersOf

\* A message of the user touches no more than what is queued for an agent.
LEMMA InputIs ==
  ASSUME TypesHold, NEW a \in Agents, Send(a) \/ Interrupt(a)
  PROVE  /\ UNCHANGED <<loc, call, child, redo, proc, restored>>
         /\ \A b \in Agents :
              /\ state'[b].kids = state[b].kids /\ state'[b].resume = state[b].resume
              /\ state'[b].phase = state[b].phase /\ state'[b].msgs = state[b].msgs
              /\ Waiting(b)' = Waiting(b)
<1>0. state \in [Agents -> AgentStates] /\ state[a] \in AgentStates
  BY DEF TypesHold
<1>1. /\ Inject(a) \/ UNCHANGED <<state, accepted, blank>>
      /\ UNCHANGED <<loc, call, child, redo, proc, restored>>
  BY DEF Send, Interrupt, Input, loopVars, procVars
<1>2. \A b \in Agents : /\ state'[b].kids = state[b].kids /\ state'[b].resume = state[b].resume
                        /\ state'[b].phase = state[b].phase /\ state'[b].msgs = state[b].msgs
  <2>1. CASE state' = state
    BY <2>1
  <2>2. CASE state' = [state EXCEPT ![a] = [state[a] EXCEPT !.inj = Append(@, sent + 1)]]
    <3> DEFINE x == state[a]
               y == [x EXCEPT !.inj = Append(x.inj, sent + 1)]
    <3>1. x \in AgentStates /\ state' = [state EXCEPT ![a] = y]
      BY <1>0, <2>2
    <3> HIDE DEF x
    <3>2. y.kids = x.kids /\ y.resume = x.resume /\ y.phase = x.phase /\ y.msgs = x.msgs
      BY <3>1 DEF AgentStates
    <3> HIDE DEF y
    <3> QED  BY <1>0, <3>1, <3>2 DEF x
  <2> QED  BY <1>1, <2>1, <2>2, InjectIs
<1>3. \A b \in Agents : Waiting(b)' = Waiting(b)
  BY <1>1, <1>2, WaitingStays
<1> QED  BY <1>1, <1>2, <1>3

LEMMA InputNumbers ==
  ASSUME TypesHold, NumbersAgents, NEW a \in Agents, Send(a) \/ Interrupt(a)
  PROVE  NumbersAgents'
BY InputIs, AgentsAssumption DEF NumbersAgents, NumbersOf

LEMMA CrashNumbers ==
  ASSUME TypesHold, NumbersHold, Crash \/ Load
  PROVE  NumbersAgents'
<1>0. /\ \A a \in Agents : loc'[a] = "unborn" /\ redo'[a] = <<>> /\ Waiting(a)' = {}
      /\ Main \in Agents
  BY AgentsAssumption DEF Crash, Load, Forgotten, Waiting
<1>1. CASE Crash
  <2>1. \A a \in Agents : state'[a].phase = "unknown" /\ state'[a].resume = <<>>
    BY <1>1, NewStateIs DEF Crash
  <2> QED  BY <1>0, <2>1 DEF NumbersAgents, NumbersOf
<1>2. CASE Load
  <2>1. disk \in Documents /\ state' = [a \in Agents |-> Reconciled(disk, a)]
    BY <1>2, LoadIs
  <2>2. NumbersDoc(disk)
    BY <1>2 DEF Load, NumbersHold, Docs
  <2> DEFINE known == Given(disk.agents[Main].kids)
  <2>3. ASSUME NEW a \in Agents
        PROVE  /\ state'[a].kids = disk.agents[a].kids /\ state'[a].phase = disk.agents[a].phase
               /\ \A n \in DOMAIN state'[a].resume : state'[a].resume[n].child \in known
    <3>1. state'[a] = Reconciled(disk, a)
      BY <2>1
    <3>2. /\ Reconciled(disk, a).kids = disk.agents[a].kids
          /\ Reconciled(disk, a).phase = disk.agents[a].phase
          /\ \A n \in DOMAIN Reconciled(disk, a).resume :
                        \/ /\ n \in DOMAIN disk.agents[a].resume
                           /\ Reconciled(disk, a).resume[n] = disk.agents[a].resume[n]
                        \/ \E k \in DOMAIN disk.kids[a] :
                             Reconciled(disk, a).resume[n].child = disk.kids[a][k]
      BY <2>1, ReconciledIs
    <3> QED  BY <2>2, <3>1, <3>2 DEF NumbersDoc
  <2>4. Given(state'[Main].kids) = known
    BY <1>0, <2>3
  <2>5. \A b \in Agents \ {Main} : state'[b].phase # "unknown" => b \in known
    BY <2>2, <2>3 DEF NumbersDoc
  <2> HIDE DEF known
  <2> QED  BY <1>0, <2>3, <2>4, <2>5 DEF NumbersAgents, NumbersOf
<1> QED  BY <1>1, <1>2

LEMMA NumbersStay ==
  ASSUME TypesHold, NumbersHold, [Next]_vars
  PROVE  NumbersHold'
<1>1. TypesHold' /\ Steps /\ NumbersAgents
  BY TypesStay, EveryStep DEF NumbersHold
<1>2. NumbersAgents'
  <2>1. ASSUME NEW a \in Agents, ChildStart(a) PROVE NumbersAgents'
    BY <1>1, <2>1, EnterNumbers DEF ChildStart
  <2>2. CASE Begin
    BY <1>1, <2>2, EnterNumbers, AgentsAssumption DEF Begin
  <2>3. ASSUME NEW a \in Agents, Moves(a) PROVE NumbersAgents'
    BY <1>1, <2>3, MovesNumbers
  <2>4. ASSUME NEW a \in Agents, Respawns(a) PROVE NumbersAgents'
    BY <1>1, <2>4, RespawnsNumbers
  <2>5. ASSUME NEW a \in Agents, Unclaims(a) PROVE NumbersAgents'
    BY <1>1, <2>5, UnclaimsNumbers
  <2>6. ASSUME NEW a \in Agents, Send(a) \/ Interrupt(a) PROVE NumbersAgents'
    BY <1>1, <2>6, InputNumbers
  <2>7. ASSUME NEW i \in DOMAIN call[Main], Delegate(i) PROVE NumbersAgents'
    BY <1>1, <2>7, DelegateNumbers
  <2>8. CASE Still
    BY <1>1, <2>8, StillNumbers
  <2>9. CASE Crash \/ Load
    BY <2>9, CrashNumbers
  <2> QED  BY <1>1, <2>1, <2>2, <2>3, <2>4, <2>5, <2>6, <2>7, <2>8, <2>9 DEF Steps
<1> QED  BY <1>2, NumbersDocs DEF NumbersHold

LEMMA NumbersInit == Init => NumbersHold
<1> SUFFICES ASSUME Init PROVE NumbersHold
  OBVIOUS
<1>1. \A a \in Agents : /\ state[a].phase = "unknown" /\ state[a].resume = <<>>
                        /\ loc[a] = "unborn" /\ redo[a] = <<>> /\ Waiting(a) = {}
  BY NewStateIs DEF Init, Waiting
<1>2. Docs = {} /\ Main \in Agents
  BY AgentsAssumption DEF Init, Docs
<1> QED  BY <1>1, <1>2 DEF NumbersHold, NumbersAgents, NumbersOf

LEMMA FreshStep ==
  ASSUME TypesHold, NumbersHold, [Next]_vars,
         NEW c \in Agents, loc[c] # "spawned", loc'[c] = "spawned"
  PROVE  \/ state[c].phase = "unknown"
         \/ \E a \in Agents : \E n \in DOMAIN redo'[a] : redo'[a][n].child = c
<1>0. /\ TypesHold' /\ Steps /\ NumbersAgents /\ loc \in [Agents -> Locs]
      /\ redo \in [Agents -> Seq(Entries)] /\ Main \in Agents
  BY TypesStay, EveryStep, AgentsAssumption DEF NumbersHold, TypesHold, LoopTypes
<1>1. ASSUME NEW a \in Agents, Enter(a)
      PROVE  \E b \in Agents : \E n \in DOMAIN redo'[b] : redo'[b][n].child = c
  <2>1. CASE loc' = [loc EXCEPT ![a] = "turn"]
    BY <1>0, <2>1
  <2>2. CASE state[a].resume # <<>>
    <3> DEFINE q == state[a].resume
    <3>1. /\ redo' = [redo EXCEPT ![a] = q]
          /\ loc' = [loc EXCEPT ![a] = "resuming", ![Head(q).child] = "spawned"]
      BY <1>1, <2>2, EnterIs
    <3>2. q \in Seq(Entries) /\ q # <<>>
      BY <2>2 DEF TypesHold, AgentStates
    <3> HIDE DEF q
    <3>3. Head(q) = q[1] /\ 1 \in DOMAIN q
      BY <3>2
    <3>4. c = Head(q).child
      BY <1>0, <3>1
    <3>5. redo'[a] = q
      BY <1>0, <3>1
    <3> QED  BY <3>3, <3>4, <3>5
  <2> QED  BY <1>1, <2>1, <2>2, EnterIs
<1>2. ASSUME NEW a \in Agents, Respawns(a)
      PROVE  \E b \in Agents : \E n \in DOMAIN redo'[b] : redo'[b][n].child = c
  <2> DEFINE q == redo[a]
             t == Tail(redo[a])
  <2>1. /\ Len(q) > 1 /\ redo' = [redo EXCEPT ![a] = t] /\ q \in Seq(Entries)
        /\ loc' = [loc EXCEPT ![q[2].child] = "spawned"]
    BY <1>0, <1>2 DEF Respawns
  <2>2. q # <<>>
    BY <2>1
  <2>3. t \in Seq(Entries) /\ Len(t) = Len(q) - 1 /\ \A i \in 1..Len(t) : t[i] = q[i + 1]
    BY <2>1, <2>2, HeadTailProperties
  <2> HIDE DEF q, t
  <2>4. 1 \in DOMAIN t /\ t[1] = q[2]
    BY <2>1, <2>3
  <2>5. c = q[2].child
    BY <1>0, <2>1
  <2>6. redo'[a] = t
    BY <1>0, <2>1
  <2> QED  BY <2>4, <2>5, <2>6
<1>3. ASSUME NEW i \in DOMAIN call[Main], Delegate(i) PROVE state[c].phase = "unknown"
  <2>1. loc' = [loc EXCEPT ![Kids[state[Main].kids + 1]] = "spawned"]
    BY <1>3 DEF Delegate
  <2>2. c = Kids[state[Main].kids + 1]
    BY <1>0, <2>1
  <2> QED  BY <1>0, <1>3, <2>2, DelegateIs
<1>4. ASSUME NEW a \in Agents, Moves(a) \/ Unclaims(a) \/ Send(a) \/ Interrupt(a) PROVE FALSE
  <2>1. loc' = loc \/ Moves(a) \/ Unclaims(a)
    BY <1>4 DEF Send, Interrupt, loopVars
  <2> QED  BY <1>0, <2>1 DEF Moves, Unclaims
<1>5. CASE Still \/ Crash \/ Load
  BY <1>5 DEF Still, Crash, Load, Forgotten
<1>6. CASE Begin
  BY <1>0, <1>1, <1>6 DEF Begin
<1>7. ASSUME NEW a \in Agents, ChildStart(a)
      PROVE  \E b \in Agents : \E n \in DOMAIN redo'[b] : redo'[b][n].child = c
  BY <1>1, <1>7 DEF ChildStart
<1> QED  BY <1>0, <1>2, <1>3, <1>4, <1>5, <1>6, <1>7 DEF Steps

\* No agent ever gets an id that was an agent's before, through crashes and resumptions.
THEOREM NumbersAreFresh == Spec => FreshChild
<1>1. Init => TypesHold /\ NumbersHold
  BY InitTypes, NumbersInit
<1>2. TypesHold /\ NumbersHold /\ [Next]_vars => TypesHold' /\ NumbersHold'
  BY TypesStay, NumbersStay
<1>3. TypesHold /\ NumbersHold /\ [Next]_vars =>
        [\A c \in Agents : loc[c] # "spawned" /\ loc'[c] = "spawned" =>
           \/ state[c].phase = "unknown"
           \/ \E a \in Agents : \E n \in DOMAIN redo'[a] : redo'[a][n].child = c]_vars
  BY FreshStep
<1> QED  BY <1>1, <1>2, <1>3, PTL DEF Spec, FreshChild

-----------------------------------------------------------------------------
(* The tree of agents, when a batch has one delegate at most *)

\* No batch of the main agent has two delegates.
OneDelegate ==
  \A p \in Plans[Main] : \A i, j \in DOMAIN p : p[i] = "delegate" /\ p[j] = "delegate" => i = j

Idle == \A a \in Agents : loc[a] = "unborn"

\* The batch has one delegate, and its gated calls run before or after the rest.
BatchHolds ==
  /\ loc[Main] \in {"post", "tools"} =>
       \A i, j \in DOMAIN Batch(Main) :
         Batch(Main)[i].tool = "delegate" /\ Batch(Main)[j].tool = "delegate" => i = j
  /\ loc[Main] = "tools" =>
       \A i, j \in DOMAIN call[Main] :
         i < j /\ "gated" \in {Batch(Main)[i].tool, Batch(Main)[j].tool} =>
           call[Main][i] \in {"done", "gone"} \/ call[Main][j] \in {"queued", "gone"}

\* An agent under way is live, and the main agent waits for it; it has no agents of its own.
TreeOf(a) ==
  /\ Live(a) => state[a].phase = "live" /\ (a # Main => a \in Waiting(Main))
  /\ loc[a] # "unborn" => state[a].phase # "unknown"
  /\ a # Main => state[a].resume = <<>> /\ redo[a] = <<>> /\ Waiting(a) = {}
\* One delegate is left to be resumed at most, before anybody is under way, and nobody has
\* claimed its agent.
TreeAgents ==
  /\ \A a \in Agents : TreeOf(a)
  /\ proc \in {"new", "loaded", "down"} => Idle
  /\ proc = "ending" => loc[Main] = "exited"
  /\ Len(state[Main].resume) <= 1 /\ Len(redo[Main]) <= 1
  /\ state[Main].resume # <<>> => Idle
  /\ \A n \in DOMAIN state[Main].resume :
       LET c == state[Main].resume[n].child IN c \in restored /\ state[c].phase = "live"
  /\ BatchHolds
\* A session that can be loaded has one delegate in flight at most, of a live agent.
TreeDoc(d) ==
  ~d.over =>
    /\ \A a \in Agents : d.agents[a].resume = <<>> /\ (a # Main => d.kids[a] = <<>>)
    /\ Len(d.kids[Main]) <= 1
    /\ \A n \in DOMAIN d.kids[Main] : d.agents[d.kids[Main][n]].phase = "live"
TreeHolds == TreeAgents /\ \A d \in Docs : TreeDoc(d)

LEMMA PickedOnce ==
  ASSUME NEW S, NEW s \in Seq(S), NEW P, \A i, j \in DOMAIN s : i \in P /\ j \in P => i = j
  PROVE  Len(Picked(s, P)) <= 1
<1>1. PICK f \in [0..Len(s) -> Seq(S)] : Picks(s, P, f)
  BY PickedUnfolds
<1> DEFINE None(n) == \A m \in 1..n : m \notin P
           G == {n \in Nat : n <= Len(s) => Len(f[n]) <= 1 /\ (None(n) => Len(f[n]) = 0)}
<1>2. 0 \in G
  BY <1>1 DEF Picks
<1>3. ASSUME NEW n \in Nat, n \in G PROVE n + 1 \in G
  <2> SUFFICES ASSUME n + 1 <= Len(s)
               PROVE  Len(f[n + 1]) <= 1 /\ (None(n + 1) => Len(f[n + 1]) = 0)
    OBVIOUS
  <2>1. /\ n <= Len(s) /\ n + 1 \in 1..Len(s) /\ (n + 1) - 1 = n /\ n \in 0..Len(s)
        /\ Len(f[n]) <= 1 /\ (None(n) => Len(f[n]) = 0)
    BY <1>3
  <2>2. f[n + 1] = IF n + 1 \in P THEN Append(f[n], s[n + 1]) ELSE f[n]
    BY <1>1, <2>1 DEF Picks
  <2>3. f[n] \in Seq(S) /\ s[n + 1] \in S
    BY <2>1
  <2>4. CASE n + 1 \in P
    <3>1. None(n)
      <4> SUFFICES ASSUME NEW m \in 1..n, m \in P PROVE FALSE
        OBVIOUS
      <4>1. m \in DOMAIN s /\ n + 1 \in DOMAIN s /\ m # n + 1
        BY <2>1
      <4> QED  BY <2>4, <4>1
    <3>2. Len(f[n + 1]) = 1
      BY <2>1, <2>2, <2>3, <2>4, <3>1
    <3>3. ~None(n + 1)
      BY <2>4
    <3> QED  BY <3>2, <3>3
  <2>5. CASE n + 1 \notin P
    <3>1. None(n + 1) => None(n)
      OBVIOUS
    <3> QED  BY <2>1, <2>2, <2>5, <3>1
  <2> QED  BY <2>4, <2>5
<1> HIDE DEF G
<1>4. Len(s) \in G
  BY <1>2, <1>3, Induction
<1> QED  BY <1>1, <1>4 DEF G, Picks

-----------------------------------------------------------------------------
(* The batch of the main agent *)

LEMMA BatchStays ==
  ASSUME BatchHolds, loc'[Main] = loc[Main], state'[Main].msgs = state[Main].msgs,
         call'[Main] = call[Main]
  PROVE  BatchHolds'
BY DEF BatchHolds, Batch

LEMMA BatchOver ==
  ASSUME loc'[Main] \notin {"post", "tools"}
  PROVE  BatchHolds'
BY DEF BatchHolds

\* Calls that are under way go on, others are cut.
LEMMA CallsGoOn ==
  ASSUME BatchHolds, loc[Main] = "tools", state'[Main].msgs = state[Main].msgs,
         DOMAIN call'[Main] = DOMAIN call[Main],
         \A i \in DOMAIN call[Main] : \/ call'[Main][i] \in {call[Main][i], "gone"}
                                      \/ call[Main][i] \notin {"queued", "done", "gone"}
  PROVE  BatchHolds'
<1>1. Batch(Main)' = Batch(Main)
  BY DEF Batch
<1> QED  BY <1>1 DEF BatchHolds

LEMMA CallStarts ==
  ASSUME TypesHold, BatchHolds, NEW i \in DOMAIN call[Main], StartCall(Main, i),
         NEW st, SetCall(Main, i, st), state'[Main].msgs = state[Main].msgs
  PROVE  BatchHolds'
<1>0. Main \in Agents /\ call \in [Agents -> Seq(Statuses)]
  BY AgentsAssumption DEF TypesHold, LoopTypes
<1>1. /\ loc[Main] = "tools" /\ call[Main][i] = "queued" /\ i \in Nat
      /\ \A j \in 1..(i - 1) : \/ call[Main][j] = "done"
                               \/ \A k \in j..i : Safe(Batch(Main)[k])
  BY <1>0 DEF StartCall
<1>2. Batch(Main)' = Batch(Main)
  BY DEF Batch
<1>3. /\ DOMAIN call'[Main] = DOMAIN call[Main] /\ DOMAIN call[Main] \subseteq Nat \ {0}
      /\ \A j \in DOMAIN call[Main] : j # i => call'[Main][j] = call[Main][j]
  BY <1>0 DEF SetCall
<1>4. ASSUME NEW j \in DOMAIN call[Main], NEW k \in DOMAIN call[Main], j < k,
             "gated" \in {Batch(Main)[j].tool, Batch(Main)[k].tool}
      PROVE  call'[Main][j] \in {"done", "gone"} \/ call'[Main][k] \in {"queued", "gone"}
  <2>1. CASE k = i
    <3>1. j \in 1..(i - 1) /\ j \in j..i /\ i \in j..i /\ j # i
      BY <1>1, <1>3, <1>4, <2>1
    <3>2. call[Main][j] = "done"
      BY <1>1, <1>4, <2>1, <3>1 DEF Safe
    <3> QED  BY <1>3, <3>1, <3>2
  <2>2. CASE j = i
    <3>1. call[Main][k] \in {"queued", "gone"} /\ k # i
      BY <1>1, <1>3, <1>4, <2>2 DEF BatchHolds
    <3> QED  BY <1>3, <3>1
  <2>3. CASE k # i /\ j # i
    BY <1>1, <1>3, <1>4, <2>3 DEF BatchHolds
  <2> QED  BY <2>1, <2>2, <2>3
<1> QED  BY <1>1, <1>2, <1>3, <1>4 DEF BatchHolds

LEMMA PassBatch ==
  ASSUME TypesHold, BatchHolds, PassSafePoint(Main)
  PROVE  BatchHolds'
<1>0. loc \in [Agents -> Locs] /\ call \in [Agents -> Seq(Statuses)] /\ Main \in Agents
  BY AgentsAssumption DEF TypesHold, LoopTypes
<1>1. CASE loc' = [loc EXCEPT ![Main] = "model"]
  BY <1>0, <1>1, BatchOver
<1>2. CASE /\ loc[Main] = "post" /\ state' = state
           /\ call' = [call EXCEPT ![Main] = [i \in DOMAIN Batch(Main) |-> "queued"]]
  <2>1. call'[Main] = [i \in DOMAIN Batch(Main) |-> "queued"] /\ Batch(Main)' = Batch(Main)
    BY <1>0, <1>2 DEF Batch
  <2> QED  BY <1>2, <2>1 DEF BatchHolds
<1>3. CASE \E s, f : Onward(Main, s) \/ Ends(Main, s, f)
  <2>1. loc' = [loc EXCEPT ![Main] = "turn"] \/ loc' = [loc EXCEPT ![Main] = "exited"]
    BY <1>3 DEF Onward, Ends
  <2> QED  BY <1>0, <2>1, BatchOver
<1>4. CASE /\ Requesting(Main) /\ state' = state
           /\ call' = [call EXCEPT ![Main] = [i \in DOMAIN @ |->
                         IF @[i] = "requesting" THEN "asking" ELSE @[i]]]
  <2>1. call'[Main] = [i \in DOMAIN call[Main] |->
                         IF call[Main][i] = "requesting" THEN "asking" ELSE call[Main][i]]
    BY <1>0, <1>4
  <2>2. loc[Main] = "tools"
    BY <1>4 DEF Requesting
  <2> QED  BY <1>4, <2>1, <2>2, CallsGoOn
<1> QED  BY <1>1, <1>2, <1>3, <1>4 DEF PassSafePoint

LEMMA MainBatch ==
  ASSUME TypesHold, NumbersAgents, BatchHolds, OneDelegate, AgentStep(Main)
  PROVE  BatchHolds'
<1>0. /\ loc \in [Agents -> Locs] /\ call \in [Agents -> Seq(Statuses)] /\ Main \in Agents
      /\ state \in [Agents -> AgentStates]
  BY AgentsAssumption DEF TypesHold, LoopTypes
<1>1. CASE ChildStart(Main)
  BY <1>1 DEF ChildStart, NumbersAgents
<1>2. CASE Fold(Main)
  BY <1>2, BatchStays DEF Fold, loopVars
<1>3. CASE Written(Main)
  BY <1>3, PassBatch DEF Written
<1>4. CASE ModelDone(Main)
  <2>1. loc'[Main] = "post"
    BY <1>0, <1>4 DEF ModelDone
  <2>2. PICK p \in Plans[Main] : /\ DOMAIN Batch(Main)' = DOMAIN p
                                 /\ \A i \in DOMAIN p : Batch(Main)'[i].tool = p[i]
    BY <1>0, <1>4, ModelDoneIs
  <2> QED  BY <2>1, <2>2 DEF OneDelegate, BatchHolds
<1>5. CASE ModelFail(Main) \/ ModelCut(Main)
  <2>1. loc' = [loc EXCEPT ![Main] = "turn"] \/ loc' = [loc EXCEPT ![Main] = "exited"]
    BY <1>5 DEF ModelFail, ModelCut, Onward, Ends
  <2> QED  BY <1>0, <2>1, BatchOver
<1>6. ASSUME NEW i \in DOMAIN call[Main],
             RunCall(Main, i) \/ RefuseCall(Main, i) \/ FinishCall(Main, i)
               \/ CollectChild(Main, i) \/ UseCarried(Main, i) \/ Ask(i)
      PROVE  BatchHolds'
  <2>1. PICK y : state' = [state EXCEPT ![Main] = y] /\ y.msgs = state[Main].msgs
    BY <1>0, <1>6, CallStepIs
  <2>2. state'[Main].msgs = state[Main].msgs /\ loc[Main] = "tools"
    BY <1>0, <1>6, <2>1, CallStepIs
  <2>3. PICK st : /\ SetCall(Main, i, st)
                  /\ StartCall(Main, i) \/ call[Main][i] = "running"
    BY <1>6 DEF RunCall, RefuseCall, UseCarried, FinishCall, CollectChild, Ask
  <2>4. CASE StartCall(Main, i)
    BY <2>2, <2>3, <2>4, CallStarts
  <2>5. CASE call[Main][i] = "running"
    <3>1. /\ DOMAIN call'[Main] = DOMAIN call[Main]
          /\ \A j \in DOMAIN call[Main] : j # i => call'[Main][j] = call[Main][j]
      BY <1>0, <2>3 DEF SetCall
    <3> QED  BY <2>2, <2>5, <3>1, CallsGoOn
  <2> QED  BY <2>3, <2>4, <2>5
<1>7. ASSUME NEW i \in DOMAIN call[Main], Delegate(i) PROVE BatchHolds'
  <2>1. /\ StartCall(Main, i) /\ SetCall(Main, i, "running")
        /\ state'[Main].msgs = state[Main].msgs
    BY <1>7, DelegateIs
  <2> QED  BY <2>1, CallStarts
<1>8. CASE FinishBatch(Main)
  <2>1. loc'[Main] = "after"
    BY <1>0, <1>8 DEF FinishBatch
  <2> QED  BY <2>1, BatchOver
<1>9. CASE CollectRevived(Main)
  <2>1. loc[Main] = "resuming" /\ \E c, s : Revived(Main, c, s)
    BY <1>0, <1>9, CollectRevivedIs
  <2>2. \/ loc' = [loc EXCEPT ![Main] = "exited"] \/ loc' = [loc EXCEPT ![Main] = "turn"]
        \/ \E c : loc' = [loc EXCEPT ![c] = "spawned"]
    BY <2>1 DEF Revived
  <2>3. loc'[Main] \in {"exited", "turn", "spawned", "resuming"}
    BY <1>0, <2>1, <2>2
  <2> QED  BY <2>3, BatchOver
<1>10. CASE Propagate(Main)
  <2>1. /\ loc' = loc /\ state' = state /\ loc[Main] \in {"tools", "resuming"}
        /\ call' = [call EXCEPT ![Main] = [i \in DOMAIN @ |->
              IF @[i] = "done" \/ (@[i] = "running" /\ Batch(Main)[i].tool = "delegate")
              THEN @[i] ELSE "gone"]]
    BY <1>10 DEF Propagate
  <2>2. /\ DOMAIN call'[Main] = DOMAIN call[Main]
        /\ \A i \in DOMAIN call[Main] : call'[Main][i] \in {call[Main][i], "gone"}
    BY <1>0, <2>1
  <2> QED  BY <2>1, <2>2, CallsGoOn, BatchOver
<1>11. CASE Unwind(Main)
  <2>1. loc'[Main] = "exited"
    BY <1>0, <1>11 DEF Unwind
  <2> QED  BY <2>1, BatchOver
<1> QED  BY <1>1, <1>2, <1>3, <1>4, <1>5, <1>6, <1>7, <1>8, <1>9, <1>10, <1>11 DEF AgentStep

LEMMA AnswerBatch ==
  ASSUME TypesHold, BatchHolds, NEW q \in pending, NEW ok \in BOOLEAN, Resolve(q, ok)
  PROVE  BatchHolds'
<1>0. loc' = loc /\ Main \in Agents /\ call \in [Agents -> Seq(Statuses)]
      /\ state \in [Agents -> AgentStates] /\ state[Main] \in AgentStates
  BY AgentsAssumption DEF Resolve, TypesHold, LoopTypes
<1>1. CASE UNCHANGED <<call, state>>
  BY <1>0, <1>1, BatchStays
<1>2. CASE ~UNCHANGED <<call, state>>
  <2>1. PICK i \in DOMAIN call[Main], s \in {"running", "done"} :
              /\ call[Main][i] = "asking" /\ call' = [call EXCEPT ![Main] = [call[Main] EXCEPT ![i] = s]]
    BY <1>2, ResolveIs
  <2>2. PICK rs : state' = [state EXCEPT ![Main] = [state[Main] EXCEPT !.results = rs]]
    BY <1>2, ResolveIs
  <2>3. state'[Main].msgs = state[Main].msgs
    <3>1. [state[Main] EXCEPT !.results = rs].msgs = state[Main].msgs
      BY <1>0 DEF AgentStates
    <3> QED  BY <1>0, <2>2, <3>1
  <2>4. /\ DOMAIN call'[Main] = DOMAIN call[Main]
        /\ \A j \in DOMAIN call[Main] : j # i => call'[Main][j] = call[Main][j]
    BY <1>0, <2>1
  <2>5. loc[Main] = "tools"
    BY <1>2, ResolveIs
  <2> QED  BY <2>1, <2>3, <2>4, <2>5, CallsGoOn
<1> QED  BY <1>1, <1>2

LEMMA NoRespawn ==
  ASSUME TypesHold, TreeAgents, NEW a \in Agents
  PROVE  ~Respawns(a)
<1>1. Len(redo[a]) <= 1
  <2>1. CASE a = Main
    BY <2>1 DEF TreeAgents
  <2>2. CASE a # Main
    <3>1. redo[a] = <<>>
      BY <2>2 DEF TreeAgents, TreeOf
    <3> QED  BY <3>1
  <2> QED  BY <2>1, <2>2
<1>2. redo[a] \in Seq(Entries)
  BY DEF TypesHold, LoopTypes
<1>3. Len(redo[a]) \in Nat
  BY <1>2
<1> QED  BY <1>1, <1>3 DEF Respawns

\* A subagent has nothing to resume when it starts.
LEMMA ChildStarts ==
  ASSUME TypesHold, NumbersAgents, TreeAgents, NEW a \in Agents, ChildStart(a)
  PROVE  /\ a # Main /\ loc[a] = "spawned" /\ state[a] \in AgentStates
         /\ loc' = [loc EXCEPT ![a] = "turn"] /\ state' = [state EXCEPT ![a] = Seeded(state[a])]
         /\ redo' = [redo EXCEPT ![a] = <<>>] /\ restored' = restored \ {a}
         /\ UNCHANGED <<proc, call, child, accepted, blank, sent>>
<1>1. a # Main /\ loc[a] = "spawned" /\ Enter(a) /\ UNCHANGED <<proc, call, child, accepted, blank, sent>>
  BY DEF ChildStart, NumbersAgents, ghostVars
<1>2. state[a].resume = <<>>
  BY <1>1 DEF TreeAgents, TreeOf
<1> QED  BY <1>1, <1>2, EnterIs DEF TypesHold

LEMMA BatchStep ==
  ASSUME TypesHold, NumbersAgents, TreeAgents, OneDelegate, [Next]_vars
  PROVE  BatchHolds'
<1>0. /\ loc \in [Agents -> Locs] /\ state \in [Agents -> AgentStates] /\ Main \in Agents
      /\ BatchHolds
  BY AgentsAssumption DEF TypesHold, LoopTypes, TreeAgents
<1>1. CASE UNCHANGED <<state, loc, call>>
  BY <1>0, <1>1, BatchStays
<1>2. CASE Begin
  <2>1. loc' = [loc EXCEPT ![Main] = "turn"]
          \/ \E c \in Agents : loc' = [loc EXCEPT ![Main] = "resuming", ![c] = "spawned"]
    BY <1>0, <1>2, EnterIs DEF Begin
  <2>2. loc'[Main] \in {"turn", "resuming", "spawned"}
    BY <1>0, <2>1
  <2> QED  BY <2>2, BatchOver
<1>3. CASE Crash \/ Load
  <2>1. loc'[Main] = "unborn"
    BY <1>0, <1>3 DEF Crash, Load, Forgotten
  <2> QED  BY <2>1, BatchOver
<1>4. CASE Answering
  BY <1>0, <1>4, AnswerBatch DEF Answering
<1>5. CASE AgentStep(Main)
  BY <1>0, <1>5, MainBatch
<1>6. ASSUME NEW a \in Agents \ {Main}, AgentStep(a) PROVE BatchHolds'
  <2>1. Still \/ ChildStart(a) \/ Moves(a) \/ Unclaims(a)
    BY <1>6, AgentSteps, NoRespawn
  <2>2. CASE Still
    BY <1>1, <2>2 DEF Still
  <2>3. CASE ChildStart(a) \/ Moves(a) \/ Unclaims(a)
    <3>1. PICK y : state' = [state EXCEPT ![a] = y]
      BY <2>3, ChildStarts DEF Moves, Unclaims
    <3>2. loc'[Main] = loc[Main] /\ call'[Main] = call[Main]
      BY <1>0, <2>3, ChildStarts DEF Moves, Unclaims
    <3>3. state'[Main] = state[Main]
      BY <1>0, <3>1
    <3> QED  BY <1>0, <3>2, <3>3, BatchStays
  <2> QED  BY <2>1, <2>2, <2>3
<1>7. ASSUME NEW a \in Agents, Send(a) \/ Interrupt(a) PROVE BatchHolds'
  BY <1>0, <1>7, InputIs, BatchStays
<1>8. CASE UNCHANGED vars \/ StrayWrite \/ LastFold \/ LastWrite
  BY <1>1, <1>8 DEF vars, loopVars, StrayWrite, LastFold, LastWrite
<1> QED  BY <1>2, <1>3, <1>4, <1>5, <1>6, <1>7, <1>8 DEF Next, Over

-----------------------------------------------------------------------------
(* The tree after each step *)

\* All of it but the batch.
TreeRest ==
  /\ \A a \in Agents : TreeOf(a)
  /\ proc \in {"new", "loaded", "down"} => Idle
  /\ proc = "ending" => loc[Main] = "exited"
  /\ Len(state[Main].resume) <= 1 /\ Len(redo[Main]) <= 1
  /\ state[Main].resume # <<>> => Idle
  /\ \A n \in DOMAIN state[Main].resume :
       LET c == state[Main].resume[n].child IN c \in restored /\ state[c].phase = "live"

LEMMA TreeIs == TreeAgents <=> TreeRest /\ BatchHolds
BY DEF TreeAgents, TreeRest

LEMMA TreeStill ==
  ASSUME TreeAgents, Still
  PROVE  TreeRest'
<1>1. \A b \in Agents : Waiting(b)' = Waiting(b)
  BY WaitingStays DEF Still
<1>2. ASSUME NEW b \in Agents PROVE TreeOf(b)'
  <2>1. TreeOf(b)
    BY DEF TreeAgents
  <2>2. Waiting(b)' = Waiting(b) /\ Waiting(Main)' = Waiting(Main)
    BY <1>1, AgentsAssumption
  <2>3. UNCHANGED <<state, loc, redo>>
    BY DEF Still
  <2> QED  BY <2>1, <2>2, <2>3 DEF TreeOf, Live
<1>3. UNCHANGED <<state, loc, redo, restored>> /\ proc' \in {proc, "ended"} /\ Idle' = Idle
  BY DEF Still, Idle
<1> QED  BY <1>2, <1>3 DEF TreeAgents, TreeRest

\* Once somebody is under way nothing is left to be resumed.
LEMMA UnderWay ==
  ASSUME TypesHold, TreeAgents, NEW a \in Agents, loc[a] # "unborn"
  PROVE  state[Main].resume = <<>> /\ proc \notin {"new", "loaded", "down"}
BY DEF TreeAgents, Idle

LEMMA TreeMoves ==
  ASSUME TypesHold, TypesHold', TreeAgents, NEW a \in Agents, Moves(a)
  PROVE  TreeRest'
<1> PICK y : /\ state' = [state EXCEPT ![a] = y] /\ Goes(state[a], y)
             /\ \/ y.phase = state[a].phase
                \/ y.phase = "finished" /\ loc'[a] = "exited" /\ loc[a] # "spawned"
  BY DEF Moves
<1>0. /\ state \in [Agents -> AgentStates] /\ Main \in Agents /\ Live(a)
      /\ redo \in [Agents -> Seq(Entries)] /\ redo' \in [Agents -> Seq(Entries)]
  BY AgentsAssumption DEF TypesHold, LoopTypes, Moves, Live
<1>1. state'[a] = y /\ \A b \in Agents \ {a} : state'[b] = state[b]
  BY <1>0
<1>2. /\ state'[a].resume = state[a].resume
      /\ state'[a].phase = state[a].phase \/ (state'[a].phase = "finished" /\ loc'[a] = "exited")
  BY <1>1 DEF Goes
<1>3. \A b \in Agents \ {a} : /\ Waiting(b)' = Waiting(b) /\ redo'[b] = redo[b] /\ loc'[b] = loc[b]
  BY <1>1, WaitingStays DEF Moves
<1>4. state[Main].resume = <<>> /\ proc \notin {"new", "loaded", "down"}
  BY <1>0, UnderWay DEF Live
<1>5. state'[Main].resume = <<>>
  BY <1>1, <1>2, <1>4
<1>6. ASSUME NEW b \in Agents, Live(b)'
      PROVE  state'[b].phase = "live" /\ (b # Main => b \in Waiting(Main)')
  <2>1. Live(b)
    BY <1>0, <1>3, <1>6 DEF Live
  <2>2. state[b].phase = "live" /\ (b # Main => b \in Waiting(Main))
    BY <2>1 DEF TreeAgents, TreeOf
  <2>3. state'[b].phase = "live"
    BY <1>1, <1>2, <1>6, <2>2 DEF Live
  <2>4. b # Main => b \in Waiting(Main)'
    <3>1. CASE a = Main
      BY <2>1, <2>2, <3>1 DEF Moves, Live
    <3>2. CASE a # Main
      BY <1>0, <1>3, <2>2, <3>2
    <3> QED  BY <3>1, <3>2
  <2> QED  BY <2>3, <2>4
<1>7. ASSUME NEW b \in Agents, loc'[b] # "unborn" PROVE state'[b].phase # "unknown"
  <2>1. loc[b] # "unborn"
    BY <1>0, <1>3, <1>7 DEF Live
  <2> QED  BY <1>1, <1>2, <2>1 DEF TreeAgents, TreeOf
<1>8. ASSUME NEW b \in Agents \ {Main}
      PROVE  state'[b].resume = <<>> /\ redo'[b] = <<>> /\ Waiting(b)' = {}
  <2>1. state[b].resume = <<>> /\ redo[b] = <<>> /\ Waiting(b) = {}
    BY DEF TreeAgents, TreeOf
  <2>2. CASE b = a
    <3>1. redo'[b] = <<>>
      <4>1. Len(redo'[b]) <= 0
        BY <2>1, <2>2 DEF Moves
      <4> QED  BY <1>0, <4>1
    <3> QED  BY <1>2, <2>1, <2>2, <3>1 DEF Moves
  <2>3. CASE b # a
    BY <1>1, <1>3, <2>1, <2>3
  <2> QED  BY <2>2, <2>3
<1>9. Len(redo'[Main]) <= 1
  <2>1. CASE a = Main
    BY <1>0, <2>1 DEF TreeAgents, Moves
  <2>2. CASE a # Main
    BY <1>0, <1>3, <2>2 DEF TreeAgents
  <2> QED  BY <2>1, <2>2
<1>10. proc' \notin {"new", "loaded", "down"} /\ (proc' = "ending" => loc'[Main] = "exited")
  <2>1. CASE proc' = proc
    BY <1>0, <1>3, <1>4, <2>1 DEF TreeAgents, Live
  <2>2. CASE proc' # proc
    BY <2>2 DEF Moves
  <2> QED  BY <2>1, <2>2
<1>11. \A b \in Agents : TreeOf(b)'
  BY <1>6, <1>7, <1>8 DEF TreeOf
<1> QED  BY <1>5, <1>9, <1>10, <1>11 DEF TreeRest

\* A subagent leaves the place it was started at.
LEMMA TreeLeaves ==
  ASSUME TypesHold, TreeAgents, NEW a \in Agents \ {Main}, loc[a] = "spawned",
         NEW y, y.resume = <<>>, y.phase = "live", state' = [state EXCEPT ![a] = y],
         loc'[a] \in {"turn", "exited"}, \A b \in Agents \ {a} : loc'[b] = loc[b],
         redo'[a] = <<>>, \A b \in Agents \ {a} : redo'[b] = redo[b],
         UNCHANGED <<proc, call, child>>
  PROVE  TreeRest'
<1>0. /\ state \in [Agents -> AgentStates] /\ Main \in Agents /\ Live(a)
  BY AgentsAssumption DEF TypesHold, Live
<1>1. state'[a] = y /\ \A b \in Agents \ {a} : state'[b] = state[b]
  BY <1>0
<1>2. \A b \in Agents \ {a} : Waiting(b)' = Waiting(b)
  BY <1>1, WaitingStays
<1>3. Waiting(a)' = {} /\ Waiting(Main)' = Waiting(Main)
  BY <1>0, <1>2, WaitingOver
<1>4. ASSUME NEW b \in Agents PROVE TreeOf(b)'
  <2>1. TreeOf(b)
    BY DEF TreeAgents
  <2>2. CASE b = a
    <3>1. a \in Waiting(Main)'
      BY <1>0, <1>3, <2>1, <2>2 DEF TreeOf
    <3>2. state'[a].resume = <<>> /\ state'[a].phase = "live"
      BY <1>1
    <3> QED  BY <1>3, <2>2, <3>1, <3>2 DEF TreeOf
  <2>3. CASE b # a
    <3>1. /\ Waiting(b)' = Waiting(b) /\ state'[b] = state[b] /\ redo'[b] = redo[b]
          /\ loc'[b] = loc[b]
      BY <1>1, <1>2, <2>3
    <3> QED  BY <1>3, <2>1, <3>1 DEF TreeOf, Live
  <2> QED  BY <2>2, <2>3
<1>5. /\ state'[Main].resume = <<>> /\ proc' = proc /\ proc \notin {"new", "loaded", "down"}
      /\ loc'[Main] = loc[Main] /\ redo'[Main] = redo[Main]
  BY <1>0, <1>1, UnderWay DEF Live
<1>6. proc = "ending" => loc[Main] = "exited"
  BY DEF TreeAgents
<1>7. Len(redo[Main]) <= 1
  BY DEF TreeAgents
<1> QED  BY <1>4, <1>5, <1>6, <1>7 DEF TreeRest

LEMMA TreeSpawned ==
  ASSUME TypesHold, NumbersAgents, TreeAgents, NEW a \in Agents, ChildStart(a) \/ Unclaims(a)
  PROVE  TreeRest'
<1>0. /\ state \in [Agents -> AgentStates] /\ loc \in [Agents -> Locs] /\ loc[a] = "spawned"
      /\ redo \in [Agents -> Seq(Entries)] /\ a # Main
  BY ChildStarts DEF TypesHold, LoopTypes, Unclaims, NumbersAgents
<1>1. TreeOf(a)
  BY DEF TreeAgents
<1>2. CASE ChildStart(a)
  <2>1. Seeded(state[a]).resume = <<>> /\ Seeded(state[a]).phase = "live"
    BY <1>0, <1>1, SeededIs DEF TreeOf
  <2>2. /\ loc' = [loc EXCEPT ![a] = "turn"] /\ state' = [state EXCEPT ![a] = Seeded(state[a])]
        /\ redo' = [redo EXCEPT ![a] = <<>>] /\ UNCHANGED <<proc, call, child>>
    BY <1>2, ChildStarts
  <2>3. /\ loc'[a] = "turn" /\ \A b \in Agents \ {a} : loc'[b] = loc[b] /\ redo'[b] = redo[b]
        /\ redo'[a] = <<>>
    BY <1>0, <2>2
  <2> QED  BY <1>0, <2>1, <2>2, <2>3, TreeLeaves
<1>3. CASE Unclaims(a)
  <2> DEFINE y == Placeholder(a)
  <2>1. y.resume = <<>> /\ y.phase = "live"
    BY PlaceholderIs
  <2>2. /\ loc' = [loc EXCEPT ![a] = "exited"] /\ state' = [state EXCEPT ![a] = y]
        /\ UNCHANGED <<redo, proc, call, child>>
    BY <1>3 DEF Unclaims
  <2> HIDE DEF y
  <2>3. /\ loc'[a] = "exited" /\ \A b \in Agents \ {a} : loc'[b] = loc[b] /\ redo'[b] = redo[b]
        /\ redo'[a] = <<>>
    BY <1>0, <1>1, <2>2 DEF TreeOf
  <2> QED  BY <1>0, <2>1, <2>2, <2>3, TreeLeaves
<1> QED  BY <1>2, <1>3

LEMMA TreeInput ==
  ASSUME TypesHold, TreeAgents, NEW a \in Agents, Send(a) \/ Interrupt(a)
  PROVE  TreeRest'
<1>0. Main \in Agents
  BY AgentsAssumption
<1>1. /\ UNCHANGED <<loc, call, child, redo, proc, restored>>
      /\ \A b \in Agents : /\ state'[b].resume = state[b].resume /\ state'[b].phase = state[b].phase
                           /\ Waiting(b)' = Waiting(b)
  BY InputIs
<1>2. ASSUME NEW b \in Agents PROVE TreeOf(b)'
  <2>1. TreeOf(b) /\ Waiting(Main)' = Waiting(Main)
    BY <1>0, <1>1 DEF TreeAgents
  <2> QED  BY <1>1, <2>1 DEF TreeOf, Live
<1>3. ASSUME NEW n \in DOMAIN state'[Main].resume
      PROVE  LET c == state'[Main].resume[n].child
             IN  c \in restored' /\ state'[c].phase = "live"
  <2>1. n \in DOMAIN state[Main].resume /\ state'[Main].resume[n] = state[Main].resume[n]
    BY <1>0, <1>1
  <2>2. state[Main].resume[n].child \in restored /\ state[state[Main].resume[n].child].phase = "live"
    BY <2>1 DEF TreeAgents
  <2>3. restored \subseteq Agents
    BY DEF TypesHold, ProcTypes
  <2> QED  BY <1>1, <2>1, <2>2, <2>3
<1>4. Idle' = Idle /\ state'[Main].resume = state[Main].resume
  BY <1>0, <1>1 DEF Idle
<1> QED  BY <1>1, <1>2, <1>3, <1>4 DEF TreeAgents, TreeRest

LEMMA TreeDelegate ==
  ASSUME TypesHold, NumbersAgents, TreeAgents, NEW i \in DOMAIN call[Main], Delegate(i)
  PROVE  TreeRest'
<1> PICK c : c = Kids[state[Main].kids + 1]
  OBVIOUS
<1>0. Main \in Agents
  BY AgentsAssumption
<1>1. /\ c \in Agents \ {Main} /\ state[c].phase = "unknown" /\ loc[c] = "unborn"
      /\ state'[c] = [NewState EXCEPT !.phase = "live"] /\ loc'[c] = "spawned"
      /\ \A b \in Agents \ {c, Main} : state'[b] = state[b]
      /\ \A b \in Agents \ {c} : loc'[b] = loc[b]
      /\ state'[Main].resume = state[Main].resume /\ state'[Main].phase = state[Main].phase
      /\ loc[Main] = "tools" /\ UNCHANGED <<proc, redo>>
      /\ Waiting(Main)' = Waiting(Main) \cup {c}
      /\ \A b \in Agents \ {Main, c} : Waiting(b)' = Waiting(b)
      /\ Waiting(c)' = {}
  BY DelegateIs
<1>2. state'[c].phase = "live" /\ state'[c].resume = <<>>
  BY <1>1, NewStateIs
<1>3. ASSUME NEW b \in Agents PROVE TreeOf(b)'
  <2>1. TreeOf(b)
    BY DEF TreeAgents
  <2>2. CASE b = c
    <3>1. redo[c] = <<>>
      BY <1>1, <2>1, <2>2 DEF TreeOf
    <3> QED  BY <1>1, <1>2, <2>2, <3>1 DEF TreeOf
  <2>3. CASE b = Main
    <3>1. loc'[Main] = loc[Main] /\ state'[Main].phase = state[Main].phase
      BY <1>0, <1>1
    <3> QED  BY <2>1, <2>3, <3>1 DEF TreeOf, Live
  <2>4. CASE b \notin {c, Main}
    <3>1. /\ loc'[b] = loc[b] /\ state'[b] = state[b] /\ redo'[b] = redo[b]
          /\ Waiting(b)' = Waiting(b)
      BY <1>1, <2>4
    <3> QED  BY <1>1, <2>1, <3>1 DEF TreeOf, Live
  <2> QED  BY <2>2, <2>3, <2>4
<1>4. state[Main].resume = <<>> /\ proc \notin {"new", "loaded", "down"} /\ proc # "ending"
  BY <1>0, <1>1, UnderWay DEF TreeAgents
<1>5. state'[Main].resume = <<>>
  BY <1>1, <1>4
<1>6. Len(redo[Main]) <= 1
  BY DEF TreeAgents
<1> QED  BY <1>1, <1>3, <1>4, <1>5, <1>6 DEF TreeRest

\* The main agent's first step: the one child it has to resume is under way with it.
LEMMA TreeBegin ==
  ASSUME TypesHold, NumbersAgents, TreeAgents, Begin
  PROVE  TreeRest'
<1> PICK m : m = state[Main]
  OBVIOUS
<1> DEFINE s == Seeded(m)
<1>0. /\ state \in [Agents -> AgentStates] /\ loc \in [Agents -> Locs] /\ Main \in Agents
      /\ redo \in [Agents -> Seq(Entries)] /\ Idle /\ Enter(Main) /\ proc' = "up"
      /\ UNCHANGED <<call, child>> /\ m \in AgentStates /\ m.resume \in Seq(Entries)
  BY AgentsAssumption DEF TypesHold, LoopTypes, TreeAgents, Begin, AgentStates
<1>1. s \in AgentStates /\ s.phase = "live" /\ s.resume = m.resume
  BY <1>0, SeededIs
<1> HIDE DEF s
<1>2. redo' = [redo EXCEPT ![Main] = m.resume]
  BY <1>0, EnterIs
<1>3. redo'[Main] = m.resume /\ Len(m.resume) <= 1 /\ \A b \in Agents \ {Main} : redo'[b] = redo[b]
  BY <1>0, <1>2 DEF TreeAgents
<1>4. ASSUME NEW b \in Agents \ {Main}, loc'[b] \in {"unborn", "spawned"},
             state'[b] = state[b], Live(b)' => b \in Waiting(Main)' /\ state[b].phase = "live"
      PROVE  TreeOf(b)'
  <2>1. TreeOf(b)
    BY DEF TreeAgents
  <2>2. Waiting(b)' = {}
    BY <1>4 DEF Waiting
  <2>3. loc'[b] # "unborn" => state'[b].phase # "unknown"
    BY <1>4 DEF Live
  <2> QED  BY <1>3, <1>4, <2>1, <2>2, <2>3 DEF TreeOf
<1>5. CASE m.resume = <<>> /\ loc' = [loc EXCEPT ![Main] = "turn"]
           /\ state' = [state EXCEPT ![Main] = s]
  <2>1. /\ loc'[Main] = "turn" /\ \A b \in Agents \ {Main} : loc'[b] = "unborn" /\ state'[b] = state[b]
        /\ state'[Main] = s
    BY <1>0, <1>5 DEF Idle
  <2>2. \A b \in Agents \ {Main} : TreeOf(b)'
    BY <1>4, <2>1 DEF Live
  <2>3. TreeOf(Main)'
    BY <1>1, <2>1 DEF TreeOf
  <2>4. state'[Main].resume = <<>>
    BY <1>1, <1>5, <2>1
  <2> QED  BY <1>0, <1>3, <2>2, <2>3, <2>4 DEF TreeRest
<1>6. CASE m.resume # <<>>
  <2> PICK c : c = Head(m.resume).child
    OBVIOUS
  <2> DEFINE y == [s EXCEPT !.resume = <<>>]
             st == [state EXCEPT ![Main] = y]
  <2>1. /\ c \in Agents /\ loc' = [loc EXCEPT ![Main] = "resuming", ![c] = "spawned"]
        /\ state' = Registered(st, c)
    BY <1>0, <1>6, EnterIs DEF s
  <2>2. 1 \in DOMAIN m.resume /\ m.resume[1] = Head(m.resume)
    BY <1>0, <1>6
  <2>3. c \in restored /\ state[c].phase = "live" /\ c # Main
    <3>1. c \in restored /\ state[c].phase = "live"
      BY <2>2 DEF TreeAgents
    <3>2. c \in Given(state[Main].kids)
      BY <1>0, <2>2 DEF NumbersAgents, NumbersOf
    <3> QED  BY <3>1, <3>2, KnownType
  <2>4. y.resume = <<>> /\ y.phase = "live"
    <3>1. s \in AgentStates /\ s.phase = "live"
      BY <1>1
    <3> HIDE DEF s
    <3> QED  BY ONLY <3>1 DEF AgentStates
  <2> HIDE DEF y
  <2>5. state' = st
    BY <2>1, <2>3 DEF Registered
  <2>6. /\ loc'[Main] = "resuming" /\ loc'[c] = "spawned" /\ state'[Main] = y
        /\ \A b \in Agents \ {Main} : state'[b] = state[b]
        /\ \A b \in Agents \ {Main, c} : loc'[b] = "unborn"
    BY <1>0, <2>1, <2>3, <2>5 DEF Idle
  <2>7. Waiting(Main)' = {c}
    BY <1>3, <2>6 DEF Waiting, Awaited
  <2>8. \A b \in Agents \ {Main} : TreeOf(b)'
    BY <1>4, <2>3, <2>6, <2>7 DEF Live
  <2>9. TreeOf(Main)'
    BY <2>4, <2>6 DEF TreeOf
  <2>10. state'[Main].resume = <<>>
    BY <2>4, <2>6
  <2> QED  BY <1>0, <1>3, <2>8, <2>9, <2>10 DEF TreeRest
<1> QED  BY <1>0, <1>5, <1>6, EnterIs DEF s

LEMMA TreeIdle ==
  ASSUME \A a \in Agents : loc'[a] = "unborn" /\ redo'[a] = <<>>,
         \A a \in Agents \ {Main} : state'[a].resume = <<>>,
         proc' # "ending", Len(state'[Main].resume) <= 1,
         \A n \in DOMAIN state'[Main].resume :
           LET c == state'[Main].resume[n].child IN c \in restored' /\ state'[c].phase = "live"
  PROVE  TreeRest'
<1>1. \A a \in Agents : Waiting(a)' = {}
  BY DEF Waiting
<1>2. \A a \in Agents : TreeOf(a)'
  BY <1>1 DEF TreeOf, Live
<1> QED  BY <1>2, AgentsAssumption DEF TreeRest, Idle

LEMMA TreeCrash ==
  ASSUME TypesHold, TreeHolds, Crash \/ Load
  PROVE  TreeRest'
<1>0. (\A a \in Agents : loc'[a] = "unborn" /\ redo'[a] = <<>>) /\ Main \in Agents
  BY AgentsAssumption DEF Crash, Load, Forgotten
<1>1. CASE Crash
  <2>1. (\A a \in Agents : state'[a].resume = <<>>) /\ proc' # "ending"
    BY <1>1, NewStateIs DEF Crash
  <2> QED  BY <1>0, <2>1, TreeIdle
<1>2. CASE Load
  <2>1. disk \in Documents /\ state' = [a \in Agents |-> Reconciled(disk, a)]
    BY <1>2, LoadIs
  <2>2. TreeDoc(disk) /\ ~disk.over
    BY <1>2 DEF Load, TreeHolds, Docs
  <2>3. /\ \A a \in Agents : disk.agents[a].resume = <<>> /\ disk.kids[a] \in Seq(Agents)
        /\ \A a \in Agents \ {Main} : disk.kids[a] = <<>>
        /\ Len(disk.kids[Main]) <= 1
        /\ \A n \in DOMAIN disk.kids[Main] : disk.agents[disk.kids[Main][n]].phase = "live"
    BY <2>1, <2>2 DEF TreeDoc, Documents
  <2>4. ASSUME NEW a \in Agents
        PROVE  /\ state'[a].phase = disk.agents[a].phase
               /\ state'[a].resume \in Seq(Entries)
               /\ Len(state'[a].resume) = 0 \/ Len(state'[a].resume) = Len(disk.kids[a])
               /\ \A n \in DOMAIN state'[a].resume : \E k \in DOMAIN disk.kids[a] :
                     state'[a].resume[n].child = disk.kids[a][k]
    <3>1. state'[a] = Reconciled(disk, a)
      BY <2>1
    <3>2. /\ Reconciled(disk, a) \in AgentStates
          /\ Reconciled(disk, a).phase = disk.agents[a].phase
          /\ \/ Reconciled(disk, a).resume = disk.agents[a].resume
             \/ /\ Len(Reconciled(disk, a).resume)
                     = Len(disk.agents[a].resume) + Len(disk.kids[a])
                /\ \A n \in DOMAIN Reconciled(disk, a).resume :
                        \/ n \in DOMAIN disk.agents[a].resume
                        \/ \E k \in DOMAIN disk.kids[a] :
                             Reconciled(disk, a).resume[n].child = disk.kids[a][k]
      BY <2>1, ReconciledIs
    <3>3. Reconciled(disk, a).resume \in Seq(Entries)
      BY <3>2 DEF AgentStates
    <3>4. disk.agents[a].resume = <<>> /\ Len(disk.kids[a]) \in Nat
      BY <2>3
    <3> QED  BY <3>1, <3>2, <3>3, <3>4
  <2>5. ASSUME NEW a \in Agents \ {Main} PROVE state'[a].resume = <<>>
    <3>1. Len(disk.kids[a]) = 0
      BY <2>3
    <3>2. state'[a].resume \in Seq(Entries) /\ Len(state'[a].resume) = 0
      BY <2>4, <3>1
    <3> QED  BY <3>2
  <2>6. Len(state'[Main].resume) <= 1
    <3>1. /\ Len(state'[Main].resume) = 0 \/ Len(state'[Main].resume) = Len(disk.kids[Main])
          /\ Len(disk.kids[Main]) <= 1
      BY <1>0, <2>3, <2>4
    <3> QED  BY <3>1
  <2>7. ASSUME NEW n \in DOMAIN state'[Main].resume
        PROVE  LET c == state'[Main].resume[n].child IN c \in restored' /\ state'[c].phase = "live"
    <3>1. PICK k \in DOMAIN disk.kids[Main] : state'[Main].resume[n].child = disk.kids[Main][k]
      BY <1>0, <2>4
    <3>2. disk.kids[Main][k] \in Agents /\ disk.agents[disk.kids[Main][k]].phase = "live"
      BY <1>0, <2>3
    <3>3. restored' = {a \in Agents : disk.agents[a].phase = "live"}
      BY <1>2 DEF Load
    <3> QED  BY <2>4, <3>1, <3>2, <3>3
  <2>8. proc' # "ending"
    BY <1>2 DEF Load
  <2> QED  BY <1>0, <2>5, <2>6, <2>7, <2>8, TreeIdle
<1> QED  BY <1>1, <1>2

LEMMA TreeInit == Init => TreeHolds
<1> SUFFICES ASSUME Init PROVE TreeHolds
  OBVIOUS
<1>1. \A a \in Agents : /\ state[a].phase = "unknown" /\ state[a].resume = <<>>
                        /\ loc[a] = "unborn" /\ redo[a] = <<>> /\ Waiting(a) = {}
  BY NewStateIs DEF Init, Waiting
<1>2. Docs = {} /\ Main \in Agents /\ proc = "new"
  BY AgentsAssumption DEF Init, Docs
<1>3. Len(state[Main].resume) <= 1 /\ Len(redo[Main]) <= 1 /\ DOMAIN state[Main].resume = {}
  BY <1>1, <1>2
<1> QED  BY <1>1, <1>2, <1>3 DEF TreeHolds, TreeAgents, TreeOf, Live, Idle, BatchHolds

LEMMA TreeStep ==
  ASSUME TypesHold, NumbersHold, TreeHolds, OneDelegate, [Next]_vars
  PROVE  TreeAgents'
<1>1. TypesHold' /\ Steps /\ NumbersAgents /\ TreeAgents
  BY TypesStay, EveryStep DEF NumbersHold, TreeHolds
<1>2. TreeRest'
  <2>1. ASSUME NEW a \in Agents, ChildStart(a) \/ Unclaims(a) PROVE TreeRest'
    BY <1>1, <2>1, TreeSpawned
  <2>2. CASE Begin
    BY <1>1, <2>2, TreeBegin
  <2>3. ASSUME NEW a \in Agents, Moves(a) PROVE TreeRest'
    BY <1>1, <2>3, TreeMoves
  <2>4. ASSUME NEW a \in Agents, Respawns(a) PROVE TreeRest'
    BY <1>1, <2>4, NoRespawn
  <2>5. ASSUME NEW a \in Agents, Send(a) \/ Interrupt(a) PROVE TreeRest'
    BY <1>1, <2>5, TreeInput
  <2>6. ASSUME NEW i \in DOMAIN call[Main], Delegate(i) PROVE TreeRest'
    BY <1>1, <2>6, TreeDelegate
  <2>7. CASE Still
    BY <1>1, <2>7, TreeStill
  <2>8. CASE Crash \/ Load
    BY <2>8, TreeCrash
  <2> QED  BY <1>1, <2>1, <2>2, <2>3, <2>4, <2>5, <2>6, <2>7, <2>8 DEF Steps
<1>3. BatchHolds'
  BY <1>1, BatchStep
<1> QED  BY <1>2, <1>3 DEF TreeAgents, TreeRest

-----------------------------------------------------------------------------
(* A session folded from such a tree *)

Delegating(i) == i \in DOMAIN call[Main] /\ Batch(Main)[i].tool = "delegate" /\ call[Main][i] = "running"

LEMMA OneDelegating ==
  ASSUME TypesHold, TreeAgents, loc[Main] = "tools", NEW i, NEW j, Delegating(i), Delegating(j)
  PROVE  i = j
<1>1. DOMAIN call[Main] = DOMAIN Batch(Main)
  BY BatchType, AgentsAssumption
<1> QED  BY <1>1 DEF Delegating, TreeAgents, BatchHolds

LEMMA WaitingIs ==
  ASSUME TypesHold, NEW c \in Waiting(Main)
  PROVE  \/ loc[Main] = "resuming" /\ c = Head(redo[Main]).child
         \/ loc[Main] = "tools" /\ \E i : Delegating(i) /\ c = child[Main][i]
BY DEF Waiting, Awaited, Delegating

\* The main agent waits for one agent at most.
LEMMA OneWaited ==
  ASSUME TypesHold, TreeAgents, NEW c \in Waiting(Main), NEW d \in Waiting(Main)
  PROVE  c = d
BY WaitingIs, OneDelegating

\* While the main agent writes a checkpoint no delegate of it is in flight.
LEMMA FoldAlone ==
  ASSUME TypesHold, TreeAgents, NEW a \in Agents, Fold(a), NEW c \in Waiting(Main)
  PROVE  a = c
<1>1. Main \in Agents /\ (loc[a] \in SafeLocs \/ Requesting(a))
  BY AgentsAssumption DEF Fold
<1>2. CASE a = Main
  <2>1. loc[Main] \in {"tools", "resuming"}
    BY DEF Waiting
  <2>2. loc[Main] = "tools" /\ \E i \in DOMAIN call[Main] : call[Main][i] = "requesting"
    BY <1>2, <2>1 DEF Fold, SafeLocs, Requesting
  <2>3. PICK i \in DOMAIN call[Main] : call[Main][i] = "requesting"
    BY <2>2
  <2>4. PICK j : Delegating(j)
    BY <2>2, WaitingIs
  <2>5. Batch(Main)[i].tool = "gated"
    BY <1>1, <2>2, <2>3, AgentsAssumption DEF TypesHold, TurnHolds
  <2>6. i # j /\ call[Main][j] = "running" /\ j \in DOMAIN call[Main]
    BY <2>3, <2>4 DEF Delegating
  <2>7. call[Main] \in Seq(Statuses)
    BY AgentsAssumption DEF TypesHold, LoopTypes
  <2>8. i < j \/ j < i
    BY <2>3, <2>6, <2>7
  <2> QED  BY <2>2, <2>3, <2>5, <2>6, <2>8 DEF TreeAgents, BatchHolds
<1>3. CASE a # Main
  <2>1. Live(a)
    BY <1>1 DEF SafeLocs, Requesting, Live
  <2>2. a \in Waiting(Main)
    BY <1>3, <2>1 DEF TreeAgents, TreeOf
  <2> QED  BY <2>2, OneWaited
<1> QED  BY <1>2, <1>3

LEMMA InflightWaited ==
  ASSUME TypesHold, NEW a \in Agents, NEW n \in DOMAIN InflightKids(a)
  PROVE  InflightKids(a)[n] \in Waiting(a)
<1>1. CASE loc[a] = "resuming" /\ InflightKids(a)[n] = Head(redo[a]).child
  BY <1>1 DEF Waiting, Awaited
<1>2. CASE /\ loc[a] = "tools"
           /\ \E i \in DOMAIN call[a] : /\ Batch(a)[i].tool = "delegate"
                                        /\ call[a][i] = "running" /\ i \in DOMAIN child[a]
                                        /\ InflightKids(a)[n] = child[a][i]
  BY <1>2 DEF Waiting, Awaited
<1> QED  BY <1>1, <1>2, InflightType

LEMMA OneInflight ==
  ASSUME TypesHold, TreeAgents
  PROVE  Len(InflightKids(Main)) <= 1
<1>0. call[Main] \in Seq(Statuses)
  BY AgentsAssumption DEF TypesHold, LoopTypes
<1>1. CASE loc[Main] = "tools"
  <2> DEFINE ids == [i \in DOMAIN call[Main] |-> i]
             P == {i \in DOMAIN call[Main] :
                     Batch(Main)[i].tool = "delegate" /\ call[Main][i] = "running"}
             waits == Picked(ids, P)
  <2>1. InflightKids(Main) = [n \in DOMAIN waits |-> child[Main][waits[n]]]
    BY <1>1 DEF InflightKids
  <2>2. ids \in Seq(Nat)
    BY <1>0
  <2>3. \A i, j \in P : i = j
    BY <1>1, OneDelegating DEF Delegating
  <2>4. \A n \in DOMAIN ids : n \in P => ids[n] \in Nat
    BY <1>0
  <2> HIDE DEF ids, P
  <2>5. Len(waits) <= 1
    BY <2>2, <2>3, PickedOnce
  <2>6. waits \in Seq(Nat)
    BY <2>2, <2>4, PickedFrom
  <2> HIDE DEF waits
  <2>7. DOMAIN waits = 1..Len(waits) /\ Len(waits) \in Nat
    BY <2>6
  <2>8. Len([n \in DOMAIN waits |-> child[Main][waits[n]]]) = Len(waits)
    BY <2>7
  <2> QED  BY <2>1, <2>5, <2>8
<1>2. CASE loc[Main] = "resuming"
  BY <1>2 DEF InflightKids
<1>3. CASE loc[Main] \notin {"tools", "resuming"}
  BY <1>3 DEF InflightKids
<1> QED  BY <1>1, <1>2, <1>3

LEMMA SessionTree ==
  ASSUME TypesHold, TreeAgents, NEW a \in Agents, Fold(a)
  PROVE  TreeDoc(Session)
<1> PICK d : d = Session
  OBVIOUS
<1>0. /\ Main \in Agents /\ d.over = (proc = "ending") /\ Live(a) /\ state[Main].resume = <<>>
      /\ \A b \in Agents : /\ d.kids[b] = InflightKids(b) /\ InflightKids(b) \in Seq(Agents)
                           /\ d.agents[b] = IF Covered(b) THEN Placeholder(b) ELSE state[b]
  <2>1. Live(a)
    BY DEF Fold, SafeLocs, Requesting, Live
  <2> QED  BY <2>1, SessionType, InflightType, UnderWay, AgentsAssumption DEF Live
<1>1. ASSUME NEW b \in Agents
      PROVE  d.agents[b].resume = <<>> /\ (b # Main => d.kids[b] = <<>>)
  <2>1. state[b].resume = <<>>
    BY <1>0 DEF TreeAgents, TreeOf
  <2>2. b # Main => d.kids[b] = <<>>
    <3> SUFFICES ASSUME b # Main PROVE InflightKids(b) = <<>>
      BY <1>0
    <3>1. Waiting(b) = {}
      BY DEF TreeAgents, TreeOf
    <3>2. \A n \in DOMAIN InflightKids(b) : FALSE
      BY <3>1, InflightWaited
    <3>3. PICK q \in Seq(Agents) : q = InflightKids(b)
      BY <1>0
    <3>4. Len(q) = 0
      BY <3>2, <3>3
    <3> QED  BY <3>3, <3>4
  <2> QED  BY <1>0, <2>1, <2>2, PlaceholderIs
<1>2. ASSUME NEW n \in DOMAIN d.kids[Main] PROVE d.agents[d.kids[Main][n]].phase = "live"
  <2>1. d.kids[Main][n] \in Waiting(Main)
    BY <1>0, <1>2, InflightWaited
  <2>2. d.kids[Main][n] = a
    BY <2>1, FoldAlone
  <2>3. state[a].phase = "live"
    BY <1>0 DEF TreeAgents, TreeOf
  <2> QED  BY <1>0, <2>2, <2>3, PlaceholderIs
<1>3. Len(d.kids[Main]) <= 1
  BY <1>0, OneInflight
<1> QED  BY <1>1, <1>2, <1>3 DEF TreeDoc

LEMMA TreeStay ==
  ASSUME TypesHold, NumbersHold, TreeHolds, OneDelegate, [Next]_vars
  PROVE  TreeHolds'
<1>1. TreeAgents /\ \A d \in Docs : TreeDoc(d)
  BY DEF TreeHolds
<1>2. ASSUME NEW a \in Agents, Fold(a), cp'.session = Session PROVE TreeDoc(cp'.session)
  BY <1>1, <1>2, SessionTree
<1>3. ASSUME LastFold, cp'.session = [Session EXCEPT !.pending = {}] PROVE TreeDoc(cp'.session)
  <2>1. cp'.session.over = TRUE
    BY <1>3 DEF LastFold, Session
  <2> QED  BY <2>1 DEF TreeDoc
<1>4. \A d \in Docs' : TreeDoc(d)
  BY <1>1, <1>2, <1>3, EveryDoc
<1>5. TreeAgents'
  BY TreeStep
<1> QED  BY <1>4, <1>5 DEF TreeHolds

-----------------------------------------------------------------------------
(* The texts accepted for an agent *)

\* The texts of x are in the order typed, and none is later than k.
Ordered(x, k) ==
  \A i, j \in DOMAIN Said(x) : Said(x)[i] <= k /\ (i < j => Said(x)[i] < Said(x)[j])
\* Nothing was ever said to an agent nobody knows.
Blank(x) == x.phase = "unknown" => Said(x) = <<>>
TextsOf(a) ==
  /\ Ordered(state[a], sent) /\ Blank(state[a]) /\ Ordered(Placeholder(a), sent)
  /\ Unclaimed(a) \/ \A t \in accepted : t[1] = a => t[2] \in ToSet(Said(state[a])) \cup ToSet(blank[a])
TextsDoc(d, k) == \A a \in Agents : Ordered(d.agents[a], k) /\ Blank(d.agents[a])
TextsHold == (\A a \in Agents : TextsOf(a)) /\ \A d \in Docs : TextsDoc(d, sent)

LEMMA OrderedLater ==
  ASSUME NEW x \in AgentStates, NEW k \in Nat, NEW n \in Nat, k <= n, Ordered(x, k)
  PROVE  Ordered(x, n)
<1> PICK s \in Seq(Nat) : s = Said(x)
  BY SaidType
<1>1. \A i, j \in DOMAIN s : s[i] <= k /\ (i < j => s[i] < s[j])
  BY DEF Ordered
<1>2. \A i \in DOMAIN s : s[i] \in Nat
  OBVIOUS
<1>3. \A i \in DOMAIN s : s[i] <= n
  BY <1>1, <1>2
<1> QED  BY <1>1, <1>3 DEF Ordered

LEMMA NothingSaid ==
  ASSUME NEW x, Said(x) = <<>>
  PROVE  /\ \A k : Ordered(x, k)
         /\ Blank(x)
BY DEF Ordered, Blank

\* What is said to an agent next is later than all it was told.
LEMMA OrderedAppend ==
  ASSUME NEW x \in AgentStates, NEW y, NEW k \in Nat, Ordered(x, k),
         Said(y) = Append(Said(x), k + 1)
  PROVE  Ordered(y, k + 1) /\ ToSet(Said(y)) = ToSet(Said(x)) \cup {k + 1}
<1> PICK s \in Seq(Nat) : s = Said(x)
  BY SaidType
<1> DEFINE t == Append(s, k + 1)
<1>1. \A i, j \in DOMAIN s : s[i] <= k /\ (i < j => s[i] < s[j])
  BY DEF Ordered
<1>2. /\ DOMAIN s = 1..Len(s) /\ Len(s) \in Nat /\ DOMAIN t = 1..(Len(s) + 1)
      /\ \A i \in DOMAIN s : s[i] \in Nat
      /\ \A i \in DOMAIN t : t[i] = IF i = Len(s) + 1 THEN k + 1 ELSE s[i]
  OBVIOUS
<1> HIDE DEF t
<1>3. \A i \in DOMAIN t : i = Len(s) + 1 \/ i \in DOMAIN s
  BY <1>2
<1>4. ASSUME NEW i \in DOMAIN t PROVE t[i] <= k + 1
  <2>1. CASE i = Len(s) + 1
    <3>1. t[i] = k + 1 /\ k + 1 \in Nat
      BY <1>2, <2>1
    <3>2. k + 1 <= k + 1
      OBVIOUS
    <3> QED  BY <3>1, <3>2
  <2>2. CASE i # Len(s) + 1
    <3>1. t[i] = s[i] /\ s[i] <= k /\ s[i] \in Nat
      BY <1>1, <1>2, <1>3, <2>2
    <3> QED  BY <3>1
  <2> QED  BY <2>1, <2>2
<1>5. ASSUME NEW i \in DOMAIN t, NEW j \in DOMAIN t, i < j PROVE t[i] < t[j]
  <2>1. i \in DOMAIN s /\ i # Len(s) + 1
    BY <1>2, <1>3, <1>5
  <2>2. t[i] = s[i] /\ s[i] <= k /\ s[i] \in Nat
    BY <1>1, <1>2, <2>1
  <2>3. CASE j = Len(s) + 1
    <3>1. t[j] = k + 1
      BY <1>2, <2>3
    <3> QED  BY <2>2, <3>1
  <2>4. CASE j # Len(s) + 1
    <3>1. t[j] = s[j] /\ j \in DOMAIN s
      BY <1>2, <1>3, <2>4
    <3> QED  BY <1>1, <1>5, <2>1, <2>2, <3>1
  <2> QED  BY <2>3, <2>4
<1>6. {t[i] : i \in DOMAIN t} = {s[i] : i \in DOMAIN s} \cup {k + 1}
  <2>1. Len(s) + 1 \in DOMAIN t /\ DOMAIN s \subseteq DOMAIN t
    BY <1>2
  <2>2. \A i \in DOMAIN s : t[i] = s[i]
    BY <1>2
  <2> QED  BY <1>2, <1>3, <2>1, <2>2
<1>7. Said(y) = t
  BY DEF t
<1> QED  BY <1>4, <1>5, <1>6, <1>7 DEF Ordered, ToSet

\* An agent that is entered is told its task before anything else, and once.
LEMMA SeededTexts ==
  ASSUME NEW x \in AgentStates, NEW k \in Nat, Ordered(x, k)
  PROVE  Ordered(Seeded(x), k) /\ ToSet(Said(x)) \subseteq ToSet(Said(Seeded(x)))
<1>1. CASE x.msgs # <<>>
  <2>1. Said(Seeded(x)) = Said(x)
    BY <1>1, SeededIs
  <2> QED  BY <2>1 DEF Ordered
<1>2. CASE x.msgs = <<>>
  <2> PICK s \in Seq(Nat \ {0}) : s = x.inj
    BY DEF AgentStates
  <2> DEFINE t == <<0>> \o s
  <2>1. Said(x) = s
    BY <1>2, NoTexts DEF Said
  <2>2. Said(Seeded(x)) = t
    BY <1>2, SeededIs
  <2>3. \A i, j \in DOMAIN s : s[i] <= k /\ (i < j => s[i] < s[j])
    BY <2>1 DEF Ordered
  <2>4. /\ DOMAIN s = 1..Len(s) /\ Len(s) \in Nat /\ DOMAIN t = 1..(Len(s) + 1)
        /\ \A i \in DOMAIN t : t[i] = IF i = 1 THEN 0 ELSE s[i - 1]
        /\ \A i \in DOMAIN s : s[i] \in Nat \ {0}
    OBVIOUS
  <2> HIDE DEF t
  <2>5. \A i \in DOMAIN t : i \in Nat /\ (i = 1 \/ i - 1 \in DOMAIN s)
    BY <2>4
  <2>6. ASSUME NEW i \in DOMAIN t PROVE t[i] <= k
    <3>1. t[i] = 0 \/ (i - 1 \in DOMAIN s /\ t[i] = s[i - 1])
      BY <2>4, <2>5
    <3> QED  BY <2>3, <3>1
  <2>7. ASSUME NEW i \in DOMAIN t, NEW j \in DOMAIN t, i < j PROVE t[i] < t[j]
    <3>1. j # 1 /\ j - 1 \in DOMAIN s /\ t[j] = s[j - 1]
      BY <2>4, <2>5, <2>7
    <3>2. CASE i = 1
      <4>1. t[i] = 0 /\ s[j - 1] \in Nat \ {0}
        BY <2>4, <3>1, <3>2
      <4> QED  BY <3>1, <4>1
    <3>3. CASE i # 1
      <4>1. t[i] = s[i - 1] /\ i - 1 \in DOMAIN s /\ i - 1 < j - 1
        BY <2>4, <2>5, <2>7, <3>3
      <4> QED  BY <2>3, <3>1, <4>1
    <3> QED  BY <3>2, <3>3
  <2>8. ASSUME NEW i \in DOMAIN s PROVE s[i] \in {t[j] : j \in DOMAIN t}
    <3>1. i + 1 \in DOMAIN t /\ i + 1 # 1 /\ (i + 1) - 1 = i
      BY <2>4
    <3> QED  BY <2>4, <3>1
  <2> QED  BY <2>1, <2>2, <2>6, <2>7, <2>8 DEF Ordered, ToSet
<1> QED  BY <1>1, <1>2

\* An agent that is told no more and known no less.
LEMMA TextsKept ==
  ASSUME NEW b \in Agents, TextsOf(b), UNCHANGED <<accepted, blank, sent>>,
         Said(state'[b]) = Said(state[b]), state'[b].phase = "unknown" => state[b].phase = "unknown",
         Unclaimed(b) => Unclaimed(b)'
  PROVE  TextsOf(b)'
<1>1. Ordered(state'[b], sent') /\ Blank(state'[b])
  BY DEF TextsOf, Ordered, Blank
<1>2. Ordered(Placeholder(b)', sent')
  BY DEF TextsOf, Placeholder
<1>3. \/ Unclaimed(b)'
      \/ \A t \in accepted' : t[1] = b => t[2] \in ToSet(Said(state'[b])) \cup ToSet(blank'[b])
  BY DEF TextsOf
<1> QED  BY <1>1, <1>2, <1>3 DEF TextsOf

LEMMA StillTexts ==
  ASSUME TextsHold, Still
  PROVE  \A b \in Agents : TextsOf(b)'
<1>1. \A b \in Agents : Unclaimed(b)' = Unclaimed(b)
  BY DEF Still, Unclaimed
<1> QED  BY <1>1, TextsKept DEF Still, TextsHold

LEMMA MovesTexts ==
  ASSUME TypesHold, TreeAgents, TextsHold, NEW a \in Agents, Moves(a)
  PROVE  \A b \in Agents : TextsOf(b)'
<1> PICK y : /\ state' = [state EXCEPT ![a] = y] /\ Goes(state[a], y)
             /\ \/ y.phase = state[a].phase
                \/ y.phase = "finished" /\ loc'[a] = "exited" /\ loc[a] # "spawned"
  BY DEF Moves
<1>0. state \in [Agents -> AgentStates]
  BY DEF TypesHold
<1>1. ASSUME NEW b \in Agents PROVE TextsOf(b)'
  <2>1. TextsOf(b) /\ UNCHANGED <<accepted, blank, sent, restored>>
    BY DEF TextsHold, Moves
  <2>2. CASE b = a
    <3>1. ~Unclaimed(a)
      BY DEF Unclaimed, Moves
    <3>2. Said(state'[a]) = Said(state[a]) /\ state'[a] = y
      BY <1>0 DEF Goes
    <3>3. state'[a].phase = "unknown" => state[a].phase = "unknown"
      BY <3>2
    <3> QED  BY <2>1, <2>2, <3>1, <3>2, <3>3, TextsKept
  <2>3. CASE b # a
    <3>1. state'[b] = state[b] /\ loc'[b] = loc[b]
      BY <1>0, <2>3 DEF Moves
    <3>2. Unclaimed(b)' = Unclaimed(b)
      BY <2>1, <3>1 DEF Unclaimed
    <3> QED  BY <2>1, <3>1, <3>2, TextsKept
  <2> QED  BY <2>2, <2>3
<1> QED  BY <1>1

\* An agent starts, with its task, or ends before it has started.
LEMMA SpawnedTexts ==
  ASSUME TypesHold, NumbersAgents, TreeAgents, TextsHold, NEW a \in Agents,
         ChildStart(a) \/ Unclaims(a)
  PROVE  \A b \in Agents : TextsOf(b)'
<1>0. /\ state \in [Agents -> AgentStates] /\ loc \in [Agents -> Locs] /\ sent \in Nat
      /\ loc[a] = "spawned" /\ UNCHANGED <<accepted, blank, sent>> /\ ~Unclaimed(a) /\ TextsOf(a)
  BY ChildStarts DEF TypesHold, LoopTypes, GhostTypes, Unclaims, TextsHold, Unclaimed
<1>1. CASE ChildStart(a)
  <2>1. /\ loc' = [loc EXCEPT ![a] = "turn"] /\ state' = [state EXCEPT ![a] = Seeded(state[a])]
        /\ restored' = restored \ {a}
    BY <1>1, ChildStarts
  <2>2. /\ state'[a] = Seeded(state[a]) /\ loc'[a] = "turn"
        /\ \A b \in Agents \ {a} : state'[b] = state[b] /\ loc'[b] = loc[b]
    BY <1>0, <2>1
  <2>3. /\ Ordered(Seeded(state[a]), sent)
        /\ ToSet(Said(state[a])) \subseteq ToSet(Said(Seeded(state[a])))
    BY <1>0, SeededTexts DEF TextsOf
  <2>4. Blank(Seeded(state[a]))
    BY <1>0, SeededIs DEF Blank
  <2>5. \A t \in accepted : t[1] = a => t[2] \in ToSet(Said(Seeded(state[a]))) \cup ToSet(blank[a])
    BY <1>0, <2>3 DEF TextsOf
  <2>6. TextsOf(a)'
    BY <1>0, <2>2, <2>3, <2>4, <2>5 DEF TextsOf, Placeholder
  <2>7. ASSUME NEW b \in Agents \ {a} PROVE TextsOf(b)'
    <3>1. TextsOf(b) /\ Unclaimed(b)' = Unclaimed(b)
      BY <2>1, <2>2 DEF TextsHold, Unclaimed
    <3> QED  BY <1>0, <2>2, <3>1, TextsKept
  <2> QED  BY <2>6, <2>7
<1>2. CASE Unclaims(a)
  <2>1. /\ loc' = [loc EXCEPT ![a] = "exited"] /\ a \in restored /\ restored' = restored
        /\ state' = [state EXCEPT ![a] = Placeholder(a)]
    BY <1>2 DEF Unclaims
  <2>2. /\ state'[a] = Placeholder(a) /\ loc'[a] = "exited"
        /\ \A b \in Agents \ {a} : state'[b] = state[b] /\ loc'[b] = loc[b]
    BY <1>0, <2>1
  <2>3. Ordered(Placeholder(a), sent)
    BY <1>0 DEF TextsOf
  <2>4. Ordered(state'[a], sent') /\ Blank(state'[a]) /\ Ordered(Placeholder(a)', sent')
    <3>1. Ordered(Placeholder(a)', sent')
      BY <1>0, <2>3 DEF Placeholder
    <3>2. Ordered(state'[a], sent')
      BY <1>0, <2>2, <2>3
    <3> QED  BY <2>2, <3>1, <3>2, PlaceholderIs DEF Blank
  <2>5. Unclaimed(a)'
    BY <2>1, <2>2 DEF Unclaimed
  <2>6. TextsOf(a)'
    BY <2>4, <2>5 DEF TextsOf
  <2>7. ASSUME NEW b \in Agents \ {a} PROVE TextsOf(b)'
    <3>1. TextsOf(b) /\ Unclaimed(b)' = Unclaimed(b)
      BY <2>1, <2>2 DEF TextsHold, Unclaimed
    <3> QED  BY <1>0, <2>2, <3>1, TextsKept
  <2> QED  BY <2>6, <2>7
<1> QED  BY <1>1, <1>2

\* A message of the user is queued behind the others.
LEMMA InputTexts ==
  ASSUME TypesHold, TextsHold, NEW a \in Agents, Send(a) \/ Interrupt(a)
  PROVE  \A b \in Agents : TextsOf(b)'
<1>0. /\ state \in [Agents -> AgentStates] /\ sent \in Nat /\ sent' = sent + 1
      /\ accepted \subseteq Agents \X Nat
      /\ \A b \in Agents : TextsOf(b)
  BY DEF TypesHold, GhostTypes, TextsHold, Send, Interrupt, Input
<1>1. UNCHANGED <<loc, restored>> /\ \A b \in Agents : state'[b].phase = state[b].phase
  BY InputIs
<1>2. /\ Inject(a) \/ UNCHANGED <<state, accepted, blank>>
  BY DEF Send, Interrupt
<1>3. \A b \in Agents : Unclaimed(b)' = Unclaimed(b)
  BY <1>1 DEF Unclaimed
<1>4. ASSUME NEW b \in Agents, state'[b] = state[b], blank'[b] = blank[b],
             \A t \in accepted' : t[1] = b => t \in accepted
      PROVE  TextsOf(b)'
  <2>1. Ordered(state[b], sent')
    BY <1>0, OrderedLater DEF TextsOf
  <2>2. Ordered(Placeholder(b), sent')
    BY <1>0, PlaceholderIs, OrderedLater DEF TextsOf
  <2>3. Placeholder(b)' = Placeholder(b)
    BY <1>4 DEF Placeholder
  <2> QED  BY <1>0, <1>3, <1>4, <2>1, <2>2, <2>3 DEF TextsOf
<1>5. CASE UNCHANGED <<state, accepted, blank>>
  BY <1>4, <1>5
<1>6. CASE /\ state[a].phase # "unknown" /\ accepted' = accepted \cup {<<a, sent + 1>>}
           /\ UNCHANGED blank
           /\ state' = [state EXCEPT ![a] = [state[a] EXCEPT !.inj = Append(@, sent + 1)]]
  <2>1. PICK y : /\ y = [state[a] EXCEPT !.inj = Append(@, sent + 1)]
                 /\ state'[a] = y /\ \A b \in Agents \ {a} : state'[b] = state[b]
    BY <1>0, <1>6
  <2>2. sent + 1 \in Nat \ {0}
    BY <1>0
  <2>3. Said(y) = Append(Said(state[a]), sent + 1)
    BY <1>0, <2>1, <2>2, InjectedIs
  <2>4. Ordered(y, sent + 1) /\ ToSet(Said(y)) = ToSet(Said(state[a])) \cup {sent + 1}
    BY <1>0, <2>3, OrderedAppend DEF TextsOf
  <2>5. Blank(y)
    BY <1>1, <1>6, <2>1 DEF Blank
  <2>6. TextsOf(a)'
    <3>1. Unclaimed(a) \/ \A t \in accepted' : t[1] = a => t[2] \in ToSet(Said(y)) \cup ToSet(blank[a])
      BY <1>0, <1>6, <2>4 DEF TextsOf
    <3>2. Ordered(Placeholder(a), sent') /\ Placeholder(a)' = Placeholder(a)
      <4>1. Ordered(Placeholder(a), sent + 1)
        BY <1>0, PlaceholderIs, OrderedLater DEF TextsOf
      <4>2. Placeholder(a)' = Placeholder(a)
        BY <1>6 DEF Placeholder
      <4> QED  BY <1>0, <4>1, <4>2
    <3> QED  BY <1>0, <1>3, <1>6, <2>1, <2>4, <2>5, <3>1, <3>2 DEF TextsOf
  <2>7. ASSUME NEW b \in Agents \ {a} PROVE TextsOf(b)'
    BY <1>4, <1>6, <2>1
  <2> QED  BY <2>6, <2>7
<1>7. CASE /\ accepted' = accepted \cup {<<a, sent + 1>>} /\ UNCHANGED state
           /\ blank' = [blank EXCEPT ![a] = Append(blank[a], sent + 1)]
  <2> PICK q \in Seq(Nat \ {0}) : q = Append(blank[a], sent + 1)
    <3>1. blank[a] \in Seq(Nat \ {0}) /\ sent + 1 \in Nat \ {0}
      BY <1>0 DEF TypesHold, GhostTypes
    <3>2. Append(blank[a], sent + 1) \in Seq(Nat \ {0})
      BY <3>1
    <3> QED  BY <3>2
  <2>1. blank'[a] = q /\ \A b \in Agents \ {a} : blank'[b] = blank[b]
    BY <1>7 DEF TypesHold, GhostTypes
  <2>2. Said(Placeholder(a)') = Append(Said(Placeholder(a)), sent + 1)
    BY <2>1, PlaceholderRecord, PlaceholderIs DEF Placeholder
  <2>3. /\ Ordered(Placeholder(a)', sent + 1)
        /\ ToSet(Said(Placeholder(a)')) = ToSet(Said(Placeholder(a))) \cup {sent + 1}
    BY <1>0, <2>2, OrderedAppend, PlaceholderIs DEF TextsOf
  <2>4. ToSet(blank'[a]) = ToSet(blank[a]) \cup {sent + 1}
    BY <2>1, <2>2, <2>3, PlaceholderIs
  <2>5. TextsOf(a)'
    <3>1. Ordered(state'[a], sent') /\ Blank(state'[a])
      BY <1>0, <1>7, OrderedLater DEF TextsOf
    <3>2. \/ Unclaimed(a)
          \/ \A t \in accepted' : t[1] = a => t[2] \in ToSet(Said(state'[a])) \cup ToSet(blank'[a])
      BY <1>0, <1>7, <2>4 DEF TextsOf
    <3> QED  BY <1>0, <1>3, <2>3, <3>1, <3>2 DEF TextsOf
  <2>6. ASSUME NEW b \in Agents \ {a} PROVE TextsOf(b)'
    BY <1>4, <1>7, <2>1
  <2> QED  BY <2>5, <2>6
<1>8. Inject(a) => state[a].phase # "unknown"
  BY DEF Inject
<1> QED  BY <1>2, <1>5, <1>6, <1>7, <1>8, InjectIs

\* The main agent's first step, as a tree allows it: nobody else's record is touched.
LEMMA BeginIs ==
  ASSUME TypesHold, NumbersAgents, TreeAgents, Begin
  PROVE  /\ Idle /\ restored' = restored \ {Main} /\ UNCHANGED <<accepted, blank, sent>>
         /\ loc'[Main] \in {"turn", "resuming"}
         /\ \A b \in Agents \ {Main} : state'[b] = state[b] /\ loc'[b] \in {"unborn", "spawned"}
         /\ state'[Main].phase = "live" /\ state'[Main].msgs = Seeded(state[Main]).msgs
         /\ Said(state'[Main]) = Said(Seeded(state[Main]))
<1> PICK m : m = state[Main]
  OBVIOUS
<1> DEFINE s == Seeded(m)
<1>0. /\ state \in [Agents -> AgentStates] /\ loc \in [Agents -> Locs] /\ Main \in Agents
      /\ Idle /\ Enter(Main) /\ UNCHANGED <<accepted, blank, sent>>
      /\ m \in AgentStates /\ m.resume \in Seq(Entries)
  BY AgentsAssumption DEF TypesHold, LoopTypes, TreeAgents, Begin, AgentStates, ghostVars
<1>1. s \in AgentStates /\ s.phase = "live" /\ restored' = restored \ {Main}
  BY <1>0, SeededIs, EnterIs
<1>2. CASE loc' = [loc EXCEPT ![Main] = "turn"] /\ state' = [state EXCEPT ![Main] = s]
  <2>1. /\ loc'[Main] = "turn" /\ \A b \in Agents \ {Main} : loc'[b] = loc[b] /\ state'[b] = state[b]
        /\ state'[Main] = s
    BY <1>0, <1>2
  <2> HIDE DEF s
  <2>2. state'[Main].phase = "live" /\ state'[Main].msgs = s.msgs /\ Said(state'[Main]) = Said(s)
    BY <1>1, <2>1
  <2> QED  BY <1>0, <1>1, <2>1, <2>2 DEF Idle, s
<1>3. CASE m.resume # <<>>
  <2> PICK c : c = Head(m.resume).child
    OBVIOUS
  <2> DEFINE y == [s EXCEPT !.resume = <<>>]
             st == [state EXCEPT ![Main] = y]
  <2>1. /\ c \in Agents /\ loc' = [loc EXCEPT ![Main] = "resuming", ![c] = "spawned"]
        /\ state' = Registered(st, c)
    BY <1>0, <1>3, EnterIs
  <2>2. c \in restored /\ c # Main
    <3>1. 1 \in DOMAIN m.resume /\ m.resume[1] = Head(m.resume)
      BY <1>0, <1>3
    <3>2. c \in restored /\ c \in Given(state[Main].kids)
      BY <1>0, <3>1 DEF TreeAgents, NumbersAgents, NumbersOf
    <3> QED  BY <3>2, KnownType
  <2>3. y.phase = "live" /\ y.msgs = s.msgs /\ y.inj = s.inj
    <3>1. s \in AgentStates /\ s.phase = "live"
      BY <1>1
    <3> HIDE DEF s
    <3> QED  BY ONLY <3>1 DEF AgentStates
  <2>4. Said(y) = Said(s)
    BY <2>3 DEF Said
  <2> HIDE DEF y
  <2>5. state' = st
    BY <2>1, <2>2 DEF Registered
  <2>6. /\ loc'[Main] = "resuming" /\ state'[Main] = y
        /\ \A b \in Agents \ {Main} : state'[b] = state[b] /\ loc'[b] \in {"unborn", "spawned"}
    BY <1>0, <2>1, <2>2, <2>5 DEF Idle
  <2> HIDE DEF s, st
  <2> QED  BY <1>0, <1>1, <2>3, <2>4, <2>6 DEF s
<1> QED  BY <1>0, <1>2, <1>3, EnterIs

LEMMA BeginTexts ==
  ASSUME TypesHold, NumbersAgents, TreeAgents, TextsHold, Begin
  PROVE  \A b \in Agents : TextsOf(b)'
<1>0. /\ state \in [Agents -> AgentStates] /\ sent \in Nat /\ Main \in Agents
      /\ \A b \in Agents : TextsOf(b) /\ ~Unclaimed(b)
  BY BeginIs, AgentsAssumption DEF TypesHold, GhostTypes, TextsHold, Idle, Unclaimed
<1>1. \A b \in Agents \ {Main} : TextsOf(b)'
  BY <1>0, BeginIs, TextsKept
<1>2. TextsOf(Main)'
  <2>1. /\ Ordered(Seeded(state[Main]), sent)
        /\ ToSet(Said(state[Main])) \subseteq ToSet(Said(Seeded(state[Main])))
    BY <1>0, SeededTexts DEF TextsOf
  <2>2. Said(state'[Main]) = Said(Seeded(state[Main])) /\ state'[Main].phase = "live"
        /\ UNCHANGED <<accepted, blank, sent>>
    BY BeginIs
  <2>3. Ordered(state'[Main], sent') /\ Blank(state'[Main])
    BY <2>1, <2>2 DEF Ordered, Blank
  <2>4. \A t \in accepted' : t[1] = Main => t[2] \in ToSet(Said(state'[Main])) \cup ToSet(blank'[Main])
    BY <1>0, <2>1, <2>2 DEF TextsOf
  <2>5. Ordered(Placeholder(Main)', sent')
    BY <1>0, <2>2 DEF TextsOf, Placeholder
  <2> QED  BY <2>3, <2>4, <2>5 DEF TextsOf
<1> QED  BY <1>1, <1>2

LEMMA DelegateTexts ==
  ASSUME TypesHold, NumbersAgents, TextsHold, NEW i \in DOMAIN call[Main], Delegate(i)
  PROVE  \A b \in Agents : TextsOf(b)'
<1> PICK c : c = Kids[state[Main].kids + 1]
  OBVIOUS
<1>0. /\ Main \in Agents /\ \A b \in Agents : TextsOf(b)
  BY AgentsAssumption DEF TextsHold
<1>1. /\ c \in Agents \ {Main} /\ state[c].phase = "unknown" /\ loc[c] = "unborn"
      /\ state'[c] = [NewState EXCEPT !.phase = "live"] /\ loc'[c] = "spawned"
      /\ \A b \in Agents \ {c, Main} : state'[b] = state[b]
      /\ \A b \in Agents \ {c} : loc'[b] = loc[b]
      /\ state'[Main].phase = state[Main].phase /\ state'[Main].msgs = state[Main].msgs
      /\ state'[Main].inj = state[Main].inj
      /\ UNCHANGED <<restored, accepted, blank, sent>>
  BY DelegateIs
<1>2. TextsOf(c)'
  <2>1. ~Unclaimed(c) /\ Said(state[c]) = <<>>
    BY <1>0, <1>1 DEF TextsOf, Blank, Unclaimed
  <2>2. \A t \in accepted : t[1] = c => t[2] \in ToSet(blank[c])
    BY <1>0, <1>1, <2>1 DEF TextsOf, ToSet
  <2>3. Ordered(state'[c], sent') /\ Blank(state'[c]) /\ Ordered(Placeholder(c)', sent')
    BY <1>0, <1>1, NewStateIs, NothingSaid DEF TextsOf, Placeholder
  <2> QED  BY <1>1, <2>2, <2>3 DEF TextsOf
<1>3. ASSUME NEW b \in Agents \ {c} PROVE TextsOf(b)'
  <2>1. TextsOf(b) /\ Unclaimed(b)' = Unclaimed(b)
    BY <1>0, <1>1 DEF Unclaimed
  <2>2. Said(state'[b]) = Said(state[b]) /\ state'[b].phase = state[b].phase
    BY <1>1 DEF Said
  <2> QED  BY <1>1, <2>1, <2>2, TextsKept
<1> QED  BY <1>2, <1>3

LEMMA CrashTexts ==
  ASSUME TypesHold, TextsHold, Crash \/ Load
  PROVE  \A b \in Agents : TextsOf(b)'
<1>0. \A b \in Agents : Ordered(Placeholder(b)', sent')
  <2> SUFFICES ASSUME NEW b \in Agents PROVE Said(Placeholder(b)') = <<>>
    BY NothingSaid
  <2>1. blank'[b] = <<>> /\ <<>> \in Seq(Nat \ {0})
    BY DEF Crash, Load, Forgotten
  <2> QED  BY <2>1, PlaceholderRecord DEF Placeholder
<1>1. CASE Crash
  <2>1. \A b \in Agents : Said(state'[b]) = <<>> /\ accepted' = {}
    BY <1>1, NewStateIs DEF Crash
  <2> QED  BY <1>0, <2>1, NothingSaid DEF TextsOf
<1>2. CASE Load
  <2>1. disk \in Documents /\ state' = [a \in Agents |-> Reconciled(disk, a)] /\ sent' = sent
    BY <1>2, LoadIs DEF Load
  <2>2. \A b \in Agents : Ordered(disk.agents[b], sent) /\ Blank(disk.agents[b])
    BY <1>2 DEF Load, TextsHold, TextsDoc, Docs
  <2>3. \A b \in Agents : /\ Said(state'[b]) = Said(disk.agents[b])
                          /\ state'[b].phase = disk.agents[b].phase
    BY <2>1, ReconciledIs
  <2>4. \A b \in Agents : Ordered(state'[b], sent') /\ Blank(state'[b])
    BY <2>1, <2>2, <2>3 DEF Ordered, Blank
  <2>5. ASSUME NEW b \in Agents, NEW t \in accepted', t[1] = b
        PROVE  t[2] \in ToSet(Said(state'[b]))
    <3> PICK x : x = disk.agents[b]
      OBVIOUS
    <3>1. t[2] \in ToSet(UserTexts(x.msgs)) \cup ToSet(x.inj)
      BY <1>2, <2>5 DEF Load
    <3>2. x \in AgentStates
      BY <2>1 DEF Documents
    <3>3. UserTexts(x.msgs) \in Seq(Nat) /\ x.inj \in Seq(Nat)
      BY <3>2, SaidType, SMTT(30) DEF AgentStates
    <3>4. ToSet(UserTexts(x.msgs)) \cup ToSet(x.inj) \subseteq ToSet(Said(x))
      <4> PICK p, q : p = UserTexts(x.msgs) /\ q = x.inj
        OBVIOUS
      <4> DEFINE r == p \o q
      <4>1. p \in Seq(Nat) /\ q \in Seq(Nat)
        BY <3>3
      <4>2. /\ DOMAIN p = 1..Len(p) /\ DOMAIN q = 1..Len(q) /\ DOMAIN r = 1..(Len(p) + Len(q))
            /\ Len(p) \in Nat /\ Len(q) \in Nat
            /\ \A i \in DOMAIN p : r[i] = p[i]
            /\ \A i \in DOMAIN q : r[Len(p) + i] = q[i]
        BY ONLY <4>1
      <4> HIDE DEF r
      <4>3. (\A i \in DOMAIN p : i \in DOMAIN r) /\ \A i \in DOMAIN q : Len(p) + i \in DOMAIN r
        BY ONLY <4>2
      <4>4. Said(x) = r
        BY DEF r, Said
      <4>5. (\A i \in DOMAIN p : p[i] \in {r[n] : n \in DOMAIN r})
            /\ \A i \in DOMAIN q : q[i] \in {r[n] : n \in DOMAIN r}
        BY ONLY <4>2, <4>3
      <4>6. ToSet(p) \cup ToSet(q) \subseteq ToSet(r)
        BY ONLY <4>5 DEF ToSet
      <4> QED  BY <4>4, <4>6
    <3> QED  BY <2>3, <3>1, <3>4
  <2> QED  BY <1>0, <2>4, <2>5 DEF TextsOf
<1> QED  BY <1>1, <1>2

LEMMA SentGrows ==
  ASSUME TypesHold, NumbersAgents, TreeAgents, [Next]_vars
  PROVE  sent \in Nat /\ sent' \in Nat /\ sent <= sent'
<1>0. sent \in Nat /\ Steps
  BY EveryStep DEF TypesHold, GhostTypes
<1>1. sent' = sent \/ sent' = sent + 1
  BY <1>0, ChildStarts, BeginIs, NoRespawn, DelegateIs
     DEF Steps, Still, Crash, Load, Moves, Unclaims, Send, Interrupt, Input
<1> QED  BY <1>0, <1>1

LEMMA SessionTexts ==
  ASSUME TypesHold, TextsHold
  PROVE  TextsDoc(Session, sent) /\ TextsDoc([Session EXCEPT !.pending = {}], sent)
<1>1. \A b \in Agents : /\ Ordered(Placeholder(b), sent) /\ Blank(Placeholder(b))
                        /\ Ordered(state[b], sent) /\ Blank(state[b])
  BY PlaceholderIs DEF TextsHold, TextsOf, Blank
<1>2. TextsDoc(Session, sent)
  BY <1>1, SessionType DEF TextsDoc
<1>3. [Session EXCEPT !.pending = {}].agents = Session.agents
  BY DEF Session
<1> QED  BY <1>2, <1>3 DEF TextsDoc

LEMMA TextsStay ==
  ASSUME TypesHold, NumbersHold, TreeHolds, TextsHold, [Next]_vars
  PROVE  TextsHold'
<1>1. TypesHold' /\ Steps /\ NumbersAgents /\ TreeAgents
  BY TypesStay, EveryStep DEF NumbersHold, TreeHolds
<1>2. \A b \in Agents : TextsOf(b)'
  <2>1. ASSUME NEW a \in Agents, ChildStart(a) \/ Unclaims(a) PROVE \A b \in Agents : TextsOf(b)'
    BY <1>1, <2>1, SpawnedTexts
  <2>2. CASE Begin
    BY <1>1, <2>2, BeginTexts
  <2>3. ASSUME NEW a \in Agents, Moves(a) PROVE \A b \in Agents : TextsOf(b)'
    BY <1>1, <2>3, MovesTexts
  <2>4. ASSUME NEW a \in Agents, Respawns(a) PROVE FALSE
    BY <1>1, <2>4, NoRespawn
  <2>5. ASSUME NEW a \in Agents, Send(a) \/ Interrupt(a) PROVE \A b \in Agents : TextsOf(b)'
    BY <1>1, <2>5, InputTexts
  <2>6. ASSUME NEW i \in DOMAIN call[Main], Delegate(i) PROVE \A b \in Agents : TextsOf(b)'
    BY <1>1, <2>6, DelegateTexts
  <2>7. CASE Still
    BY <1>1, <2>7, StillTexts
  <2>8. CASE Crash \/ Load
    BY <2>8, CrashTexts
  <2> QED  BY <1>1, <2>1, <2>2, <2>3, <2>4, <2>5, <2>6, <2>7, <2>8 DEF Steps
<1>3. ASSUME NEW d \in Docs' PROVE TextsDoc(d, sent')
  <2>1. TextsDoc(d, sent) /\ d \in Documents
    <3>1. \A e \in Docs : TextsDoc(e, sent)
      BY DEF TextsHold
    <3>2. d \in Documents
      BY <1>1, TypesStay DEF TypesHold, DocTypes, Docs
    <3> QED  BY <1>3, <3>1, <3>2, EveryDoc, SessionTexts
  <2>2. \A b \in Agents : d.agents[b] \in AgentStates
    BY <2>1 DEF Documents
  <2> QED  BY <1>1, <2>1, <2>2, SentGrows, OrderedLater DEF TextsDoc
<1> QED  BY <1>2, <1>3 DEF TextsHold

LEMMA TextsInit == Init => TextsHold
<1> SUFFICES ASSUME Init PROVE TextsHold
  OBVIOUS
<1>1. \A b \in Agents : Said(state[b]) = <<>> /\ accepted = {}
  BY NewStateIs DEF Init
<1>2. Docs = {}
  BY DEF Init, Docs
<1>3. \A b \in Agents : Said(Placeholder(b)) = <<>>
  <2>1. <<>> \in Seq(Nat \ {0}) /\ \A b \in Agents : blank[b] = <<>>
    BY DEF Init
  <2> QED  BY <2>1, PlaceholderRecord DEF Placeholder
<1> QED  BY <1>1, <1>2, <1>3, NothingSaid DEF TextsHold, TextsOf

\* Every text the controller accepted is with its agent, once and in the order typed,
\* through interrupts, crashes and resumptions, when no batch has two delegates: the
\* children of two are not both restored.  Not so a text accepted for a resumed child
\* before its first step, which goes with the empty state it was queued on, nor those of
\* an agent cancelled before that step.
THEOREM TextsAreKept == ASSUME OneDelegate PROVE Spec => []InjectionKept
<1> DEFINE Inv == TypesHold /\ NumbersHold /\ TreeHolds /\ TextsHold
<1>1. Init => Inv
  BY InitTypes, NumbersInit, TreeInit, TextsInit
<1>2. Inv /\ [Next]_vars => Inv'
  BY TypesStay, NumbersStay, TreeStay, TextsStay
<1>3. Inv => InjectionKept
  BY DEF TextsHold, TextsOf, Ordered, InjectionKept, Said
<1> QED  BY <1>1, <1>2, <1>3, PTL DEF Spec

-----------------------------------------------------------------------------
(* Nothing is repaired of an agent that has not spoken *)

LEMMA PickedOfNone ==
  ASSUME NEW P
  PROVE  Picked(<<>>, P) = <<>>
<1> PICK e : e = <<>>
  OBVIOUS
<1>1. e \in Seq({}) /\ \A n \in DOMAIN e : n \in P => e[n] \in {}
  OBVIOUS
<1>2. Picked(e, P) \in Seq({})
  BY <1>1, PickedFrom
<1>3. Picked(e, P) = <<>>
  BY <1>2
<1> QED  BY <1>3

LEMMA NothingRepaired ==
  ASSUME NEW results, NEW defer
  PROVE  RepairTranscript(<<>>, results, defer) = <<>>
<1> PICK ms : ms = <<>>
  OBVIOUS
<1>1. Requested(ms) = <<>>
  <2>1. ms \in Seq(Messages)
    OBVIOUS
  <2> QED  BY <2>1, RequestedType
<1>2. OpenCalls(ms) = <<>>
  BY <1>1, PickedOfNone DEF OpenCalls
<1>3. ToFill(OpenCalls(ms), defer) = <<>>
  BY <1>2, PickedOfNone DEF ToFill
<1> DEFINE f == ToFill(OpenCalls(ms), defer)
           rs == [i \in DOMAIN f |-> Result(f[i].id, ResultOf(results, f[i].id, "interrupted"))]
<1>4. RepairTranscript(ms, results, defer) = ms \o rs
  BY DEF RepairTranscript
<1>5. rs = <<>>
  BY <1>3
<1> HIDE DEF rs
<1>6. ms \o rs = <<>>
  BY <1>5
<1> QED  BY <1>4, <1>6

LEMMA ReconciledBlank ==
  ASSUME NEW s \in Documents, NEW a \in Agents, s.agents[a].msgs = <<>>
  PROVE  Reconciled(s, a).msgs = <<>>
<1> DEFINE x == s.agents[a]
           entries == IF ResumableCall(x.msgs) = <<>> THEN <<>>
                      ELSE [n \in DOMAIN s.kids[a] |->
                              [call |-> ResumableCall(x.msgs)[1], child |-> s.kids[a][n]]]
           blocked == {[call |-> id, result |-> "not_run"] :
                         id \in {q \in s.pending : q[1] = a /\ ~Has(x.results, q)}}
           ms == RepairTranscript(x.msgs, x.results \cup blocked,
                                  {entries[n].call.id : n \in DOMAIN entries})
<1>1. Reconciled(s, a) = [x EXCEPT !.msgs = ms, !.results = {}, !.resume = x.resume \o entries]
  BY DEF Reconciled
<1>2. ms = <<>>
  <2> HIDE DEF blocked, entries
  <2> QED  BY NothingRepaired
<1>3. x \in AgentStates
  BY DEF Documents
<1> HIDE DEF x, ms, entries
<1> QED  BY <1>1, <1>2, <1>3 DEF AgentStates

-----------------------------------------------------------------------------
(* What the sessions say of the transcripts *)

\* An agent nobody knows has no transcript.
Silent(x) == x.phase = "unknown" => x.msgs = <<>>
SilentHolds == (\A a \in Agents : Silent(state[a])) /\ \A d \in Docs : \A a \in Agents : Silent(d.agents[a])
\* Each session says a beginning of what its agents have said since, and the one being
\* written says more than all the others.
DocsHold ==
  /\ proc = "down" => cp = Free
  /\ proc # "down" => \A d \in Docs : \A a \in Agents :
        Unclaimed(a) \/ Begins(d.agents[a].msgs, state[a].msgs)
  /\ cp # Free => \A d \in Docs : \A a \in Agents :
        Unclaimed(a) \/ Begins(d.agents[a].msgs, cp.session.agents[a].msgs)

LEMMA BeginsOn ==
  ASSUME NEW r \in Seq(Messages), NEW s \in Seq(Messages), NEW t \in Seq(Messages),
         Begins(r, s), Begins(s, t)
  PROVE  Begins(r, t)
<1>1. Len(r) \in Nat /\ Len(s) \in Nat /\ Len(t) \in Nat /\ Len(r) <= Len(s) /\ Len(s) <= Len(t)
  BY DEF Begins
<1>2. Len(r) <= Len(t) /\ 1..Len(r) \subseteq 1..Len(s)
  BY <1>1
<1> QED  BY <1>2 DEF Begins

LEMMA BeginsItself ==
  ASSUME NEW s \in Seq(Messages)
  PROVE  Begins(s, s) /\ Begins(<<>>, s)
<1>1. Len(s) \in Nat /\ Len(<<>>) = 0
  OBVIOUS
<1>2. Len(s) <= Len(s) /\ 0 <= Len(s) /\ 1..0 = {}
  BY <1>1
<1> QED  BY <1>1, <1>2 DEF Begins

LEMMA BeginsIsPrefix ==
  ASSUME NEW s \in Seq(Messages), NEW t \in Seq(Messages), Begins(s, t)
  PROVE  IsPrefix(s, t)
<1>1. Len(s) \in Nat /\ Len(t) \in Nat /\ Len(s) <= Len(t) /\ \A i \in 1..Len(s) : t[i] = s[i]
  BY DEF Begins
<1>2. SubSeq(s, 1, Len(s)) = SubSeq(t, 1, Len(s))
  <2>1. SubSeq(s, 1, Len(s)) = [i \in 1..Len(s) |-> s[i]]
    BY <1>1
  <2>2. SubSeq(t, 1, Len(s)) = [i \in 1..Len(s) |-> t[i]]
    BY <1>1
  <2> QED  BY <1>1, <2>1, <2>2
<1> QED  BY <1>1, <1>2 DEF IsPrefix

LEMMA StatesType ==
  ASSUME TypesHold
  PROVE  /\ \A a \in Agents : state[a].msgs \in Seq(Messages) /\ state[a] \in AgentStates
         /\ \A d \in Docs : d \in Documents /\ \A a \in Agents : d.agents[a].msgs \in Seq(Messages)
<1>1. \A x \in AgentStates : x.msgs \in Seq(Messages)
  BY DEF AgentStates
<1>2. \A d \in Docs : d \in Documents
  BY DEF TypesHold, DocTypes, Docs
<1> QED  BY <1>1, <1>2 DEF TypesHold, Documents

LEMMA SilentStay ==
  ASSUME TypesHold, NumbersHold, TreeHolds, SilentHolds, [Next]_vars
  PROVE  SilentHolds'
<1>0. /\ Steps /\ NumbersAgents /\ TreeAgents /\ Main \in Agents
      /\ state \in [Agents -> AgentStates]
  BY EveryStep, AgentsAssumption DEF NumbersHold, TreeHolds, TypesHold
<1>1. ASSUME NEW b \in Agents PROVE Silent(state'[b])
  <2>0. Silent(state[b])
    BY DEF SilentHolds
  <2>1. ASSUME NEW a \in Agents, ChildStart(a) PROVE Silent(state'[b])
    <3>1. Seeded(state[a]).phase = "live" /\ state' = [state EXCEPT ![a] = Seeded(state[a])]
      BY <1>0, <2>1, ChildStarts, SeededIs
    <3> QED  BY <1>0, <2>0, <3>1 DEF Silent
  <2>2. CASE Begin
    BY <1>0, <2>0, <2>2, BeginIs DEF Silent
  <2>3. ASSUME NEW a \in Agents, Moves(a) PROVE Silent(state'[b])
    <3>1. state[a].phase = "live"
      BY <1>0, <2>3 DEF TreeAgents, TreeOf, Live, Moves
    <3>2. PICK y : state' = [state EXCEPT ![a] = y] /\ y.phase # "unknown"
      BY <2>3, <3>1 DEF Moves
    <3> QED  BY <1>0, <2>0, <3>2 DEF Silent
  <2>4. ASSUME NEW a \in Agents, Respawns(a) PROVE FALSE
    BY <1>0, <2>4, NoRespawn
  <2>5. ASSUME NEW a \in Agents, Send(a) \/ Interrupt(a) PROVE Silent(state'[b])
    BY <2>0, <2>5, InputIs DEF Silent
  <2>6. ASSUME NEW i \in DOMAIN call[Main], Delegate(i) PROVE Silent(state'[b])
    <3> PICK c : c = Kids[state[Main].kids + 1]
      OBVIOUS
    <3>1. /\ state'[c] = [NewState EXCEPT !.phase = "live"] /\ c # Main
          /\ \A e \in Agents \ {c, Main} : state'[e] = state[e]
          /\ state'[Main].phase = state[Main].phase /\ state'[Main].msgs = state[Main].msgs
      BY <1>0, <2>6, DelegateIs
    <3>2. state'[c].phase = "live"
      BY <3>1, NewStateIs
    <3> QED  BY <2>0, <3>1, <3>2 DEF Silent
  <2>7. CASE Still
    BY <2>0, <2>7 DEF Still
  <2>8. CASE Crash
    BY <2>8, NewStateIs DEF Crash, Silent
  <2>9. CASE Load
    <3>1. disk \in Documents /\ state'[b] = Reconciled(disk, b) /\ disk # NoSession
      BY <2>9, LoadIs DEF Load
    <3>2. Silent(disk.agents[b])
      BY <3>1 DEF SilentHolds, Docs
    <3>3. Reconciled(disk, b).phase = disk.agents[b].phase
      BY <3>1, ReconciledIs
    <3> QED  BY <3>1, <3>2, <3>3, ReconciledBlank DEF Silent
  <2>10. ASSUME NEW a \in Agents, Unclaims(a) PROVE Silent(state'[b])
    <3>1. state' = [state EXCEPT ![a] = Placeholder(a)]
      BY <2>10 DEF Unclaims
    <3> QED  BY <1>0, <2>0, <3>1, PlaceholderIs DEF Silent
  <2> QED  BY <1>0, <2>1, <2>2, <2>3, <2>4, <2>5, <2>6, <2>7, <2>8, <2>9, <2>10 DEF Steps
<1>2. \A b \in Agents : Silent(Session.agents[b]) /\ Silent([Session EXCEPT !.pending = {}].agents[b])
  <2>1. \A b \in Agents : Silent(Session.agents[b])
    BY SessionType, PlaceholderIs DEF SilentHolds, Silent
  <2>2. [Session EXCEPT !.pending = {}].agents = Session.agents
    BY DEF Session
  <2> QED  BY <2>1, <2>2
<1>3. \A d \in Docs' : \A b \in Agents : Silent(d.agents[b])
  BY <1>2, EveryDoc DEF SilentHolds
<1> QED  BY <1>1, <1>3 DEF SilentHolds

\* While the process lives every agent's transcript only grows.
LEMMA StatesGrow ==
  ASSUME TypesHold, NumbersHold, TreeHolds, SilentHolds, [Next]_vars,
         proc # "down", proc' # "down", NEW b \in Agents
  PROVE  /\ Unclaimed(b) => Unclaimed(b)'
         /\ Unclaimed(b)' \/ Begins(state[b].msgs, state'[b].msgs)
<1>0. /\ Steps /\ NumbersAgents /\ TreeAgents /\ Main \in Agents
      /\ state \in [Agents -> AgentStates] /\ loc \in [Agents -> Locs]
  BY EveryStep, AgentsAssumption DEF NumbersHold, TreeHolds, TypesHold, LoopTypes
<1>1. Begins(state[b].msgs, state[b].msgs) /\ state[b].msgs \in Seq(Messages)
  BY StatesType, BeginsItself
<1>2. ASSUME NEW a \in Agents, ChildStart(a)
      PROVE  (Unclaimed(b) => Unclaimed(b)') /\ Begins(state[b].msgs, state'[b].msgs)
  <2>1. /\ state' = [state EXCEPT ![a] = Seeded(state[a])] /\ loc' = [loc EXCEPT ![a] = "turn"]
        /\ loc[a] = "spawned" /\ restored' = restored \ {a}
    BY <1>0, <1>2, ChildStarts
  <2>2. Unclaimed(b) => b # a /\ Unclaimed(b)'
    BY <1>0, <2>1 DEF Unclaimed
  <2>3. Begins(state[a].msgs, Seeded(state[a]).msgs)
    BY <1>0, SeededIs
  <2> QED  BY <1>0, <1>1, <2>1, <2>2, <2>3
<1>3. CASE Begin
  <2>1. Begins(state[Main].msgs, Seeded(state[Main]).msgs) /\ ~Unclaimed(b)
    BY <1>0, <1>3, BeginIs, SeededIs DEF Idle, Unclaimed
  <2> QED  BY <1>0, <1>1, <1>3, <2>1, BeginIs
<1>4. ASSUME NEW a \in Agents, Moves(a)
      PROVE  (Unclaimed(b) => Unclaimed(b)') /\ Begins(state[b].msgs, state'[b].msgs)
  <2>1. PICK y : state' = [state EXCEPT ![a] = y] /\ Goes(state[a], y)
    BY <1>4 DEF Moves
  <2>2. Unclaimed(b) => Unclaimed(b)'
    BY <1>4 DEF Moves, Unclaimed
  <2> QED  BY <1>0, <1>1, <2>1, <2>2 DEF Goes
<1>5. ASSUME NEW a \in Agents, Unclaims(a)
      PROVE  (Unclaimed(b) => Unclaimed(b)') /\ (Unclaimed(b)' \/ Begins(state[b].msgs, state'[b].msgs))
  <2>1. /\ \A c \in Agents \ {a} : state'[c] = state[c] /\ loc'[c] = loc[c]
        /\ loc'[a] = "exited" /\ a \in restored /\ restored' = restored
    BY <1>0, <1>5 DEF Unclaims
  <2> QED  BY <1>1, <2>1 DEF Unclaimed
<1>6. ASSUME NEW a \in Agents, Send(a) \/ Interrupt(a)
      PROVE  (Unclaimed(b) => Unclaimed(b)') /\ Begins(state[b].msgs, state'[b].msgs)
  BY <1>1, <1>6, InputIs DEF Unclaimed
<1>7. ASSUME NEW i \in DOMAIN call[Main], Delegate(i)
      PROVE  (Unclaimed(b) => Unclaimed(b)') /\ Begins(state[b].msgs, state'[b].msgs)
  <2> PICK c : c = Kids[state[Main].kids + 1]
    OBVIOUS
  <2>1. /\ state[c].phase = "unknown" /\ loc[c] = "unborn" /\ c \in Agents
        /\ state'[c] = [NewState EXCEPT !.phase = "live"]
        /\ \A e \in Agents \ {c, Main} : state'[e] = state[e]
        /\ \A e \in Agents \ {c} : loc'[e] = loc[e]
        /\ state'[Main].msgs = state[Main].msgs /\ restored' = restored
    BY <1>0, <1>7, DelegateIs
  <2>2. state[c].msgs = <<>> /\ state'[c].msgs = <<>>
    BY <2>1, NewStateIs DEF SilentHolds, Silent
  <2>3. state'[b].msgs = state[b].msgs
    BY <2>1, <2>2
  <2> QED  BY <1>1, <2>1, <2>3 DEF Unclaimed
<1>8. CASE Still
  BY <1>1, <1>8 DEF Still, Unclaimed
<1>9. CASE Crash \/ Load
  BY <1>9 DEF Crash, Load
<1>10. ASSUME NEW a \in Agents, Respawns(a) PROVE FALSE
  BY <1>0, <1>10, NoRespawn
<1> QED  BY <1>0, <1>2, <1>3, <1>4, <1>5, <1>6, <1>7, <1>8, <1>9, <1>10 DEF Steps

LEMMA AgentUnderWay ==
  ASSUME NEW a \in Agents, AgentStep(a)
  PROVE  loc[a] # "unborn"
<1>1. CASE ChildStart(a) \/ Fold(a) \/ Written(a)
  BY <1>1 DEF ChildStart, Fold, SafeLocs, Requesting, Written, PassSafePoint
<1>2. CASE ModelDone(a) \/ ModelFail(a) \/ ModelCut(a)
  BY <1>2 DEF ModelDone, ModelFail, ModelCut
<1>3. ASSUME NEW i, RunCall(a, i) \/ RefuseCall(a, i) \/ FinishCall(a, i) \/ CollectChild(a, i)
                      \/ UseCarried(a, i)
      PROVE  loc[a] # "unborn"
  BY <1>3 DEF RunCall, RefuseCall, FinishCall, CollectChild, UseCarried, StartCall
<1>4. ASSUME a = Main, NEW i, Ask(i) \/ Delegate(i) PROVE loc[a] # "unborn"
  BY <1>4 DEF Ask, Delegate, StartCall
<1>5. CASE FinishBatch(a) \/ CollectRevived(a) \/ Propagate(a) \/ Unwind(a)
  BY <1>5 DEF FinishBatch, CollectRevived, Propagate, Unwind, Live
<1> QED  BY <1>1, <1>2, <1>3, <1>4, <1>5 DEF AgentStep

\* A process that died stays dead until its session is loaded.
LEMMA DownStays ==
  ASSUME TypesHold, TreeAgents, proc = "down", cp = Free, [Next]_vars
  PROVE  Load \/ (proc' = "down" /\ cp' = Free)
<1>1. CASE UNCHANGED vars \/ Over
  BY <1>1 DEF vars, procVars, cpVars, Over
<1>2. CASE Begin \/ LastFold \/ Crash \/ Answering
  BY <1>2 DEF Begin, LastFold, Crash, Answering, Resolve
<1>3. CASE LastWrite
  BY <1>3 DEF LastWrite, Free
<1>4. CASE StrayWrite
  BY <1>4 DEF StrayWrite, procVars
<1>5. ASSUME NEW a \in Agents, AgentStep(a) \/ Send(a) \/ Interrupt(a) PROVE FALSE
  BY <1>5, AgentUnderWay DEF TreeAgents, Idle, Send, Interrupt, Input
<1> QED  BY <1>1, <1>2, <1>3, <1>4, <1>5 DEF Next

LEMMA OnlyCrash ==
  ASSUME TypesHold, NumbersAgents, TreeAgents, proc # "down", proc' = "down", [Next]_vars
  PROVE  Crash
<1>1. Steps
  BY EveryStep
<1>2. ASSUME NEW a \in Agents,
             ChildStart(a) \/ Moves(a) \/ Unclaims(a) \/ Send(a) \/ Interrupt(a)
      PROVE  proc' # "down"
  BY <1>2, ChildStarts, InputIs DEF Moves, Unclaims
<1>3. ASSUME NEW i \in DOMAIN call[Main], Delegate(i) PROVE proc' = proc
  BY <1>3, DelegateIs
<1>4. CASE Still \/ Load \/ Begin
  BY <1>4 DEF Still, Load, Begin
<1> QED  BY <1>1, <1>2, <1>3, <1>4, NoRespawn DEF Steps

\* When a checkpoint is folded every restored agent that was started has claimed its state.
LEMMA SessionWhole ==
  ASSUME TypesHold, NumbersAgents, TreeAgents, NEW b \in Agents,
         LastFold \/ \E a \in Agents : Fold(a)
  PROVE  ~Covered(b)
<1> SUFFICES ASSUME Covered(b) PROVE FALSE
  OBVIOUS
<1>1. loc[b] = "spawned" /\ b # Main
  BY DEF Covered, NumbersAgents
<1>2. b \in Waiting(Main)
  BY <1>1 DEF TreeAgents, TreeOf, Live
<1>3. CASE LastFold
  BY <1>2, <1>3 DEF LastFold, TreeAgents, Waiting
<1>4. ASSUME NEW a \in Agents, Fold(a) PROVE FALSE
  <2>1. a = b
    BY <1>2, <1>4, FoldAlone
  <2> QED  BY <1>1, <1>4, <2>1 DEF Fold, SafeLocs, Requesting
<1> QED  BY <1>3, <1>4

LEMMA DocsStay ==
  ASSUME TypesHold, NumbersHold, TreeHolds, SilentHolds, DocsHold, [Next]_vars
  PROVE  DocsHold'
<1>0. TypesHold' /\ NumbersAgents /\ TreeAgents
  BY TypesStay DEF NumbersHold, TreeHolds
<1>1. CASE proc = "down"
  <2>1. cp = Free
    BY <1>1 DEF DocsHold
  <2>2. CASE proc' = "down" /\ cp' = Free
    BY <2>2 DEF DocsHold
  <2>3. CASE Load
    <3>1. cp' = Free /\ Docs' = {disk} /\ disk \in Documents
      BY <2>3, LoadIs DEF Load, Forgotten, Docs
    <3>2. ASSUME NEW a \in Agents PROVE Begins(disk.agents[a].msgs, state'[a].msgs)
      BY <2>3, <3>1, LoadIs, ReconciledIs
    <3>3. proc' # "down"
      BY <2>3 DEF Load
    <3> QED  BY <3>1, <3>2, <3>3 DEF DocsHold
  <2> QED  BY <1>0, <1>1, <2>1, <2>2, <2>3, DownStays
<1>2. CASE proc # "down" /\ proc' = "down"
  <2>1. cp' = Free
    BY <1>0, <1>2, OnlyCrash DEF Crash, Forgotten
  <2> QED  BY <1>2, <2>1 DEF DocsHold
<1>3. CASE proc # "down" /\ proc' # "down"
  <2>1. \A b \in Agents : /\ Unclaimed(b) => Unclaimed(b)'
                          /\ Unclaimed(b)' \/ Begins(state[b].msgs, state'[b].msgs)
    BY <1>3, StatesGrow
  <2>2. ASSUME NEW d \in Docs, NEW b \in Agents
        PROVE  Unclaimed(b)' \/ Begins(d.agents[b].msgs, state'[b].msgs)
    <3>1. Unclaimed(b) \/ Begins(d.agents[b].msgs, state[b].msgs)
      BY <1>3 DEF DocsHold
    <3>2. /\ d.agents[b].msgs \in Seq(Messages) /\ state[b].msgs \in Seq(Messages)
          /\ state'[b].msgs \in Seq(Messages)
      <4>1. state'[b] \in AgentStates
        BY <1>0 DEF TypesHold
      <4> QED  BY <4>1, StatesType DEF AgentStates
    <3> QED  BY <2>1, <3>1, <3>2, BeginsOn
  <2>3. CASE Docs' \subseteq Docs /\ cp' \in {cp, Free}
    <3>1. ASSUME cp' # Free, NEW d \in Docs, NEW b \in Agents
          PROVE  Unclaimed(b)' \/ Begins(d.agents[b].msgs, cp'.session.agents[b].msgs)
      BY <2>1, <2>3, <3>1 DEF DocsHold
    <3> QED  BY <1>3, <2>2, <2>3, <3>1 DEF DocsHold
  <2>4. CASE /\ cp = Free /\ cp' # Free /\ Docs' \subseteq Docs \cup {cp'.session}
             /\ \/ \E a \in Agents : Fold(a) /\ cp'.session = Session
                \/ LastFold /\ cp'.session = [Session EXCEPT !.pending = {}]
    <3>1. cp'.session.agents = Session.agents
      BY <2>4 DEF Session
    <3>2. UNCHANGED <<state, loc, restored>>
      BY <2>4 DEF Fold, LastFold, procVars, loopVars
    <3>3. ASSUME NEW b \in Agents PROVE cp'.session.agents[b] = state'[b]
      BY <1>0, <2>4, <3>1, <3>2, SessionWhole, SessionType
    <3>4. ASSUME NEW d \in Docs', NEW b \in Agents
          PROVE  Unclaimed(b)' \/ Begins(d.agents[b].msgs, state'[b].msgs)
      <4>1. CASE d \in Docs
        BY <2>2, <4>1
      <4>2. CASE d = cp'.session
        <5>1. state'[b].msgs \in Seq(Messages)
          BY <3>2, StatesType
        <5> QED  BY <3>3, <4>2, <5>1, BeginsItself
      <4> QED  BY <2>4, <4>1, <4>2
    <3>5. ASSUME NEW d \in Docs', NEW b \in Agents
          PROVE  Unclaimed(b)' \/ Begins(d.agents[b].msgs, cp'.session.agents[b].msgs)
      BY <3>3, <3>4
    <3> QED  BY <1>3, <3>4, <3>5 DEF DocsHold
  <2> QED  BY <2>3, <2>4, EveryDoc
<1> QED  BY <1>1, <1>2, <1>3

LEMMA DocsInit == Init => SilentHolds /\ DocsHold
<1> SUFFICES ASSUME Init PROVE SilentHolds /\ DocsHold
  OBVIOUS
<1>1. Docs = {} /\ cp = Free /\ \A a \in Agents : state[a].msgs = <<>>
  BY NewStateIs DEF Init, Docs
<1> QED  BY <1>1 DEF SilentHolds, Silent, DocsHold

LEMMA WhoWrites ==
  ASSUME TypesHold, [Next]_vars, disk' \notin stray
  PROVE  disk' = disk \/ (cp # Free /\ disk' = cp.session)
<1>1. CASE UNCHANGED cpVars \/ StrayWrite \/ LastFold \/ Crash \/ Load
  BY <1>1 DEF cpVars, StrayWrite, LastFold, Crash, Load
<1>2. CASE LastWrite
  BY <1>2 DEF LastWrite, Free
<1>3. ASSUME NEW a \in Agents, AgentStep(a)
      PROVE  disk' = disk \/ (cp # Free /\ disk' = cp.session)
  <2>1. CASE Written(a)
    <3>1. cp # Free
      BY <2>1, AgentsAssumption DEF Written, Free
    <3> QED  BY <2>1, <3>1 DEF Written
  <2>2. CASE Fold(a) \/ Propagate(a) \/ Unwind(a)
    BY <2>2 DEF Fold, Propagate, Unwind
  <2> QED  BY <1>3, <2>1, <2>2 DEF AgentStep, ChildStart, ModelDone, ModelFail, ModelCut, RunCall,
           RefuseCall, FinishCall, CollectChild, UseCarried, Ask, Delegate, FinishBatch,
           CollectRevived, cpVars
<1>4. ASSUME NEW a \in Agents, Send(a) \/ Interrupt(a) PROVE UNCHANGED cpVars
  BY <1>4 DEF Send, Interrupt
<1>5. CASE Begin \/ Answering \/ Over \/ UNCHANGED vars
  BY <1>1, <1>5 DEF Begin, Answering, Resolve, Over, vars
<1> QED  BY <1>1, <1>2, <1>3, <1>4, <1>5 DEF Next

LEMMA FileStep ==
  ASSUME TypesHold, DocsHold, [Next]_vars, disk # NoSession, disk' \notin stray,
         NEW a \in Agents
  PROVE  IsPrefix(disk.agents[a].msgs, disk'.agents[a].msgs) \/ Unclaimed(a)
<1>1. disk \in Docs /\ \A d \in Docs : d.agents[a].msgs \in Seq(Messages)
  BY StatesType DEF Docs
<1>2. CASE disk' = disk
  BY <1>1, <1>2, BeginsItself, BeginsIsPrefix
<1>3. CASE cp # Free /\ disk' = cp.session
  <2>1. cp.session \in Docs
    BY <1>3 DEF Docs
  <2>2. Unclaimed(a) \/ Begins(disk.agents[a].msgs, cp.session.agents[a].msgs)
    BY <1>1, <1>3 DEF DocsHold
  <2> QED  BY <1>1, <1>3, <2>1, <2>2, BeginsIsPrefix
<1> QED  BY <1>2, <1>3, WhoWrites

\* What the session file says of an agent never gets shorter or different while the run goes
\* on, in this process or a later one, when no batch has two delegates.
THEOREM FileAdvances == ASSUME OneDelegate PROVE Spec => DiskAdvances
<1> DEFINE Inv == TypesHold /\ NumbersHold /\ TreeHolds /\ SilentHolds /\ DocsHold
<1>1. Init => Inv
  BY InitTypes, NumbersInit, TreeInit, DocsInit
<1>2. Inv /\ [Next]_vars => Inv'
  BY TypesStay, NumbersStay, TreeStay, SilentStay, DocsStay
<1>3. Inv /\ [Next]_vars =>
        [disk # NoSession /\ disk' \notin stray =>
           \A a \in Agents : \/ IsPrefix(disk.agents[a].msgs, disk'.agents[a].msgs)
                             \/ Unclaimed(a)]_vars
  BY FileStep
<1> QED  BY <1>1, <1>2, <1>3, PTL DEF Spec, DiskAdvances
=============================================================================
