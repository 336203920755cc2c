--------------------------- MODULE ChildrenProofs ---------------------------
(***************************************************************************)
(* For any number of subagents, saves and paths, and any number of cuts    *)
(* and crashes: the task group of a node is structured, a save() that      *)
(* returned has written, and no id is given out twice.                     *)
(***************************************************************************)
EXTENDS ChildrenProps, FiniteSetTheorems, TLAPS

KidStates == {"none", "registered"} \cup Live \cup Over
KidType == [st : KidStates, cuts : Nat, cut : BOOLEAN,
            reason : {"none", "user_interrupt", "run_cancelled"},
            how : {"none", "ok", "failed", "cut"}]
Closing == {"closing", "completing", "parked at the end", "ending", "left"}
BodyType == [pc : BodyOver \cup Closing \cup {"working", "writing", "parked", "delegating",
                                              "spawning", "waiting"},
             on : SUBSET Kids, cut : BOOLEAN, end : {"none"} \cup BodyOver]
Docs == [there : BOOLEAN, asked : SUBSET Saves, seq : Nat]
SaveStates == {"idle", "waiting", "direct", "returned", "timed out", "died"}

MapTypes ==
  /\ counted = [k \in DOMAIN counted |-> counted[k]] /\ DOMAIN counted \subseteq Kids \cup {Node}
  /\ run \in {"running", "pausing", "paused", "ended"}

ChildTypes ==
  /\ body \in BodyType /\ seq \in Nat
  /\ kid \in [Kids -> KidType] /\ group \in {"open", "aborting", "closed"}
  /\ struck \subseteq Kids /\ lost \subseteq Kids
  /\ MapTypes /\ gate \in BOOLEAN

Writers == Kids \cup Saves \cup {Node, SessionPath}
WriteType == [by : SUBSET Writers, doc : Docs, todo : Seq(Paths), done : SUBSET Paths]

\* A checkpoint in the writing holds the session as it was serialised.
WriteTypes ==
  /\ sv \in [Saves -> SaveStates] /\ file \in [Paths -> Docs] /\ during \subseteq Saves
  /\ final \subseteq Paths /\ rec \in Nat /\ kept \subseteq Nat /\ before \subseteq Nat
  /\ \/ write = NoWrite
     \/ write \in WriteType /\ write.by # {} /\ write.doc.there

\* What the ending of a child rests on: as long as nothing unwinds the group a child is
\* cut by its own interrupt and by nothing else; once the group cut it, it is cut twice.
CutByItself(k) ==
  /\ kid[k].reason = "none" => kid[k].cuts = 0 /\ ~kid[k].cut /\ kid[k].how # "cut"
  /\ kid[k].reason # "none" =>
       /\ kid[k].reason = "user_interrupt"
       /\ kid[k].st \in (Live \cup Over) \ {"created"}
       /\ kid[k].st \in Live => kid[k].cuts = 1
  /\ kid[k].st # "cancelled"
CutTwice(k) ==
  /\ kid[k].st \in (Live \cup Over) \ {"cut"}
  /\ kid[k].st \in Live => kid[k].cuts > 0
  /\ kid[k].st \in Live /\ kid[k].reason = "user_interrupt" => kid[k].cuts > 1

KidHolds(k) ==
  /\ kid[k].st # "none" => k < seq
  /\ group = "open" => CutByItself(k)
  /\ kid[k].st = "registered" => kid[k].reason = "none"
  /\ kid[k].st = "leaving" => kid[k].how # "none"
  /\ kid[k].cut => kid[k].st \in Live
  /\ kid[k].reason = "user_interrupt" /\ kid[k].st \in Live => kid[k].cuts > 0
  /\ k \in struck => CutTwice(k)
KidsHold == \A k \in Kids : KidHolds(k)

\* The group is closed from the body's end to the node's, with all its tasks.
GroupHolds ==
  /\ OnlyItsChild
  /\ body.cut => group # "open" /\ body.pc \notin BodyOver \cup {"ending", "left"}
  /\ group = "closed" <=> body.pc \in Closing
  /\ group = "closed" => \A k \in Kids : kid[k].st \notin Live

\* The body is about to make the child's task.
Registering(k) == k \in body.on /\ body.pc \in {"delegating", "spawning"}

\* The quiescence map counts every child at work, and who is not at work any more only
\* if nobody will take it out.
CountHolds ==
  /\ WorkIsCounted
  /\ \A k \in DOMAIN counted \cap Kids :
       k \in lost \/ kid[k].st \in {"registered", "created", "entering", "working", "parked"}
  /\ \A k \in Kids : kid[k].st = "registered" => k \in lost \/ Registering(k)

GroupInv == KidsHold /\ GroupHolds /\ CountHolds

\* The paths the checkpoint of p writes, written or not yet.
Target(p) == p \in write.done \cup ToSet(write.todo)

\* A checkpoint is of every save asked for before it, and what it wrote is there.
WriteHolds ==
  write # NoWrite =>
    /\ \A p \in write.done : file[p] = write.doc
    /\ \A s \in Saves : sv[s] # "idle" => s \in write.doc.asked \cup during
    /\ \A s \in Saves : write.by = {s} => sv[s] # "idle" /\ Target(PathOf[s])

FilesHold ==
  \A s \in Saves : sv[s] = "returned" =>
    file[PathOf[s]].there /\ s \in file[PathOf[s]].asked \cup during

\* A run that is over has one checkpoint more, for all who wait.
EndHolds ==
  /\ run = "ended" => body.pc = "left" /\ ~gate
  /\ run = "ended" => \A s \in Saves : sv[s] = "waiting" =>
       PathOf[s] \in final \/ (write.by = {SessionPath} /\ Target(PathOf[s]))

SavesInv == WriteHolds /\ FilesHold /\ EndHolds

\* What a reload counts from is what the last checkpoint written of the node counted.
IdsInv ==
  /\ \A i \in before \cup kept : i < file[SessionPath].seq
  /\ file[SessionPath].seq <= rec /\ rec <= seq
  /\ body.pc \in {"writing", "completing"} => rec = seq
  /\ write # NoWrite => write.doc.seq = rec
  /\ write.by = {Node} => Target(SessionPath)
  /\ IdsNotReused

-----------------------------------------------------------------------------
(* The map, the paths and the files *)

\* A change of the map can land a pause, and does nothing else to the run.
RunSettles == run' = run \/ (run = "pausing" /\ run' = "paused")

LEMMA MapWith ==
  ASSUME MapTypes, NEW k \in Kids \cup {Node}, NEW ph, Counting(With(k, ph))
  PROVE  /\ MapTypes' /\ RunSettles
         /\ DOMAIN counted' = DOMAIN counted \cup {k} /\ counted'[k] = ph
         /\ \A j \in DOMAIN counted \ {k} : counted'[j] = counted[j]
  BY DEF Counting, With, MapTypes, RunSettles

LEMMA MapWithout ==
  ASSUME MapTypes, NEW k, Counting(Without(k))
  PROVE  /\ MapTypes' /\ RunSettles
         /\ DOMAIN counted' = DOMAIN counted \ {k}
         /\ \A j \in DOMAIN counted \ {k} : counted'[j] = counted[j]
  BY DEF Counting, Without, Restrict, MapTypes, RunSettles

LEMMA MapSame ==
  ASSUME MapTypes, Counting(counted)
  PROVE  MapTypes' /\ RunSettles /\ counted' = counted
  BY DEF Counting, MapTypes, RunSettles

\* A finite set has a sequence.
LEMMA SeqOfSet ==
  ASSUME NEW S, IsFiniteSet(S)
  PROVE  SetToSeq(S) \in Seq(S) /\ ToSet(SetToSeq(S)) = S
  <1> DEFINE n == Cardinality(S)
             f == SetToSeq(S)
  <1>1. n \in Nat /\ ExistsBijection(1..n, S) BY FS_CardinalityType
  <1>2. PICK b : b \in Bijection(1..n, S) BY <1>1 DEF ExistsBijection
  <1>3. b \in [1..n -> S] /\ IsInjective(b) BY <1>2 DEF Bijection, Injection
  <1>4. f \in [1..n -> S] /\ IsInjective(f) BY <1>3 DEF SetToSeq
  <1> HIDE DEF f
  <1>5. f \in Seq(S) BY <1>1, <1>4
  <1>6. f \in Injection(1..n, S) BY <1>4 DEF Injection
  <1>7. Range(f) = S
    <2> DEFINE T == Range(f)
    <2>1. T \subseteq S /\ IsFiniteSet(T) BY <1>4, FS_Subset DEF Range
    <2>2. f \in Bijection(1..n, T) BY <1>4 DEF Bijection, Injection, Surjection, Range
    <2>3. IsFiniteSet(1..n) /\ Cardinality(1..n) = n BY <1>1, FS_Interval
    <2>4. ExistsBijection(1..n, T) BY <2>2 DEF ExistsBijection
    <2>5. Cardinality(T) = n BY <2>3, <2>4, FS_Bijection
    <2> QED BY <2>1, <2>5, FS_Subset
  <1> QED BY <1>5, <1>7 DEF f, ToSet, Range

LEMMA PathsFinite == IsFiniteSet(Paths) /\ SessionPath \in Paths /\ \A s \in Saves : PathOf[s] \in Paths
  <1> DEFINE Named == {PathOf[s] : s \in Saves}
             name == [s \in Saves |-> PathOf[s]]
  <1>a. name \in Surjection(Saves, Named) BY DEF Surjection
  <1> HIDE DEF name
  <1>1. IsFiniteSet(Named) BY <1>a, ChildrenAssumption, FS_Surjection DEF ExistsSurjection
  <1>2. IsFiniteSet(Named \cup {SessionPath}) BY <1>1, FS_AddElement
  <1> QED BY <1>2 DEF Paths

LEMMA TargetsOfWaiting ==
  /\ SaveTargets \in Seq(Paths) /\ SessionPath \in ToSet(SaveTargets)
  /\ Range(SaveTargets) = ToSet(SaveTargets)
  /\ \A s \in Saves : sv[s] = "waiting" => PathOf[s] \in ToSet(SaveTargets)
  <1> DEFINE rest == {PathOf[s] : s \in Waiting} \ {SessionPath}
             q == SetToSeq(rest)
  <1>1. rest \subseteq Paths BY DEF Waiting, Paths
  <1>2. IsFiniteSet(rest) BY <1>1, PathsFinite, FS_Subset
  <1>3. q \in Seq(rest) /\ ToSet(q) = rest BY <1>2, SeqOfSet
  <1>4. SaveTargets = <<SessionPath>> \o q BY DEF SaveTargets
  <1>5. \A s \in Saves : sv[s] = "waiting" => PathOf[s] \in rest \cup {SessionPath} BY DEF Waiting
  <1> HIDE DEF rest, q
  <1>6. q \in Seq(Paths) BY <1>1, <1>3
  <1> DEFINE t == <<SessionPath>> \o q
  <1>7. t \in Seq(Paths) /\ Len(t) = Len(q) + 1 /\ t[1] = SessionPath BY <1>6, PathsFinite
  <1>8. \A i \in 1..Len(q) : i + 1 \in DOMAIN t /\ t[i + 1] = q[i] BY <1>6, <1>7
  <1>9. SessionPath \in ToSet(t) BY <1>7 DEF ToSet
  <1>10. \A r \in rest : r \in ToSet(t)
    <2> TAKE r \in rest
    <2>1. PICK i \in DOMAIN q : r = q[i] BY <1>3 DEF ToSet
    <2>2. i \in 1..Len(q) BY <1>3, <2>1
    <2> QED BY <1>8, <2>1, <2>2 DEF ToSet
  <1> QED BY <1>4, <1>5, <1>7, <1>9, <1>10 DEF Range, ToSet

LEMMA TargetsOfFinal ==
  ASSUME final \subseteq Paths
  PROVE  SetToSeq(final) \in Seq(Paths) /\ ToSet(SetToSeq(final)) = final
  <1>1. IsFiniteSet(final) BY PathsFinite, FS_Subset
  <1>2. SetToSeq(final) \in Seq(final) /\ ToSet(SetToSeq(final)) = final BY <1>1, SeqOfSet
  <1> QED BY <1>2

\* What the head of the paths to write was is done then.
LEMMA HeadIsDone ==
  ASSUME NEW q \in Seq(Paths), q # <<>>
  PROVE  /\ Head(q) \in Paths /\ Tail(q) \in Seq(Paths)
         /\ ToSet(q) = ToSet(Tail(q)) \cup {Head(q)}
  <1>1. Len(q) \in Nat \ {0} /\ Head(q) = q[1] /\ Len(Tail(q)) = Len(q) - 1
    OBVIOUS
  <1>2. \A i \in 1..(Len(q) - 1) : Tail(q)[i] = q[i + 1] BY <1>1
  <1>3. Head(q) \in Paths /\ Tail(q) \in Seq(Paths) BY <1>1
  <1>4. ASSUME NEW i \in 1..Len(q) PROVE q[i] \in ToSet(Tail(q)) \cup {Head(q)}
    <2>1. CASE i = 1 BY <1>1, <2>1
    <2>2. CASE i # 1
      <3>1. i - 1 \in 1..(Len(q) - 1) BY <1>1, <2>2
      <3>2. Tail(q)[i - 1] = q[i] BY <1>2, <3>1
      <3>3. i - 1 \in DOMAIN Tail(q) BY <1>1, <1>3, <3>1
      <3> QED BY <3>2, <3>3 DEF ToSet
    <2> QED BY <2>1, <2>2
  <1>5. ASSUME NEW i \in 1..(Len(q) - 1) PROVE Tail(q)[i] \in ToSet(q)
    BY <1>1, <1>2 DEF ToSet
  <1> QED BY <1>1, <1>3, <1>4, <1>5, SMTT(30) DEF ToSet

-----------------------------------------------------------------------------
(* The types *)

LEMMA SerializeTypes ==
  ASSUME WriteTypes, NEW by \in Writers, NEW todo \in Seq(Paths), NEW n \in Nat,
         Serialize(by, todo, n)
  PROVE  /\ write = NoWrite /\ write'.by = {by} /\ write' # NoWrite /\ write' \in WriteType
         /\ write'.doc.there /\ write'.doc.asked = Asked /\ write'.doc.seq = n
         /\ write'.todo = todo /\ write'.done = {}
  BY DEF Serialize, WriteTypes, WriteType, Docs, NoWrite, Asked

\* A checkpoint that is written has written all its paths, or else it is not there.
LEMMA WrittenTypes ==
  ASSUME WriteTypes, NEW by \in Writers, WrittenBy(by)
  PROVE  /\ write # NoWrite /\ write \in WriteType /\ write.doc.there
         /\ write.by = {by} /\ write.todo = <<>> /\ write' = NoWrite
  BY DEF WrittenBy, WriteTypes, NoWrite

LEMMA ReleaseTypes ==
  ASSUME WriteTypes, Release
  PROVE  /\ sv' \in [Saves -> SaveStates]
         /\ \A s \in Saves : sv'[s] = sv[s] \/ (Released(s) /\ sv'[s] = "returned")
         /\ \A s \in Saves : Released(s) => sv'[s] = "returned"
  BY DEF Release, WriteTypes, SaveStates

\* The names of the steps that leave the saves and the session file alone, and of those
\* that leave the node, its children and the map alone.
BodyStep ==
  \/ Unpark \/ (\E delegated \in BOOLEAN : Start(delegated))
  \/ (\E ks \in SUBSET Kids : Await(ks)) \/ Collect
  \/ (\E how \in {"returned", "failed"} : BodyEnds(how))
  \/ \E k \in Kids : CreateTask(k) \/ Spawned(k)
KidStep(k) ==
  \/ Enter(k) \/ Work(k) \/ KidFails(k) \/ KidEnds(k) \/ Interrupt(k)
  \/ \E last \in BOOLEAN : KidUnparks(k, last)
GroupStep == Abort \/ CancelRun \/ CloseGroup \/ Exit
GateStep == Pause \/ Resume
SaveStep ==
  \/ \E s \in Saves : Save(s) \/ SaveDirect(s) \/ SavedDirect(s) \/ Timeout(s)
  \/ WriteFile \/ TerminalWrite \/ TerminalWritten
Quietly == UNCHANGED <<saving, rec, kept, before>>
Aside == UNCHANGED <<tasks, counted, run, gate, rec, kept, before>>

LEMMA NextSteps ==
  Next => \/ BodyStep \/ (\E k \in Kids : KidStep(k)) \/ GroupStep \/ GateStep \/ SaveStep
          \/ Checkpoint \/ NodeWritten \/ BodyCut \/ Finish \/ CrashAndLoad
          \/ \E k \in Kids : KidSafePoint(k) \/ KidCut(k) \/ \E last \in BOOLEAN : KidWritten(k, last)
  BY DEF Next, BodyStep, KidStep, GroupStep, GateStep, SaveStep

LEMMA StepsAside ==
  /\ BodyStep => Quietly
  /\ \A k \in Kids : KidStep(k) => Quietly
  /\ GroupStep \/ GateStep => Quietly
  /\ SaveStep => Aside
  <1>1. BodyStep => Quietly
    BY DEF BodyStep, Quietly, Unpark, Start, Await, Collect, BodyEnds, CreateTask, Spawned, saving
  <1>2. \A k \in Kids : KidStep(k) => Quietly
    BY DEF KidStep, Quietly, Steps, saving, Enter, Work, KidFails, KidEnds, Interrupt, KidUnparks
  <1>3. GroupStep \/ GateStep => Quietly
    BY DEF GroupStep, GateStep, Quietly, saving, Abort, CancelRun, CloseGroup, Exit, Pause, Resume
  <1>4. SaveStep => Aside
    BY DEF SaveStep, Aside, Save, SaveDirect, SavedDirect, Timeout, WriteFile, TerminalWrite,
           TerminalWritten, Serialize
  <1> QED BY <1>1, <1>2, <1>3, <1>4

LEMMA BodyTypes ==
  ASSUME ChildTypes, BodyStep
  PROVE  ChildTypes'
  <1> USE DEF ChildTypes, BodyType, Closing, BodyOver
  <1>m. MapTypes BY DEF ChildTypes
  <1>1. CASE Unpark
    <2>1. MapTypes' BY <1>1, <1>m, MapWith DEF Unpark
    <2> QED BY <1>1, <2>1 DEF Unpark, Goes
  <1>2. ASSUME NEW delegated \in BOOLEAN, Start(delegated) PROVE ChildTypes'
    <2>1. seq \in Kids
      <3>1. MaxKids \in Nat BY ChildrenAssumption
      <3>2. seq \in Nat /\ seq < MaxKids BY <1>2 DEF Start
      <3> QED BY ONLY <3>1, <3>2 DEF Kids
    <2>a. Counting(With(seq, "running")) BY <1>2 DEF Start
    <2>2. MapTypes' BY ONLY <1>m, <2>1, <2>a, MapWith
    <2>3. [NewKid EXCEPT !.st = "registered"] \in KidType BY DEF NewKid, KidType, KidStates
    <2>4. kid' \in [Kids -> KidType] BY <1>2, <2>1, <2>3 DEF Start
    <2>5. body' \in BodyType BY <1>2, <2>1 DEF Start
    <2>6. seq + 1 \in Nat
      <3>1. seq \in Nat OBVIOUS
      <3> QED BY ONLY <3>1
    <2> QED BY <1>2, <2>2, <2>4, <2>5, <2>6 DEF Start
  <1>3. ASSUME NEW ks \in SUBSET Kids, Await(ks) PROVE ChildTypes'
    <2>1. MapTypes' BY <1>3, <1>m, MapWith DEF Await
    <2> QED BY <1>3, <2>1 DEF Await
  <1>4. CASE Collect
    <2>1. MapTypes' BY <1>4, <1>m, MapWith DEF Collect
    <2> QED BY <1>4, <2>1 DEF Collect, Goes
  <1>5. ASSUME NEW how \in {"returned", "failed"}, BodyEnds(how) PROVE ChildTypes'
    BY <1>5, <1>m DEF BodyEnds, Goes, MapTypes
  <1>6. ASSUME NEW k \in Kids, CreateTask(k) PROVE ChildTypes'
    BY <1>6, <1>m, ZenonT(40) DEF CreateTask, KidType, KidStates, Live, MapTypes
  <1>7. ASSUME NEW k \in Kids, Spawned(k) PROVE ChildTypes' BY <1>7, <1>m DEF Spawned, Goes, MapTypes
  <1> QED BY <1>1, <1>2, <1>3, <1>4, <1>5, <1>6, <1>7 DEF BodyStep

LEMMA KidTypes ==
  ASSUME ChildTypes, NEW k \in Kids, KidStep(k)
  PROVE  ChildTypes'
  <1> USE DEF ChildTypes, KidType, KidStates, Live, Over, Steps, To
  <1>m. MapTypes BY DEF ChildTypes
  <1>1. CASE Enter(k)
    <2>1. MapTypes' BY <1>1, <1>m, MapWith DEF Enter
    <2> QED BY <1>1, <2>1 DEF Enter
  <1>2. CASE Work(k) BY <1>2, <1>m DEF Work, MapTypes
  <1>3. CASE KidFails(k)
    <2>1. MapTypes' BY <1>3, <1>m, MapWithout DEF KidFails
    <2> QED BY <1>3, <2>1, ZenonT(40) DEF KidFails
  <1>4. CASE KidEnds(k)
    <2>1. kid[k].cuts \in Nat /\ (Absorbs(k) => kid[k].cuts - 1 \in Nat) BY DEF Absorbs
    <2>2. kid' \in [Kids -> KidType]
      <3>1. kid[k] \in KidType /\ kid \in [Kids -> KidType] OBVIOUS
      <3>2. PICK st \in KidStates, n \in Nat : kid' = [kid EXCEPT ![k].st = st, ![k].cuts = n]
        BY <1>4, <2>1 DEF KidEnds
      <3> QED BY ONLY <3>1, <3>2 DEF KidType
    <2>3. UNCHANGED <<body, seq, group, struck, gate, lost, counted, run>> BY <1>4 DEF KidEnds
    <2>4. MapTypes' BY ONLY <1>m, <2>3 DEF MapTypes
    <2> HIDE DEF KidType, BodyType
    <2>5. body' \in BodyType /\ seq' \in Nat /\ group' \in {"open", "aborting", "closed"} BY <2>3
    <2>6. struck' \subseteq Kids /\ lost' \subseteq Kids /\ gate' \in BOOLEAN BY <2>3
    <2> QED BY <2>2, <2>4, <2>5, <2>6
  <1>5. CASE Interrupt(k) BY <1>5, <1>m DEF Interrupt, MapTypes
  <1>6. ASSUME NEW last \in BOOLEAN, KidUnparks(k, last) PROVE ChildTypes'
    <2>1. CASE last
      <3>1. Counting(Without(k)) BY <1>6, <2>1 DEF KidUnparks, Onward
      <3>2. MapTypes' BY ONLY <1>m, <3>1, MapWithout
      <3> QED BY <1>6, <2>1, <3>2 DEF KidUnparks, Onward
    <2>2. CASE ~last
      <3>1. Counting(With(k, "running")) BY <1>6, <2>2 DEF KidUnparks, Onward
      <3>2. MapTypes' BY ONLY <1>m, <3>1, MapWith
      <3> QED BY <1>6, <2>2, <3>2 DEF KidUnparks, Onward
    <2> QED BY <2>1, <2>2
  <1> QED BY <1>1, <1>2, <1>3, <1>4, <1>5, <1>6 DEF KidStep

LEMMA StruckTypes ==
  ASSUME kid \in [Kids -> KidType], NEW reason \in {"none", "run_cancelled"}
  PROVE  /\ Struck(reason) \in [Kids -> KidType]
         /\ \A k \in Kids :
              /\ Struck(reason)[k].st = kid[k].st /\ Struck(reason)[k].how = kid[k].how
              /\ kid[k].st \notin Live => Struck(reason)[k] = kid[k]
              /\ kid[k].st \in Live =>
                   /\ Struck(reason)[k].cuts = kid[k].cuts + 1 /\ Struck(reason)[k].cut
                   /\ Struck(reason)[k].reason =
                        IF kid[k].reason = "none" THEN reason ELSE kid[k].reason
  <1>1. \A k \in Kids : kid[k] \in KidType OBVIOUS
  <1>2. \A k \in Kids : Struck(reason)[k] =
          IF kid[k].st \notin Live THEN kid[k]
          ELSE [kid[k] EXCEPT !.cuts = @ + 1, !.cut = TRUE,
                              !.reason = IF @ = "none" THEN reason ELSE @]
    BY DEF Struck
  <1>3. ASSUME NEW k \in Kids
        PROVE  /\ Struck(reason)[k] \in KidType
               /\ Struck(reason)[k].st = kid[k].st /\ Struck(reason)[k].how = kid[k].how
               /\ kid[k].st \in Live =>
                    /\ Struck(reason)[k].cuts = kid[k].cuts + 1 /\ Struck(reason)[k].cut
                    /\ Struck(reason)[k].reason =
                         IF kid[k].reason = "none" THEN reason ELSE kid[k].reason
    <2>1. kid[k] \in KidType BY <1>1
    <2>2. CASE kid[k].st \notin Live BY <1>2, <2>1, <2>2
    <2>3. CASE kid[k].st \in Live
      <3>1. Struck(reason)[k] =
              [kid[k] EXCEPT !.cuts = kid[k].cuts + 1, !.cut = TRUE,
                             !.reason = IF kid[k].reason = "none" THEN reason ELSE kid[k].reason]
        BY <1>2, <2>3
      <3>2. kid[k].cuts + 1 \in Nat BY <2>1 DEF KidType
      <3> QED BY <2>1, <3>1, <3>2 DEF KidType
    <2> QED BY <2>2, <2>3
  <1>4. Struck(reason) \in [Kids -> KidType] BY <1>3 DEF Struck
  <1> QED BY <1>2, <1>3, <1>4

LEMMA GroupTypes ==
  ASSUME ChildTypes, GroupStep \/ GateStep
  PROVE  ChildTypes'
  <1> USE DEF ChildTypes, BodyType, Closing, BodyOver
  <1>m. MapTypes BY DEF ChildTypes
  <1>k. {k \in Kids : kid[k].st \in Live} \subseteq Kids OBVIOUS
  <1>1. CASE Abort
    <2>1. kid' \in [Kids -> KidType] BY <1>1, StruckTypes DEF Abort
    <2> QED BY <1>1, <1>m, <1>k, <2>1 DEF Abort, MapTypes
  <1>2. CASE CancelRun
    <2>1. kid' \in [Kids -> KidType] BY <1>2, StruckTypes DEF CancelRun
    <2> QED BY <1>2, <1>m, <1>k, <2>1 DEF CancelRun, MapTypes
  <1>3. CASE CloseGroup BY <1>3, <1>m DEF CloseGroup, MapTypes
  <1>4. CASE Exit BY <1>4, <1>m DEF Exit, MapTypes, Without, Restrict, Goes
  <1>5. CASE Pause BY <1>5, <1>m DEF Pause, MapTypes, tasks
  <1>6. CASE Resume BY <1>6, <1>m DEF Resume, MapTypes, tasks
  <1> QED BY <1>1, <1>2, <1>3, <1>4, <1>5, <1>6 DEF GroupStep, GateStep

\* A cut that takes the lock from its holder, and what else can end a write.
LEMMA WriteDropped ==
  ASSUME WriteTypes, NEW by, IF write.by = {by} THEN write' = NoWrite ELSE UNCHANGED write
  PROVE  write' = NoWrite \/ (write' = write /\ write.by # {by})
  OBVIOUS

LEMMA KidWriteTypes ==
  ASSUME ChildTypes, WriteTypes, NEW k \in Kids,
         KidSafePoint(k) \/ KidCut(k) \/ \E last \in BOOLEAN : KidWritten(k, last)
  PROVE  ChildTypes' /\ WriteTypes'
  <1>k. k \in Writers /\ kid[k] \in KidType /\ kid \in [Kids -> KidType] BY DEF Writers, ChildTypes
  <1>m. MapTypes BY DEF ChildTypes
  <1>1. CASE KidSafePoint(k)
    <2>1. Serialize(k, SaveTargets, rec) BY <1>1 DEF KidSafePoint
    <2>2. rec \in Nat BY DEF WriteTypes
    <2>3. write' \in WriteType /\ write'.by # {} /\ write'.doc.there
      BY ONLY <1>k, <2>1, <2>2, WriteTypes, TargetsOfWaiting, SerializeTypes
    <2> QED BY <1>1, <2>3 DEF KidSafePoint, Steps, WriteTypes, ChildTypes, MapTypes
  <1>2. CASE KidCut(k)
    <2>1. MapTypes'
      <3>1. CASE kid[k].st \in {"created", "entering"} BY <1>2, <1>m, <3>1 DEF KidCut, MapTypes
      <3>2. CASE kid[k].st \notin {"created", "entering"}
        <4>1. Counting(Without(k)) BY <1>2, <3>2 DEF KidCut
        <4> QED BY ONLY <1>m, <4>1, MapWithout
      <3> QED BY <3>1, <3>2
    <2>2. kid' \in [Kids -> KidType]
      <3>1. PICK st \in KidStates :
              kid' = [kid EXCEPT ![k].cut = FALSE, ![k].how = "cut", ![k].st = st]
        BY <1>2 DEF KidCut, KidStates, Live, Over
      <3> QED BY ONLY <1>k, <3>1 DEF KidType
    <2>3. lost' \subseteq Kids BY <1>2 DEF KidCut, ChildTypes
    <2>4. write' = write \/ write' = NoWrite BY <1>2 DEF KidCut
    <2> QED BY <1>2, <2>1, <2>2, <2>3, <2>4 DEF KidCut, Steps, WriteTypes, ChildTypes
  <1>3. ASSUME NEW last \in BOOLEAN, KidWritten(k, last) PROVE ChildTypes' /\ WriteTypes'
    <2>1. write' = NoWrite BY <1>3 DEF KidWritten, WrittenBy
    <2>2. sv' \in [Saves -> SaveStates] BY <1>3, ReleaseTypes DEF KidWritten
    <2>3. kid' \in [Kids -> KidType]
      <3>1. PICK st \in KidStates, how \in {"ok", kid[k].how} :
              kid' = [kid EXCEPT ![k].st = st, ![k].how = how]
        <4>1. kid[k] = [st |-> kid[k].st, cuts |-> kid[k].cuts, cut |-> kid[k].cut,
                        reason |-> kid[k].reason, how |-> kid[k].how]
          BY <1>k DEF KidType
        <4>2. \A st : [kid EXCEPT ![k].st = st] = [kid EXCEPT ![k].st = st, ![k].how = kid[k].how]
          BY <1>k, <4>1
        <4>3. {"parked", "working", "leaving"} \subseteq KidStates BY DEF KidStates, Live
        <4> QED BY <1>3, <4>2, <4>3 DEF KidWritten, To, Onward
      <3>2. how \in {"none", "ok", "failed", "cut"} BY <1>k, <3>1 DEF KidType
      <3> QED BY ONLY <1>k, <3>1, <3>2 DEF KidType
    <2>4. MapTypes'
      <3>1. CASE gate /\ Counting(With(k, "parked")) BY ONLY <1>m, <1>k, <3>1, MapWith
      <3>2. CASE Counting(With(k, "running")) BY ONLY <1>m, <1>k, <3>2, MapWith
      <3>3. CASE Counting(Without(k)) BY ONLY <1>m, <1>k, <3>3, MapWithout
      <3> QED BY <1>3, <3>1, <3>2, <3>3 DEF KidWritten, Parks, Onward
    <2> QED BY <1>3, <2>1, <2>2, <2>3, <2>4 DEF KidWritten, Steps, WriteTypes, ChildTypes
  <1> QED BY <1>1, <1>2, <1>3

LEMMA NodeWriteTypes ==
  ASSUME ChildTypes, WriteTypes, Checkpoint \/ NodeWritten \/ BodyCut
  PROVE  ChildTypes' /\ WriteTypes'
  <1>k. Node \in Writers /\ body \in BodyType /\ seq \in Nat BY DEF Writers, ChildTypes
  <1>m. MapTypes BY DEF ChildTypes
  <1>1. CASE Checkpoint
    <2>1. Serialize(Node, SaveTargets, seq) BY <1>1 DEF Checkpoint, Snapshot
    <2>3. write' \in WriteType /\ write'.by # {} /\ write'.doc.there
      BY ONLY <1>k, <2>1, WriteTypes, TargetsOfWaiting, SerializeTypes
    <2>4. body' \in BodyType BY <1>1, <1>k DEF Checkpoint, Goes, BodyType, Closing
    <2> QED BY <1>1, <1>k, <2>3, <2>4
      DEF Checkpoint, Snapshot, WriteTypes, ChildTypes, MapTypes
  <1>2. CASE NodeWritten
    <2>1. write' = NoWrite BY <1>2 DEF NodeWritten, WrittenBy
    <2>2. sv' \in [Saves -> SaveStates] BY <1>2, ReleaseTypes DEF NodeWritten
    <2>3. body' \in BodyType BY <1>2, <1>k DEF NodeWritten, Goes, BodyType, Closing
    <2>4. MapTypes'
      <3>1. CASE Counting(With(Node, "parked")) BY ONLY <1>m, <3>1, MapWith
      <3>2. CASE UNCHANGED <<counted, run>> BY ONLY <1>m, <3>2 DEF MapTypes
      <3> QED BY <1>2, <3>1, <3>2 DEF NodeWritten, Parks
    <2>5. 0 .. seq - 1 \subseteq Nat BY ONLY <1>k
    <2> QED BY <1>2, <2>1, <2>2, <2>3, <2>4, <2>5 DEF NodeWritten, WriteTypes, ChildTypes
  <1>3. CASE BodyCut
    <2>1. write' = write \/ write' = NoWrite BY <1>3 DEF BodyCut
    <2>2. body' \in BodyType BY <1>3, <1>k DEF BodyCut, BodyType, Closing, BodyOver
    <2>3. MapTypes'
      <3>1. CASE Counting(With(Node, "running")) BY ONLY <1>m, <3>1, MapWith
      <3>2. CASE Counting(counted) BY ONLY <1>m, <3>2, MapSame
      <3> QED BY <1>3, <3>1, <3>2 DEF BodyCut
    <2>4. lost' \subseteq Kids BY <1>3, <1>k DEF BodyCut, ChildTypes, BodyType
    <2> QED BY <1>3, <2>1, <2>2, <2>3, <2>4 DEF BodyCut, WriteTypes, ChildTypes
  <1> QED BY <1>1, <1>2, <1>3

LEMMA SaveTypes ==
  ASSUME ChildTypes, WriteTypes, SaveStep
  PROVE  ChildTypes' /\ WriteTypes'
  <1>1. ChildTypes' BY StepsAside DEF Aside, tasks, ChildTypes, MapTypes
  <1>2. ASSUME NEW s \in Saves, Save(s) \/ Timeout(s) PROVE WriteTypes'
    BY <1>2 DEF Save, Timeout, WriteTypes, SaveStates
  <1>3. ASSUME NEW s \in Saves, SaveDirect(s) PROVE WriteTypes'
    <2>1. Serialize(s, <<PathOf[s]>>, rec) BY <1>3 DEF SaveDirect
    <2>2. rec \in Nat /\ s \in Writers /\ <<PathOf[s]>> \in Seq(Paths)
      BY PathsFinite DEF WriteTypes, Writers
    <2>3. write' \in WriteType /\ write'.by # {} /\ write'.doc.there
      BY ONLY <2>1, <2>2, WriteTypes, SerializeTypes
    <2> QED BY <1>3, <2>3 DEF SaveDirect, WriteTypes
  <1>4. ASSUME NEW s \in Saves, SavedDirect(s) PROVE WriteTypes'
    BY <1>4 DEF SavedDirect, WrittenBy, WriteTypes, SaveStates
  <1>5. CASE WriteFile
    <2>1. write \in WriteType /\ write.todo # <<>> /\ write.by # {} /\ write.doc.there
      BY <1>5 DEF WriteFile, WriteTypes
    <2>2. write.todo \in Seq(Paths) /\ write.doc \in Docs BY <2>1 DEF WriteType
    <2>3. Head(write.todo) \in Paths /\ Tail(write.todo) \in Seq(Paths) BY <2>1, <2>2, HeadIsDone
    <2>4. write' \in WriteType /\ write'.by # {} /\ write'.doc.there
      BY <1>5, <2>1, <2>3 DEF WriteFile, WriteType
    <2> QED BY <1>1, <1>5, <2>2, <2>3, <2>4 DEF WriteFile, WriteTypes
  <1>6. CASE TerminalWrite
    <2>1. Serialize(SessionPath, SetToSeq(final), rec) BY <1>6 DEF TerminalWrite
    <2>2. rec \in Nat /\ SessionPath \in Writers /\ final \subseteq Paths
      BY DEF WriteTypes, Writers
    <2>3. write' \in WriteType /\ write'.by # {} /\ write'.doc.there
      BY ONLY <2>1, <2>2, WriteTypes, TargetsOfFinal, SerializeTypes
    <2> QED BY <1>1, <1>6, <2>3 DEF TerminalWrite, WriteTypes
  <1>7. CASE TerminalWritten
    BY <1>1, <1>7, ReleaseTypes DEF TerminalWritten, WrittenBy, WriteTypes
  <1> QED BY <1>1, <1>2, <1>3, <1>4, <1>5, <1>6, <1>7 DEF SaveStep

LEMMA LoadTypes ==
  ASSUME ChildTypes, WriteTypes, Finish \/ CrashAndLoad
  PROVE  ChildTypes' /\ WriteTypes'
  <1>1. CASE Finish
    <2>1. final' \subseteq Paths
      <3>1. Range(SaveTargets) = ToSet(SaveTargets) /\ SaveTargets \in Seq(Paths)
        BY TargetsOfWaiting
      <3>2. ToSet(SaveTargets) \subseteq Paths BY ONLY <3>1 DEF ToSet
      <3> QED BY <1>1, <3>1, <3>2 DEF Finish
    <2> QED BY <1>1, <2>1 DEF Finish, tasks, ChildTypes, MapTypes, WriteTypes
  <1>2. CASE CrashAndLoad
    <2>1. file[SessionPath].seq \in Nat BY PathsFinite DEF WriteTypes, Docs
    <2>2. NewBody \in BodyType /\ NewKid \in KidType
      BY DEF NewBody, NewKid, BodyType, KidType, KidStates
    <2>3. MapTypes' BY <1>2 DEF CrashAndLoad, MapTypes
    <2>4. kid' \in [Kids -> KidType] /\ body' \in BodyType BY <1>2, <2>2 DEF CrashAndLoad
    <2>5. ChildTypes' BY <1>2, <2>1, <2>3, <2>4 DEF CrashAndLoad, Adopted, ChildTypes
    <2>6. sv' \in [Saves -> SaveStates] BY <1>2 DEF CrashAndLoad, SaveStates
    <2>7. WriteTypes' BY <1>2, <2>1, <2>6 DEF CrashAndLoad, WriteTypes
    <2> QED BY <2>5, <2>7
  <1> QED BY <1>1, <1>2

Types == ChildTypes /\ WriteTypes

LEMMA TypesInit == Init => Types
  <1> SUFFICES ASSUME Init PROVE Types
    OBVIOUS
  <1>1. NewBody \in BodyType /\ NewKid \in KidType /\ Absent \in Docs
    BY DEF NewBody, NewKid, Absent, BodyType, KidType, KidStates, Docs
  <1>2. ChildTypes BY <1>1 DEF Init, ChildTypes, MapTypes
  <1>3. WriteTypes BY <1>1 DEF Init, WriteTypes, SaveStates
  <1> QED BY <1>2, <1>3 DEF Types

LEMMA TypesStep == Types /\ [Next]_vars => Types'
  <1> SUFFICES ASSUME Types, [Next]_vars PROVE Types'
    OBVIOUS
  <1> USE DEF Types
  <1>1. CASE UNCHANGED vars
    BY <1>1 DEF vars, tasks, saving, ChildTypes, MapTypes, WriteTypes
  <1>2. Quietly => WriteTypes' BY DEF Quietly, saving, WriteTypes
  <1>3. CASE BodyStep BY <1>2, <1>3, BodyTypes, StepsAside
  <1>4. ASSUME NEW k \in Kids, KidStep(k) PROVE Types' BY <1>2, <1>4, KidTypes, StepsAside
  <1>5. CASE GroupStep \/ GateStep BY <1>2, <1>5, GroupTypes, StepsAside
  <1>6. ASSUME NEW k \in Kids,
               KidSafePoint(k) \/ KidCut(k) \/ \E last \in BOOLEAN : KidWritten(k, last)
        PROVE  Types'
    BY <1>6, KidWriteTypes
  <1>7. CASE SaveStep BY <1>7, SaveTypes
  <1>8. CASE Checkpoint \/ NodeWritten \/ BodyCut BY <1>8, NodeWriteTypes
  <1>9. CASE Finish \/ CrashAndLoad BY <1>9, LoadTypes
  <1> QED BY <1>1, <1>3, <1>4, <1>5, <1>6, <1>7, <1>8, <1>9, NextSteps

-----------------------------------------------------------------------------
(* The group *)

SameFor(j) ==
  /\ j \in DOMAIN counted' <=> j \in DOMAIN counted
  /\ j \in DOMAIN counted => counted'[j] = counted[j]

\* A step of one child, or of its task, as long as the group has tasks.
LEMMA OneKidMoves ==
  ASSUME Types, Types', GroupInv, NEW k \in Kids,
         kid[k].st # "none", group # "closed",
         UNCHANGED <<body, seq, group, struck>>, lost \subseteq lost',
         \A j \in Kids \ {k} : kid'[j] = kid[j] /\ SameFor(j),
         KidHolds(k)', kid'[k].st \in Live \cup Over,
         k \in DOMAIN counted' => k \in lost' \/ kid'[k].st \in {"created", "entering", "working", "parked"},
         kid'[k].st \in {"created", "entering", "working"} =>
           k \in DOMAIN counted' /\ counted'[k] = "running"
  PROVE  GroupInv'
  <1> USE DEF GroupInv
  <1>1. KidsHold' BY DEF KidsHold, KidHolds, CutByItself, CutTwice
  <1>2. GroupHolds' BY DEF GroupHolds, OnlyItsChild
  <1>3. CountHolds'
    BY DEF CountHolds, WorkIsCounted, Registering, SameFor, Live, Over
  <1> QED BY <1>1, <1>2, <1>3

\* A step of the node's body.
LEMMA BodyMoves ==
  ASSUME Types, Types', GroupInv, UNCHANGED <<kid, seq, group, struck>>, lost \subseteq lost',
         \A j \in Kids : SameFor(j),
         body'.pc = "cancelled" => group # "open",
         body'.cut => body.cut /\ body'.pc \notin BodyOver \cup {"ending", "left"},
         group = "closed" <=> body'.pc \in Closing,
         \A j \in Kids : kid[j].st = "registered" =>
           j \in lost' \/ (j \in body'.on /\ body'.pc \in {"delegating", "spawning"})
  PROVE  GroupInv'
  <1> USE DEF GroupInv
  <1>1. KidsHold' BY DEF KidsHold, KidHolds, CutByItself, CutTwice
  <1>2. GroupHolds' BY DEF GroupHolds, OnlyItsChild
  <1>3. CountHolds' BY DEF CountHolds, WorkIsCounted, Registering, SameFor
  <1> QED BY <1>1, <1>2, <1>3

LEMMA GroupSame ==
  ASSUME GroupInv, UNCHANGED <<body, seq, kid, group, lost, struck, counted>>
  PROVE  GroupInv'
  BY DEF GroupInv, KidsHold, KidHolds, CutByItself, CutTwice, GroupHolds, OnlyItsChild,
         CountHolds, WorkIsCounted, Registering

\* The map on the children, when the node's own entry moves.
LEMMA NodeEntry ==
  ASSUME ChildTypes, NEW ph, Counting(With(Node, ph)) \/ Counting(counted) \/ UNCHANGED counted
  PROVE  \A j \in Kids : SameFor(j)
  <1>m. MapTypes BY DEF ChildTypes
  <1>n. Node \notin Kids BY ChildrenAssumption
  <1>1. CASE Counting(With(Node, ph))
    <2>1. /\ DOMAIN counted' = DOMAIN counted \cup {Node}
          /\ \A j \in DOMAIN counted \ {Node} : counted'[j] = counted[j]
      BY ONLY <1>m, <1>1, MapWith
    <2> QED BY <1>n, <2>1 DEF SameFor
  <1>2. CASE Counting(counted)
    <2>1. counted' = counted BY ONLY <1>m, <1>2, MapSame
    <2> QED BY <2>1 DEF SameFor
  <1>3. CASE UNCHANGED counted BY <1>3 DEF SameFor
  <1> QED BY <1>1, <1>2, <1>3

\* What the other entries see of a change of one child's.
LEMMA KidEntry ==
  ASSUME ChildTypes, NEW k \in Kids, NEW ph, Counting(With(k, ph))
  PROVE  /\ \A j \in Kids \ {k} : SameFor(j)
         /\ k \in DOMAIN counted' /\ counted'[k] = ph
  <1>m. MapTypes BY DEF ChildTypes
  <1>1. /\ DOMAIN counted' = DOMAIN counted \cup {k} /\ counted'[k] = ph
        /\ \A j \in DOMAIN counted \ {k} : counted'[j] = counted[j]
    BY ONLY <1>m, MapWith, Counting(With(k, ph))
  <1> QED BY <1>1 DEF SameFor

LEMMA KidLeaves ==
  ASSUME ChildTypes, NEW k, Counting(Without(k))
  PROVE  /\ \A j \in Kids \ {k} : SameFor(j)
         /\ k \notin DOMAIN counted'
  <1>m. MapTypes BY DEF ChildTypes
  <1>1. /\ DOMAIN counted' = DOMAIN counted \ {k}
        /\ \A j \in DOMAIN counted \ {k} : counted'[j] = counted[j]
    BY ONLY <1>m, MapWithout, Counting(Without(k))
  <1> QED BY <1>1 DEF SameFor

LEMMA BodyGroup ==
  ASSUME Types, Types', GroupInv, BodyStep
  PROVE  GroupInv'
  <1>t. ChildTypes /\ body \in BodyType /\ group \in {"open", "aborting", "closed"}
    BY DEF Types, ChildTypes
  <1>g. GroupHolds BY DEF GroupInv
  <1>r. \A j \in Kids : kid[j].st = "registered" => j \in lost \/ Registering(j)
    BY DEF GroupInv, CountHolds
  <1>1. CASE Unpark
    <2>1. \A j \in Kids : SameFor(j) BY <1>1, <1>t, NodeEntry DEF Unpark
    <2>2. body'.pc = IF body.pc = "parked" THEN "working" ELSE "ending"
      BY <1>1, <1>t DEF Unpark, Goes, BodyType
    <2>3. body'.cut = body.cut /\ ~body.cut BY <1>1, <1>t DEF Unpark, Goes, BodyType
    <2>4. group = "closed" <=> body'.pc \in Closing BY <1>1, <1>g, <2>2 DEF Unpark, GroupHolds, Closing
    <2>5. UNCHANGED <<kid, seq, group, struck, lost>> BY <1>1 DEF Unpark
    <2>6. \A j \in Kids : kid[j].st = "registered" => j \in lost
      BY <1>1, <1>r DEF Registering, Unpark
    <2> QED BY <2>1, <2>2, <2>3, <2>4, <2>5, <2>6, BodyMoves
  <1>2. ASSUME NEW delegated \in BOOLEAN, Start(delegated) PROVE GroupInv'
    <2>1. PICK k \in Kids : k = seq
      <3>1. MaxKids \in Nat BY ChildrenAssumption
      <3>2. seq \in Nat /\ seq < MaxKids BY <1>2, <1>t DEF Start, ChildTypes
      <3> QED BY ONLY <3>1, <3>2 DEF Kids
    <2>2. /\ \A j \in Kids \ {k} : kid'[j] = kid[j]
          /\ kid'[k] = [NewKid EXCEPT !.st = "registered"]
      BY <1>2, <1>t, <2>1 DEF Start, ChildTypes
    <2>3. /\ kid'[k].st = "registered" /\ kid'[k].cuts = 0 /\ ~kid'[k].cut
          /\ kid'[k].reason = "none" /\ kid'[k].how = "none"
      BY <2>2 DEF NewKid
    <2>4. UNCHANGED <<group, struck, lost>> /\ seq' = seq + 1 BY <1>2 DEF Start
    <2>5. Counting(With(k, "running")) BY <1>2, <2>1 DEF Start
    <2>6. /\ \A j \in Kids \ {k} : SameFor(j)
          /\ k \in DOMAIN counted' /\ counted'[k] = "running"
      BY ONLY <1>t, <2>1, <2>5, KidEntry
    <2>a. seq \in Nat BY <1>t DEF ChildTypes
    <2>7. kid[k].st = "none" /\ k \notin struck
      <3>1. KidHolds(k) /\ ~(k < seq) BY <2>1, <2>a DEF GroupInv, KidsHold
      <3> QED BY <3>1 DEF KidHolds, CutTwice, Live, Over
    <2>8. /\ body'.pc \in {"delegating", "spawning"} /\ body'.on = {k}
          /\ body'.cut = body.cut /\ ~body.cut /\ body.pc = "working"
      BY <1>2, <1>t, <2>1 DEF Start, BodyAt, BodyType
    <2>9. KidsHold'
      <3>1. KidHolds(k)'
        <4>1. k < seq' BY <2>1, <2>4, <2>a
        <4> QED BY <2>3, <2>4, <2>7, <4>1 DEF KidHolds, CutByItself, Live
      <3>2. ASSUME NEW j \in Kids \ {k} PROVE KidHolds(j)'
        <4>1. kid'[j] = kid[j] BY <2>2
        <4>2. KidHolds(j) BY DEF GroupInv, KidsHold
        <4>3. j < seq => j < seq' BY <2>4, <2>a DEF Kids
        <4> QED BY <2>4, <4>1, <4>2, <4>3 DEF KidHolds, CutByItself, CutTwice
      <3> QED BY <3>1, <3>2 DEF KidsHold
    <2>10. GroupHolds'
      BY <1>g, <2>2, <2>3, <2>4, <2>8 DEF GroupHolds, OnlyItsChild, Closing, BodyOver, Live
    <2>11. CountHolds'
      <3>1. CountHolds BY DEF GroupInv
      <3>2. WorkIsCounted' BY <2>2, <2>3, <2>6, <3>1 DEF CountHolds, WorkIsCounted, SameFor
      <3>3. \A j \in DOMAIN counted' \cap Kids :
              \/ j \in lost'
              \/ kid'[j].st \in {"registered", "created", "entering", "working", "parked"}
        BY <2>2, <2>3, <2>4, <2>6, <3>1 DEF CountHolds, SameFor
      <3>4. \A j \in Kids : kid'[j].st = "registered" => j \in lost' \/ Registering(j)'
        BY <1>r, <2>2, <2>4, <2>8 DEF Registering
      <3> QED BY <3>2, <3>3, <3>4 DEF CountHolds
    <2> QED BY <2>9, <2>10, <2>11 DEF GroupInv
  <1>3. ASSUME NEW ks \in SUBSET Kids, Await(ks) PROVE GroupInv'
    <2>1. \A j \in Kids : SameFor(j) BY <1>3, <1>t, NodeEntry DEF Await
    <2>2. body'.pc = "waiting" /\ body'.cut = body.cut /\ ~body.cut /\ body.pc \notin Closing
      BY <1>3, <1>t DEF Await, BodyAt, BodyType, Closing
    <2>5. UNCHANGED <<kid, seq, group, struck, lost>> BY <1>3 DEF Await
    <2>6. \A j \in Kids : kid[j].st = "registered" => j \in lost
      BY <1>3, <1>r DEF Registering, Await, BodyAt, Entered, Over, Live
    <2> QED BY <1>g, <2>1, <2>2, <2>5, <2>6, BodyMoves DEF GroupHolds, Closing
  <1>4. CASE Collect
    <2>1. \A j \in Kids : SameFor(j) BY <1>4, <1>t, NodeEntry DEF Collect
    <2>2. /\ body'.pc \in {"failed", "cancelled", "working"}
          /\ body'.pc = "cancelled" => \E k \in body.on : kid[k].st = "cancelled"
          /\ body'.cut = body.cut /\ ~body.cut /\ body.pc = "waiting"
      BY <1>4, <1>t DEF Collect, BodyAt, Goes, BodyType
    <2>3. body'.pc = "cancelled" => group # "open"
      BY <1>t, <2>2 DEF GroupInv, KidsHold, KidHolds, CutByItself, BodyType
    <2>5. UNCHANGED <<kid, seq, group, struck, lost>> BY <1>4 DEF Collect
    <2>6. \A j \in Kids : kid[j].st = "registered" => j \in lost BY <2>2, <1>r DEF Registering
    <2> QED BY <1>g, <2>1, <2>2, <2>3, <2>5, <2>6, BodyMoves DEF GroupHolds, Closing
  <1>5. ASSUME NEW how \in {"returned", "failed"}, BodyEnds(how) PROVE GroupInv'
    <2>1. \A j \in Kids : SameFor(j) BY <1>5 DEF BodyEnds, SameFor
    <2>2. body'.pc = how /\ body'.cut = body.cut /\ ~body.cut /\ body.pc = "working"
      BY <1>5, <1>t DEF BodyEnds, BodyAt, Goes, BodyType
    <2>5. UNCHANGED <<kid, seq, group, struck, lost>> BY <1>5 DEF BodyEnds
    <2>6. \A j \in Kids : kid[j].st = "registered" => j \in lost BY <2>2, <1>r DEF Registering
    <2> QED BY <1>g, <2>1, <2>2, <2>5, <2>6, BodyMoves DEF GroupHolds, Closing
  <1>6. ASSUME NEW k \in Kids, CreateTask(k) PROVE GroupInv'
    <2>1. \A j \in Kids : SameFor(j) BY <1>6 DEF CreateTask, SameFor
    <2>2. /\ \A j \in Kids \ {k} : kid'[j] = kid[j]
          /\ kid'[k] = [kid[k] EXCEPT !.st = "created"] /\ kid[k].st = "registered"
          /\ kid[k] \in KidType
      BY <1>6, <1>t DEF CreateTask, ChildTypes
    <2>3. /\ kid'[k].st = "created" /\ kid'[k].cuts = kid[k].cuts /\ kid'[k].cut = kid[k].cut
          /\ kid'[k].reason = kid[k].reason /\ kid'[k].how = kid[k].how
      BY <2>2 DEF KidType
    <2>4. UNCHANGED <<body, seq, group, struck, lost>> BY <1>6 DEF CreateTask
    <2>5. k \in DOMAIN counted' /\ counted'[k] = "running"
      BY <1>6, <2>2 DEF CreateTask, GroupInv, CountHolds, WorkIsCounted
    <2>6. group # "closed" BY <1>6, <1>g DEF CreateTask, GroupHolds, Closing
    <2>7. KidHolds(k)'
      BY <1>6, <2>2, <2>3, <2>4
      DEF GroupInv, KidsHold, KidHolds, CutByItself, CutTwice, Live, Over
    <2> QED BY <2>1, <2>2, <2>3, <2>4, <2>5, <2>6, <2>7, OneKidMoves DEF Live
  <1>7. ASSUME NEW k \in Kids, Spawned(k) PROVE GroupInv'
    <2>1. \A j \in Kids : SameFor(j) BY <1>7 DEF Spawned, SameFor
    <2>2. body'.pc = "working" /\ body'.cut = body.cut /\ ~body.cut /\ body.pc = "spawning"
      BY <1>7, <1>t DEF Spawned, BodyAt, Goes, BodyType
    <2>5. UNCHANGED <<kid, seq, group, struck, lost>> BY <1>7 DEF Spawned
    <2>6. \A j \in Kids : kid[j].st = "registered" => j \in lost
      BY <1>7, <1>r DEF Registering, Spawned, Entered, Over, Live
    <2> QED BY <1>g, <2>1, <2>2, <2>5, <2>6, BodyMoves DEF GroupHolds, Closing
  <1> QED BY <1>1, <1>2, <1>3, <1>4, <1>5, <1>6, <1>7 DEF BodyStep

\* The task of a child runs one step; `Cuts` is what its ending rests on.
LEMMA KidGroup ==
  ASSUME Types, Types', GroupInv, NEW k \in Kids,
         KidStep(k) \/ KidSafePoint(k) \/ KidCut(k) \/ \E last \in BOOLEAN : KidWritten(k, last)
  PROVE  GroupInv'
  <1>t. ChildTypes /\ kid \in [Kids -> KidType] /\ kid[k] \in KidType BY DEF Types, ChildTypes
  <1>h. KidHolds(k) BY DEF GroupInv, KidsHold
  <1>c. kid[k].st \in Live => group # "closed" BY DEF GroupInv, GroupHolds
  <1>w. WorkIsCounted BY DEF GroupInv, CountHolds
  <1>m. k \in DOMAIN counted =>
          k \in lost \/ kid[k].st \in {"registered", "created", "entering", "working", "parked"}
    BY DEF GroupInv, CountHolds
  <1> USE DEF Steps
  <1>1. CASE Enter(k)
    <2>1. Counting(With(k, "running")) BY <1>1 DEF Enter
    <2>2. /\ \A j \in Kids \ {k} : SameFor(j)
          /\ k \in DOMAIN counted' /\ counted'[k] = "running"
      BY ONLY <1>t, <2>1, KidEntry
    <2>3. kid[k].st = "created" /\ \A j \in Kids \ {k} : kid'[j] = kid[j]
      BY <1>1, <1>t DEF Enter, To, KidAt
    <2>4. /\ kid'[k].st = "entering" /\ kid'[k].cuts = kid[k].cuts /\ kid'[k].cut = kid[k].cut
          /\ kid'[k].reason = kid[k].reason /\ kid'[k].how = kid[k].how
      BY <1>1, <1>t DEF Enter, To, KidType
    <2>5. UNCHANGED <<body, seq, group, struck, lost>> BY <1>1 DEF Enter
    <2>6. KidHolds(k)'
      BY <1>h, <2>3, <2>4, <2>5 DEF KidHolds, CutByItself, CutTwice, Live, Over
    <2> QED BY <1>c, <2>2, <2>3, <2>4, <2>5, <2>6, OneKidMoves DEF Live
  <1>2. CASE Work(k)
    <2>2. \A j \in Kids : SameFor(j) BY <1>2 DEF Work, SameFor
    <2>3. kid[k].st = "entering" /\ \A j \in Kids \ {k} : kid'[j] = kid[j]
      BY <1>2, <1>t DEF Work, To, KidAt
    <2>4. /\ kid'[k].st = "working" /\ kid'[k].cuts = kid[k].cuts /\ kid'[k].cut = kid[k].cut
          /\ kid'[k].reason = kid[k].reason /\ kid'[k].how = kid[k].how
      BY <1>2, <1>t DEF Work, To, KidType
    <2>5. UNCHANGED <<body, seq, group, struck, lost, counted>> BY <1>2 DEF Work
    <2>6. KidHolds(k)'
      BY <1>h, <2>3, <2>4, <2>5 DEF KidHolds, CutByItself, CutTwice, Live, Over
    <2>7. k \in DOMAIN counted' /\ counted'[k] = "running" BY <1>w, <2>3, <2>5 DEF WorkIsCounted
    <2> QED BY <1>c, <2>2, <2>3, <2>4, <2>5, <2>6, <2>7, OneKidMoves DEF Live
  <1>3. CASE KidFails(k)
    <2>1. Counting(Without(k)) BY <1>3 DEF KidFails
    <2>2. (\A j \in Kids \ {k} : SameFor(j)) /\ k \notin DOMAIN counted' BY ONLY <1>t, <2>1, KidLeaves
    <2>3. kid[k].st = "working" /\ \A j \in Kids \ {k} : kid'[j] = kid[j]
      BY <1>3, <1>t DEF KidFails, KidAt
    <2>4. /\ kid'[k].st = "leaving" /\ kid'[k].cuts = kid[k].cuts /\ kid'[k].cut = kid[k].cut
          /\ kid'[k].reason = kid[k].reason /\ kid'[k].how = "failed"
      BY <1>3, <1>t DEF KidFails, KidType
    <2>5. UNCHANGED <<body, seq, group, struck, lost>> BY <1>3 DEF KidFails
    <2>6. KidHolds(k)'
      BY <1>h, <2>3, <2>4, <2>5 DEF KidHolds, CutByItself, CutTwice, Live, Over
    <2> QED BY <1>c, <2>2, <2>3, <2>4, <2>5, <2>6, OneKidMoves DEF Live
  <1>4. CASE KidEnds(k)
    <2>2. \A j \in Kids : SameFor(j) BY <1>4 DEF KidEnds, SameFor
    <2>3. kid[k].st = "leaving" /\ \A j \in Kids \ {k} : kid'[j] = kid[j]
      BY <1>4, <1>t DEF KidEnds, KidAt
    <2>4. /\ kid'[k].cut = kid[k].cut /\ kid'[k].reason = kid[k].reason /\ kid'[k].how = kid[k].how
          /\ kid'[k].cuts = IF kid[k].how = "cut" /\ Absorbs(k) THEN kid[k].cuts - 1 ELSE kid[k].cuts
          /\ kid'[k].st = CASE kid[k].how = "ok" -> "done"
                            [] kid[k].how = "failed" -> "failed"
                            [] OTHER -> IF Absorbs(k) THEN "cut" ELSE "cancelled"
      BY <1>4, <1>t DEF KidEnds, KidType
    <2>5. UNCHANGED <<body, seq, group, struck, lost, counted>> BY <1>4 DEF KidEnds
    <2>a. kid'[k].st \in Over BY <2>4 DEF Over
    <2>d. kid[k].how # "none" /\ kid[k].st \in Live BY <1>h, <2>3 DEF KidHolds, Live
    <2>e. ~kid'[k].cut BY <1>4, <2>4 DEF KidEnds, KidAt
    <2>b. group = "open" => CutByItself(k)'
      <3>1. ASSUME group = "open", kid[k].how = "cut" PROVE kid'[k].st = "cut"
        <4>1. kid[k].reason = "user_interrupt" /\ kid[k].cuts = 1
          BY <1>h, <2>d, <3>1 DEF KidHolds, CutByItself
        <4> QED BY <2>4, <3>1, <4>1 DEF Absorbs
      <3>2. kid[k].how \in {"ok", "failed", "cut"} BY <1>t, <2>d DEF KidType
      <3>3. group = "open" => kid'[k].st # "cancelled" BY <2>4, <3>1, <3>2
      <3>4. kid[k].how # "cut" => kid'[k].cuts = kid[k].cuts BY <2>4
      <3> QED BY <1>h, <2>3, <2>4, <2>5, <2>a, <2>d, <2>e, <3>3, <3>4
               DEF KidHolds, CutByItself, Live, Over
    <2>c. k \in struck => CutTwice(k)'
      <3>1. kid[k].cuts \in Nat BY <1>t DEF KidType
      <3>2. k \in struck => ~Absorbs(k)
        BY <1>h, <2>d, <3>1 DEF KidHolds, CutTwice, Absorbs
      <3>3. k \in struck => kid'[k].st # "cut" BY <2>4, <3>2
      <3> QED BY <2>a, <3>3 DEF CutTwice, Live, Over
    <2>6. KidHolds(k)'
      BY <1>h, <2>3, <2>5, <2>a, <2>b, <2>c, <2>e DEF KidHolds, Live, Over
    <2>7. k \notin DOMAIN counted' \/ k \in lost BY <1>m, <2>3, <2>5
    <2> QED BY <1>c, <2>2, <2>3, <2>5, <2>6, <2>7, <2>a, OneKidMoves DEF Live, Over
  <1>5. CASE Interrupt(k)
    <2>2. \A j \in Kids : SameFor(j) BY <1>5 DEF Interrupt, SameFor
    <2>3. /\ kid[k].st \in Live \ {"created"} /\ kid[k].reason = "none"
          /\ \A j \in Kids \ {k} : kid'[j] = kid[j]
      BY <1>5, <1>t DEF Interrupt, Reachable
    <2>4. /\ kid'[k].st = kid[k].st /\ kid'[k].cuts = kid[k].cuts + 1 /\ kid'[k].cut
          /\ kid'[k].reason = "user_interrupt" /\ kid'[k].how = kid[k].how
      BY <1>5, <1>t DEF Interrupt, KidType
    <2>5. UNCHANGED <<body, seq, group, struck, lost, counted>> BY <1>5 DEF Interrupt
    <2>6. KidHolds(k)'
      <3>1. kid[k].cuts \in Nat BY <1>t DEF KidType
      <3> QED BY <1>h, <2>3, <2>4, <2>5, <3>1 DEF KidHolds, CutByItself, CutTwice, Live, Over
    <2>7. kid'[k].st \in {"created", "entering", "working"} =>
            k \in DOMAIN counted' /\ counted'[k] = "running"
      BY <1>w, <2>4, <2>5 DEF WorkIsCounted
    <2>8. k \in DOMAIN counted' =>
            k \in lost' \/ kid'[k].st \in {"created", "entering", "working", "parked"}
      BY <1>m, <2>3, <2>4, <2>5 DEF Live
    <2> QED BY <1>c, <2>2, <2>3, <2>4, <2>5, <2>6, <2>7, <2>8, OneKidMoves DEF Live
  <1>o. ASSUME NEW last \in BOOLEAN, Onward(k, last), kid[k].st \in {"working", "parked"},
               UNCHANGED <<body, seq, group, struck, lost>>
        PROVE  GroupInv'
    <2>1. CASE last
      <3>1. Counting(Without(k)) BY <1>o, <2>1 DEF Onward
      <3>2. (\A j \in Kids \ {k} : SameFor(j)) /\ k \notin DOMAIN counted' BY ONLY <1>t, <3>1, KidLeaves
      <3>3. \A j \in Kids \ {k} : kid'[j] = kid[j] BY <1>o, <1>t, <2>1 DEF Onward
      <3>4. /\ kid'[k].st = "leaving" /\ kid'[k].cuts = kid[k].cuts /\ kid'[k].cut = kid[k].cut
            /\ kid'[k].reason = kid[k].reason /\ kid'[k].how = "ok"
        BY <1>o, <1>t, <2>1 DEF Onward, KidType
      <3>6. KidHolds(k)'
        BY <1>h, <1>o, <3>4 DEF KidHolds, CutByItself, CutTwice, Live, Over
      <3> QED BY <1>c, <1>o, <3>2, <3>3, <3>4, <3>6, OneKidMoves DEF Live
    <2>2. CASE ~last
      <3>1. Counting(With(k, "running")) BY <1>o, <2>2 DEF Onward
      <3>2. /\ \A j \in Kids \ {k} : SameFor(j)
            /\ k \in DOMAIN counted' /\ counted'[k] = "running"
        BY ONLY <1>t, <3>1, KidEntry
      <3>3. \A j \in Kids \ {k} : kid'[j] = kid[j] BY <1>o, <1>t, <2>2 DEF Onward, To
      <3>4. /\ kid'[k].st = "working" /\ kid'[k].cuts = kid[k].cuts /\ kid'[k].cut = kid[k].cut
            /\ kid'[k].reason = kid[k].reason /\ kid'[k].how = kid[k].how
        BY <1>o, <1>t, <2>2 DEF Onward, To, KidType
      <3>6. KidHolds(k)'
        BY <1>h, <1>o, <3>4 DEF KidHolds, CutByItself, CutTwice, Live, Over
      <3> QED BY <1>c, <1>o, <3>2, <3>3, <3>4, <3>6, OneKidMoves DEF Live
    <2> QED BY <2>1, <2>2
  <1>6. ASSUME NEW last \in BOOLEAN, KidUnparks(k, last) PROVE GroupInv'
    BY <1>6, <1>o DEF KidUnparks, KidAt
  <1>7. CASE KidSafePoint(k)
    <2>1. UNCHANGED <<body, seq, group, struck, lost, kid, counted>> BY <1>7 DEF KidSafePoint
    <2> QED BY <2>1, GroupSame
  <1>8. CASE KidCut(k)
    <2>1. kid[k].cut /\ kid[k].st \in Live BY <1>8, <1>h DEF KidCut, KidHolds
    <2>2. \A j \in Kids \ {k} : kid'[j] = kid[j] /\ SameFor(j)
      <3>1. CASE UNCHANGED counted BY <1>8, <1>t, <3>1 DEF KidCut, SameFor
      <3>2. CASE Counting(Without(k))
        <4>1. \A j \in Kids \ {k} : SameFor(j) BY ONLY <1>t, <3>2, KidLeaves
        <4> QED BY <1>8, <1>t, <4>1 DEF KidCut
      <3> QED BY <1>8, <3>1, <3>2 DEF KidCut
    <2>3. k \in DOMAIN counted' => k \in lost'
      <3>1. CASE Counting(Without(k))
        <4>1. k \notin DOMAIN counted' BY ONLY <1>t, <3>1, KidLeaves
        <4> QED BY <4>1
      <3> QED BY <1>8, <3>1 DEF KidCut
    <2>4. /\ kid'[k].st = IF kid[k].st = "created" THEN "cancelled" ELSE "leaving"
          /\ kid'[k].cuts = kid[k].cuts /\ ~kid'[k].cut
          /\ kid'[k].reason = kid[k].reason /\ kid'[k].how = "cut"
      BY <1>8, <1>t DEF KidCut, KidType
    <2>5. UNCHANGED <<body, seq, group, struck>> /\ lost \subseteq lost' BY <1>8 DEF KidCut
    <2>6. KidHolds(k)'
      BY <1>h, <2>1, <2>4, <2>5 DEF KidHolds, CutByItself, CutTwice, Live, Over
    <2> QED BY <1>c, <2>1, <2>2, <2>3, <2>4, <2>5, <2>6, OneKidMoves DEF Live, Over
  <1>9. ASSUME NEW last \in BOOLEAN, KidWritten(k, last) PROVE GroupInv'
    <2>1. kid[k].st = "working" /\ UNCHANGED <<body, seq, group, struck, lost>>
      BY <1>9 DEF KidWritten, KidAt
    <2>2. CASE gate
      <3>1. Counting(With(k, "parked")) BY <1>9, <2>2 DEF KidWritten, Parks
      <3>2. (\A j \in Kids \ {k} : SameFor(j)) /\ k \in DOMAIN counted' /\ counted'[k] = "parked"
        BY ONLY <1>t, <3>1, KidEntry
      <3>3. \A j \in Kids \ {k} : kid'[j] = kid[j] BY <1>9, <1>t, <2>2 DEF KidWritten, To
      <3>4. /\ kid'[k].st = "parked" /\ kid'[k].cuts = kid[k].cuts /\ kid'[k].cut = kid[k].cut
            /\ kid'[k].reason = kid[k].reason /\ kid'[k].how = kid[k].how
        BY <1>9, <1>t, <2>2 DEF KidWritten, To, KidType
      <3>6. KidHolds(k)'
        BY <1>h, <2>1, <3>4 DEF KidHolds, CutByItself, CutTwice, Live, Over
      <3> QED BY <1>c, <2>1, <3>2, <3>3, <3>4, <3>6, OneKidMoves DEF Live
    <2>3. CASE ~gate BY <1>9, <1>o, <2>1, <2>3 DEF KidWritten
    <2> QED BY <2>2, <2>3
  <1> QED BY <1>1, <1>2, <1>3, <1>4, <1>5, <1>6, <1>7, <1>8, <1>9 DEF KidStep

LEMMA NodeGroup ==
  ASSUME Types, Types', GroupInv, Checkpoint \/ NodeWritten \/ BodyCut
  PROVE  GroupInv'
  <1>t. ChildTypes /\ body \in BodyType /\ group \in {"open", "aborting", "closed"}
    BY DEF Types, ChildTypes
  <1>g. GroupHolds BY DEF GroupInv
  <1>r. \A j \in Kids : kid[j].st = "registered" => j \in lost \/ Registering(j)
    BY DEF GroupInv, CountHolds
  <1>1. CASE Checkpoint
    <2>1. \A j \in Kids : SameFor(j) BY <1>1 DEF Checkpoint, SameFor
    <2>2. /\ body.pc \in {"working", "closing"} /\ ~body.cut /\ body'.cut = body.cut
          /\ body'.pc = IF body.pc = "working" THEN "writing" ELSE "completing"
      BY <1>1, <1>t DEF Checkpoint, Goes, BodyType
    <2>5. UNCHANGED <<kid, seq, group, struck, lost>> BY <1>1 DEF Checkpoint
    <2>6. \A j \in Kids : kid[j].st = "registered" => j \in lost BY <2>2, <1>r DEF Registering
    <2> QED BY <1>g, <2>1, <2>2, <2>5, <2>6, BodyMoves DEF GroupHolds, Closing
  <1>2. CASE NodeWritten
    <2>1. \A j \in Kids : SameFor(j)
      <3>1. Counting(With(Node, "parked")) \/ UNCHANGED counted BY <1>2 DEF NodeWritten, Parks
      <3> QED BY ONLY <1>t, <3>1, NodeEntry
    <2>2. /\ body.pc \in {"writing", "completing"} /\ ~body.cut /\ body'.cut = body.cut
          /\ body.pc = "writing" => body'.pc \in {"parked", "working"}
          /\ body.pc = "completing" => body'.pc \in {"parked at the end", "ending"}
      BY <1>2, <1>t DEF NodeWritten, Goes, BodyType
    <2>5. UNCHANGED <<kid, seq, group, struck, lost>> BY <1>2 DEF NodeWritten
    <2>6. \A j \in Kids : kid[j].st = "registered" => j \in lost BY <2>2, <1>r DEF Registering
    <2> QED BY <1>g, <2>1, <2>2, <2>5, <2>6, BodyMoves DEF GroupHolds, Closing
  <1>3. CASE BodyCut
    <2>1. \A j \in Kids : SameFor(j)
      <3>1. Counting(With(Node, "running")) \/ Counting(counted) BY <1>3 DEF BodyCut
      <3> QED BY ONLY <1>t, <3>1, NodeEntry
    <2>2. /\ body.cut /\ ~body'.cut
          /\ body'.pc = IF group = "closed" THEN "ending" ELSE "cancelled"
      BY <1>3, <1>t DEF BodyCut, BodyType
    <2>5. UNCHANGED <<kid, seq, group, struck>> /\ lost \subseteq lost' BY <1>3 DEF BodyCut
    <2>6. \A j \in Kids : kid[j].st = "registered" => j \in lost'
      BY <1>3, <1>r DEF Registering, BodyCut
    <2> QED BY <1>g, <2>1, <2>2, <2>5, <2>6, BodyMoves DEF GroupHolds, Closing
  <1> QED BY <1>1, <1>2, <1>3

\* A cut of all the tasks that live.
LEMMA StruckGroup ==
  ASSUME Types, GroupInv, NEW reason \in {"none", "run_cancelled"},
         kid' = Struck(reason), UNCHANGED <<seq, lost, counted>>,
         struck' \subseteq struck \cup {k \in Kids : kid[k].st \in Live},
         group' \in {"aborting", "closed"}, group' = "closed" <=> group = "closed",
         body'.pc = body.pc /\ body'.on = body.on,
         body'.cut => body.cut \/ body.pc \notin BodyOver \cup {"ending", "left"}
  PROVE  GroupInv'
  <1>t. kid \in [Kids -> KidType] BY DEF Types, ChildTypes
  <1>1. \A k \in Kids :
          /\ kid'[k].st = kid[k].st /\ kid'[k].how = kid[k].how
          /\ kid[k].st \notin Live => kid'[k] = kid[k]
          /\ kid[k].st \in Live =>
               /\ kid'[k].cuts = kid[k].cuts + 1 /\ kid'[k].cut
               /\ kid'[k].reason = IF kid[k].reason = "none" THEN reason ELSE kid[k].reason
    BY <1>t, StruckTypes
  <1>2. KidsHold'
    <2>1. ASSUME NEW k \in Kids PROVE KidHolds(k)'
      <3>1. KidHolds(k) /\ kid[k].cuts \in Nat BY <1>t DEF GroupInv, KidsHold, KidType
      <3>2. k \in struck' => k \in struck \/ kid[k].st \in Live OBVIOUS
      <3> QED BY <1>1, <3>1, <3>2 DEF KidHolds, CutTwice, Live, Over
    <2> QED BY <2>1 DEF KidsHold
  <1>3. GroupHolds' BY <1>1 DEF GroupInv, GroupHolds, OnlyItsChild
  <1>4. CountHolds' BY <1>1 DEF GroupInv, CountHolds, WorkIsCounted, Registering
  <1> QED BY <1>2, <1>3, <1>4 DEF GroupInv

LEMMA GroupGroup ==
  ASSUME Types, Types', GroupInv, GroupStep
  PROVE  GroupInv'
  <1>t. ChildTypes /\ body \in BodyType /\ group \in {"open", "aborting", "closed"}
    BY DEF Types, ChildTypes
  <1>g. GroupHolds BY DEF GroupInv
  <1>r. \A j \in Kids : kid[j].st = "registered" => j \in lost \/ Registering(j)
    BY DEF GroupInv, CountHolds
  <1>1. CASE Abort
    <2>1. /\ body'.pc = body.pc /\ body'.on = body.on
          /\ body'.cut => body.cut \/ body.pc \notin BodyOver
      BY <1>1, <1>t DEF Abort, BodyType
    <2> QED BY <1>1, <1>g, <2>1, StruckGroup DEF Abort, GroupHolds, Closing
  <1>2. CASE CancelRun
    <2>1. /\ body'.pc = body.pc /\ body'.on = body.on
          /\ body'.cut => body.cut \/ body.pc \notin BodyOver \cup {"ending", "left"}
      BY <1>2, <1>t DEF CancelRun, BodyType
    <2> QED BY <1>2, <1>t, <2>1, StruckGroup DEF CancelRun
  <1>3. CASE CloseGroup
    <2>1. /\ body.pc \in BodyOver /\ body'.pc \in {"closing", "ending"} /\ body'.cut = body.cut
          /\ body'.on = body.on /\ group' = "closed" /\ \A k \in Kids : kid[k].st \notin Live
      BY <1>3, <1>t DEF CloseGroup, BodyType
    <2>2. UNCHANGED <<kid, seq, struck, lost, counted>> BY <1>3 DEF CloseGroup
    <2>3. KidsHold' BY <2>1, <2>2 DEF GroupInv, KidsHold, KidHolds, CutTwice
    <2>4. GroupHolds' BY <1>g, <2>1, <2>2 DEF GroupHolds, OnlyItsChild, Closing
    <2>5. CountHolds'
      BY <2>1, <2>2, <1>r DEF GroupInv, CountHolds, WorkIsCounted, Registering, BodyOver
    <2> QED BY <2>3, <2>4, <2>5 DEF GroupInv
  <1>4. CASE Exit
    <2>1. \A j \in Kids : SameFor(j)
      BY <1>4, ChildrenAssumption DEF Exit, Without, Restrict, SameFor
    <2>2. body.pc = "ending" /\ body'.pc = "left" /\ body'.cut = body.cut
      BY <1>4, <1>t DEF Exit, Goes, BodyType
    <2>5. UNCHANGED <<kid, seq, group, struck, lost>> BY <1>4 DEF Exit
    <2>6. \A j \in Kids : kid[j].st = "registered" => j \in lost BY <2>2, <1>r DEF Registering
    <2> QED BY <1>g, <2>1, <2>2, <2>5, <2>6, BodyMoves DEF GroupHolds, Closing
  <1> QED BY <1>1, <1>2, <1>3, <1>4 DEF GroupStep

LEMMA NewGroup ==
  ASSUME NEW n \in Nat, body' = NewBody, kid' = [k \in Kids |-> NewKid], seq' = n, group' = "open",
         struck' = {}, counted' = [k \in {Node} |-> "running"]
  PROVE  GroupInv'
  <1>n. Node \notin Kids BY ChildrenAssumption
  <1>1. \A k \in Kids :
          /\ kid'[k].st = "none" /\ kid'[k].cuts = 0 /\ ~kid'[k].cut
          /\ kid'[k].reason = "none" /\ kid'[k].how = "none"
    BY DEF NewKid
  <1>2. KidsHold' BY <1>1 DEF KidsHold, KidHolds, CutByItself, CutTwice, Live
  <1>3. GroupHolds' BY <1>1 DEF GroupHolds, OnlyItsChild, NewBody, Closing
  <1>4. CountHolds' BY <1>1, <1>n DEF CountHolds, WorkIsCounted
  <1> QED BY <1>2, <1>3, <1>4 DEF GroupInv

LEMMA GroupInit == Init => GroupInv
  <1> SUFFICES ASSUME Init PROVE GroupInv
    OBVIOUS
  <1>n. Node \notin Kids BY ChildrenAssumption
  <1>1. /\ \A k \in Kids :
             /\ kid[k].st = "none" /\ kid[k].cuts = 0 /\ ~kid[k].cut
             /\ kid[k].reason = "none" /\ kid[k].how = "none"
        /\ body.pc = "working" /\ ~body.cut /\ group = "open" /\ struck = {} /\ DOMAIN counted = {Node}
    BY DEF Init, NewKid, NewBody
  <1>2. KidsHold BY <1>1 DEF KidsHold, KidHolds, CutByItself, CutTwice, Live
  <1>3. GroupHolds BY <1>1 DEF GroupHolds, OnlyItsChild, Closing
  <1>4. CountHolds BY <1>1, <1>n DEF CountHolds, WorkIsCounted
  <1> QED BY <1>2, <1>3, <1>4 DEF GroupInv

LEMMA GroupInvStep == Types /\ Types' /\ GroupInv /\ [Next]_vars => GroupInv'
  <1> SUFFICES ASSUME Types, Types', GroupInv, [Next]_vars PROVE GroupInv'
    OBVIOUS
  <1>1. CASE UNCHANGED vars BY <1>1, GroupSame DEF vars, tasks
  <1>3. CASE BodyStep BY <1>3, BodyGroup
  <1>4. ASSUME NEW k \in Kids,
               KidStep(k) \/ KidSafePoint(k) \/ KidCut(k) \/ \E last \in BOOLEAN : KidWritten(k, last)
        PROVE  GroupInv'
    BY <1>4, KidGroup
  <1>5. CASE GroupStep BY <1>5, GroupGroup
  <1>6. CASE GateStep BY <1>6, GroupSame DEF GateStep, Pause, Resume, tasks
  <1>7. CASE SaveStep BY <1>7, StepsAside, GroupSame DEF Aside, tasks
  <1>8. CASE Checkpoint \/ NodeWritten \/ BodyCut BY <1>8, NodeGroup
  <1>9. CASE Finish BY <1>9, GroupSame DEF Finish, tasks
  <1>10. CASE CrashAndLoad
    <2>1. file[SessionPath].seq \in Nat BY PathsFinite DEF Types, WriteTypes, Docs
    <2> QED BY <1>10, <2>1, NewGroup DEF CrashAndLoad, Adopted
  <1> QED BY <1>1, <1>3, <1>4, <1>5, <1>6, <1>7, <1>8, <1>9, <1>10, NextSteps

-----------------------------------------------------------------------------
(* The saves and the ids *)

\* Once the run is over the node and its children do nothing more.
LEMMA EndedRests ==
  ASSUME Types, GroupInv, EndHolds, run = "ended"
  PROVE  ~(BodyStep \/ (\E k \in Kids : KidStep(k)) \/ GroupStep \/ GateStep)
  <1>1. body.pc = "left" /\ ~gate BY DEF EndHolds
  <1>2. group = "closed" /\ \A k \in Kids : kid[k].st \notin Live
    BY <1>1 DEF GroupInv, GroupHolds, Closing
  <1>3. ~BodyStep
    BY <1>1 DEF BodyStep, Unpark, Start, Await, Collect, BodyEnds, CreateTask, Spawned, BodyAt
  <1>4. \A k \in Kids : ~KidStep(k)
    BY <1>2 DEF KidStep, Enter, Work, KidFails, KidEnds, Interrupt, KidUnparks, KidAt, Reachable, Live
  <1>5. ~GroupStep BY <1>1, <1>2 DEF GroupStep, Abort, CancelRun, CloseGroup, Exit
  <1>6. ~GateStep BY <1>1 DEF GateStep, Pause, Resume
  <1> QED BY <1>3, <1>4, <1>5, <1>6

\* What the others do to what the saves and the ids rest on.
Moves ==
  /\ seq' \in Nat /\ seq' >= seq
  /\ body'.pc \in {"writing", "completing"} => body'.pc = body.pc /\ seq' = seq
  /\ \A k \in Kids : kid'[k].st # "none" => kid[k].st # "none" \/ k = seq
  /\ run' = "ended" => run = "ended"

LEMMA QuietMoves ==
  ASSUME Types, BodyStep \/ (\E k \in Kids : KidStep(k)) \/ GroupStep \/ GateStep
  PROVE  Moves
  <1>t. ChildTypes /\ kid \in [Kids -> KidType] /\ body \in BodyType /\ seq \in Nat
    BY DEF Types, ChildTypes
  <1>m. MapTypes BY DEF Types, ChildTypes
  <1>1. ASSUME \E p : Counting(p) PROVE run' = "ended" => run = "ended" BY <1>1 DEF Counting
  <1>2. ASSUME NEW k \in Kids, kid[k].st # "none", \A j \in Kids \ {k} : kid'[j] = kid[j]
        PROVE  \A j \in Kids : kid'[j].st # "none" => kid[j].st # "none"
    BY <1>2
  <1>3. CASE Unpark
    <2>1. body'.pc \in {"working", "ending"} BY <1>3, <1>t DEF Unpark, Goes, BodyType
    <2>2. Counting(With(Node, "running")) /\ UNCHANGED <<kid, seq>> BY <1>3 DEF Unpark
    <2>3. run' = "ended" => run = "ended" BY ONLY <1>1, <2>2
    <2> QED BY <1>t, <2>1, <2>2, <2>3 DEF Moves
  <1>4. ASSUME NEW delegated \in BOOLEAN, Start(delegated) PROVE Moves
    <2>1. body'.pc \in {"delegating", "spawning"} BY <1>4, <1>t DEF Start, BodyType
    <2>2. \A j \in Kids : j # seq => kid'[j] = kid[j] BY <1>4, <1>t DEF Start
    <2>3. seq' = seq + 1 /\ run' = "ended" => run = "ended" BY <1>1, <1>4 DEF Start
    <2> QED BY <1>1, <1>4, <1>t, <2>1, <2>2, <2>3 DEF Moves, Start
  <1>5. ASSUME NEW ks \in SUBSET Kids, Await(ks) PROVE Moves
    <2>1. body'.pc = "waiting" BY <1>5, <1>t DEF Await, BodyType
    <2> QED BY <1>1, <1>5, <1>t, <2>1 DEF Await, Moves
  <1>6. CASE Collect
    <2>1. body'.pc \in {"failed", "cancelled", "working"} BY <1>6, <1>t DEF Collect, Goes, BodyType
    <2> QED BY <1>1, <1>6, <1>t, <2>1 DEF Collect, Moves
  <1>7. ASSUME NEW how \in {"returned", "failed"}, BodyEnds(how) PROVE Moves
    <2>1. body'.pc = how BY <1>7, <1>t DEF BodyEnds, Goes, BodyType
    <2> QED BY <1>7, <1>t, <2>1 DEF BodyEnds, Moves
  <1>8. ASSUME NEW k \in Kids, CreateTask(k) PROVE Moves
    <2>1. \A j \in Kids \ {k} : kid'[j] = kid[j] BY <1>8, <1>t DEF CreateTask
    <2> QED BY <1>2, <1>8, <1>t, <2>1 DEF CreateTask, Moves
  <1>9. ASSUME NEW k \in Kids, Spawned(k) PROVE Moves
    <2>1. body'.pc = "working" BY <1>9, <1>t DEF Spawned, Goes, BodyType
    <2> QED BY <1>9, <1>t, <2>1 DEF Spawned, Moves
  <1>10. ASSUME NEW k \in Kids, KidStep(k) PROVE Moves
    <2>1. kid[k].st # "none" /\ UNCHANGED <<body, seq>>
      BY <1>10 DEF KidStep, Steps, Enter, Work, KidFails, KidEnds, Interrupt, KidUnparks, KidAt,
                   Reachable, Live
    <2>2. \A j \in Kids \ {k} : kid'[j] = kid[j]
      BY <1>10, <1>t DEF KidStep, To, Onward, Enter, Work, KidFails, KidEnds, Interrupt, KidUnparks
    <2>3. run' = "ended" => run = "ended"
      BY <1>1, <1>10 DEF KidStep, Onward, Enter, Work, KidFails, KidEnds, Interrupt, KidUnparks
    <2> QED BY <1>2, <1>t, <2>1, <2>2, <2>3 DEF Moves
  <1>11. CASE GroupStep
    <2>1. \A k \in Kids : kid'[k].st = kid[k].st
      BY <1>11, <1>t, StruckTypes DEF GroupStep, Abort, CancelRun, CloseGroup, Exit
    <2>2. seq' = seq /\ (run' = "ended" => run = "ended")
      BY <1>11 DEF GroupStep, Abort, CancelRun, CloseGroup, Exit
    <2>3. body'.pc = body.pc \/ body'.pc \notin {"writing", "completing"}
      BY <1>11, <1>t DEF GroupStep, Abort, CancelRun, CloseGroup, Exit, Goes, BodyType
    <2> QED BY <1>t, <2>1, <2>2, <2>3 DEF Moves
  <1>12. CASE GateStep BY <1>12, <1>t DEF GateStep, Pause, Resume, tasks, Moves
  <1> QED BY <1>3, <1>4, <1>5, <1>6, <1>7, <1>8, <1>9, <1>10, <1>11, <1>12 DEF BodyStep

LEMMA QuietHolds ==
  ASSUME Types, GroupInv, SavesInv, IdsInv,
         BodyStep \/ (\E k \in Kids : KidStep(k)) \/ GroupStep \/ GateStep
  PROVE  SavesInv' /\ IdsInv'
  <1>1. Moves /\ Quietly /\ run' # "ended"
    BY QuietMoves, StepsAside, EndedRests DEF Moves, SavesInv
  <1>t. seq \in Nat /\ rec \in Nat /\ file[SessionPath].seq \in Nat /\ before \subseteq Nat
    BY PathsFinite DEF Types, ChildTypes, WriteTypes, Docs
  <1>2. SavesInv'
    BY <1>1 DEF SavesInv, WriteHolds, FilesHold, EndHolds, Target, Quietly, saving
  <1>3. IdsNotReused'
    <2> SUFFICES ASSUME NEW k \in Kids, kid'[k].st # "none", k \in before' PROVE FALSE
      BY DEF IdsNotReused
    <2>1. k \in before /\ k < file[SessionPath].seq BY <1>1 DEF Quietly, IdsInv
    <2>2. kid[k].st = "none" BY <2>1 DEF IdsInv, IdsNotReused
    <2>3. k = seq BY <1>1, <2>2 DEF Moves
    <2> QED BY <1>t, <2>1, <2>3 DEF IdsInv
  <1>4. rec' <= seq' BY <1>1, <1>t DEF Moves, Quietly, IdsInv
  <1> QED BY <1>1, <1>2, <1>3, <1>4 DEF Moves, Quietly, saving, IdsInv, Target

\* A step that starts no write and that the ids do not see.
LEMMA IdsSame ==
  ASSUME IdsInv, UNCHANGED <<seq, rec, file, kept, before, kid>>, write' = write \/ write' = NoWrite,
         body'.pc = body.pc \/ body'.pc \notin {"writing", "completing"}
  PROVE  IdsInv'
  BY DEF IdsInv, IdsNotReused, Target, NoWrite

\* A checkpoint begins, of what is on record.
LEMMA BeginsWrite ==
  ASSUME Types, SavesInv, IdsInv, NEW by \in Writers, NEW todo \in Seq(Paths),
         Serialize(by, todo, rec), UNCHANGED <<sv, file, during, seq, rec, kept, before, kid, body>>,
         by # Node, \A s \in Saves : by = s => sv[s] # "idle" /\ PathOf[s] \in ToSet(todo)
  PROVE  WriteHolds' /\ FilesHold' /\ IdsInv'
  <1>1. rec \in Nat /\ WriteTypes BY DEF Types, WriteTypes
  <1>2. /\ write = NoWrite /\ write'.by = {by} /\ write' # NoWrite
        /\ write'.doc.asked = Asked /\ write'.doc.seq = rec /\ write'.todo = todo /\ write'.done = {}
    BY ONLY <1>1, SerializeTypes, Serialize(by, todo, rec), by \in Writers, todo \in Seq(Paths)
  <1>3. WriteHolds' BY <1>2 DEF WriteHolds, Target, Asked
  <1>4. FilesHold' BY DEF SavesInv, FilesHold
  <1>5. IdsInv' BY <1>2 DEF IdsInv, IdsNotReused
  <1> QED BY <1>3, <1>4, <1>5

\* The bytes are down: who waited for one of the paths is told, and nobody else.
LEMMA EndsWrite ==
  ASSUME Types, SavesInv, NEW by \in Writers, WrittenBy(by), Release, UNCHANGED <<file, during>>
  PROVE  /\ WriteHolds' /\ FilesHold'
         /\ \A s \in Saves : sv'[s] = "waiting" =>
              sv[s] = "waiting" /\ ~(write.by = {by} /\ Target(PathOf[s]))
  <1>1. WriteTypes BY DEF Types
  <1>2. /\ write # NoWrite /\ write.doc.there /\ write.by = {by} /\ write.todo = <<>>
        /\ write' = NoWrite
    BY ONLY <1>1, WrittenTypes, WrittenBy(by), by \in Writers
  <1>3. /\ \A s \in Saves : sv'[s] = sv[s] \/ (Released(s) /\ sv'[s] = "returned")
        /\ \A s \in Saves : Released(s) => sv'[s] = "returned"
    BY ONLY <1>1, ReleaseTypes, Release
  <1>4. \A p : Target(p) <=> p \in write.done BY <1>2 DEF Target, ToSet
  <1>5. WriteHolds' BY <1>2 DEF WriteHolds
  <1>6. FilesHold'
    <2> SUFFICES ASSUME NEW s \in Saves, sv'[s] = "returned"
                 PROVE  file[PathOf[s]].there /\ s \in file[PathOf[s]].asked \cup during
      BY DEF FilesHold
    <2>1. CASE sv[s] = "returned" BY <2>1 DEF SavesInv, FilesHold
    <2>2. CASE Released(s)
      BY <1>2, <2>2 DEF Released, SavesInv, WriteHolds
    <2> QED BY <1>3, <2>1, <2>2
  <1>7. ASSUME NEW s \in Saves, sv'[s] = "waiting"
        PROVE  sv[s] = "waiting" /\ ~(write.by = {by} /\ Target(PathOf[s]))
    BY <1>3, <1>4, <1>7 DEF Released
  <1> QED BY <1>5, <1>6, <1>7

LEMMA SaveHolds ==
  ASSUME Types, GroupInv, SavesInv, IdsInv, SaveStep
  PROVE  SavesInv' /\ IdsInv'
  <1>a. Aside BY StepsAside
  <1>b. UNCHANGED <<body, seq, kid, counted, run, gate, rec, kept, before>> BY <1>a DEF Aside, tasks
  <1>t. ChildTypes /\ WriteTypes /\ rec \in Nat /\ sv \in [Saves -> SaveStates]
    BY DEF Types, WriteTypes
  <1>s. WriteHolds /\ FilesHold /\ EndHolds BY DEF SavesInv
  <1>1. ASSUME NEW s \in Saves, Save(s) PROVE SavesInv' /\ IdsInv'
    <2>1. /\ \A r \in Saves \ {s} : sv'[r] = sv[r]
          /\ sv'[s] = IF NeedsSafePoint THEN "waiting" ELSE "direct"
          /\ UNCHANGED <<write, file, final>> /\ during \subseteq during'
          /\ write # NoWrite => s \in during'
      BY <1>1, <1>t DEF Save
    <2>2. run = "ended" => sv'[s] = "direct" BY <2>1 DEF NeedsSafePoint
    <2>3. WriteHolds' BY <1>s, <2>1 DEF WriteHolds, Target
    <2>4. FilesHold' BY <1>s, <2>1 DEF FilesHold
    <2>5. EndHolds' BY <1>b, <1>s, <2>1, <2>2 DEF EndHolds, Target
    <2> QED BY <1>b, <2>1, <2>3, <2>4, <2>5, IdsSame DEF SavesInv
  <1>2. ASSUME NEW s \in Saves, Timeout(s) PROVE SavesInv' /\ IdsInv'
    <2>1. /\ \A r \in Saves \ {s} : sv'[r] = sv[r]
          /\ sv[s] = "waiting" /\ sv'[s] = "timed out"
          /\ UNCHANGED <<write, file, final, during>>
      BY <1>2, <1>t DEF Timeout
    <2>3. WriteHolds' BY <1>s, <2>1 DEF WriteHolds, Target
    <2>4. FilesHold' BY <1>s, <2>1 DEF FilesHold
    <2>5. EndHolds' BY <1>b, <1>s, <2>1 DEF EndHolds, Target
    <2> QED BY <1>b, <2>1, <2>3, <2>4, <2>5, IdsSame DEF SavesInv
  <1>3. ASSUME NEW s \in Saves, SaveDirect(s) PROVE SavesInv' /\ IdsInv'
    <2> DEFINE q == <<PathOf[s]>>
    <2>1. /\ Serialize(s, q, rec) /\ UNCHANGED <<sv, file, final, during>> /\ sv[s] = "direct"
      BY <1>3 DEF SaveDirect
    <2>2. s \in Writers /\ s # Node /\ q \in Seq(Paths) /\ PathOf[s] \in ToSet(q)
      BY PathsFinite, ChildrenAssumption DEF Writers, ToSet
    <2>3. write = NoWrite /\ UNCHANGED final BY <2>1 DEF Serialize
    <2> HIDE DEF q
    <2>4. WriteHolds' /\ FilesHold' /\ IdsInv' BY <1>b, <2>1, <2>2, BeginsWrite
    <2>5. EndHolds' BY <1>b, <1>s, <2>1, <2>3 DEF EndHolds, NoWrite
    <2> QED BY <2>4, <2>5 DEF SavesInv
  <1>4. ASSUME NEW s \in Saves, SavedDirect(s) PROVE SavesInv' /\ IdsInv'
    <2>1. s \in Writers /\ s # SessionPath BY ChildrenAssumption DEF Writers
    <2>2. /\ \A r \in Saves \ {s} : sv'[r] = sv[r]
          /\ sv'[s] = "returned" /\ UNCHANGED <<file, final, during>> /\ WrittenBy(s)
      BY <1>4, <1>t DEF SavedDirect
    <2>3. /\ write # NoWrite /\ write.doc.there /\ write.by = {s} /\ write.todo = <<>>
          /\ write' = NoWrite
      BY ONLY <1>t, WrittenTypes, <2>1, <2>2
    <2>4. \A p : Target(p) <=> p \in write.done BY <2>3 DEF Target, ToSet
    <2>5. file[PathOf[s]] = write.doc /\ s \in write.doc.asked \cup during
      BY <1>s, <2>3, <2>4 DEF WriteHolds
    <2>6. FilesHold' BY <1>s, <2>2, <2>3, <2>5 DEF FilesHold
    <2>7. EndHolds' BY <1>b, <1>s, <2>1, <2>2, <2>3 DEF EndHolds
    <2>8. WriteHolds' BY <2>3 DEF WriteHolds
    <2> QED BY <1>b, <2>2, <2>3, <2>6, <2>7, <2>8, IdsSame DEF SavesInv
  <1>5. CASE WriteFile
    <2> DEFINE h == Head(write.todo)
    <2>1. /\ write # NoWrite /\ write.todo # <<>> /\ write.todo \in Seq(Paths)
          /\ write.doc.there /\ write.doc \in Docs /\ write \in WriteType
      BY <1>5, <1>t DEF WriteFile, WriteTypes, WriteType
    <2>2. /\ h \in Paths /\ Tail(write.todo) \in Seq(Paths)
          /\ ToSet(write.todo) = ToSet(Tail(write.todo)) \cup {h}
      BY ONLY <2>1, HeadIsDone
    <2> HIDE DEF h
    <2>3. /\ write'.by = write.by /\ write'.doc = write.doc /\ write'.todo = Tail(write.todo)
          /\ write'.done = write.done \cup {h}
      BY <1>5, <2>1 DEF WriteFile, WriteType, h
    <2>4. /\ file'[h] = write.doc /\ \A p \in Paths \ {h} : file'[p] = file[p]
          /\ UNCHANGED <<sv, final, during>>
      BY <1>5, <1>t, <2>2 DEF WriteFile, WriteTypes, h
    <2>5. \A p : Target(p)' <=> Target(p) BY <2>2, <2>3 DEF Target
    <2>6. write.done \subseteq Paths BY <2>1 DEF WriteType
    <2>7. WriteHolds'
      <3>1. \A p \in write'.done : file'[p] = write'.doc
        BY <1>s, <2>1, <2>3, <2>4, <2>6 DEF WriteHolds
      <3>2. \A s \in Saves : sv'[s] # "idle" => s \in write'.doc.asked \cup during'
        BY <1>s, <2>1, <2>3, <2>4 DEF WriteHolds
      <3>3. \A s \in Saves : write'.by = {s} => sv'[s] # "idle" /\ Target(PathOf[s])'
        <4>1. ASSUME NEW s \in Saves, write.by = {s} PROVE sv[s] # "idle" /\ Target(PathOf[s])
          BY <1>s, <2>1, <4>1 DEF WriteHolds
        <4> QED BY <2>3, <2>4, <2>5, <4>1
      <3> QED BY <3>1, <3>2, <3>3 DEF WriteHolds
    <2>8. FilesHold'
      BY <1>s, <2>1, <2>4, PathsFinite DEF FilesHold, WriteHolds
    <2>9. EndHolds' BY <1>b, <1>s, <2>3, <2>4, <2>5 DEF EndHolds
    <2>10. IdsInv'
      <3>1. SessionPath \in Paths /\ file[SessionPath].seq \in Nat /\ before \cup kept \subseteq Nat
        BY <1>t, PathsFinite DEF WriteTypes, Docs
      <3>2. file'[SessionPath].seq = file[SessionPath].seq \/ file'[SessionPath].seq = rec
        BY <2>1, <2>3, <2>4, <3>1 DEF IdsInv
      <3>3. /\ \A i \in before \cup kept : i < file[SessionPath].seq
            /\ file[SessionPath].seq <= rec
        BY DEF IdsInv
      <3>4. /\ \A i \in before \cup kept : i < file'[SessionPath].seq
            /\ file'[SessionPath].seq <= rec
        BY ONLY <1>t, <3>1, <3>2, <3>3
      <3> QED BY <1>b, <2>1, <2>3, <2>5, <3>4 DEF IdsInv, IdsNotReused
    <2> QED BY <2>7, <2>8, <2>9, <2>10 DEF SavesInv
  <1>6. CASE TerminalWrite
    <2> DEFINE q == SetToSeq(final)
    <2>1. Serialize(SessionPath, q, rec) /\ UNCHANGED <<sv, file, during>> BY <1>6 DEF TerminalWrite
    <2>2. q \in Seq(Paths) /\ ToSet(q) = final BY <1>t, TargetsOfFinal DEF WriteTypes
    <2>3. SessionPath \in Writers /\ SessionPath # Node /\ SessionPath \notin Saves
      BY ChildrenAssumption DEF Writers
    <2> HIDE DEF q
    <2>4. WriteHolds' /\ FilesHold' /\ IdsInv' BY <1>b, <2>1, <2>2, <2>3, BeginsWrite
    <2>5. write = NoWrite /\ write'.by = {SessionPath} /\ write'.todo = q
      BY <2>1 DEF Serialize
    <2>6. EndHolds' BY <1>b, <1>s, <2>1, <2>2, <2>5 DEF EndHolds, Target, NoWrite
    <2> QED BY <2>4, <2>6 DEF SavesInv
  <1>7. CASE TerminalWritten
    <2>1. SessionPath \in Writers /\ WrittenBy(SessionPath) /\ Release /\ UNCHANGED <<file, final, during>>
      BY <1>7 DEF TerminalWritten, Writers
    <2>2. /\ WriteHolds' /\ FilesHold'
          /\ \A s \in Saves : sv'[s] = "waiting" =>
               sv[s] = "waiting" /\ ~(write.by = {SessionPath} /\ Target(PathOf[s]))
      BY <2>1, EndsWrite
    <2>3. EndHolds' BY <1>b, <1>s, <2>1, <2>2 DEF EndHolds
    <2>4. write' = NoWrite BY <2>1 DEF WrittenBy
    <2> QED BY <1>b, <2>1, <2>2, <2>3, <2>4, IdsSame DEF SavesInv
  <1> QED BY <1>1, <1>2, <1>3, <1>4, <1>5, <1>6, <1>7 DEF SaveStep

\* The steps of those who write at a safe point, or are cut at one.
LEMMA KidHoldsSaves ==
  ASSUME Types, GroupInv, SavesInv, IdsInv, NEW k \in Kids,
         KidSafePoint(k) \/ KidCut(k) \/ \E last \in BOOLEAN : KidWritten(k, last)
  PROVE  SavesInv' /\ IdsInv'
  <1>t. kid \in [Kids -> KidType] /\ k \in Writers /\ k # Node /\ k \notin Saves /\ k # SessionPath
    BY ChildrenAssumption DEF Types, ChildTypes, Writers
  <1>l. kid[k].st \in Live
    <2>1. KidHolds(k) BY DEF GroupInv, KidsHold
    <2> QED BY <2>1 DEF KidHolds, KidSafePoint, KidCut, KidWritten, KidAt, Live
  <1>e. run # "ended" BY <1>l DEF GroupInv, GroupHolds, SavesInv, EndHolds, Closing
  <1>s. WriteHolds /\ FilesHold /\ EndHolds BY DEF SavesInv
  <1>1. CASE KidSafePoint(k)
    <2>1. /\ Serialize(k, SaveTargets, rec)
          /\ UNCHANGED <<sv, file, during, seq, rec, kept, before, kid, body, run>>
      BY <1>1 DEF KidSafePoint, Steps
    <2>2. SaveTargets \in Seq(Paths) BY TargetsOfWaiting
    <2>3. WriteHolds' /\ FilesHold' /\ IdsInv' BY <1>t, <2>1, <2>2, BeginsWrite
    <2> QED BY <1>e, <2>1, <2>3 DEF SavesInv, EndHolds
  <1>2. CASE KidCut(k)
    <2>1. /\ UNCHANGED <<sv, file, during, final, seq, rec, kept, before, body>>
          /\ write' = write \/ write' = NoWrite
      BY <1>2 DEF KidCut, Steps
    <2>2. run' # "ended" BY <1>2, <1>e DEF KidCut, Counting
    <2>3. WriteHolds' /\ FilesHold' BY <1>s, <2>1 DEF WriteHolds, FilesHold, Target
    <2>4. \A j \in Kids : kid'[j].st # "none" => kid[j].st # "none"
      BY <1>2, <1>t, <1>l DEF KidCut, Live
    <2>5. IdsInv' BY <2>1, <2>4 DEF IdsInv, IdsNotReused, Target, NoWrite
    <2> QED BY <2>2, <2>3, <2>5 DEF SavesInv, EndHolds
  <1>3. ASSUME NEW last \in BOOLEAN, KidWritten(k, last) PROVE SavesInv' /\ IdsInv'
    <2>1. /\ WrittenBy(k) /\ Release
          /\ UNCHANGED <<file, during, final, seq, rec, kept, before, body>>
      BY <1>3 DEF KidWritten, Steps
    <2>2. run' # "ended" BY <1>3, <1>e DEF KidWritten, Parks, Onward, Counting
    <2>3. WriteHolds' /\ FilesHold' BY <1>t, <2>1, EndsWrite
    <2>4. \A j \in Kids : kid'[j].st # "none" => kid[j].st # "none"
      BY <1>3, <1>t, <1>l DEF KidWritten, To, Onward, Live
    <2>5. write' = NoWrite BY <2>1 DEF WrittenBy
    <2>6. IdsInv' BY <2>1, <2>4, <2>5 DEF IdsInv, IdsNotReused, NoWrite
    <2> QED BY <2>2, <2>3, <2>6 DEF SavesInv, EndHolds
  <1> QED BY <1>1, <1>2, <1>3

LEMMA NodeHoldsSaves ==
  ASSUME Types, GroupInv, SavesInv, IdsInv, Checkpoint \/ NodeWritten \/ BodyCut
  PROVE  SavesInv' /\ IdsInv'
  <1>t. /\ body \in BodyType /\ seq \in Nat /\ rec \in Nat /\ Node \in Writers
        /\ Node \notin Saves /\ Node # SessionPath /\ WriteTypes
        /\ file[SessionPath].seq \in Nat /\ before \cup kept \subseteq Nat
    BY ChildrenAssumption, PathsFinite DEF Types, ChildTypes, WriteTypes, Writers, Docs
  <1>e. run # "ended"
    BY DEF Checkpoint, NodeWritten, BodyCut, GroupInv, GroupHolds, SavesInv, EndHolds
  <1>s. WriteHolds /\ FilesHold /\ EndHolds BY DEF SavesInv
  <1>1. CASE Checkpoint
    <2>1. /\ Serialize(Node, SaveTargets, seq) /\ rec' = seq
          /\ UNCHANGED <<sv, file, during, seq, kept, before, kid, run>>
      BY <1>1 DEF Checkpoint, Snapshot
    <2>2. SaveTargets \in Seq(Paths) /\ SessionPath \in ToSet(SaveTargets) BY TargetsOfWaiting
    <2>3. /\ write'.by = {Node} /\ write'.doc.asked = Asked /\ write'.doc.seq = seq
          /\ write'.todo = SaveTargets /\ write'.done = {}
      BY ONLY <1>t, <2>1, <2>2, SerializeTypes
    <2>4. WriteHolds' BY <1>t, <2>1, <2>3 DEF WriteHolds, Asked
    <2>5. FilesHold' BY <1>s, <2>1 DEF FilesHold
    <2>6. IdsInv' BY <1>t, <2>1, <2>2, <2>3 DEF IdsInv, IdsNotReused, Target
    <2> QED BY <1>e, <2>1, <2>4, <2>5, <2>6 DEF SavesInv, EndHolds
  <1>2. CASE NodeWritten
    <2>1. /\ WrittenBy(Node) /\ Release /\ kept' = kept \cup 0 .. seq - 1
          /\ UNCHANGED <<file, during, final, seq, rec, before, kid>>
          /\ body.pc \in {"writing", "completing"}
      BY <1>2 DEF NodeWritten
    <2>2. run' # "ended" BY <1>2, <1>e DEF NodeWritten, Parks, Counting
    <2>3. WriteHolds' /\ FilesHold' BY <1>t, <2>1, EndsWrite
    <2>4. /\ write # NoWrite /\ write.by = {Node} /\ write.todo = <<>> /\ write' = NoWrite
      BY ONLY <1>t, <2>1, WrittenTypes
    <2>5. SessionPath \in write.done BY <2>4 DEF IdsInv, Target, ToSet
    <2>6. file[SessionPath].seq = seq /\ rec = seq
      BY <1>s, <2>1, <2>4, <2>5 DEF WriteHolds, IdsInv
    <2>7. \A i \in before' \cup kept' : i < file'[SessionPath].seq
      BY <1>t, <2>1, <2>6 DEF IdsInv
    <2>8. body'.pc \notin {"writing", "completing"} BY <1>2, <1>t DEF NodeWritten, Goes, BodyType
    <2>9. IdsInv' BY <2>1, <2>4, <2>7, <2>8 DEF IdsInv, IdsNotReused, NoWrite
    <2> QED BY <2>2, <2>3, <2>9 DEF SavesInv, EndHolds
  <1>3. CASE BodyCut
    <2>1. /\ UNCHANGED <<sv, file, during, final, seq, rec, kept, before, kid>>
          /\ write' = write \/ write' = NoWrite
          /\ body'.pc \in {"ending", "cancelled"}
      BY <1>3, <1>t DEF BodyCut, BodyType
    <2>2. run' # "ended" BY <1>3, <1>e DEF BodyCut, Counting
    <2>3. WriteHolds' /\ FilesHold' BY <1>s, <2>1 DEF WriteHolds, FilesHold, Target
    <2>4. IdsInv' BY <2>1, IdsSame
    <2> QED BY <2>2, <2>3, <2>4 DEF SavesInv, EndHolds
  <1> QED BY <1>1, <1>2, <1>3

LEMMA LoadHoldsSaves ==
  ASSUME Types, GroupInv, SavesInv, IdsInv, Finish \/ CrashAndLoad
  PROVE  SavesInv' /\ IdsInv'
  <1>s. WriteHolds /\ FilesHold /\ EndHolds BY DEF SavesInv
  <1>1. CASE Finish
    <2>1. /\ final' = Range(SaveTargets) /\ body.pc = "left" /\ ~gate'
          /\ UNCHANGED <<body, seq, kid, rec, write, sv, file, during, kept, before>>
      BY <1>1 DEF Finish, tasks
    <2>2. \A s \in Saves : sv[s] = "waiting" => PathOf[s] \in final' BY <2>1, TargetsOfWaiting
    <2>3. WriteHolds' /\ FilesHold' /\ EndHolds'
      BY <1>s, <2>1, <2>2 DEF WriteHolds, FilesHold, EndHolds, Target
    <2> QED BY <2>1, <2>3, IdsSame DEF SavesInv
  <1>2. CASE CrashAndLoad
    <2>1. /\ write' = NoWrite /\ run' = "running" /\ body'.pc = "working"
          /\ \A s \in Saves : sv'[s] \in {"idle", "died"}
          /\ rec' = file[SessionPath].seq /\ seq' = file[SessionPath].seq
          /\ UNCHANGED file /\ before' = before \cup kept /\ kept' = {}
          /\ \A k \in Kids : kid'[k].st = "none"
      BY <1>2 DEF CrashAndLoad, Adopted, NewBody, NewKid
    <2>2. SavesInv' BY <2>1 DEF SavesInv, WriteHolds, FilesHold, EndHolds
    <2>3. file[SessionPath].seq \in Nat BY PathsFinite DEF Types, WriteTypes, Docs
    <2>4. IdsInv' BY <2>1, <2>3 DEF IdsInv, IdsNotReused, NoWrite
    <2> QED BY <2>2, <2>4
  <1> QED BY <1>1, <1>2

LEMMA SavesStep == Types /\ GroupInv /\ SavesInv /\ IdsInv /\ [Next]_vars => (SavesInv /\ IdsInv)'
  <1> SUFFICES ASSUME Types, GroupInv, SavesInv, IdsInv, [Next]_vars PROVE SavesInv' /\ IdsInv'
    OBVIOUS
  <1>1. CASE UNCHANGED vars
    BY <1>1, IdsSame
    DEF vars, tasks, saving, SavesInv, WriteHolds, FilesHold, EndHolds, Target
  <1>2. CASE BodyStep \/ (\E k \in Kids : KidStep(k)) \/ GroupStep \/ GateStep BY <1>2, QuietHolds
  <1>3. CASE SaveStep BY <1>3, SaveHolds
  <1>4. ASSUME NEW k \in Kids,
               KidSafePoint(k) \/ KidCut(k) \/ \E last \in BOOLEAN : KidWritten(k, last)
        PROVE  SavesInv' /\ IdsInv'
    BY <1>4, KidHoldsSaves
  <1>5. CASE Checkpoint \/ NodeWritten \/ BodyCut BY <1>5, NodeHoldsSaves
  <1>6. CASE Finish \/ CrashAndLoad BY <1>6, LoadHoldsSaves
  <1> QED BY <1>1, <1>2, <1>3, <1>4, <1>5, <1>6, NextSteps

LEMMA SavesInit == Init => SavesInv /\ IdsInv
  BY DEF Init, SavesInv, WriteHolds, FilesHold, EndHolds, IdsInv, IdsNotReused, NoWrite, NewBody,
         NewKid, Absent, Paths

LEMMA ChildrenHold == Spec => [](Types /\ GroupInv /\ SavesInv /\ IdsInv)
  <1>1. Types /\ GroupInv /\ SavesInv /\ IdsInv /\ [Next]_vars
          => (Types /\ GroupInv /\ SavesInv /\ IdsInv)'
    BY TypesStep, GroupInvStep, SavesStep
  <1>2. Init => Types /\ GroupInv /\ SavesInv /\ IdsInv BY TypesInit, GroupInit, SavesInit
  <1> QED BY <1>1, <1>2, PTL DEF Spec

-----------------------------------------------------------------------------
(* The theorems *)

\* Whatever interrupts, failures and cancels cross each other: the interrupt of a subagent
\* ends that subagent, an unwinding group is not absorbed, no child outlives its node and
\* none that works is uncounted (step.py, should_absorb; context.py, _start, children()).
THEOREM GroupIsStructured == Spec => []Structured
  <1>1. Types /\ GroupInv => Structured
    <2> SUFFICES ASSUME Types, GroupInv PROVE Structured
      OBVIOUS
    <2>1. OnlyItsChild /\ WorkIsCounted BY DEF GroupInv, GroupHolds, CountHolds
    <2>2. UnwindingIsNotAbsorbed
      <3>1. struck \subseteq Kids BY DEF Types, ChildTypes
      <3> QED BY <3>1 DEF UnwindingIsNotAbsorbed, GroupInv, KidsHold, KidHolds, CutTwice
    <2>3. NoneOutlives
      <3> SUFFICES ASSUME body.pc \in {"ending", "left"}
                   PROVE  /\ \A k \in Kids : kid[k].st \notin Live
                          /\ DOMAIN counted \ {Node} \subseteq lost
        BY DEF NoneOutlives
      <3>1. group = "closed" /\ \A k \in Kids : kid[k].st \notin Live
        BY DEF GroupInv, GroupHolds, Closing
      <3>2. DOMAIN counted \ {Node} \subseteq Kids BY DEF Types, ChildTypes, MapTypes
      <3>3. \A k \in Kids : ~Registering(k) BY DEF Registering
      <3>4. \A k \in DOMAIN counted \cap Kids : k \in lost
        BY <3>1, <3>3 DEF GroupInv, CountHolds, Live
      <3> QED BY <3>1, <3>2, <3>4
    <2> QED BY <2>1, <2>2, <2>3 DEF Structured
  <1> QED BY <1>1, ChildrenHold, PTL

\* A save() that returned has its session in the file it named, as of the call or later,
\* and a run that ended lets nobody wait, whatever was cut, cancelled or crashed on the way
\* (Controller.save(), _release_pending_saves(), _checkpoint_terminal()).
THEOREM SavesAreWritten == Spec => []SaveKeepsWord
  <1>1. Types /\ SavesInv => SaveKeepsWord
    <2> SUFFICES ASSUME Types, SavesInv, NEW s \in Saves
                 PROVE  /\ sv[s] = "returned" =>
                             file[PathOf[s]].there /\ s \in file[PathOf[s]].asked \cup during
                        /\ run = "ended" /\ final = {} /\ write = NoWrite => sv[s] # "waiting"
      BY DEF SaveKeepsWord
    <2>1. write = NoWrite => write.by # {SessionPath} BY DEF NoWrite
    <2> QED BY <2>1 DEF SavesInv, FilesHold, EndHolds
  <1> QED BY <1>1, ChildrenHold, PTL

\* No subagent gets an id that a written snapshot of its node counts, through any number of
\* reloads (NodeContext.adopt(), _start).
THEOREM IdsAreFresh == Spec => []IdsNotReused
  <1>1. IdsInv => IdsNotReused BY DEF IdsInv
  <1> QED BY <1>1, ChildrenHold, PTL
=============================================================================
