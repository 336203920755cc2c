----------------------------- MODULE FilesProofs -----------------------------
(***************************************************************************)
(* No agent replaces a file it has not seen, nor another version than the  *)
(* one approved: for any agents, paths and bound on the record of reads,   *)
(* each agent having a record of its own.                                  *)
(***************************************************************************)
EXTENDS FilesProps, SequenceTheorems, TLAPS

Entries == [path : Paths, version : Nat]
Inside == {"read", "checked", "writing", "replacing", "replaced"}
Jobs == [kind : {"none", "read", "write", "edit"}, path : Paths \cup {"none"},
         stage : Inside \cup {"idle", "asking"}, shown : Nat, text : Nat]

Typed ==
  /\ now \in Nat /\ file \in [Paths -> Nat] /\ \A p \in Paths : file[p] <= now
  /\ noted \in [Agents -> Seq(Entries)]
  /\ job \in [Agents -> Jobs] /\ held \in Agents \cup {"loop"}
  /\ seen \in [Agents -> [Paths -> Nat]] /\ raced \in [Agents -> [Paths -> BOOLEAN]]
  /\ \A a \in Agents : job[a].stage # "idle" => job[a].path \in Paths

\* The agent has seen what is in the file, or somebody wrote inside one of its calls.
Known(a, p) == seen[a][p] = file[p] \/ raced[a][p]

\* An entry with the file's own version is knowledge of it.
EntriesKnown ==
  \A a \in Agents : \A e \in ToSet(noted[a]) :
    /\ 0 < e.version /\ e.version <= now
    /\ e.version = file[e.path] => Known(a, e.path)

\* Inside a call the event loop is held; the checks that were made hold until its end.
CallsHold ==
  \A a \in Agents : LET j == job[a] IN
    /\ j.stage \in Inside <=> held = a
    /\ j.stage \in {"writing", "replacing"} =>
         file[j.path] = 0 \/ raced[a][j.path] \/ (seen[a][j.path] = file[j.path] /\ j.shown = file[j.path])
    /\ j.stage = "replaced" => file[j.path] = 0 \/ raced[a][j.path] \/ j.text = file[j.path]
    /\ j.stage = "read" => j.kind = "read" /\ j.text > 0

\* While a question is open, an entry that is still current is of the version shown.
QuestionsHold ==
  \A a \in Agents : LET j == job[a] IN
    j.stage = "asking" =>
      \A e \in ToSet(noted[a]) : e.path = j.path /\ e.version = file[j.path] => j.shown = file[j.path]

WriteInv == Typed /\ EntriesKnown /\ CallsHold /\ QuestionsHold

-----------------------------------------------------------------------------
(* The record of reads, as a sequence *)

LEMMA AppendSet ==
  ASSUME NEW T, NEW s \in Seq(T), NEW e \in T
  PROVE  Append(s, e) \in Seq(T) /\ ToSet(Append(s, e)) = ToSet(s) \cup {e}
  <1>1. Append(s, e) \in Seq(T) /\ Len(Append(s, e)) = Len(s) + 1
        /\ \A i \in 1..Len(s) : Append(s, e)[i] = s[i]
        /\ Append(s, e)[Len(s) + 1] = e
    OBVIOUS
  <1>2. ToSet(Append(s, e)) \subseteq ToSet(s) \cup {e} BY <1>1 DEF ToSet
  <1>3. ToSet(s) \cup {e} \subseteq ToSet(Append(s, e)) BY <1>1 DEF ToSet
  <1> QED BY <1>1, <1>2, <1>3

LEMMA SubSeqSet ==
  ASSUME NEW T, NEW s \in Seq(T), NEW m \in Int, NEW n \in Int, 1 <= m, n <= Len(s)
  PROVE  SubSeq(s, m, n) \in Seq(T) /\ ToSet(SubSeq(s, m, n)) \subseteq ToSet(s)
  <1> DEFINE t == SubSeq(s, m, n)
  <1>1. \A i \in m..n : i \in 1..Len(s) /\ s[i] \in T /\ s[i] \in ToSet(s) BY DEF ToSet
  <1>2. /\ t \in Seq(T)
        /\ Len(t) = IF m <= n THEN n - m + 1 ELSE 0
        /\ \A i \in 1..n - m + 1 : t[i] = s[m + i - 1]
    BY <1>1, SubSeqProperties
  <1> HIDE DEF t
  <1>3. ASSUME NEW i \in 1..Len(t) PROVE t[i] \in ToSet(s)
    <2>1. m + i - 1 \in m..n /\ t[i] = s[m + i - 1] BY <1>2
    <2> QED BY <1>1, <2>1
  <1>4. \A x \in ToSet(t) : \E i \in 1..Len(t) : x = t[i] BY <1>2 DEF ToSet
  <1> QED BY <1>2, <1>3, <1>4 DEF t

LEMMA ConcatSet ==
  ASSUME NEW T, NEW s \in Seq(T), NEW t \in Seq(T)
  PROVE  s \o t \in Seq(T) /\ ToSet(s \o t) \subseteq ToSet(s) \cup ToSet(t)
  <1>1. s \o t \in Seq(T) /\ Len(s \o t) = Len(s) + Len(t)
        /\ \A i \in 1..Len(s) : (s \o t)[i] = s[i]
        /\ \A j \in Len(s) + 1..Len(s) + Len(t) : (s \o t)[j] = t[j - Len(s)]
    OBVIOUS
  <1>2. ASSUME NEW i \in 1..Len(s) + Len(t) PROVE (s \o t)[i] \in ToSet(s) \cup ToSet(t)
    <2>1. CASE i \in 1..Len(s) BY <1>1, <2>1 DEF ToSet
    <2>2. CASE i \notin 1..Len(s)
      <3>1. i - Len(s) \in 1..Len(t) /\ (s \o t)[i] = t[i - Len(s)] BY <1>1, <2>2
      <3> QED BY <3>1 DEF ToSet
    <2> QED BY <2>1, <2>2
  <1> QED BY <1>1, <1>2 DEF ToSet

\* pop(): nothing is added.
LEMMA ClearedSet ==
  ASSUME NEW s \in Seq(Entries), NEW p
  PROVE  Cleared(s, p) \in Seq(Entries) /\ ToSet(Cleared(s, p)) \subseteq ToSet(s)
  <1>1. CASE Places(s, p) = {} BY <1>1 DEF Cleared
  <1>2. CASE Places(s, p) # {}
    <2> DEFINE i == PlaceOf(s, p)
    <2>1. i \in 1..Len(s) BY <1>2 DEF PlaceOf, Places
    <2> HIDE DEF i
    <2>2. SubSeq(s, 1, i - 1) \in Seq(Entries) /\ ToSet(SubSeq(s, 1, i - 1)) \subseteq ToSet(s)
      BY <2>1, SubSeqSet
    <2>3. SubSeq(s, i + 1, Len(s)) \in Seq(Entries) /\ ToSet(SubSeq(s, i + 1, Len(s))) \subseteq ToSet(s)
      BY <2>1, SubSeqSet
    <2>4. Cleared(s, p) = SubSeq(s, 1, i - 1) \o SubSeq(s, i + 1, Len(s))
      BY <1>2 DEF Cleared, RemoveAt, i
    <2> DEFINE left == SubSeq(s, 1, i - 1)
               right == SubSeq(s, i + 1, Len(s))
    <2> HIDE DEF left, right
    <2>5. left \o right \in Seq(Entries) /\ ToSet(left \o right) \subseteq ToSet(left) \cup ToSet(right)
      BY <2>2, <2>3, ConcatSet DEF left, right
    <2> QED BY <2>2, <2>3, <2>4, <2>5 DEF left, right
  <1> QED BY <1>1, <1>2

\* get(): the entries stay the same ones.
LEMMA MovedSet ==
  ASSUME NEW s \in Seq(Entries), NEW p
  PROVE  Moved(s, p) \in Seq(Entries) /\ ToSet(Moved(s, p)) \subseteq ToSet(s)
  <1>1. CASE Places(s, p) = {} BY <1>1 DEF Moved
  <1>2. CASE Places(s, p) # {}
    <2>1. PlaceOf(s, p) \in 1..Len(s) BY <1>2 DEF PlaceOf, Places
    <2>2. s[PlaceOf(s, p)] \in Entries /\ s[PlaceOf(s, p)] \in ToSet(s) BY <2>1 DEF ToSet
    <2> QED BY <1>2, <2>2, ClearedSet, AppendSet DEF Moved
  <1> QED BY <1>1, <1>2

\* record(): at most the new entry is added.
LEMMA NotingSet ==
  ASSUME NEW s \in Seq(Entries), NEW p \in Paths, file[p] \in Nat
  PROVE  /\ Noting(s, p) \in Seq(Entries)
         /\ \A e \in ToSet(Noting(s, p)) :
              e \in ToSet(s) \/ (file[p] # 0 /\ e = [path |-> p, version |-> file[p]])
  <1>1. CASE file[p] = 0 BY <1>1 DEF Noting
  <1>2. CASE file[p] # 0
    <2> DEFINE e == [path |-> p, version |-> file[p]]
               t == Append(Cleared(s, p), e)
    <2>1. e \in Entries BY DEF Entries
    <2>2. t \in Seq(Entries) /\ ToSet(t) \subseteq ToSet(s) \cup {e}
      BY <2>1, ClearedSet, AppendSet
    <2>3. Noting(s, p) = LastOf(t) BY <1>2 DEF Noting
    <2> HIDE DEF t
    <2>4. LastOf(t) \in Seq(Entries) /\ ToSet(LastOf(t)) \subseteq ToSet(t)
      <3> DEFINE m == IF Len(t) > MaxEntries THEN Len(t) - MaxEntries + 1 ELSE 1
      <3>1. m \in Int /\ 1 <= m /\ Len(t) \in Int BY <2>2, FilesAssumption
      <3>2. LastOf(t) = SubSeq(t, m, Len(t)) BY DEF LastOf
      <3> HIDE DEF m
      <3> QED BY <2>2, <3>1, <3>2, SubSeqSet
    <2> QED BY <1>2, <2>2, <2>3, <2>4
  <1> QED BY <1>1, <1>2

-----------------------------------------------------------------------------
(* The calls *)

\* An agent that is not a node of a graph has a record of its own.
LEMMA OwnRecord == ~Shared => Owners = Agents /\ \A a : Owner(a) = a
  BY DEF Owners, Owner

LEMMA Initially == ~Shared /\ Init => WriteInv
  <1> SUFFICES ASSUME ~Shared, Init PROVE WriteInv
    OBVIOUS
  <1>1. Typed
    <2>1. now = 1 /\ \A p \in Paths : file[p] \in {0, 1} BY DEF Init
    <2>2. noted = [a \in Agents |-> <<>>] /\ job = [a \in Agents |-> NoJob] BY OwnRecord DEF Init
    <2> QED BY <2>1, <2>2 DEF Init, Typed, NoJob, Jobs
  <1>2. EntriesKnown
    <2>1. \A a \in Agents : noted[a] = <<>> BY OwnRecord DEF Init
    <2> QED BY <2>1 DEF EntriesKnown, ToSet
  <1>3. CallsHold
    BY FilesAssumption DEF Init, CallsHold, NoJob, Inside
  <1>4. QuestionsHold
    BY DEF Init, QuestionsHold, NoJob
  <1> QED BY <1>1, <1>2, <1>3, <1>4 DEF WriteInv

\* A step that changes a call and who holds the loop, and adds nothing to the records.
LEMMA CallStep ==
  ASSUME WriteInv, NEW a \in Agents, NEW j \in Jobs, job' = [job EXCEPT ![a] = j],
         held \in {"loop", a}, held' \in {"loop", a},
         UNCHANGED <<now, file, seen, raced>>, noted' \in [Agents -> Seq(Entries)],
         \A b \in Agents : ToSet(noted'[b]) \subseteq ToSet(noted[b]),
         j.stage # "idle" => j.path \in Paths,
         j.stage \in Inside <=> held' = a,
         j.stage \in {"writing", "replacing"} =>
           \/ file[j.path] = 0 \/ raced[a][j.path]
           \/ seen[a][j.path] = file[j.path] /\ j.shown = file[j.path],
         j.stage # "replaced",
         j.stage = "read" => j.kind = "read" /\ j.text > 0,
         j.stage = "asking" => j.shown = file[j.path]
  PROVE  WriteInv'
  <1>1. job'[a] = j /\ \A b \in Agents \ {a} : job'[b] = job[b] /\ held # b /\ held' # b
    BY FilesAssumption DEF WriteInv, Typed
  <1>2. Typed' BY <1>1 DEF WriteInv, Typed
  <1>3. EntriesKnown'
    <2> SUFFICES ASSUME NEW b \in Agents, NEW e \in ToSet(noted'[b])
                 PROVE  0 < e.version /\ e.version <= now /\ (e.version = file[e.path] => Known(b, e.path))
      BY DEF EntriesKnown, Known
    <2>1. e \in ToSet(noted[b]) OBVIOUS
    <2> QED BY <2>1 DEF WriteInv, EntriesKnown
  <1>4. CallsHold'
    <2>1. ASSUME NEW b \in Agents, b # a PROVE job[b].stage \notin Inside
      BY <1>1, <2>1 DEF WriteInv, CallsHold
    <2> QED BY <1>1, <2>1 DEF CallsHold, Inside
  <1>5. QuestionsHold' BY <1>1, ZenonT(40) DEF WriteInv, QuestionsHold
  <1> QED BY <1>2, <1>3, <1>4, <1>5 DEF WriteInv

LEMMA SameRecords ==
  ASSUME WriteInv, UNCHANGED noted
  PROVE  noted' \in [Agents -> Seq(Entries)] /\ \A b \in Agents : ToSet(noted'[b]) \subseteq ToSet(noted[b])
  BY DEF WriteInv, Typed

LEMMA TouchedRecords ==
  ASSUME WriteInv, ~Shared, NEW a \in Agents, NEW p, noted' = Touched(a, p)
  PROVE  noted' \in [Agents -> Seq(Entries)] /\ \A b \in Agents : ToSet(noted'[b]) \subseteq ToSet(noted[b])
  <1>1. noted' = [noted EXCEPT ![a] = Moved(noted[a], p)] BY OwnRecord DEF Touched
  <1>2. noted \in [Agents -> Seq(Entries)] BY DEF WriteInv, Typed
  <1>3. Moved(noted[a], p) \in Seq(Entries) /\ ToSet(Moved(noted[a], p)) \subseteq ToSet(noted[a])
    BY <1>2, MovedSet
  <1> QED BY <1>1, <1>2, <1>3

LEMMA IdleStep ==
  ASSUME WriteInv, ~Shared, NEW a \in Agents, held \in {"loop", a}, LetGo(a, NoJob),
         UNCHANGED <<now, file, seen, raced>>, noted' \in [Agents -> Seq(Entries)],
         \A b \in Agents : ToSet(noted'[b]) \subseteq ToSet(noted[b])
  PROVE  WriteInv'
  <1>1. NoJob \in Jobs /\ NoJob.stage = "idle" BY DEF NoJob, Jobs
  <1>2. "idle" \notin Inside BY DEF Inside
  <1>3. held' # a BY FilesAssumption DEF LetGo
  <1> QED BY <1>1, <1>2, <1>3, CallStep DEF LetGo

LEMMA ReadBytesStep ==
  ASSUME WriteInv, ~Shared, NEW a \in Agents, NEW p \in Paths, ReadBytes(a, p)
  PROVE  WriteInv'
  <1> DEFINE j == [NoJob EXCEPT !.kind = "read", !.path = p, !.stage = "read", !.text = file[p]]
  <1>1. file[p] \in Nat /\ file[p] > 0 BY DEF ReadBytes, WriteInv, Typed
  <1>2. j \in Jobs /\ j.kind = "read" /\ j.path = p /\ j.stage = "read" /\ j.text = file[p]
    BY <1>1 DEF NoJob, Jobs, Inside
  <1> HIDE DEF j
  <1>3. job' = [job EXCEPT ![a] = j] /\ held = "loop" /\ held' = a BY DEF ReadBytes, Hold, j
  <1>4. UNCHANGED <<now, file, noted, seen, raced>> BY DEF ReadBytes
  <1>5. j.stage \in Inside BY <1>2 DEF Inside
  <1> QED BY <1>1, <1>2, <1>3, <1>4, <1>5, SameRecords, CallStep

LEMMA ProposeStep ==
  ASSUME WriteInv, ~Shared, NEW a \in Agents, NEW p \in Paths, NEW kind \in {"write", "edit"},
         Propose(a, kind, p)
  PROVE  WriteInv'
  <1> DEFINE j == [NoJob EXCEPT !.kind = kind, !.path = p, !.stage = "checked"]
  <1>1. j \in Jobs /\ j.path = p /\ j.stage = "checked" BY DEF NoJob, Jobs, Inside
  <1> HIDE DEF j
  <1>2. job' = [job EXCEPT ![a] = j] /\ held = "loop" /\ held' = a BY DEF Propose, Hold, j
  <1>3. UNCHANGED <<now, file, seen, raced>> /\ noted' = Touched(a, p) BY DEF Propose
  <1>4. j.stage \in Inside BY <1>1 DEF Inside
  <1> QED BY <1>1, <1>2, <1>3, <1>4, TouchedRecords, CallStep

LEMMA SummariseStep ==
  ASSUME WriteInv, ~Shared, NEW a \in Agents, Summarise(a)
  PROVE  WriteInv'
  <1> DEFINE j == [job[a] EXCEPT !.stage = "asking", !.shown = file[job[a].path]]
  <1>1. job[a] \in Jobs /\ job[a].path \in Paths /\ file[job[a].path] \in Nat
    BY DEF Summarise, WriteInv, Typed
  <1>2. j \in Jobs /\ j.path = job[a].path /\ j.stage = "asking" /\ j.shown = file[j.path]
    BY <1>1 DEF Jobs
  <1> HIDE DEF j
  <1>3. job' = [job EXCEPT ![a] = j] /\ held = a /\ held' = "loop" BY DEF Summarise, LetGo, j
  <1>4. UNCHANGED <<now, file, noted, seen, raced>> BY DEF Summarise
  <1>5. j.stage \notin Inside BY <1>2 DEF Inside
  <1>6. held' # a BY <1>3, FilesAssumption
  <1> QED BY <1>1, <1>2, <1>3, <1>4, <1>5, <1>6, SameRecords, CallStep

\* The second check: what is current is known, and is what was shown.
LEMMA FreshIsKnown ==
  ASSUME WriteInv, ~Shared, NEW a \in Agents, job[a].stage = "asking", Fresh(a, job[a].path)
  PROVE  LET p == job[a].path IN
           file[p] = 0 \/ raced[a][p] \/ (seen[a][p] = file[p] /\ job[a].shown = file[p])
  <1> DEFINE p == job[a].path
  <1>1. CASE file[p] = 0 BY <1>1
  <1>2. CASE file[p] # 0
    <2>1. PICK e \in ToSet(noted[a]) : e.path = p /\ e.version = file[p]
      BY <1>2, OwnRecord DEF Fresh, Entry
    <2>2. Known(a, p) BY <2>1 DEF WriteInv, EntriesKnown
    <2>3. job[a].shown = file[p] BY <2>1 DEF WriteInv, QuestionsHold
    <2> QED BY <2>2, <2>3 DEF Known
  <1> QED BY <1>1, <1>2

LEMMA ApprovedStep ==
  ASSUME WriteInv, ~Shared, NEW a \in Agents, Approved(a)
  PROVE  WriteInv'
  <1> DEFINE p == job[a].path
             j == [job[a] EXCEPT !.stage = "writing"]
  <1>1. job[a] \in Jobs /\ job[a].stage = "asking" /\ p \in Paths
    BY DEF Approved, WriteInv, Typed
  <1>2. held = "loop" /\ UNCHANGED <<now, file, seen, raced>> /\ noted' = Touched(a, p)
    BY DEF Approved
  <1>3. CASE Fresh(a, p) /\ (job[a].kind = "edit" => file[p] # 0)
    <2>1. j \in Jobs /\ j.path = p /\ j.stage = "writing" /\ j.shown = job[a].shown
      BY <1>1 DEF Jobs, Inside
    <2>2. job' = [job EXCEPT ![a] = j] /\ held' = a BY <1>3 DEF Approved, Hold
    <2>3. file[p] = 0 \/ raced[a][p] \/ (seen[a][p] = file[p] /\ j.shown = file[p])
      BY <1>1, <1>3, <2>1, FreshIsKnown
    <2>4. j.stage \in Inside BY <2>1 DEF Inside
    <2> HIDE DEF j
    <2> QED BY <1>1, <1>2, <2>1, <2>2, <2>3, <2>4, TouchedRecords, CallStep
  <1>4. CASE ~(Fresh(a, p) /\ (job[a].kind = "edit" => file[p] # 0))
    <2>1. LetGo(a, NoJob) BY <1>4 DEF Approved
    <2> QED BY <1>2, <2>1, TouchedRecords, IdleStep
  <1> QED BY <1>3, <1>4

LEMMA ReadTextStep ==
  ASSUME WriteInv, ~Shared, NEW a \in Agents, ReadText(a)
  PROVE  WriteInv'
  <1> DEFINE p == job[a].path
             j == [job[a] EXCEPT !.stage = "replacing", !.text = file[p]]
  <1>1. job[a] \in Jobs /\ job[a].stage = "writing" /\ held = a /\ p \in Paths /\ file[p] \in Nat
    BY DEF ReadText, WriteInv, Typed
  <1>2. UNCHANGED <<now, file, noted, seen, raced>> BY DEF ReadText
  <1>3. CASE Hold(a, j)
    <2>1. j \in Jobs /\ j.path = p /\ j.stage = "replacing" /\ j.shown = job[a].shown
      BY <1>1 DEF Jobs, Inside
    <2>2. job' = [job EXCEPT ![a] = j] /\ held' = a BY <1>3 DEF Hold
    <2>3. file[p] = 0 \/ raced[a][p] \/ (seen[a][p] = file[p] /\ j.shown = file[p])
      BY <1>1, <2>1 DEF WriteInv, CallsHold
    <2>4. j.stage \in Inside BY <2>1 DEF Inside
    <2> HIDE DEF j
    <2> QED BY <1>1, <1>2, <2>1, <2>2, <2>3, <2>4, SameRecords, CallStep
  <1>4. CASE LetGo(a, NoJob)
    BY <1>1, <1>2, <1>4, SameRecords, IdleStep
  <1> QED BY <1>3, <1>4 DEF ReadText

\* What read_bytes() returned is noted, or what the file has become since.
LEMMA ReadReturnsStep ==
  ASSUME WriteInv, ~Shared, NEW a \in Agents, ReadReturns(a)
  PROVE  WriteInv'
  <1> DEFINE p == job[a].path
  <1>1. held = a /\ job[a].kind = "read" /\ LetGo(a, NoJob) /\ UNCHANGED <<now, file>>
    BY DEF ReadReturns
  <1>2. CASE UNCHANGED <<noted, seen, raced>>
    BY <1>1, <1>2, SameRecords, IdleStep
  <1>3. CASE /\ noted' = [noted EXCEPT ![Owner(a)] = Noting(@, p)]
             /\ seen' = [seen EXCEPT ![a][p] = job[a].text]
             /\ raced' = [raced EXCEPT ![a][p] = file[p] # job[a].text]
    <2>1. job[a] \in Jobs /\ job[a].stage \in Inside /\ p \in Paths /\ file[p] \in Nat /\ file[p] <= now
      BY <1>1 DEF WriteInv, Typed, CallsHold, Inside
    <2>2. noted' = [noted EXCEPT ![a] = Noting(noted[a], p)] BY <1>3, OwnRecord
    <2>3. /\ Noting(noted[a], p) \in Seq(Entries)
          /\ \A e \in ToSet(Noting(noted[a], p)) :
               e \in ToSet(noted[a]) \/ (file[p] # 0 /\ e = [path |-> p, version |-> file[p]])
      BY <2>1, NotingSet DEF WriteInv, Typed
    <2>4. job' = [job EXCEPT ![a] = NoJob] /\ held' = "loop" BY <1>1 DEF LetGo
    <2>5. /\ job'[a] = NoJob
          /\ \A b \in Agents \ {a} : job'[b] = job[b] /\ noted'[b] = noted[b]
               /\ seen'[b] = seen[b] /\ raced'[b] = raced[b]
      BY <1>3, <2>2, <2>4 DEF WriteInv, Typed
    <2>6. Typed'
      <3>1. NoJob \in Jobs /\ NoJob.stage = "idle" BY DEF NoJob, Jobs
      <3>2. job[a].text \in Nat BY <2>1 DEF Jobs
      <3>3. noted' \in [Agents -> Seq(Entries)] BY <2>2, <2>3 DEF WriteInv, Typed
      <3>4. seen' \in [Agents -> [Paths -> Nat]] /\ raced' \in [Agents -> [Paths -> BOOLEAN]]
        BY <1>3, <3>2 DEF WriteInv, Typed
      <3> QED BY <1>1, <2>4, <2>5, <3>1, <3>3, <3>4 DEF WriteInv, Typed
    <2>7. EntriesKnown'
      <3> SUFFICES ASSUME NEW b \in Agents, NEW e \in ToSet(noted'[b])
                   PROVE  0 < e.version /\ e.version <= now /\ (e.version = file[e.path] => Known(b, e.path)')
        BY <1>1 DEF EntriesKnown
      <3>1. CASE b # a
        BY <1>1, <2>5, <3>1 DEF WriteInv, EntriesKnown, Known
      <3>2. CASE b = a
        <4>1. seen'[a][p] = file[p] \/ raced'[a][p]
          BY <1>1, <1>3, <2>1 DEF WriteInv, Typed
        <4>2. CASE e \in ToSet(noted[a])
          <5>1. 0 < e.version /\ e.version <= now /\ (e.version = file[e.path] => Known(a, e.path))
            BY <4>2 DEF WriteInv, EntriesKnown
          <5>2. e.path # p => seen'[a][e.path] = seen[a][e.path] /\ raced'[a][e.path] = raced[a][e.path]
            BY <1>3 DEF WriteInv, Typed
          <5> QED BY <1>1, <3>2, <4>1, <5>1, <5>2 DEF Known
        <4>3. CASE file[p] # 0 /\ e = [path |-> p, version |-> file[p]]
          BY <1>1, <2>1, <3>2, <4>1, <4>3 DEF Known
        <4> QED BY <2>2, <2>3, <3>2, <4>2, <4>3 DEF WriteInv, Typed
      <3> QED BY <3>1, <3>2
    <2>8. CallsHold'
      <3>1. ASSUME NEW b \in Agents, b # a PROVE job[b].stage \notin Inside
        BY <1>1, <3>1 DEF WriteInv, CallsHold
      <3>2. NoJob.stage = "idle" /\ "idle" \notin Inside BY DEF NoJob, Inside
      <3>3. \A b \in Agents : held' # b BY <2>4, FilesAssumption
      <3> QED BY <2>5, <3>1, <3>2, <3>3 DEF CallsHold, Inside
    <2>9. QuestionsHold'
      <3>1. NoJob.stage = "idle" BY DEF NoJob
      <3> QED BY <1>1, <2>5, <3>1 DEF WriteInv, QuestionsHold
    <2> QED BY <2>6, <2>7, <2>8, <2>9 DEF WriteInv
  <1> QED BY <1>2, <1>3 DEF ReadReturns

\* A new version of p: no entry is current any more.
LEMMA NewVersion ==
  ASSUME WriteInv, NEW p \in Paths, now' = now + 1, file' = [file EXCEPT ![p] = now + 1],
         UNCHANGED <<noted, seen>>, raced' \in [Agents -> [Paths -> BOOLEAN]],
         \A a \in Agents, q \in Paths : raced[a][q] => raced'[a][q]
  PROVE  /\ EntriesKnown'
         /\ \A a \in Agents : \A e \in ToSet(noted[a]) : e.path = p => e.version # file'[p]
  <1>1. \A a \in Agents : \A e \in ToSet(noted[a]) :
           /\ e.path \in Paths /\ e.version \in Nat /\ 0 < e.version /\ e.version <= now
           /\ e.version = file[e.path] => Known(a, e.path)
    <2> SUFFICES ASSUME NEW a \in Agents, NEW e \in ToSet(noted[a]) PROVE e \in Entries
      BY DEF WriteInv, EntriesKnown, Entries
    <2> QED BY DEF WriteInv, Typed, ToSet
  <1>2. now \in Nat /\ file \in [Paths -> Nat] BY DEF WriteInv, Typed
  <1>3. \A a \in Agents : \A e \in ToSet(noted[a]) : e.path = p => e.version # file'[p]
    BY <1>1, <1>2
  <1>4. EntriesKnown'
    <2> SUFFICES ASSUME NEW a \in Agents, NEW e \in ToSet(noted[a])
                 PROVE  0 < e.version /\ e.version <= now' /\ (e.version = file'[e.path] => Known(a, e.path)')
      BY DEF EntriesKnown
    <2>1. CASE e.path = p BY <1>1, <1>2, <1>3, <2>1
    <2>2. CASE e.path # p
      <3>1. file'[e.path] = file[e.path] BY <1>1, <1>2, <2>2
      <3> QED BY <1>1, <1>2, <3>1 DEF Known
    <2> QED BY <2>1, <2>2
  <1> QED BY <1>3, <1>4

LEMMA ReplaceStep ==
  ASSUME WriteInv, ~Shared, NEW a \in Agents, Replace(a)
  PROVE  WriteInv'
  <1> DEFINE p == job[a].path
             j == [job[a] EXCEPT !.stage = "replaced", !.text = now + 1]
  <1>1. job[a] \in Jobs /\ p \in Paths /\ now \in Nat /\ file \in [Paths -> Nat] /\ held = a
    BY DEF Replace, WriteInv, Typed
  <1>2. now' = now + 1 /\ file' = [file EXCEPT ![p] = now + 1] /\ UNCHANGED <<noted, seen, raced>>
    BY DEF Replace
  <1>3. j \in Jobs /\ j.path = p /\ j.stage = "replaced" /\ j.text = now + 1
    <2> DEFINE n == now + 1
    <2>1. n \in Nat BY <1>1
    <2> HIDE DEF n
    <2>2. /\ [job[a] EXCEPT !.stage = "replaced", !.text = n] \in Jobs
          /\ [job[a] EXCEPT !.stage = "replaced", !.text = n].path = p
          /\ [job[a] EXCEPT !.stage = "replaced", !.text = n].stage = "replaced"
          /\ [job[a] EXCEPT !.stage = "replaced", !.text = n].text = n
      BY <1>1, <2>1 DEF Jobs, Inside
    <2> QED BY <2>2 DEF n
  <1>4. job' = [job EXCEPT ![a] = j] /\ held' = a BY DEF Replace, Hold
  <1> HIDE DEF j
  <1>5. job'[a] = j /\ \A b \in Agents \ {a} : job'[b] = job[b] /\ job[b].stage \notin Inside
    BY <1>1, <1>4 DEF WriteInv, Typed, CallsHold
  <1>6. Typed'
    <2>1. file' \in [Paths -> Nat] /\ \A q \in Paths : file'[q] <= now'
      BY <1>1, <1>2 DEF WriteInv, Typed
    <2> QED BY <1>1, <1>2, <1>3, <1>4, <1>5, <2>1 DEF WriteInv, Typed
  <1>7. raced' \in [Agents -> [Paths -> BOOLEAN]] BY <1>2 DEF WriteInv, Typed
  <1>8. EntriesKnown' /\ \A b \in Agents : \A e \in ToSet(noted[b]) : e.path = p => e.version # file'[p]
    BY <1>1, <1>2, <1>7, NewVersion
  <1>9. CallsHold'
    <2>1. file'[p] = now + 1 BY <1>1, <1>2
    <2> QED BY <1>1, <1>3, <1>4, <1>5, <2>1 DEF CallsHold, Inside
  <1>10. QuestionsHold'
    <2> SUFFICES ASSUME NEW b \in Agents, job'[b].stage = "asking", NEW e \in ToSet(noted[b]),
                        e.path = job'[b].path, e.version = file'[job'[b].path]
                 PROVE  job'[b].shown = file'[job'[b].path]
      BY <1>2 DEF QuestionsHold
    <2>1. job'[b] = job[b] BY <1>3, <1>5
    <2>2. job[b].path # p BY <1>8, <2>1
    <2>3. file'[job[b].path] = file[job[b].path] BY <1>1, <1>2, <2>1, <2>2 DEF WriteInv, Typed
    <2> QED BY <2>1, <2>3 DEF WriteInv, QuestionsHold
  <1> QED BY <1>6, <1>8, <1>9, <1>10 DEF WriteInv

LEMMA WrittenStep ==
  ASSUME WriteInv, ~Shared, NEW a \in Agents, Written(a)
  PROVE  WriteInv'
  <1> DEFINE p == job[a].path
  <1>1. job[a] \in Jobs /\ job[a].text \in Nat /\ p \in Paths /\ file[p] \in Nat /\ file[p] <= now
    BY DEF Written, WriteInv, Typed, Jobs
  <1>2. /\ held = a /\ job' = [job EXCEPT ![a] = NoJob] /\ held' = "loop"
        /\ UNCHANGED <<now, file, raced>> /\ seen' = [seen EXCEPT ![a][p] = job[a].text]
    BY DEF Written, LetGo
  <1>3. noted' = [noted EXCEPT ![a] = Noting(Cleared(noted[a], p), p)] BY OwnRecord DEF Written
  <1>4. noted[a] \in Seq(Entries) BY DEF WriteInv, Typed
  <1>5. Cleared(noted[a], p) \in Seq(Entries) /\ ToSet(Cleared(noted[a], p)) \subseteq ToSet(noted[a])
    BY <1>4, ClearedSet
  <1>6. /\ Noting(Cleared(noted[a], p), p) \in Seq(Entries)
        /\ \A e \in ToSet(Noting(Cleared(noted[a], p), p)) :
             e \in ToSet(noted[a]) \/ (file[p] # 0 /\ e = [path |-> p, version |-> file[p]])
    BY <1>1, <1>5, NotingSet
  <1>7. /\ job'[a] = NoJob
        /\ \A b \in Agents \ {a} : job'[b] = job[b] /\ noted'[b] = noted[b] /\ seen'[b] = seen[b]
    BY <1>2, <1>3 DEF WriteInv, Typed
  <1>8. Typed'
    <2>1. NoJob \in Jobs /\ NoJob.stage = "idle" BY DEF NoJob, Jobs
    <2>2. noted' \in [Agents -> Seq(Entries)] BY <1>3, <1>6 DEF WriteInv, Typed
    <2>3. seen' \in [Agents -> [Paths -> Nat]] BY <1>1, <1>2 DEF WriteInv, Typed
    <2> QED BY <1>2, <1>7, <2>1, <2>2, <2>3 DEF WriteInv, Typed
  <1>9. EntriesKnown'
    <2> SUFFICES ASSUME NEW b \in Agents, NEW e \in ToSet(noted'[b])
                 PROVE  0 < e.version /\ e.version <= now /\ (e.version = file[e.path] => Known(b, e.path)')
      BY <1>2 DEF EntriesKnown
    <2>1. CASE b # a BY <1>2, <1>7, <2>1 DEF WriteInv, EntriesKnown, Known
    <2>2. CASE b = a
      <3>1. file[p] # 0 => seen'[a][p] = file[p] \/ raced'[a][p]
        <4>1. seen'[a][p] = job[a].text BY <1>1, <1>2 DEF WriteInv, Typed
        <4>2. file[p] = 0 \/ raced[a][p] \/ job[a].text = file[p]
          BY DEF Written, WriteInv, CallsHold
        <4> QED BY <1>2, <4>1, <4>2
      <3>2. CASE e \in ToSet(noted[a])
        <4>1. 0 < e.version /\ e.version <= now /\ (e.version = file[e.path] => Known(a, e.path))
          BY <3>2 DEF WriteInv, EntriesKnown
        <4>2. e.path # p => seen'[a][e.path] = seen[a][e.path]
          BY <1>2 DEF WriteInv, Typed
        <4> QED BY <1>2, <2>2, <3>1, <4>1, <4>2 DEF Known
      <3>3. CASE file[p] # 0 /\ e = [path |-> p, version |-> file[p]]
        BY <1>1, <1>2, <2>2, <3>1, <3>3 DEF Known
      <3> QED BY <1>3, <1>6, <2>2, <3>2, <3>3 DEF WriteInv, Typed
    <2> QED BY <2>1, <2>2
  <1>10. CallsHold'
    <2>1. ASSUME NEW b \in Agents, b # a PROVE job[b].stage \notin Inside
      BY <1>2, <2>1 DEF WriteInv, CallsHold
    <2>2. NoJob.stage = "idle" /\ "idle" \notin Inside BY DEF NoJob, Inside
    <2>3. \A b \in Agents : held' # b BY <1>2, FilesAssumption
    <2> QED BY <1>7, <2>1, <2>2, <2>3 DEF CallsHold, Inside
  <1>11. QuestionsHold'
    <2>1. NoJob.stage = "idle" BY DEF NoJob
    <2> QED BY <1>2, <1>7, <2>1 DEF WriteInv, QuestionsHold
  <1> QED BY <1>8, <1>9, <1>10, <1>11 DEF WriteInv

\* Another program is noticed by its version, or by having written inside a call.
LEMMA ElsewhereStep ==
  ASSUME WriteInv, NEW p \in Paths, Elsewhere(p)
  PROVE  WriteInv'
  <1>1. UNCHANGED <<noted, job, held, seen>> BY DEF Elsewhere
  <1>2. /\ raced' \in [Agents -> [Paths -> BOOLEAN]]
        /\ \A a \in Agents, q \in Paths : raced[a][q] => raced'[a][q]
        /\ \A a \in Agents : held = a /\ job[a].path = p => raced'[a][p]
        /\ \A a \in Agents, q \in Paths \ {p} : raced'[a][q] = raced[a][q]
    <2>1. raced \in [Agents -> [Paths -> BOOLEAN]] BY DEF WriteInv, Typed
    <2>2. raced' = [a \in Agents |-> IF held = a /\ job[a].path = p
                                     THEN [raced[a] EXCEPT ![p] = TRUE] ELSE raced[a]]
      BY DEF Elsewhere
    <2>3. ASSUME NEW a \in Agents
          PROVE  /\ raced'[a] \in [Paths -> BOOLEAN]
                 /\ \A q \in Paths : raced[a][q] => raced'[a][q]
                 /\ held = a /\ job[a].path = p => raced'[a][p]
                 /\ \A q \in Paths \ {p} : raced'[a][q] = raced[a][q]
      <3>1. CASE held = a /\ job[a].path = p
        <4>1. raced'[a] = [raced[a] EXCEPT ![p] = TRUE] BY <2>2, <3>1
        <4> QED BY <2>1, <4>1
      <3>2. CASE ~(held = a /\ job[a].path = p)
        <4>1. raced'[a] = raced[a] BY <2>2, <3>2
        <4> QED BY <2>1, <3>2, <4>1
      <3> QED BY <3>1, <3>2
    <2>4. raced' \in [Agents -> [Paths -> BOOLEAN]] BY <2>2, <2>3
    <2> QED BY <2>3, <2>4
  <1>3. now \in Nat /\ file \in [Paths -> Nat] /\ (\A q \in Paths : file[q] <= now)
        /\ file' \in [Paths -> Nat] /\ (\A q \in Paths : file'[q] <= now') /\ now' \in Nat
        /\ \A q \in Paths \ {p} : file'[q] = file[q]
    <2>1. now \in Nat /\ file \in [Paths -> Nat] /\ \A q \in Paths : file[q] <= now
      BY DEF WriteInv, Typed
    <2>2. CASE now' = now + 1 /\ file' = [file EXCEPT ![p] = now + 1] BY <2>1, <2>2
    <2>3. CASE now' = now /\ file' = [file EXCEPT ![p] = 0] BY <2>1, <2>3
    <2> QED BY <2>1, <2>2, <2>3 DEF Elsewhere
  <1>4. Typed' BY <1>1, <1>2, <1>3 DEF WriteInv, Typed
  <1>5. EntriesKnown' /\ \A b \in Agents : \A e \in ToSet(noted[b]) : e.path = p => e.version # file'[p]
    <2>1. CASE now' = now + 1 /\ file' = [file EXCEPT ![p] = now + 1]
      BY <1>1, <1>2, <2>1, NewVersion
    <2>2. CASE file' = [file EXCEPT ![p] = 0] /\ now' = now
      <3>1. file'[p] = 0 BY <1>3, <2>2
      <3> SUFFICES ASSUME NEW b \in Agents, NEW e \in ToSet(noted[b])
                   PROVE  /\ 0 < e.version /\ e.version <= now
                          /\ e.version = file'[e.path] => Known(b, e.path)'
                          /\ e.path = p => e.version # file'[p]
        BY <1>1, <2>2 DEF EntriesKnown
      <3>2. e \in Entries BY DEF WriteInv, Typed, ToSet
      <3>3. 0 < e.version /\ e.version <= now /\ (e.version = file[e.path] => Known(b, e.path))
        BY DEF WriteInv, EntriesKnown
      <3>4. CASE e.path = p BY <3>1, <3>2, <3>3, <3>4 DEF Entries
      <3>5. CASE e.path # p
        <4>1. e.path \in Paths BY <3>2 DEF Entries
        <4>2. file'[e.path] = file[e.path] BY <1>3, <3>5, <4>1
        <4> QED BY <1>1, <1>2, <3>3, <3>5, <4>1, <4>2 DEF Known
      <3> QED BY <3>4, <3>5
    <2> QED BY <2>1, <2>2 DEF Elsewhere
  <1>6. CallsHold'
    <2> SUFFICES ASSUME NEW a \in Agents
                 PROVE  LET j == job[a] IN
                   /\ j.stage \in Inside <=> held = a
                   /\ j.stage \in {"writing", "replacing"} =>
                        \/ file'[j.path] = 0 \/ raced'[a][j.path]
                        \/ seen[a][j.path] = file'[j.path] /\ j.shown = file'[j.path]
                   /\ j.stage = "replaced" => file'[j.path] = 0 \/ raced'[a][j.path] \/ j.text = file'[j.path]
                   /\ j.stage = "read" => j.kind = "read" /\ j.text > 0
      BY <1>1 DEF CallsHold
    <2>1. CASE held # a BY <2>1 DEF WriteInv, CallsHold, Inside
    <2>2. CASE held = a /\ job[a].path = p
      BY <1>2, <2>2 DEF WriteInv, CallsHold
    <2>3. CASE held = a /\ job[a].path # p
      <3>1. job[a].path \in Paths \ {p} BY <2>3 DEF WriteInv, Typed, CallsHold, Inside
      <3> QED BY <1>2, <1>3, <2>3, <3>1 DEF WriteInv, CallsHold
    <2> QED BY <2>1, <2>2, <2>3
  <1>7. QuestionsHold'
    <2> SUFFICES ASSUME NEW a \in Agents, job[a].stage = "asking", NEW e \in ToSet(noted[a]),
                        e.path = job[a].path, e.version = file'[job[a].path]
                 PROVE  job[a].shown = file'[job[a].path]
      BY <1>1 DEF QuestionsHold
    <2>1. job[a].path # p BY <1>5
    <2>2. file'[job[a].path] = file[job[a].path] BY <1>3, <2>1 DEF WriteInv, Typed
    <2> QED BY <2>2 DEF WriteInv, QuestionsHold
  <1> QED BY <1>4, <1>5, <1>6, <1>7 DEF WriteInv

LEMMA Inductive == ASSUME WriteInv, ~Shared, [Next]_vars PROVE WriteInv'
  <1>1. ASSUME NEW a \in Agents, ReadReturns(a) PROVE WriteInv' BY <1>1, ReadReturnsStep
  <1>2. ASSUME NEW a \in Agents, Summarise(a) PROVE WriteInv' BY <1>2, SummariseStep
  <1>3. ASSUME NEW a \in Agents, Denied(a) PROVE WriteInv'
    BY <1>3, SameRecords, IdleStep DEF Denied
  <1>4. ASSUME NEW a \in Agents, Approved(a) PROVE WriteInv' BY <1>4, ApprovedStep
  <1>5. ASSUME NEW a \in Agents, ReadText(a) PROVE WriteInv' BY <1>5, ReadTextStep
  <1>6. ASSUME NEW a \in Agents, Replace(a) PROVE WriteInv' BY <1>6, ReplaceStep
  <1>7. ASSUME NEW a \in Agents, NotReplaced(a) PROVE WriteInv'
    BY <1>7, SameRecords, IdleStep DEF NotReplaced
  <1>8. ASSUME NEW a \in Agents, Written(a) PROVE WriteInv' BY <1>8, WrittenStep
  <1>9. ASSUME NEW a \in Agents, NEW p \in Paths, ReadBytes(a, p) PROVE WriteInv'
    BY <1>9, ReadBytesStep
  <1>10. ASSUME NEW a \in Agents, NEW p \in Paths, NEW kind \in {"write", "edit"}, Propose(a, kind, p)
         PROVE  WriteInv'
    BY <1>10, ProposeStep
  <1>11. ASSUME NEW p \in Paths, Elsewhere(p) PROVE WriteInv' BY <1>11, ElsewhereStep
  <1>12. CASE UNCHANGED vars
    BY <1>12 DEF vars, WriteInv, Typed, EntriesKnown, Known, CallsHold, QuestionsHold
  <1> QED
    BY <1>1, <1>2, <1>3, <1>4, <1>5, <1>6, <1>7, <1>8, <1>9, <1>10, <1>11, <1>12 DEF Next

LEMMA Invariant == ASSUME ~Shared PROVE Spec => []WriteInv
  <1>1. Init => WriteInv BY Initially
  <1>2. WriteInv /\ [Next]_vars => WriteInv' BY Inductive
  <1> QED BY <1>1, <1>2, PTL DEF Spec

\* What replaces a file replaces a version its agent has seen (check_read_before_write).
THEOREM SeenBeforeReplaced == ASSUME ~Shared PROVE Spec => NoBlindWrite
  <1>1. WriteInv /\ [Next]_vars =>
          [\A a \in Agents : LET p == job[a].path IN
             Replaces(a) => file[p] = 0 \/ seen[a][p] = file[p] \/ raced[a][p]]_vars
    BY DEF WriteInv, CallsHold, Replaces
  <1> QED BY <1>1, Invariant, PTL DEF Spec, NoBlindWrite

\* What is done is done to the version the diff on the screen was made against, however
\* long the question was open (approval_summary, run).
THEOREM DoneAsShown == ASSUME ~Shared PROVE Spec => ApprovedIsDone
  <1>1. WriteInv /\ [Next]_vars =>
          [\A a \in Agents : LET p == job[a].path IN
             Replaces(a) => file[p] = 0 \/ job[a].shown = file[p] \/ raced[a][p]]_vars
    BY DEF WriteInv, CallsHold, Replaces
  <1> QED BY <1>1, Invariant, PTL DEF Spec, ApprovedIsDone
=============================================================================
