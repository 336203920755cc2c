-------------------------------- MODULE Files --------------------------------
(***************************************************************************)
(* Reading before writing.  read_file notes the modification time of what  *)
(* it read (tools/context.py, ReadState); write_file and edit_file refuse  *)
(* a file whose time is not the one noted, once before the person is asked *)
(* and again after the answer (tools/builtin/*.py).  A tool's run() never  *)
(* awaits: agents cannot interleave inside one, other programs can.        *)
(*                                                                         *)
(* A version of a file is the time it was written at; 0 is no file.        *)
(***************************************************************************)
EXTENDS Naturals, Sequences, FiniteSets, SequencesExt

CONSTANTS
  Agents,      \* agents, main and delegated, or AgentNodes
  Paths,       \* resolved paths
  MaxEntries,  \* ReadState.max_entries
  Shared,      \* the agents are AgentNodes, which use their graph's dispatcher as it is
  MaxWrites    \* bound: versions of all files together

ASSUME FilesAssumption ==
  /\ MaxEntries \in Nat \ {0} /\ Shared \in BOOLEAN /\ MaxWrites \in Nat
  /\ "loop" \notin Agents

VARIABLES
  now,      \* the time of the last write
  file,     \* the version of each file
  noted,    \* ReadState: the entries of each owner, oldest first
  job,      \* what each agent's call is doing, and to which file
  held,     \* the agent whose call holds the event loop, or "loop"
  seen,     \* history: the version of each file the agent was shown or wrote
  raced     \* history: another program wrote the file inside a call of the agent

vars == <<now, file, noted, job, held, seen, raced>>

\* Whose ReadState an agent uses: _child_dispatcher() makes a new one, AgentNode keeps
\* the graph's.
Owners == IF Shared THEN {"graph"} ELSE Agents
Owner(a) == IF Shared THEN "graph" ELSE a
NoJob == [kind |-> "none", path |-> "none", stage |-> "idle", shown |-> 0, text |-> 0]

Init ==
  /\ file \in [Paths -> {0, 1}] /\ now = 1
  /\ noted = [o \in Owners |-> <<>>] /\ job = [a \in Agents |-> NoJob] /\ held = "loop"
  /\ seen = [a \in Agents |-> [p \in Paths |-> 0]]
  /\ raced = [a \in Agents |-> [p \in Paths |-> FALSE]]

-----------------------------------------------------------------------------
(* ReadState *)

\* There is at most one entry of a path.
Places(s, p) == {i \in DOMAIN s : s[i].path = p}
PlaceOf(s, p) == CHOOSE i \in Places(s, p) : TRUE
Cleared(s, p) == IF Places(s, p) = {} THEN s ELSE RemoveAt(s, PlaceOf(s, p))
LastOf(s) == SubSeq(s, IF Len(s) > MaxEntries THEN Len(s) - MaxEntries + 1 ELSE 1, Len(s))

\* note_read(), record(): what is there now, not what was read.  Nothing is noted of a
\* file that is gone.
Noting(s, p) ==
  IF file[p] = 0 THEN s ELSE LastOf(Append(Cleared(s, p), [path |-> p, version |-> file[p]]))
\* get(): moves the entry to the young end.
Entry(a, p) == {e \in ToSet(noted[Owner(a)]) : e.path = p}
Moved(s, p) == IF Places(s, p) = {} THEN s ELSE Append(Cleared(s, p), s[PlaceOf(s, p)])
Touched(a, p) == [noted EXCEPT ![Owner(a)] = Moved(@, p)]

\* Mutation of Fresh: a path that was ever read.
FreshOnce(a, p) == file[p] = 0 \/ Entry(a, p) # {}
\* check_read_before_write()
Fresh(a, p) == file[p] = 0 \/ \E e \in Entry(a, p) : e.version = file[p]

-----------------------------------------------------------------------------
(* The calls of an agent *)

Hold(a, j) == job' = [job EXCEPT ![a] = j] /\ held' = a
LetGo(a, j) == job' = [job EXCEPT ![a] = j] /\ held' = "loop"

\* ReadFileTool.run(): read_bytes().
ReadBytes(a, p) ==
  /\ held = "loop" /\ job[a] = NoJob /\ file[p] # 0
  /\ Hold(a, [NoJob EXCEPT !.kind = "read", !.path = p, !.stage = "read", !.text = file[p]])
  /\ UNCHANGED <<now, file, noted, seen, raced>>
\* It is rendered and noted; or refused, and then not.
ReadReturns(a) ==
  LET j == job[a] IN
  /\ held = a /\ j.kind = "read" /\ LetGo(a, NoJob)
  /\ \/ /\ noted' = [noted EXCEPT ![Owner(a)] = Noting(@, j.path)]
        /\ seen' = [seen EXCEPT ![a][j.path] = j.text]
        /\ raced' = [raced EXCEPT ![a][j.path] = file[j.path] # j.text]
     \/ UNCHANGED <<noted, seen, raced>>
  /\ UNCHANGED <<now, file>>

\* WriteFileTool.validate_params(), EditFileTool.validate_params(): only a call that may
\* succeed is asked about.
Propose(a, kind, p) ==
  /\ held = "loop" /\ job[a] = NoJob /\ Fresh(a, p) /\ (kind = "edit" => file[p] # 0)
  /\ noted' = Touched(a, p)
  /\ Hold(a, [NoJob EXCEPT !.kind = kind, !.path = p, !.stage = "checked"])
  /\ UNCHANGED <<now, file, seen, raced>>
\* approval_summary(): the diff is computed against the file as it is.
Summarise(a) ==
  /\ held = a /\ job[a].stage = "checked"
  /\ LetGo(a, [job[a] EXCEPT !.stage = "asking", !.shown = file[job[a].path]])
  /\ UNCHANGED <<now, file, noted, seen, raced>>

Denied(a) ==
  /\ held = "loop" /\ job[a].stage = "asking"
  /\ LetGo(a, NoJob) /\ UNCHANGED <<now, file, noted, seen, raced>>

\* Mutation of Approved: the check before the question is enough.
ApprovedUnchecked(a) ==
  LET j == job[a] IN
  /\ held = "loop" /\ j.stage = "asking" /\ (j.kind = "edit" => file[j.path] # 0)
  /\ Hold(a, [j EXCEPT !.stage = "writing"])
  /\ UNCHANGED <<now, file, noted, seen, raced>>
\* run(): "a human may have spent a minute in the approval modal".  An edit of a file that
\* is gone fails to read it.
Approved(a) ==
  LET j == job[a] IN
  /\ held = "loop" /\ j.stage = "asking" /\ noted' = Touched(a, j.path)
  /\ IF Fresh(a, j.path) /\ (j.kind = "edit" => file[j.path] # 0)
     THEN Hold(a, [j EXCEPT !.stage = "writing"]) ELSE LetGo(a, NoJob)
  /\ UNCHANGED <<now, file, seen, raced>>

\* run(), read_text(): what a diff is made against, what an edit starts from.
ReadText(a) ==
  LET j == job[a] IN
  /\ held = a /\ j.stage = "writing"
  /\ \/ /\ file[j.path] # 0 \/ j.kind = "write"
        /\ Hold(a, [j EXCEPT !.stage = "replacing", !.text = file[j.path]])
     \* The file cannot be read, or no longer has the text to be replaced.
     \/ file[j.path] # j.shown /\ LetGo(a, NoJob)
  /\ UNCHANGED <<now, file, noted, seen, raced>>

\* write_text_atomic(): the whole file at once, or not at all.
Replace(a) ==
  LET j == job[a] IN
  /\ held = a /\ j.stage = "replacing" /\ now < MaxWrites
  /\ now' = now + 1 /\ file' = [file EXCEPT ![j.path] = now + 1]
  /\ Hold(a, [j EXCEPT !.stage = "replaced", !.text = now + 1])
  /\ UNCHANGED <<noted, seen, raced>>
NotReplaced(a) ==
  /\ held = a /\ job[a].stage = "replacing"
  /\ LetGo(a, NoJob) /\ UNCHANGED <<now, file, noted, seen, raced>>
\* clear(), note_read(): the writer knows what it wrote.
Written(a) ==
  LET j == job[a] IN
  /\ held = a /\ j.stage = "replaced" /\ LetGo(a, NoJob)
  /\ noted' = [noted EXCEPT ![Owner(a)] = Noting(Cleared(@, j.path), j.path)]
  /\ seen' = [seen EXCEPT ![a][j.path] = j.text]
  /\ UNCHANGED <<now, file, raced>>

-----------------------------------------------------------------------------
\* The user's editor, a shell command, another process: writes or removes a file.
Elsewhere(p) ==
  /\ \/ now < MaxWrites /\ now' = now + 1 /\ file' = [file EXCEPT ![p] = now + 1]
     \/ file[p] # 0 /\ file' = [file EXCEPT ![p] = 0] /\ now' = now
  /\ raced' = [a \in Agents |-> IF held = a /\ job[a].path = p
                                THEN [raced[a] EXCEPT ![p] = TRUE] ELSE raced[a]]
  /\ UNCHANGED <<noted, job, held, seen>>

Next ==
  \/ \E a \in Agents :
       \/ ReadReturns(a) \/ Summarise(a) \/ Denied(a) \/ Approved(a)
       \/ ReadText(a) \/ Replace(a) \/ NotReplaced(a) \/ Written(a)
       \/ \E p \in Paths : ReadBytes(a, p) \/ \E kind \in {"write", "edit"} : Propose(a, kind, p)
  \/ \E p \in Paths : Elsewhere(p)

Spec == Init /\ [][Next]_vars
=============================================================================
