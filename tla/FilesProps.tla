------------------------------ MODULE FilesProps ------------------------------
(* What reading before writing promises, in Files. *)
EXTENDS Files

Replaces(a) == job[a].stage = "replacing" /\ job'[a].stage = "replaced"

\* An agent replaces only the version it was last shown or wrote itself: not one that it
\* never read, and not what the user, a command or another agent wrote since, however long
\* the question was open.  Only a write inside one of its own calls escapes the checks
\* (check_read_before_write: the model may not be "editing contents it has not seen").
NoBlindWrite ==
  [][\A a \in Agents : LET p == job[a].path IN
       Replaces(a) => file[p] = 0 \/ seen[a][p] = file[p] \/ raced[a][p]]_vars

\* What the person approved is done to the version the diff was computed against, or to a
\* file that is gone by then (approval_summary, run).
ApprovedIsDone ==
  [][\A a \in Agents : LET p == job[a].path IN
       Replaces(a) => file[p] = 0 \/ job[a].shown = file[p] \/ raced[a][p]]_vars
=============================================================================
