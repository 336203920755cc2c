--------------------------- MODULE WorkflowProofs ---------------------------
(***************************************************************************)
(* What a graph promises, for every tree of nodes, every wiring that       *)
(* compiles and any number of failures, pauses and crashes.                *)
(***************************************************************************)
EXTENDS WorkflowProps, FiniteSetTheorems, NaturalsInduction, WellFoundedInduction,
        TLAPS

(***************************************************************************)
(* The tree of nodes.                                                      *)
(***************************************************************************)
All == Nodes \cup {Runner}

LEMMA Names == /\ Runner \notin Nodes /\ "none" \notin All
               /\ Roots \subseteq Nodes
               /\ Leaves \cap Containers = {} /\ Fans \cap Subgraphs = {}
<1>1. Roots \subseteq Nodes BY WorkflowAssumption DEF Roots, Range
<1> QED BY <1>1, WorkflowAssumption DEF All

\* Each node that is no root has one parent, which is a container.
LEMMA Family ==
    /\ \A n \in Nodes : ChildrenOf(n) \subseteq Nodes \ Roots
    /\ \A n \in Leaves : ChildrenOf(n) = {}
    /\ \A f \in Fans : ChildrenOf(f) \subseteq Leaves
    /\ \A n \in Nodes \ Roots : Parent(n) \in Containers /\ n \in ChildrenOf(Parent(n))
    /\ \A n \in Roots : Parent(n) = Runner
    /\ \A c \in Containers : \A n \in ChildrenOf(c) : Parent(n) = c
<1>1. \A c \in Containers : ChildrenOf(c) = Range(Children[c])
                            /\ ChildrenOf(c) \subseteq Nodes \ Roots
  <2> TAKE c \in Containers
  <2>1. Children[c] \in Seq(Nodes \ Roots) BY TreeAssumption
  <2> QED BY <2>1 DEF ChildrenOf, Range
<1>2. \A n \in Leaves : ChildrenOf(n) = {} BY Names DEF ChildrenOf
<1>3. \A f \in Fans : ChildrenOf(f) \subseteq Leaves
  BY <1>1, TreeAssumption DEF Containers
<1>4. \A c, e \in Containers : \A n \in ChildrenOf(c) : n \in ChildrenOf(e) => c = e
  BY <1>1, TreeAssumption DEF Range
<1>5. ASSUME NEW n \in Nodes \ Roots PROVE Parent(n) \in Containers /\ n \in ChildrenOf(Parent(n))
  <2>1. \E c \in Containers : n \in ChildrenOf(c) BY <1>1, TreeAssumption
  <2> QED BY <2>1 DEF Parent
<1>6. ASSUME NEW c \in Containers, NEW n \in ChildrenOf(c) PROVE Parent(n) = c
  <2>1. n \in Nodes \ Roots BY <1>1
  <2> QED BY <1>4, <1>5, <2>1
<1>7. \A n \in Nodes : n \in Leaves \/ n \in Containers BY DEF Nodes, Containers
<1> QED BY <1>1, <1>2, <1>3, <1>5, <1>6, <1>7 DEF Parent

(***************************************************************************)
(* Where the walk is.                                                      *)
(***************************************************************************)
Active == Underway \cup {"queued"}
NodeStages == Active \cup {"idle", "over", "failed", "cancelled"}
RunnerStages == {"idle", "enter", "parked_in", "work", "wait", "end", "over"}
Parked == {"parked_in", "parked_out"}
Early == {"idle", "queued", "enter", "parked_in", "work"}

WalkType ==
    /\ graph \in Graphs /\ order \in Seq(Nodes) /\ at \in Nat \ {0}
    /\ pc = [m \in All |-> pc[m]]
    /\ \A n \in Nodes : pc[n] \in NodeStages
    /\ pc[Runner] \in RunnerStages
    /\ write.by \in All \cup {"none"}
    /\ woken \subseteq All

\* A node that holds the lock is at a safe point, one that was woken is parked,
\* the roots behind the walk are over, and nothing is begun in a container
\* before that is open.
WalkInv ==
    /\ WalkType
    /\ \A c \in Containers : pc[c] \in Early =>
         \A m \in ChildrenOf(c) : pc[m] = "idle"
    /\ \A m \in Leaves : pc[m] # "wait"
    /\ \A m \in Nodes : pc[m] = "queued" => m \in Leaves
    /\ write.by # "none" => pc[write.by] \in {"enter", "leave", "end"}
    /\ pc[Runner] = "wait" => at \in DOMAIN order
    /\ \A j \in 1 .. at - 1 : j \in DOMAIN order /\ pc[order[j]] = "over"
    /\ \A n \in woken : pc[n] \in Parked
    /\ \A n \in DOMAIN phase : phase[n] = "parked" => n \in All /\ pc[n] \in Parked

\* The lock while node n moves: n gives it up, or did not hold it.
Unlocked(n) == \/ write' = NoWrite
               \/ write' = write /\ write.by # n

\* One node moves, and this is how far.
NodeMoves(n) ==
    /\ \A m \in All \ {n} : pc'[m] = pc[m]
    /\ at' = at /\ Unlocked(n)
    /\ \/ Turn(n) /\ pc'[n] \in {"over", "failed", "enter"}
       \/ pc[n] = "enter" /\ pc'[n] \in {"parked_in", "work", "failed"}
       \/ pc[n] = "parked_in" /\ pc'[n] = "work"
       \/ pc[n] = "work" /\ n \in Leaves /\ pc'[n] \in {"leave", "failed"}
       \/ pc[n] = "work" /\ n \in Subgraphs /\ pc'[n] = "wait"
       \/ pc[n] = "wait" /\ pc'[n] = "leave" /\ n \in Containers
            /\ \A m \in ChildrenOf(n) : pc[m] = "over"
       \/ pc[n] = "wait" /\ pc'[n] = "failed" /\ n \in Containers
            /\ \A m \in Below[n] : pc[m] \notin Active
       \/ pc[n] = "leave" /\ pc'[n] \in {"parked_out", "exit", "failed"}
       \/ pc[n] = "parked_out" /\ pc'[n] = "exit"
       \/ pc[n] = "exit" /\ pc'[n] = "over"
       \/ pc[n] = "failed" /\ pc'[n] = "over" /\ Continues(n)

FanOpens(f) ==
    /\ pc[f] = "work" /\ pc'[f] = "wait"
    /\ \A m \in ChildrenOf(f) : pc'[m] = "queued"
    /\ \A m \in All \ ({f} \cup ChildrenOf(f)) : pc'[m] = pc[m]
    /\ at' = at /\ write' = write

FanAborts(f) ==
    /\ pc[f] = "wait"
    /\ \A m \in All : \/ pc'[m] = pc[m] /\ (m \in ChildrenOf(f) => pc[m] \notin Active)
                      \/ m \in ChildrenOf(f) /\ pc[m] \in Active /\ pc'[m] = "cancelled"
                           /\ write'.by # m
    /\ at' = at /\ write' \in {NoWrite, write}

RunnerMoves ==
    /\ \A m \in Nodes : pc'[m] = pc[m]
    /\ Unlocked(Runner)
    /\ \/ at' = at /\ pc[Runner] = "idle" /\ pc'[Runner] = "enter"
       \/ at' = at /\ pc[Runner] = "enter" /\ pc'[Runner] \in {"parked_in", "work"}
       \/ at' = at /\ pc[Runner] = "parked_in" /\ pc'[Runner] = "work"
       \/ at' = at /\ pc[Runner] = "work" /\ pc'[Runner] = "wait" /\ at \in DOMAIN order
       \/ at' = at + 1 /\ pc[Runner] = "wait" /\ pc'[Runner] = "enter"
            /\ pc[order[at]] = "over"
       \/ at' = at /\ pc[Runner] = "work" /\ pc'[Runner] = "end"
       \/ at' = at /\ pc[Runner] = "wait" /\ pc'[Runner] = "end"
            /\ pc[order[at]] = "failed"
       \/ at' = at /\ pc[Runner] = "end" /\ pc'[Runner] = "over"

Stands ==
    /\ pc' = pc /\ at' = at
    /\ \/ write' = write \/ write' = NoWrite
       \/ write'.by \in All /\ pc[write'.by] \in {"enter", "leave", "end"}

Restarts ==
    /\ \A m \in All : pc'[m] = "idle"
    /\ at' = 1 /\ write' = NoWrite

(***************************************************************************)
(* What is below a node.                                                   *)
(***************************************************************************)
\* A set with everything that is below its members.
Closed(S) == \A m \in S : ChildrenOf(m) \subseteq S

\* The equation that defines Below has a solution, and so Below is one.
LEMMA BelowIs ==
    \A n \in Nodes : Below[n] = ChildrenOf(n) \cup UNION {Below[m] : m \in ChildrenOf(n)}
<1> DEFINE Over(n) == {S \in SUBSET Nodes : Closed(S) /\ ChildrenOf(n) \subseteq S}
           g == [n \in Nodes |-> {m \in Nodes : \A S \in Over(n) : m \in S}]
<1>0. ASSUME NEW n \in Nodes
      PROVE  \A m : m \in g[n] <=> m \in Nodes /\ \A S \in Over(n) : m \in S
  OBVIOUS
<1> HIDE DEF g
<1>a. ASSUME NEW n \in Nodes
      PROVE  ChildrenOf(n) \subseteq g[n] /\ g[n] \subseteq Nodes /\ Closed(g[n])
  <2>1. g[n] \subseteq Nodes BY <1>0
  <2>2. ChildrenOf(n) \subseteq g[n] BY <1>0, Family
  <2>3. ASSUME NEW m \in g[n], NEW x \in ChildrenOf(m) PROVE x \in g[n]
    <3>1. \A S \in Over(n) : m \in S BY <1>0
    <3>2. \A S \in Over(n) : x \in S BY <3>1 DEF Closed
    <3>3. x \in Nodes BY <2>1, Family
    <3> QED BY <3>2, <3>3, <1>0
  <2> QED BY <2>1, <2>2, <2>3 DEF Closed
<1>b. ASSUME NEW n \in Nodes, NEW m \in ChildrenOf(n) PROVE g[m] \subseteq g[n]
  <2>1. m \in Nodes BY Family
  <2>2. \A S \in Over(n) : S \in Over(m) BY DEF Closed
  <2> QED BY <1>0, <2>1, <2>2
<1>1. ASSUME NEW n \in Nodes
      PROVE  g[n] = ChildrenOf(n) \cup UNION {g[m] : m \in ChildrenOf(n)}
  <2> DEFINE T == ChildrenOf(n) \cup UNION {g[m] : m \in ChildrenOf(n)}
  <2>0. \A x : x \in T <=> x \in ChildrenOf(n) \/ \E m \in ChildrenOf(n) : x \in g[m]
    OBVIOUS
  <2> HIDE DEF T
  <2>1. \A m \in ChildrenOf(n) : m \in Nodes BY Family
  <2>2. T \subseteq Nodes BY <1>a, <2>0, <2>1
  <2>3. ASSUME NEW k \in T PROVE ChildrenOf(k) \subseteq T
    <3>1. CASE k \in ChildrenOf(n)
      <4>1. ChildrenOf(k) \subseteq g[k] BY <3>1, <2>1, <1>a
      <4> QED BY <3>1, <4>1, <2>0
    <3>2. CASE \E m \in ChildrenOf(n) : k \in g[m]
      <4>1. PICK m \in ChildrenOf(n) : k \in g[m] BY <3>2
      <4>2. ChildrenOf(k) \subseteq g[m] BY <4>1, <2>1, <1>a DEF Closed
      <4> QED BY <4>2, <2>0
    <3> QED BY <3>1, <3>2, <2>0
  <2>4. T \in Over(n) BY <2>0, <2>2, <2>3 DEF Closed
  <2>5. g[n] \subseteq T BY <2>4, <1>0
  <2>6. T \subseteq g[n] BY <2>0, <1>a, <1>b
  <2> QED BY <2>5, <2>6 DEF T
<1> HIDE DEF g
<1>2. g = [n \in Nodes |-> ChildrenOf(n) \cup UNION {g[m] : m \in ChildrenOf(n)}]
  <2>1. g = [n \in Nodes |-> g[n]] BY DEF g
  <2> QED BY <1>1, <2>1
<1> DEFINE IsBelow(h) == h = [n \in Nodes |-> ChildrenOf(n) \cup UNION {h[m] : m \in ChildrenOf(n)}]
<1>3. IsBelow(g) BY <1>2
<1>4. Below = CHOOSE h : IsBelow(h) BY DEF Below
<1> HIDE DEF IsBelow
<1>5. IsBelow(Below) BY <1>3, <1>4
<1> USE DEF IsBelow
<1> QED BY <1>5

\* To show something of all containers, show it where it holds of all that the
\* container contains; or where it holds of all that contain the container.
LEMMA Inward ==
    ASSUME NEW S \in SUBSET Nodes,
           \A n \in Nodes : ChildrenOf(n) \subseteq S => n \in S
    PROVE  S = Nodes
<1> SUFFICES ASSUME Nodes \ S # {} PROVE FALSE OBVIOUS
<1> DEFINE B == Nodes \ S
<1>1. \A n \in B : \E m \in ChildrenOf(n) : m \in B BY Family
<1>2. B \subseteq Containers BY <1>1, Family DEF Nodes, Containers
<1>3. PICK c \in B : \A e \in B : e \notin Range(Children[c])
  BY <1>2, TreeAssumption
<1> QED BY <1>1, <1>2, <1>3 DEF ChildrenOf

LEMMA Outward ==
    ASSUME NEW S \in SUBSET Nodes, Roots \subseteq S,
           \A n \in Nodes \ Roots : Parent(n) \in S => n \in S
    PROVE  S = Nodes
<1> SUFFICES ASSUME Nodes \ S # {} PROVE FALSE OBVIOUS
<1> DEFINE B == (Nodes \ S) \cap Containers
<1>1. \A n \in Nodes \ S : n \notin Roots /\ Parent(n) \in B
  BY Family DEF Nodes, Containers
<1>2. B # {} /\ B \subseteq Containers BY <1>1
<1>3. PICK c \in B : \A e \in B : c \notin Range(Children[e])
  BY <1>2, TreeAssumption
<1>4. c \in ChildrenOf(Parent(c)) /\ Parent(c) \in B BY <1>1, Family
<1> QED BY <1>2, <1>3, <1>4 DEF ChildrenOf

LEMMA BelowFacts ==
    /\ \A n \in Nodes : Below[n] \subseteq Nodes \ Roots
    /\ \A n \in Nodes : ChildrenOf(n) \subseteq Below[n]
    /\ \A n \in Leaves : Below[n] = {}
    /\ \A f \in Fans : Below[f] = ChildrenOf(f)
    /\ \A n \in Nodes : \A x \in Below[n] : Parent(x) = n \/ Parent(x) \in Below[n]
    /\ \A n \in Nodes : \A p \in {n} \cup Below[n] : \A x \in ChildrenOf(p) : x \in Below[n]
<1>1. \A n \in Nodes : ChildrenOf(n) \subseteq Below[n] BY BelowIs
<1>2. \A n \in Leaves : Below[n] = {} BY BelowIs, Family DEF Nodes
<1>3. \A f \in Fans : Below[f] = ChildrenOf(f)
  <2> TAKE f \in Fans
  <2>1. \A m \in ChildrenOf(f) : Below[m] = {} BY <1>2, Family
  <2>2. Below[f] = ChildrenOf(f) \cup UNION {Below[m] : m \in ChildrenOf(f)}
    BY BelowIs DEF Nodes
  <2>3. UNION {Below[m] : m \in ChildrenOf(f)} = {} BY <2>1
  <2> QED BY <2>2, <2>3
<1>4. \A n \in Nodes : Below[n] \subseteq Nodes \ Roots
  <2> DEFINE S == {n \in Nodes : Below[n] \subseteq Nodes \ Roots}
  <2>1. ASSUME NEW n \in Nodes, ChildrenOf(n) \subseteq S PROVE n \in S
    BY <2>1, BelowIs, Family
  <2> HIDE DEF S
  <2>2. S \subseteq Nodes BY DEF S
  <2>3. S = Nodes BY <2>1, <2>2, Inward
  <2> QED BY <2>3 DEF S
<1>5. \A n \in Nodes : \A x \in Below[n] : Parent(x) = n \/ Parent(x) \in Below[n]
  <2> DEFINE S == {n \in Nodes : \A x \in Below[n] : Parent(x) = n \/ Parent(x) \in Below[n]}
  <2>1. ASSUME NEW n \in Nodes, ChildrenOf(n) \subseteq S PROVE n \in S
    <3> SUFFICES ASSUME NEW x \in Below[n] PROVE Parent(x) = n \/ Parent(x) \in Below[n]
      OBVIOUS
    <3>1. CASE x \in ChildrenOf(n)
      <4>1. n \in Containers BY <3>1 DEF ChildrenOf
      <4> QED BY <3>1, <4>1, Family
    <3>2. CASE x \notin ChildrenOf(n)
      <4>1. PICK m \in ChildrenOf(n) : x \in Below[m] BY <3>2, BelowIs
      <4>2. Parent(x) = m \/ Parent(x) \in Below[m] BY <2>1, <4>1
      <4>3. Below[m] \subseteq Below[n] /\ m \in Below[n] BY <4>1, BelowIs
      <4> QED BY <4>2, <4>3
    <3> QED BY <3>1, <3>2
  <2> HIDE DEF S
  <2>2. S \subseteq Nodes BY DEF S
  <2>3. S = Nodes BY <2>1, <2>2, Inward
  <2> QED BY <2>3 DEF S
<1>6. \A n \in Nodes : \A p \in {n} \cup Below[n] : \A x \in ChildrenOf(p) : x \in Below[n]
  <2> DEFINE S == {n \in Nodes : \A p \in Below[n] : ChildrenOf(p) \subseteq Below[n]}
  <2>1. ASSUME NEW n \in Nodes, ChildrenOf(n) \subseteq S PROVE n \in S
    <3> SUFFICES ASSUME NEW p \in Below[n] PROVE ChildrenOf(p) \subseteq Below[n]
      OBVIOUS
    <3>0. \A m \in ChildrenOf(n) : Below[m] \subseteq Below[n] BY BelowIs
    <3>1. CASE p \in ChildrenOf(n)
      <4>1. p \in Nodes BY <3>1, Family
      <4> QED BY <3>0, <3>1, <4>1, <1>1
    <3>2. CASE p \notin ChildrenOf(n)
      <4>1. PICK m \in ChildrenOf(n) : p \in Below[m] BY <3>2, BelowIs
      <4>2. ChildrenOf(p) \subseteq Below[m] BY <2>1, <4>1
      <4> QED BY <3>0, <4>1, <4>2
    <3> QED BY <3>1, <3>2
  <2> HIDE DEF S
  <2>2. S \subseteq Nodes BY DEF S
  <2>3. S = Nodes BY <2>1, <2>2, Inward
  <2> QED BY <2>3, <1>1 DEF S
<1> QED BY <1>1, <1>2, <1>3, <1>4, <1>5, <1>6

\* The root above a node is the node or has it below itself.
LEMMA TopFacts ==
    \A n \in Nodes : /\ Top[n] \in Roots /\ (n \in Roots => Top[n] = n)
                     /\ n = Top[n] \/ n \in Below[Top[n]]
<1> DEFINE Has(r, n) == n = r \/ n \in Below[r]
           g == [n \in Nodes |-> CHOOSE r \in Roots : Has(r, n)]
           IsTop(h) == h = [n \in Nodes |-> IF n \in Roots THEN n ELSE h[Parent(n)]]
<1>1. \A n \in Roots : \A r \in Roots : Has(r, n) <=> r = n
  BY BelowFacts, Names
<1>2. \A n \in Nodes \ Roots : \A r \in Roots : Has(r, n) <=> Has(r, Parent(n))
  <2> TAKE n \in Nodes \ Roots
  <2> TAKE r \in Roots
  <2>1. r \in Nodes /\ n \in ChildrenOf(Parent(n)) BY Names, Family
  <2>2. Has(r, n) => Has(r, Parent(n)) BY <2>1, BelowFacts
  <2>3. Has(r, Parent(n)) => Has(r, n) BY <2>1, BelowFacts
  <2> QED BY <2>2, <2>3
<1>3. \A n \in Nodes : \E r \in Roots : Has(r, n)
  <2> DEFINE S == {n \in Nodes : \E r \in Roots : Has(r, n)}
  <2>1. Roots \subseteq S BY <1>1, Names
  <2>2. ASSUME NEW n \in Nodes \ Roots, Parent(n) \in S PROVE n \in S BY <2>2, <1>2
  <2> HIDE DEF S
  <2>3. S \subseteq Nodes BY DEF S
  <2>4. S = Nodes BY <2>1, <2>2, <2>3, Outward
  <2> QED BY <2>4 DEF S
<1>4. ASSUME NEW n \in Roots PROVE g[n] = n
  <2>1. n \in Nodes BY Names
  <2>2. g[n] \in Roots /\ Has(g[n], n) BY <2>1, <1>3
  <2> QED BY <2>2, <1>1
<1>5. ASSUME NEW n \in Nodes \ Roots PROVE g[n] = g[Parent(n)]
  <2>1. Parent(n) \in Nodes BY Family DEF Nodes, Containers
  <2> QED BY <2>1, <1>2
<1>6. IsTop(g) BY <1>4, <1>5
<1> HIDE DEF g
<1>7. Top = CHOOSE h : IsTop(h) BY DEF Top
<1> HIDE DEF IsTop
<1>8. IsTop(Top) BY <1>6, <1>7
<1> USE DEF IsTop
<1>9. \A n \in Nodes : Top[n] \in Roots /\ Has(Top[n], n)
  <2> DEFINE S == {n \in Nodes : Top[n] \in Roots /\ Has(Top[n], n)}
  <2>0. \A n \in Roots : Top[n] = n BY <1>8, Names
  <2>1. Roots \subseteq S BY <2>0, <1>1, Names
  <2>2. ASSUME NEW n \in Nodes \ Roots, Parent(n) \in S PROVE n \in S
    <3>1. Top[n] = Top[Parent(n)] BY <1>8
    <3> QED BY <2>2, <3>1, <1>2
  <2> HIDE DEF S
  <2>3. S \subseteq Nodes BY DEF S
  <2>4. S = Nodes BY <2>1, <2>2, <2>3, Outward
  <2> QED BY <2>4 DEF S
<1>10. \A n \in Roots : Top[n] = n BY <1>8, Names
<1> QED BY <1>9, <1>10

(***************************************************************************)
(* Induction and recursion over numbers, and what compile() gives.         *)
(***************************************************************************)
LEMMA Least ==
    ASSUME NEW S, S \subseteq Nat, S # {}
    PROVE  \E x \in S : \A y \in S : x <= y
<1> DEFINE R == {ss \in Nat \X Nat : ss[1] < ss[2]}
<1>1. R = OpToRel(<, Nat) BY DEF OpToRel
<1>2. IsWellFoundedOn(R, Nat) BY <1>1, NatLessThanWellFounded
<1>3. \A x, y \in Nat : x < y => <<x, y>> \in R OBVIOUS
<1> HIDE DEF R
<1>4. PICK x \in S : \A y \in S : ~ (<<y, x>> \in R) BY <1>2, WFMin
<1>5. \A y \in S : ~(y < x) BY <1>3, <1>4
<1> QED BY <1>5

LEMMA Induction ==
    ASSUME NEW S, 0 \in S, \A n \in Nat : n \in S => n + 1 \in S
    PROVE  Nat \subseteq S
<1> SUFFICES ASSUME Nat \ S # {} PROVE FALSE OBVIOUS
<1>1. Nat \ S \subseteq Nat OBVIOUS
<1>2. PICK x \in Nat \ S : \A y \in Nat \ S : x <= y BY <1>1, Least
<1>3. x # 0 /\ x - 1 \in Nat /\ (x - 1) + 1 = x /\ ~(x <= x - 1) BY <1>2
<1>4. x - 1 \in S BY <1>2, <1>3
<1> QED BY <1>2, <1>3, <1>4

\* A function can be defined by recursion over the numbers up to a bound.
LEMMA Recursion ==
    ASSUME NEW V, NEW a \in V, NEW N \in Nat, NEW g \in [1 .. N -> [V -> V]]
    PROVE  \E f \in [0 .. N -> V] : f[0] = a /\ \A i \in 1 .. N : f[i] = g[i][f[i - 1]]
<1> DEFINE Is(n, f) == f[0] = a /\ \A i \in 1 .. N : i <= n => f[i] = g[i][f[i - 1]]
           S == {n \in Nat : \E f \in [0 .. N -> V] : Is(n, f)}
<1>1. 0 \in S
  <2>1. [i \in 0 .. N |-> a] \in [0 .. N -> V] OBVIOUS
  <2>2. Is(0, [i \in 0 .. N |-> a]) OBVIOUS
  <2> QED BY <2>1, <2>2
<1>2. ASSUME NEW n \in Nat, n \in S PROVE n + 1 \in S
  <2>1. PICK f \in [0 .. N -> V] : Is(n, f) BY <1>2
  <2>2. CASE n + 1 \in 1 .. N
    <3> DEFINE h == [i \in 0 .. N |-> IF i = n + 1 THEN g[n + 1][f[n]] ELSE f[i]]
    <3>1. n \in 0 .. N /\ f[n] \in V /\ g[n + 1] \in [V -> V] BY <2>2
    <3>2. g[n + 1][f[n]] \in V BY <3>1
    <3>3. h \in [0 .. N -> V] BY <3>2
    <3>4. h[0] = a BY <2>1
    <3>5. ASSUME NEW i \in 1 .. N, i <= n + 1 PROVE h[i] = g[i][h[i - 1]]
      <4>1. i - 1 \in 0 .. N /\ i - 1 # n + 1 /\ i \in 0 .. N BY <3>5
      <4>2. h[i - 1] = f[i - 1] BY <4>1
      <4>3. CASE i = n + 1 BY <4>2, <4>3, <4>1
      <4>4. CASE i # n + 1
        <5>1. i <= n BY <3>5, <4>4
        <5>2. f[i] = g[i][f[i - 1]] BY <2>1, <5>1
        <5> QED BY <4>1, <4>2, <4>4, <5>2
      <4> QED BY <4>3, <4>4
    <3>6. Is(n + 1, h) BY <3>4, <3>5
    <3> HIDE DEF h
    <3>7. \E e \in [0 .. N -> V] : Is(n + 1, e) BY <3>3, <3>6
    <3> HIDE DEF Is
    <3> QED BY <3>7
  <2>3. CASE n + 1 \notin 1 .. N
    <3>1. \A i \in 1 .. N : i <= n BY <2>3
    <3>2. Is(n + 1, f) BY <2>1, <3>1
    <3> QED BY <3>2
  <2> QED BY <2>2, <2>3
<1> HIDE DEF S
<1>3. N \in S BY <1>1, <1>2, Induction
<1> QED BY <1>3 DEF S

LEMMA AmongFacts ==
    ASSUME NEW T, NEW line \in Seq(T), NEW S
    PROVE  Among(line, S) \in Seq(T) /\ Range(Among(line, S)) = Range(line) \cap S
<1> DEFINE n == Len(line)
           upto[i \in 0 .. n] ==
             IF i = 0 THEN <<>>
             ELSE IF line[i] \in S THEN Append(upto[i - 1], line[i]) ELSE upto[i - 1]
           IsUpto(h) == h = [i \in 0 .. n |->
             IF i = 0 THEN <<>>
             ELSE IF line[i] \in S THEN Append(h[i - 1], line[i]) ELSE h[i - 1]]
<1>1. n \in Nat /\ \A i \in 1 .. n : line[i] \in T OBVIOUS
<1> DEFINE g == [i \in 1 .. n |-> [v \in Seq(T) |->
                   IF line[i] \in S THEN Append(v, line[i]) ELSE v]]
<1>2. g \in [1 .. n -> [Seq(T) -> Seq(T)]] BY <1>1
<1>3. \A i \in 1 .. n : \A v \in Seq(T) :
         g[i][v] = IF line[i] \in S THEN Append(v, line[i]) ELSE v
  OBVIOUS
<1>4. <<>> \in Seq(T) OBVIOUS
<1> HIDE DEF g
<1>5. PICK f \in [0 .. n -> Seq(T)] : f[0] = <<>> /\ \A i \in 1 .. n : f[i] = g[i][f[i - 1]]
  <2> DEFINE V == Seq(T)
             a == <<>>
  <2>1. a \in V /\ g \in [1 .. n -> [V -> V]] /\ n \in Nat BY <1>1, <1>2, <1>4
  <2> HIDE DEF n, V, a
  <2>2. \E f \in [0 .. n -> V] : f[0] = a /\ \A i \in 1 .. n : f[i] = g[i][f[i - 1]]
    BY <2>1, Recursion
  <2> QED BY <2>2 DEF V, a
<1>6. \A i \in 1 .. n : f[i] = IF line[i] \in S THEN Append(f[i - 1], line[i]) ELSE f[i - 1]
  <2> TAKE i \in 1 .. n
  <2>1. i - 1 \in 0 .. n BY <1>1
  <2> QED BY <2>1, <1>3, <1>5
<1>7. IsUpto(f) 
  <2>1. f = [i \in 0 .. n |-> f[i]] OBVIOUS
  <2>2. \A i \in 0 .. n : i # 0 => i \in 1 .. n BY <1>1
  <2> QED BY <1>5, <1>6, <2>1, <2>2
<1>8. upto = CHOOSE h : IsUpto(h) OBVIOUS
<1> HIDE DEF upto, IsUpto
<1>9. IsUpto(upto) BY <1>7, <1>8
<1>10. upto = [i \in 0 .. n |-> IF i = 0 THEN <<>>
             ELSE IF line[i] \in S THEN Append(upto[i - 1], line[i]) ELSE upto[i - 1]]
  BY <1>9 DEF IsUpto
<1> DEFINE Good(i) == /\ upto[i] \in Seq(T)
                      /\ Range(upto[i]) = {line[j] : j \in 1 .. i} \cap S
           G == {i \in Nat : i <= n => Good(i)}
<1>11. 0 \in G
  <2>1. upto[0] = <<>> BY <1>1, <1>10
  <2>2. Range(<<>>) = {} /\ <<>> \in Seq(T) BY DEF Range
  <2>3. {line[j] : j \in 1 .. 0} = {} OBVIOUS
  <2>4. Good(0) BY <2>1, <2>2, <2>3
  <2> QED BY <2>4
<1>12. ASSUME NEW i \in Nat, i \in G PROVE i + 1 \in G
  <2> SUFFICES ASSUME i + 1 <= n PROVE Good(i + 1) OBVIOUS
  <2>1. Good(i) /\ i + 1 \in 0 .. n /\ i + 1 \in 1 .. n /\ (i + 1) - 1 = i BY <1>12, <1>1
  <2>2. upto[i + 1] = IF line[i + 1] \in S THEN Append(upto[i], line[i + 1]) ELSE upto[i]
    <3>1. i + 1 # 0 OBVIOUS
    <3>2. upto[i + 1] = IF line[i + 1] \in S THEN Append(upto[(i + 1) - 1], line[i + 1])
                        ELSE upto[(i + 1) - 1]
      BY <2>1, <3>1, <1>10
    <3> QED BY <2>1, <3>2
  <2>3. {line[j] : j \in 1 .. i + 1} = {line[j] : j \in 1 .. i} \cup {line[i + 1]}
    <3>1. 1 .. i + 1 = (1 .. i) \cup {i + 1} OBVIOUS
    <3> QED BY <3>1
  <2>4. ASSUME NEW q \in Seq(T), NEW e \in T
        PROVE  Append(q, e) \in Seq(T) /\ Range(Append(q, e)) = Range(q) \cup {e}
    <3> DEFINE r == Append(q, e)
    <3>1. /\ r \in Seq(T) /\ DOMAIN r = 1 .. Len(q) + 1 /\ DOMAIN q = 1 .. Len(q)
          /\ Len(q) \in Nat /\ r[Len(q) + 1] = e
          /\ \A j \in 1 .. Len(q) : r[j] = q[j]
      OBVIOUS
    <3> HIDE DEF r
    <3>2. \A j \in 1 .. Len(q) + 1 : j \in 1 .. Len(q) \/ j = Len(q) + 1 BY <3>1
    <3>3. \A j \in 1 .. Len(q) : j \in 1 .. Len(q) + 1 BY <3>1
    <3>4. Len(q) + 1 \in 1 .. Len(q) + 1 BY <3>1
    <3>5. Range(r) = Range(q) \cup {e} BY <3>1, <3>2, <3>3, <3>4 DEF Range
    <3> QED BY <3>1, <3>5 DEF r
  <2> QED BY <2>1, <2>2, <2>3, <2>4, <1>1
<1> HIDE DEF G
<1>13. n \in G BY <1>1, <1>11, <1>12, Induction
<1>14. Good(n) BY <1>1, <1>13 DEF G
<1>15. Among(line, S) = upto[n] BY DEF Among, upto
<1>16. Range(line) = {line[j] : j \in 1 .. n} BY DEF Range
<1> QED BY <1>14, <1>15, <1>16

LEMMA RootsFinite == IsFiniteSet(Roots)
<1>1. Declared \in Seq(Nodes) BY WorkflowAssumption
<1>2. PICK n \in Nat : n = Len(Declared) BY <1>1
<1>3. IsFiniteSet(1 .. n) BY FS_Interval
<1>4. Declared \in [1 .. n -> Roots] BY <1>1, <1>2 DEF Roots, Range
<1>5. Declared \in Surjection(1 .. n, Roots)
  BY <1>1, <1>2, <1>4 DEF Surjection, Roots, Range
<1> QED BY <1>3, <1>5, FS_Surjection

\* Of a set with fewer roots in it, more is known first.
LEMMA Fewer ==
    ASSUME NEW L \in SUBSET Roots, NEW K, K \subseteq L, K # {}
    PROVE  /\ L \ K \in SUBSET Roots
           /\ Cardinality(L) \in Nat /\ Cardinality(L \ K) \in Nat
           /\ Cardinality(L \ K) < Cardinality(L)
<1>1. IsFiniteSet(L) BY RootsFinite, FS_Subset
<1>2. IsFiniteSet(L \ K) /\ Cardinality(L \ K) <= Cardinality(L)
      /\ Cardinality(L \ K) # Cardinality(L)
  <2>1. L \ K \subseteq L /\ L \ K # L OBVIOUS
  <2> QED BY <1>1, <2>1, FS_Subset
<1> QED BY <1>1, <1>2, FS_CardinalityType

\* The roots that a pass may place, and the line that the passes give.
ReadyOf(w, left) == {r \in left : \A d \in w[r] : Top[d] \notin left}

Placed(w, left, h) ==
    IF left = {} THEN <<>>
    ELSE IF ReadyOf(w, left) = {} THEN Unordered
    ELSE Among(Declared, ReadyOf(w, left)) \o h[left \ ReadyOf(w, left)]

LEMMA PassesExist ==
    ASSUME NEW w
    PROVE  \E h : h = [left \in SUBSET Roots |-> Placed(w, left, h)]
<1> DEFINE Small(n) == {L \in SUBSET Roots : Cardinality(L) <= n}
           Is(n, h) == \A L \in Small(n) : h[L] = Placed(w, L, h)
           S == {n \in Nat : \E h : DOMAIN h = SUBSET Roots /\ Is(n, h)}
           Rest(L) == L \ ReadyOf(w, L)
<1>1. \A L \in SUBSET Roots : Cardinality(L) \in Nat
  BY RootsFinite, FS_Subset, FS_CardinalityType
<1>2. \A L \in SUBSET Roots : ReadyOf(w, L) # {} =>
        Rest(L) \in SUBSET Roots /\ Cardinality(Rest(L)) < Cardinality(L)
  <2> TAKE L \in SUBSET Roots
  <2>1. ReadyOf(w, L) \subseteq L BY DEF ReadyOf
  <2> QED BY <2>1, Fewer
<1>3. 0 \in S
  <2> DEFINE h == [L \in SUBSET Roots |-> <<>>]
  <2>1. ASSUME NEW L \in Small(0) PROVE L = {}
    <3>1. Cardinality(L) = 0 BY <1>1
    <3>2. IsFiniteSet(L) BY RootsFinite, FS_Subset
    <3> QED BY <3>1, <3>2, FS_EmptySet
  <2>2. \A L \in Small(0) : h[L] = <<>> /\ Placed(w, L, h) = <<>> BY <2>1 DEF Placed
  <2>3. DOMAIN h = SUBSET Roots /\ Is(0, h) BY <2>2
  <2> QED BY <2>3
<1>4. ASSUME NEW n \in Nat, n \in S PROVE n + 1 \in S
  <2>1. PICK e : DOMAIN e = SUBSET Roots /\ Is(n, e) BY <1>4
  <2> DEFINE h == [L \in SUBSET Roots |-> IF L \in Small(n) THEN e[L] ELSE Placed(w, L, e)]
  <2>2. ASSUME NEW L \in Small(n + 1) PROVE h[L] = Placed(w, L, h)
    <3>1. h[L] = Placed(w, L, e) BY <2>1
    <3>2. CASE ReadyOf(w, L) = {} BY <3>1, <3>2 DEF Placed
    <3>3. CASE ReadyOf(w, L) # {}
      <4>1. Cardinality(Rest(L)) <= n /\ Rest(L) \in SUBSET Roots
        <5>1. Cardinality(L) <= n + 1 /\ Cardinality(L) \in Nat BY <1>1
        <5>2. Rest(L) \in SUBSET Roots /\ Cardinality(Rest(L)) < Cardinality(L)
          BY <1>2, <3>3
        <5>3. Cardinality(Rest(L)) \in Nat BY <1>1, <5>2
        <5> QED BY <5>1, <5>2, <5>3
      <4>2. h[Rest(L)] = e[Rest(L)] BY <4>1
      <4> QED BY <3>1, <4>2 DEF Placed
    <3> QED BY <3>2, <3>3
  <2>3. DOMAIN h = SUBSET Roots OBVIOUS
  <2> HIDE DEF h
  <2>4. Is(n + 1, h) BY <2>2
  <2> QED BY <2>3, <2>4
<1> HIDE DEF S
<1>5. Cardinality(Roots) \in S BY <1>1, <1>3, <1>4, Induction
<1>6. PICK h : DOMAIN h = SUBSET Roots /\ Is(Cardinality(Roots), h) BY <1>5 DEF S
<1>7. \A L \in SUBSET Roots : L \in Small(Cardinality(Roots))
  BY RootsFinite, FS_Subset
<1> DEFINE k == [left \in SUBSET Roots |-> h[left]]
<1>8. \A L \in SUBSET Roots : k[L] = Placed(w, L, k)
  <2> TAKE L \in SUBSET Roots
  <2>1. k[L] = Placed(w, L, h) BY <1>6, <1>7
  <2>2. L \ ReadyOf(w, L) \in SUBSET Roots OBVIOUS
  <2>3. k[L \ ReadyOf(w, L)] = h[L \ ReadyOf(w, L)] BY <2>2
  <2> QED BY <2>1, <2>3 DEF Placed
<1>9. k = [left \in SUBSET Roots |-> k[left]] OBVIOUS
<1> HIDE DEF k
<1>10. k = [left \in SUBSET Roots |-> Placed(w, left, k)] BY <1>8, <1>9
<1> QED BY <1>10

\* Before(w, o, left): what is placed of left comes after what it refers to in left.
InOrder(w, o, left) ==
    /\ o \in Seq(left) /\ Range(o) = left
    /\ \A i \in DOMAIN o : \A d \in w[o[i]] :
         Top[d] \in left => \E j \in 1 .. i - 1 : Top[d] = o[j]

\* The order of a graph that compiles has each root after all those that its
\* input refers to, or that contain a node its input refers to.
LEMMA Compiled ==
    ASSUME NEW w, Compiles(w)
    PROVE  InOrder(w, TopologicalOrder(w), Roots)
<1> DEFINE Ready(left) == {r \in left : \A d \in w[r] : Top[d] \notin left}
           From[left \in SUBSET Roots] ==
             IF left = {} THEN <<>>
             ELSE IF Ready(left) = {} THEN Unordered
             ELSE Among(Declared, Ready(left)) \o From[left \ Ready(left)]
           IsFrom(h) == h = [left \in SUBSET Roots |-> Placed(w, left, h)]
<1>1. From = CHOOSE h : IsFrom(h) BY DEF Placed, ReadyOf
<1>2. \E h : IsFrom(h) BY PassesExist
<1>3. TopologicalOrder(w) = From[Roots] BY DEF TopologicalOrder
<1> HIDE DEF From, IsFrom
<1>4. IsFrom(From) BY <1>1, <1>2
<1>5. \A left \in SUBSET Roots : From[left] = Placed(w, left, From)
  BY <1>4 DEF IsFrom
<1> DEFINE Names0 == Roots \cup {Runner}
           Fine(left) == /\ From[left] \in Seq(Names0)
                         /\ Runner \notin Range(From[left]) => InOrder(w, From[left], left)
<1>6. ASSUME NEW left \in SUBSET Roots,
             \A K \in SUBSET Roots : Cardinality(K) < Cardinality(left) => Fine(K)
      PROVE  Fine(left)
  <2>1. CASE left = {}
    <3>1. From[left] = <<>> BY <1>5, <2>1 DEF Placed
    <3>2. Range(<<>>) = {} /\ <<>> \in Seq(left) /\ <<>> \in Seq(Names0) BY DEF Range
    <3> QED BY <3>1, <3>2, <2>1 DEF InOrder
  <2>2. CASE left # {} /\ ReadyOf(w, left) = {}
    <3>1. From[left] = <<Runner>> BY <1>5, <2>2 DEF Placed, Unordered
    <3>2. Runner \in Range(<<Runner>>) /\ <<Runner>> \in Seq(Names0) BY DEF Range
    <3> QED BY <3>1, <3>2
  <2>3. CASE left # {} /\ ReadyOf(w, left) # {}
    <3> DEFINE R == ReadyOf(w, left)
               rest == left \ R
               one == Among(Declared, R)
               two == From[rest]
    <3>1. /\ R \subseteq left /\ \A r \in R : \A d \in w[r] : Top[d] \notin left
      BY DEF ReadyOf
    <3>2. From[left] = one \o two BY <1>5, <2>3 DEF Placed
    <3>3. one \in Seq(Roots) /\ Range(one) = R
      <4>1. Declared \in Seq(Roots) BY WorkflowAssumption DEF Roots, Range
      <4>2. Range(Declared) = Roots BY DEF Roots
      <4>3. one \in Seq(Roots) /\ Range(one) = Range(Declared) \cap R
        <5> HIDE DEF R
        <5> QED BY <4>1, AmongFacts
      <4> HIDE DEF one
      <4> QED BY <3>1, <4>2, <4>3
    <3>4. Fine(rest)
      <4>1. rest \in SUBSET Roots /\ Cardinality(rest) < Cardinality(left)
        BY <3>1, <2>3, Fewer
      <4> QED BY <4>1, <1>6
    <3>5. left = R \cup rest BY <3>1
    <3>6. two \in Seq(Names0) BY <3>4
    <3>7. Runner \notin Range(two) => InOrder(w, two, rest) BY <3>4
    <3> HIDE DEF R, rest, one, two
    <3>8. one \in Seq(Names0) BY <3>3
    <3>9. /\ one \o two \in Seq(Names0)
          /\ \A i \in 1 .. Len(one) : (one \o two)[i] = one[i]
          /\ \A i \in 1 .. Len(two) : (one \o two)[Len(one) + i] = two[i]
          /\ DOMAIN (one \o two) = 1 .. Len(one) + Len(two)
          /\ DOMAIN one = 1 .. Len(one) /\ DOMAIN two = 1 .. Len(two)
          /\ Len(one) \in Nat /\ Len(two) \in Nat
      BY <3>6, <3>8
    <3> HIDE DEF Names0
    <3> DEFINE o == one \o two
    <3>10. \A i \in DOMAIN o : \/ i \in DOMAIN one /\ o[i] = one[i]
                               \/ i - Len(one) \in DOMAIN two /\ o[i] = two[i - Len(one)]
      <4> TAKE i \in DOMAIN o
      <4>1. i \in 1 .. Len(one) + Len(two) /\ Len(one) \in Nat /\ Len(two) \in Nat BY <3>9
      <4>2. CASE i <= Len(one)
        <5>1. i \in 1 .. Len(one) BY <4>1, <4>2
        <5> QED BY <5>1, <3>9
      <4>3. CASE ~(i <= Len(one))
        <5>1. i - Len(one) \in 1 .. Len(two) /\ Len(one) + (i - Len(one)) = i BY <4>1, <4>3
        <5> QED BY <5>1, <3>9
      <4> QED BY <4>2, <4>3
    <3>11. Range(o) = Range(one) \cup Range(two)
      <4>1. Range(o) \subseteq Range(one) \cup Range(two) BY <3>10 DEF Range
      <4>2. \A i \in DOMAIN one : i \in DOMAIN o /\ o[i] = one[i] BY <3>9
      <4>3. \A i \in DOMAIN two : Len(one) + i \in DOMAIN o /\ o[Len(one) + i] = two[i]
        BY <3>9
      <4> HIDE DEF o
      <4>4. Range(one) \subseteq Range(o) BY <4>2 DEF Range
      <4>5. Range(two) \subseteq Range(o) BY <4>3 DEF Range
      <4> QED BY <4>1, <4>4, <4>5
    <3>12. ASSUME Runner \notin Range(o) PROVE InOrder(w, o, left)
      <4>1. InOrder(w, two, rest) BY <3>7, <3>11, <3>12
      <4>2. Range(o) = left BY <3>3, <3>5, <3>11, <4>1 DEF InOrder
      <4>3. o \in Seq(left)
        <5>1. o \in Seq(Names0) BY <3>9
        <5> HIDE DEF o
        <5>2. \A i \in DOMAIN o : o[i] \in left BY <4>2 DEF Range
        <5>3. o = [i \in 1 .. Len(o) |-> o[i]] /\ Len(o) \in Nat /\ DOMAIN o = 1 .. Len(o)
          BY <5>1
        <5> QED BY <5>2, <5>3
      <4>4. ASSUME NEW i \in DOMAIN o, NEW d \in w[o[i]], Top[d] \in left
            PROVE  \E j \in 1 .. i - 1 : Top[d] = o[j]
        <5>0. i \in Nat BY <3>9
        <5>1. i \notin DOMAIN one
          <6> SUFFICES ASSUME i \in DOMAIN one PROVE FALSE OBVIOUS
          <6>1. o[i] = one[i] BY <3>9
          <6>2. o[i] \in R BY <6>1, <3>3 DEF Range
          <6> QED BY <6>2, <3>1, <4>4
        <5>2. i - Len(one) \in DOMAIN two /\ o[i] = two[i - Len(one)] BY <3>10, <5>1
        <5>3. CASE Top[d] \in R
          <6>1. PICK j \in DOMAIN one : one[j] = Top[d] BY <5>3, <3>3 DEF Range
          <6>2. o[j] = Top[d] BY <6>1, <3>9
          <6>3. j \in 1 .. i - 1 BY <5>0, <5>1, <6>1, <3>9
          <6> QED BY <6>2, <6>3
        <5>4. CASE Top[d] \in rest
          <6>1. PICK j \in 1 .. (i - Len(one)) - 1 : Top[d] = two[j]
            BY <4>1, <4>4, <5>2, <5>4 DEF InOrder
          <6>2. j \in 1 .. Len(two) /\ Len(one) + j \in 1 .. i - 1
            BY <5>0, <5>2, <3>9
          <6>3. o[Len(one) + j] = two[j] BY <6>2, <3>9
          <6> QED BY <6>1, <6>2, <6>3
        <5> QED BY <4>4, <5>3, <5>4, <3>5
      <4> HIDE DEF o
      <4> QED BY <4>2, <4>3, <4>4 DEF InOrder
    <3> QED BY <3>2, <3>9, <3>12
  <2> QED BY <2>1, <2>2, <2>3
<1>7. \A left \in SUBSET Roots : Cardinality(left) \in Nat
  BY RootsFinite, FS_Subset, FS_CardinalityType
<1> HIDE DEF Fine
<1>8. \A left \in SUBSET Roots : Fine(left)
  <2> SUFFICES ASSUME \E left \in SUBSET Roots : ~Fine(left) PROVE FALSE OBVIOUS
  <2> DEFINE C == {Cardinality(left) : left \in {K \in SUBSET Roots : ~Fine(K)}}
  <2>1. C \subseteq Nat /\ C # {} BY <1>7
  <2>2. PICK c \in C : \A y \in C : c <= y BY <2>1, Least
  <2>3. PICK left \in SUBSET Roots : ~Fine(left) /\ c = Cardinality(left) BY <2>2
  <2>4. ASSUME NEW K \in SUBSET Roots, Cardinality(K) < Cardinality(left) PROVE Fine(K)
    <3> SUFFICES ASSUME ~Fine(K) PROVE FALSE OBVIOUS
    <3>1. Cardinality(K) \in C OBVIOUS
    <3> HIDE DEF C
    <3>2. c <= Cardinality(K) BY <3>1, <2>2
    <3> QED BY <3>2, <2>3, <2>4, <1>7
  <2> QED BY <2>3, <2>4, <1>6
<1>9. Fine(Roots) BY <1>8
<1> QED BY <1>3, <1>9 DEF Fine, Compiles

\* What a step does to the places of the walk and to the lock.
LEMMA KindsAlive ==
    ASSUME WalkInv, [Next]_vars, ~CrashAndLoad
    PROVE  \/ Stands \/ RunnerMoves
           \/ \E n \in Nodes : NodeMoves(n)
           \/ \E f \in Fans : FanOpens(f) \/ FanAborts(f)
<1> DEFINE Goal == \/ Stands \/ RunnerMoves
                   \/ \E n \in Nodes : NodeMoves(n)
                   \/ \E f \in Fans : FanOpens(f) \/ FanAborts(f)
<1> SUFFICES Goal OBVIOUS
<1>0. /\ \A n \in Nodes : n \in Leaves \/ n \in Fans \/ n \in Subgraphs
      /\ \A n \in Nodes : n \in All /\ n # Runner /\ n # "none"
      /\ Runner \in All /\ Runner # "none" /\ All = Nodes \cup {Runner}
      /\ \A n \in Nodes : ChildrenOf(n) \subseteq Nodes
  BY Names, WorkflowAssumption, Family DEF Nodes, All
<1>w. /\ DOMAIN pc = All /\ pc = [m \in All |-> pc[m]] /\ at \in Nat
      /\ \A n \in Nodes : pc[n] \in NodeStages
      /\ pc[Runner] \in RunnerStages
      /\ \A n \in woken : pc[n] \in Parked
      /\ write.by # "none" => pc[write.by] \in {"enter", "leave", "end"}
  BY DEF WalkInv, WalkType
<1> HIDE DEF Goal
<1>g. /\ Stands \/ RunnerMoves => Goal
      /\ \A n \in Nodes : NodeMoves(n) => Goal
      /\ \A f \in Fans : FanOpens(f) \/ FanAborts(f) => Goal
  BY DEF Goal
<1>1. ASSUME NEW n \in Nodes, Recall(n) \/ Unresolved(n) \/ Enter(n) PROVE Goal
  <2>1. Turn(n) /\ pc[n] \notin {"enter", "leave", "end"}
    BY <1>1 DEF Recall, Unresolved, Enter, Turn
  <2>2. NodeMoves(n)
    BY <1>0, <1>w, <1>1, <2>1 DEF Recall, Unresolved, Enter, NodeMoves, Unlocked
  <2> QED BY <2>2, <1>g
<1>2. ASSUME NEW n \in Nodes, Return(n) \/ Exit(n) \/ Caught(n) PROVE Goal
  <2>1. NodeMoves(n)
    BY <1>0, <1>w, <1>2 DEF Return, Exit, Caught, NodeMoves, Unlocked
  <2> QED BY <2>1, <1>g
<1>3. ASSUME NEW n \in Nodes, Open(n) PROVE Goal
  <2>1. n \notin Leaves BY <1>3, Names DEF Open
  <2>2. pc[n] = "work" /\ pc'[n] = "wait" /\ at' = at /\ write' = write
    BY <1>0, <1>w, <1>3 DEF Open
  <2>3. CASE n \in Subgraphs
    <3>1. n \notin Fans BY <2>3, Names
    <3>2. \A m \in All \ {n} : pc'[m] = pc[m] BY <1>0, <1>w, <1>3, <3>1 DEF Open
    <3>3. write.by # n BY <1>0, <1>w, <2>2
    <3>4. NodeMoves(n) BY <2>2, <2>3, <3>2, <3>3 DEF NodeMoves, Unlocked
    <3> QED BY <3>4, <1>g
  <2>4. CASE n \in Fans
    <3>1. n \notin ChildrenOf(n) BY <2>1, <2>4, Family
    <3>2. ChildrenOf(n) \subseteq All BY <1>0, <1>w
    <3>3. FanOpens(n) BY <1>0, <1>w, <1>3, <2>2, <2>4, <3>1, <3>2 DEF Open, FanOpens
    <3> QED BY <2>4, <3>3, <1>g
  <2> QED BY <1>0, <1>w, <2>1, <2>3, <2>4
<1>4. ASSUME NEW n \in Nodes, Close(n) \/ FailUp(n) PROVE Goal
  <2>1. n \in Containers /\ pc[n] = "wait" BY <1>4 DEF Close, FailUp
  <2>3. \/ pc'[n] = "leave" /\ \A m \in ChildrenOf(n) : pc[m] = "over"
        \/ pc'[n] = "failed" /\ \A m \in Below[n] : pc[m] \notin Active
    BY <1>0, <1>w, <1>4 DEF Close, FailUp, Failed, Active
  <2>4. at' = at /\ (\A m \in All \ {n} : pc'[m] = pc[m]) /\ write' = write
    BY <1>0, <1>w, <1>4 DEF Close, FailUp, Failed
  <2>5. write.by # n BY <1>0, <1>w, <2>1
  <2>6. NodeMoves(n) BY <2>1, <2>3, <2>4, <2>5 DEF NodeMoves, Unlocked
  <2> QED BY <2>6, <1>g
<1>5. ASSUME NEW n \in Nodes, Abort(n) PROVE Goal
  <2>1. n \in Fans /\ pc[n] = "wait" BY <1>5 DEF Abort
  <2>2. Below[n] = ChildrenOf(n) BY <2>1, BelowFacts
  <2> DEFINE cut == {m \in Below[n] : pc[m] \in Underway \cup {"queued"}}
  <2>3. cut = {m \in ChildrenOf(n) : pc[m] \in Active} BY <2>2 DEF Active
  <2>4. /\ pc' = [m \in DOMAIN pc |-> IF m \in cut THEN "cancelled" ELSE pc[m]]
        /\ IF write.by \in cut THEN write' = NoWrite ELSE write' = write
        /\ at' = at
    BY <1>5 DEF Abort
  <2>5. "none" \notin cut BY <1>0, <1>w, <2>3
  <2>6. FanAborts(n)
    <3>1. \A m \in cut : write'.by # m BY <2>4, <2>5 DEF NoWrite
    <3>2. \A m \in All : pc'[m] = IF m \in cut THEN "cancelled" ELSE pc[m]
      BY <1>0, <1>w, <2>4
    <3> HIDE DEF cut
    <3> QED BY <2>1, <2>3, <2>4, <3>1, <3>2 DEF FanAborts
  <2> QED BY <2>1, <2>6, <1>g
<1>6. ASSUME NEW n \in Nodes, Fail(n) \/ Unsaved(n) PROVE Goal
  <2>1. NodeMoves(n)
    BY <1>0, <1>w, <1>6 DEF Fail, Unsaved, Failed, NodeMoves, Unlocked
  <2> QED BY <2>1, <1>g
<1>7. ASSUME NEW n \in All, Fold(n) PROVE Goal
  <2>1. Stands BY <1>7 DEF Fold, Stands, session
  <2> QED BY <2>1, <1>g
<1>8. ASSUME NEW n \in All, Written(n) PROVE Goal
  <2>1. write.by = n /\ write' = NoWrite /\ at' = at /\ n # "none"
    BY <1>0, <1>w, <1>8, Names DEF Written
  <2>2. pc[n] \in {"enter", "leave", "end"} BY <1>w, <2>1
  <2>3. /\ \A m \in All \ {n} : pc'[m] = pc[m]
        /\ pc[n] = "enter" => pc'[n] \in {"parked_in", "work"}
        /\ pc[n] = "leave" => pc'[n] \in {"parked_out", "exit"}
        /\ pc[n] = "end" => pc'[n] = "over"
    BY <1>0, <1>w, <1>8, <2>2 DEF Written, Onward
  <2>4. CASE n = Runner
    <3>1. RunnerMoves
      BY <1>0, <1>w, <2>1, <2>2, <2>3, <2>4 DEF RunnerMoves, Unlocked, RunnerStages
    <3> QED BY <3>1, <1>g
  <2>5. CASE n \in Nodes
    <3>1. pc[n] \in {"enter", "leave"}
      BY <1>w, <2>2, <2>5 DEF NodeStages, Active, Underway
    <3>2. NodeMoves(n) BY <2>1, <2>3, <3>1 DEF NodeMoves, Unlocked
    <3> QED BY <2>5, <3>2, <1>g
  <2> QED BY <2>4, <2>5 DEF All
<1>9. ASSUME NEW n \in All, Wake(n) PROVE Goal
  <2>1. pc[n] \in Parked /\ at' = at /\ write' = write BY <1>w, <1>9 DEF Wake
  <2>2. /\ \A m \in All \ {n} : pc'[m] = pc[m]
        /\ pc[n] = "parked_in" => pc'[n] = "work"
        /\ pc[n] = "parked_out" => pc'[n] = "exit"
    BY <1>0, <1>w, <1>9 DEF Wake
  <2>3. write.by # n BY <2>1, <1>0, <1>w, Names DEF Parked
  <2>4. CASE n = Runner
    <3>1. RunnerMoves
      BY <1>0, <1>w, <2>1, <2>2, <2>3, <2>4 DEF RunnerMoves, Unlocked, RunnerStages, Parked
    <3> QED BY <3>1, <1>g
  <2>5. CASE n \in Nodes
    <3>1. NodeMoves(n)
      BY <2>1, <2>2, <2>3, <2>5 DEF NodeMoves, Unlocked, Parked
    <3> QED BY <2>5, <3>1, <1>g
  <2> QED BY <2>4, <2>5 DEF All
<1>10. CASE Walk \/ NextRoot \/ Finish
  <2>1. /\ pc[Runner] \in {"work", "wait"} /\ write' = write
        /\ \A m \in All \ {Runner} : pc'[m] = pc[m]
    BY <1>0, <1>w, <1>10 DEF Walk, NextRoot, Finish, session
  <2>2. write.by # Runner BY <1>0, <1>w, <2>1
  <2>3. RunnerMoves
    BY <1>0, <1>w, <1>10, <2>1, <2>2 DEF Walk, NextRoot, Finish, RunnerMoves, Unlocked
  <2> QED BY <2>3, <1>g
<1>11. CASE Resume \/ StartPaused
  <2>1. at' = at /\ write' = write
    BY <1>11 DEF Resume, StartPaused, session
  <2>2. Begin BY <1>11 DEF Resume, StartPaused
  <2>3. CASE pc[Runner] = "idle"
    <3>1. /\ pc'[Runner] = "enter" /\ \A m \in All \ {Runner} : pc'[m] = pc[m]
      BY <1>0, <1>w, <2>2, <2>3 DEF Begin
    <3>2. write.by # Runner BY <1>0, <1>w, <2>3
    <3>3. RunnerMoves BY <1>0, <1>w, <2>1, <2>3, <3>1, <3>2 DEF RunnerMoves, Unlocked
    <3> QED BY <3>3, <1>g
  <2>4. CASE pc[Runner] # "idle"
    <3>1. Stands BY <2>1, <2>2, <2>4 DEF Begin, Stands
    <3> QED BY <3>1, <1>g
  <2> QED BY <2>3, <2>4
<1>13. CASE LateWrite \/ Pause \/ Done \/ UNCHANGED vars
  <2>1. Stands BY <1>13 DEF LateWrite, Pause, Done, Stands, vars, session
  <2> QED BY <2>1, <1>g
<1>14. Progress \/ (\E n \in Nodes : Fail(n) \/ Unsaved(n)) \/ Pause \/ Resume
       \/ StartPaused \/ CrashAndLoad \/ Done \/ UNCHANGED vars
  BY DEF Next
<1>15. CASE Progress
  <2>1. CASE \E n \in Nodes : NodeStep(n)
    BY <2>1, <1>1, <1>2, <1>3, <1>4, <1>5 DEF NodeStep
  <2>2. CASE \E n \in All : Fold(n) \/ Written(n) \/ Wake(n)
    BY <2>2, <1>7, <1>8, <1>9
  <2> QED BY <1>15, <2>1, <2>2, <1>10, <1>13 DEF Progress, All
<1> QED BY <1>6, <1>10, <1>11, <1>13, <1>14, <1>15

LEMMA Kinds ==
    ASSUME WalkInv, [Next]_vars
    PROVE  \/ Stands \/ RunnerMoves \/ Restarts
           \/ \E n \in Nodes : NodeMoves(n)
           \/ \E f \in Fans : FanOpens(f) \/ FanAborts(f)
<1>1. CASE CrashAndLoad
  <2>1. DOMAIN pc = All BY DEF WalkInv, WalkType
  <2>2. Restarts BY <1>1, <2>1 DEF CrashAndLoad, Restarts
  <2> QED BY <2>2
<1>2. CASE ~CrashAndLoad BY <1>2, KindsAlive
<1> QED BY <1>1, <1>2

LEMMA Fixed == ASSUME [Next]_vars PROVE graph' = graph /\ order' = order
<1> USE DEF vars, session
<1>1. CASE Progress
  BY <1>1 DEF Progress, NodeStep, Recall, Unresolved, Enter, Return, Open, Close, Exit,
     Caught, Abort, FailUp, Fold, Written, Wake, LateWrite, Walk, NextRoot, Finish
<1>2. CASE \E n \in Nodes : Fail(n) \/ Unsaved(n) BY <1>2 DEF Fail, Unsaved
<1>3. CASE Pause \/ Resume \/ StartPaused \/ CrashAndLoad \/ Done \/ UNCHANGED vars
  BY <1>3 DEF Pause, Resume, StartPaused, CrashAndLoad, Done
<1> QED BY <1>1, <1>2, <1>3 DEF Next

\* What a step does to those that are parked.
ParkStep ==
    /\ \A n \in woken' : \/ n \in woken /\ pc'[n] = pc[n]
                         \/ n \in DOMAIN phase /\ phase[n] = "parked" /\ pc'[n] = pc[n]
    /\ \A n \in DOMAIN phase' : phase'[n] = "parked" =>
         \/ n \in DOMAIN phase /\ phase[n] = "parked" /\ pc'[n] = pc[n]
         \/ n \in All /\ pc'[n] \in Parked

LEMMA Parks == ASSUME WalkInv, [Next]_vars PROVE ParkStep
<1>0. /\ \A n \in Nodes : n \in All /\ n # Runner
      /\ Runner \in All /\ All = Nodes \cup {Runner}
      /\ \A n \in Nodes : ChildrenOf(n) \subseteq Nodes
  BY Names, Family DEF All
<1>w. /\ DOMAIN pc = All
      /\ \A n \in Nodes : pc[n] \in NodeStages
      /\ pc[Runner] \in RunnerStages
      /\ \A n \in woken : pc[n] \in Parked
      /\ \A n \in DOMAIN phase : phase[n] = "parked" => n \in All /\ pc[n] \in Parked
      /\ write.by # "none" => pc[write.by] \in {"enter", "leave", "end"}
  BY DEF WalkInv, WalkType
\* A step that moves one node which is not parked, and wakes or parks none.
<1>m. ASSUME NEW n, pc[n] \notin Parked, woken' \subseteq woken,
             \A m \in All \ {n} : pc'[m] = pc[m],
             \A k \in DOMAIN phase' : k # n => k \in DOMAIN phase /\ phase'[k] = phase[k],
             n \in DOMAIN phase' => \/ phase'[n] # "parked"
                                    \/ n \in All /\ pc'[n] \in Parked
                                    \/ n \in DOMAIN phase /\ phase'[n] = phase[n]
      PROVE  ParkStep
  <2>1. \A k \in woken : k \in All BY DEF WalkInv, WalkType
  <2>2. \A k \in woken' : k \in woken /\ k # n /\ pc'[k] = pc[k]
    BY <1>m, <1>w, <2>1
  <2>3. ASSUME NEW k \in DOMAIN phase', phase'[k] = "parked"
        PROVE \/ k \in DOMAIN phase /\ phase[k] = "parked" /\ pc'[k] = pc[k]
              \/ k \in All /\ pc'[k] \in Parked
    BY <1>m, <1>w, <2>3
  <2> QED BY <2>2, <2>3 DEF ParkStep
<1>1. ASSUME NEW n \in Nodes, Recall(n) \/ Unresolved(n) \/ Caught(n) PROVE ParkStep
  <2>1. pc[n] \in {"idle", "queued", "failed"}
    BY <1>1 DEF Recall, Unresolved, Caught, Turn
  <2>2. phase' = phase /\ woken' = woken /\ \A m \in All \ {n} : pc'[m] = pc[m]
    BY <1>0, <1>w, <1>1 DEF Recall, Unresolved, Caught
  <2> QED BY <2>1, <2>2, <1>m DEF Parked
<1>2. ASSUME NEW n \in Nodes, Enter(n) \/ Return(n) \/ Close(n) PROVE ParkStep
  <2>1. pc[n] \in {"idle", "queued", "work", "wait"}
    BY <1>2 DEF Enter, Return, Close, Turn
  <2>2. phase' \in {phase, With(n, "running")} /\ woken' = woken
        /\ \A m \in All \ {n} : pc'[m] = pc[m]
    BY <1>0, <1>w, <1>2 DEF Enter, Return, Close, Phases
  <2> QED BY <2>1, <2>2, <1>m DEF With, Without, Restrict, Parked
<1>3. ASSUME NEW n \in Nodes, Exit(n) \/ FailUp(n) \/ Fail(n) \/ Unsaved(n) PROVE ParkStep
  <2>1. pc[n] \in {"exit", "wait", "work", "enter", "leave"}
    BY <1>3 DEF Exit, FailUp, Fail, Unsaved
  <2>2. phase' = Without({n}) /\ woken' = woken
        /\ \A m \in All \ {n} : pc'[m] = pc[m]
    BY <1>0, <1>w, <1>3 DEF Exit, FailUp, Fail, Unsaved, Failed, Phases
  <2> QED BY <2>1, <2>2, <1>m DEF With, Without, Restrict, Parked
<1>4. ASSUME NEW n \in Nodes, Open(n) PROVE ParkStep
  <2>1. pc[n] = "work" /\ phase' = With(n, "blocked") /\ woken' = woken /\ n \in Containers
    BY <1>4 DEF Open, Phases
  <2>2. \A m \in ChildrenOf(n) : pc[m] = "idle" BY <2>1 DEF WalkInv, Early
  <2>3. \A m \in All : pc[m] \in Parked => pc'[m] = pc[m]
    BY <1>0, <1>w, <1>4, <2>1, <2>2 DEF Open, Parked
  <2>4. \A k \in woken : k \in All BY DEF WalkInv, WalkType
  <2>5. ASSUME NEW k \in DOMAIN phase', phase'[k] = "parked"
        PROVE k \in DOMAIN phase /\ phase[k] = "parked" /\ pc'[k] = pc[k]
    <3>1. k \in DOMAIN phase /\ phase[k] = "parked" BY <2>1, <2>5 DEF With, Without, Restrict
    <3> QED BY <3>1, <2>3, <1>w
  <2> QED BY <1>w, <2>1, <2>3, <2>4, <2>5 DEF ParkStep
<1>5. ASSUME NEW n \in Nodes, Abort(n) PROVE ParkStep
  <2> DEFINE cut == {m \in Below[n] : pc[m] \in Underway \cup {"queued"}}
  <2>1. /\ woken' = woken \ cut /\ phase' = Without(cut)
        /\ pc' = [m \in DOMAIN pc |-> IF m \in cut THEN "cancelled" ELSE pc[m]]
    BY <1>5 DEF Abort, Phases
  <2> HIDE DEF cut
  <2>2. \A m \in All \ cut : pc'[m] = pc[m] BY <1>w, <2>1
  <2>3. \A k \in woken : k \in All BY DEF WalkInv, WalkType
  <2>4. ASSUME NEW k \in DOMAIN phase', phase'[k] = "parked"
        PROVE k \in DOMAIN phase /\ phase[k] = "parked" /\ pc'[k] = pc[k]
    <3>1. k \in DOMAIN phase /\ k \notin cut /\ phase[k] = "parked" BY <2>1, <2>4 DEF With, Without, Restrict
    <3> QED BY <3>1, <2>2, <1>w
  <2> QED BY <2>1, <2>2, <2>3, <2>4 DEF ParkStep
<1>6. ASSUME NEW n \in All, Written(n) PROVE ParkStep
  <2>1. pc[n] \in {"enter", "leave", "end"} /\ woken' = woken
        /\ \A m \in All \ {n} : pc'[m] = pc[m]
    BY <1>0, <1>w, <1>6, Names DEF Written
  <2>2. \/ phase' = phase
        \/ phase' = With(n, "parked") /\ pc'[n] \in Parked
    BY <1>0, <1>w, <1>6 DEF Written, Phases, Parked
  <2> QED BY <2>1, <2>2, <1>m DEF With, Without, Restrict, Parked
<1>7. ASSUME NEW n \in All, Wake(n) PROVE ParkStep
  <2>1. /\ woken' = woken \ {n} /\ phase' = With(n, "running")
        /\ \A m \in All \ {n} : pc'[m] = pc[m]
    BY <1>0, <1>w, <1>7 DEF Wake, Phases
  <2>2. \A k \in woken : k \in All BY DEF WalkInv, WalkType
  <2>3. ASSUME NEW k \in DOMAIN phase', phase'[k] = "parked"
        PROVE k \in DOMAIN phase /\ phase[k] = "parked" /\ pc'[k] = pc[k]
    <3>1. k \in DOMAIN phase /\ k # n /\ phase[k] = "parked" BY <2>1, <2>3 DEF With, Without, Restrict
    <3> QED BY <3>1, <2>1, <1>w
  <2> QED BY <2>1, <2>2, <2>3 DEF ParkStep
<1>8. CASE Walk \/ NextRoot \/ Finish
  <2>1. pc[Runner] \in {"work", "wait"} /\ woken' = woken
        /\ \A m \in All \ {Runner} : pc'[m] = pc[m]
    BY <1>0, <1>w, <1>8 DEF Walk, NextRoot, Finish
  <2>2. phase' \in {With(Runner, "blocked"), With(Runner, "running"), Without({Runner})}
    BY <1>8 DEF Walk, NextRoot, Finish, Phases
  <2> QED BY <2>1, <2>2, <1>m DEF With, Without, Restrict, Parked
<1>9. ASSUME Begin, woken' \subseteq woken \cup {n \in DOMAIN phase : phase[n] = "parked"}
      PROVE  ParkStep
  <2>1. CASE pc[Runner] = "idle"
    <3>1. /\ \A m \in All \ {Runner} : pc'[m] = pc[m]
          /\ phase' = With(Runner, "running")
      BY <1>0, <1>w, <1>9, <2>1 DEF Begin
    <3>2. \A k \in woken \cup {n \in DOMAIN phase : phase[n] = "parked"} :
             k \in All /\ k # Runner
      BY <1>w, <2>1 DEF WalkInv, WalkType, Parked
    <3>3. ASSUME NEW k \in DOMAIN phase', phase'[k] = "parked"
          PROVE k \in DOMAIN phase /\ phase[k] = "parked" /\ k # Runner
      BY <3>1, <3>3 DEF With, Without, Restrict
    <3> QED BY <1>9, <3>1, <3>2, <3>3 DEF ParkStep
  <2>2. CASE pc[Runner] # "idle"
    <3>1. UNCHANGED <<phase, pc>> BY <1>9, <2>2 DEF Begin
    <3> QED BY <1>9, <3>1 DEF ParkStep
  <2> QED BY <2>1, <2>2
<1>10. CASE Resume \/ StartPaused
  <2>1. Begin /\ woken' \subseteq woken \cup {n \in DOMAIN phase : phase[n] = "parked"}
    BY <1>10 DEF Resume, StartPaused
  <2> QED BY <2>1, <1>9
<1>11. CASE CrashAndLoad BY <1>11 DEF CrashAndLoad, ParkStep
<1>12. ASSUME UNCHANGED <<pc, phase, woken>> PROVE ParkStep BY <1>12 DEF ParkStep
<1>13. CASE LateWrite \/ Pause \/ Done \/ UNCHANGED vars \/ \E n \in All : Fold(n)
  <2>1. UNCHANGED <<pc, phase, woken>>
    BY <1>13 DEF LateWrite, Pause, Done, vars, session, Fold
  <2> QED BY <2>1, <1>12
<1>14. CASE Progress
  <2>1. CASE \E n \in Nodes : NodeStep(n)
    BY <2>1, <1>1, <1>2, <1>3, <1>4, <1>5 DEF NodeStep
  <2>2. CASE \E n \in All : Fold(n) \/ Written(n) \/ Wake(n)
    BY <2>2, <1>6, <1>7, <1>13
  <2> QED BY <1>14, <2>1, <2>2, <1>8, <1>13 DEF Progress, All
<1> QED BY <1>3, <1>10, <1>11, <1>13, <1>14 DEF Next

LEMMA PcIsFunction == ASSUME WalkInv, [Next]_vars PROVE pc' = [m \in All |-> pc'[m]]
<1> DEFINE F(p) == p = [m \in All |-> p[m]]
<1>1. pc = [m \in All |-> pc[m]] /\ DOMAIN pc = All BY DEF WalkInv, WalkType
<1>2. ASSUME NEW n \in All, NEW x, pc' = [pc EXCEPT ![n] = x] PROVE F(pc')
  BY <1>1, <1>2
<1>3. ASSUME pc' = pc PROVE F(pc') BY <1>1, <1>3
<1> SUFFICES F(pc') OBVIOUS
<1> HIDE DEF F
<1>4. ASSUME NEW n \in Nodes, NodeStep(n) PROVE F(pc')
  <2>0. n \in All BY DEF All
  <2>1. CASE \/ Recall(n) \/ Unresolved(n) \/ Enter(n) \/ Return(n) \/ Close(n)
             \/ Exit(n) \/ Caught(n) \/ FailUp(n)
    BY <1>2, <2>0, <2>1 DEF Recall, Unresolved, Enter, Return, Close, Exit, Caught, FailUp,
                            Failed
  <2>2. CASE Open(n)
    <3>1. pc' = [m \in DOMAIN pc |->
                   IF m = n THEN "wait"
                   ELSE IF m \in ChildrenOf(n) /\ n \in Fans THEN "queued" ELSE pc[m]]
      BY <2>2 DEF Open
    <3> QED BY <1>1, <3>1 DEF F
  <2>3. CASE Abort(n)
    <3>1. pc' = [m \in DOMAIN pc |->
                   IF m \in {k \in Below[n] : pc[k] \in Underway \cup {"queued"}}
                   THEN "cancelled" ELSE pc[m]]
      BY <2>3 DEF Abort
    <3> QED BY <1>1, <3>1 DEF F
  <2> QED BY <1>4, <2>1, <2>2, <2>3 DEF NodeStep
<1>5. ASSUME NEW n \in Nodes, Fail(n) \/ Unsaved(n) PROVE F(pc')
  BY <1>2, <1>5 DEF Fail, Unsaved, Failed, All
<1>6. ASSUME NEW n \in All, Fold(n) \/ Written(n) \/ Wake(n) PROVE F(pc')
  <2>1. CASE Fold(n) BY <1>3, <2>1 DEF Fold
  <2>2. CASE Written(n) BY <1>2, <2>2 DEF Written
  <2>3. CASE Wake(n) BY <1>2, <2>3 DEF Wake
  <2> QED BY <1>6, <2>1, <2>2, <2>3
<1>7. CASE Walk \/ NextRoot \/ Finish
  BY <1>2, <1>7 DEF Walk, NextRoot, Finish, All
<1>8. CASE Resume \/ StartPaused
  BY <1>2, <1>3, <1>8 DEF Resume, StartPaused, Begin, All
<1>9. CASE CrashAndLoad
  <2>1. pc' = [m \in DOMAIN pc |-> "idle"] BY <1>9 DEF CrashAndLoad
  <2> QED BY <1>1, <2>1 DEF F
<1>10. CASE LateWrite \/ Pause \/ Done \/ UNCHANGED vars
  BY <1>3, <1>10 DEF LateWrite, Pause, Done, vars
<1>11. CASE Progress
  <2>1. CASE \E n \in All : Fold(n) \/ Written(n) \/ Wake(n) BY <1>6, <2>1
  <2> QED BY <1>4, <1>7, <1>10, <1>11, <2>1 DEF Progress, All
<1> QED BY <1>5, <1>8, <1>9, <1>10, <1>11 DEF Next

LEMMA WalkInit == Init => WalkInv
<1> SUFFICES ASSUME Init PROVE WalkInv OBVIOUS
<1> USE DEF Init
<1>1. /\ \A n \in Nodes : n \in All /\ pc[n] = "idle"
      /\ pc[Runner] = "enter" /\ Runner \in All
      /\ pc = [m \in All |-> pc[m]]
  BY Names DEF All
<1>2. order \in Seq(Nodes)
  <2>1. Compiles(graph.wiring) /\ order = TopologicalOrder(graph.wiring) OBVIOUS
  <2>2. order \in Seq(Roots) BY <2>1, Compiled DEF InOrder
  <2> QED BY <2>2, Names
<1>3. WalkType
  BY <1>1, <1>2 DEF WalkType, NodeStages, RunnerStages, NoWrite
<1>4. \A c \in Containers : \A m \in ChildrenOf(c) : pc[m] = "idle"
  BY <1>1, Family DEF Nodes, Containers
<1>5. \A k \in DOMAIN phase : phase[k] = "running" OBVIOUS
<1>6. \A m \in Leaves : m \in Nodes BY DEF Nodes
<1>7. at = 1 /\ ~ \E j \in 1 .. at - 1 : TRUE OBVIOUS
<1>8. write.by = "none" /\ woken = {} BY DEF NoWrite
<1> QED BY <1>1, <1>3, <1>4, <1>5, <1>6, <1>7, <1>8 DEF WalkInv

LEMMA WalkStep == ASSUME WalkInv, [Next]_vars PROVE WalkInv'
<1>0. /\ \A n \in Nodes : n \in All /\ n # Runner /\ n # "none"
      /\ Runner \in All /\ Runner # "none" /\ "none" \notin All
      /\ All = Nodes \cup {Runner}
      /\ \A n \in Nodes : n \in Leaves \/ n \in Containers
      /\ \A n \in Leaves : n \notin Containers /\ n \in Nodes
      /\ Fans \subseteq Containers /\ Subgraphs \subseteq Containers
      /\ Containers \subseteq Nodes
      /\ \A c \in Containers : \A m \in ChildrenOf(c) : m \in Nodes /\ m # c
      /\ \A n \in Leaves : ChildrenOf(n) = {}
  <2>1. \A c \in Containers : c \notin ChildrenOf(c)
    <3> TAKE c \in Containers
    <3> SUFFICES ASSUME c \in ChildrenOf(c) PROVE FALSE OBVIOUS
    <3>1. c \in Range(Children[c]) BY DEF ChildrenOf
    <3>2. {c} \in SUBSET Containers /\ {c} # {} OBVIOUS
    <3>3. \E b \in {c} : \A e \in {c} : b \notin Range(Children[e]) BY <3>2, TreeAssumption
    <3> QED BY <3>1, <3>3
  <2> QED BY <2>1, Names, WorkflowAssumption, Family DEF Nodes, All, Containers
<1>f. graph' = graph /\ order' = order BY Fixed
<1>w. WalkType BY DEF WalkInv
<1>k. \/ Stands \/ RunnerMoves \/ Restarts
      \/ \E n \in Nodes : NodeMoves(n)
      \/ \E f \in Fans : FanOpens(f) \/ FanAborts(f)
  BY Kinds
<1>p. ParkStep BY Parks
\* What a step leaves to show.
<1> DEFINE Kept ==
      /\ at' \in Nat \ {0}
      /\ \A n \in Nodes : pc'[n] \in NodeStages
      /\ pc'[Runner] \in RunnerStages
      /\ write'.by \in All \cup {"none"}
      /\ \A c \in Containers : pc'[c] \in Early => \A m \in ChildrenOf(c) : pc'[m] = "idle"
      /\ \A m \in Leaves : pc'[m] # "wait"
      /\ \A m \in Nodes : pc'[m] = "queued" => m \in Leaves
      /\ write'.by # "none" => pc'[write'.by] \in {"enter", "leave", "end"}
      /\ pc'[Runner] = "wait" => at' \in DOMAIN order
      /\ \A j \in 1 .. at' - 1 : j \in DOMAIN order /\ pc'[order[j]] = "over"
<1>s. /\ at \in Nat \ {0}
      /\ order \in Seq(Nodes)
      /\ \A n \in Nodes : pc[n] \in NodeStages
      /\ pc[Runner] \in RunnerStages
      /\ write.by \in All \cup {"none"}
      /\ \A c \in Containers : pc[c] \in Early => \A m \in ChildrenOf(c) : pc[m] = "idle"
      /\ \A m \in Leaves : pc[m] # "wait"
      /\ \A m \in Nodes : pc[m] = "queued" => m \in Leaves
      /\ write.by # "none" => pc[write.by] \in {"enter", "leave", "end"}
      /\ pc[Runner] = "wait" => at \in DOMAIN order
      /\ \A j \in 1 .. at - 1 : j \in DOMAIN order /\ pc[order[j]] = "over"
  BY DEF WalkInv, WalkType
<1>o. \A j \in DOMAIN order : order[j] \in Nodes BY <1>s
<1>n. NoWrite.by = "none" BY DEF NoWrite
\* A node that is idle in a container stays so until its turn comes.
<1>t. ASSUME NEW c \in Containers, NEW m \in ChildrenOf(c), pc[c] \in Early, Turn(m)
      PROVE  FALSE
  <2>1. Parent(m) = c /\ pc[m] = "idle" /\ m \notin Roots
    BY <1>t, <1>s, <1>0, Family
  <2> QED BY <1>t, <2>1 DEF Turn, Early
<1>1. ASSUME Stands PROVE Kept
  <2>1. pc' = pc /\ at' = at BY <1>1 DEF Stands
  <2>2. /\ write'.by \in All \cup {"none"}
        /\ write'.by # "none" => pc[write'.by] \in {"enter", "leave", "end"}
    BY <1>1, <1>s, <1>n, <1>0 DEF Stands
  <2> QED BY <2>1, <2>2, <1>s
<1>2. ASSUME RunnerMoves PROVE Kept
  <2>1. \A m \in Nodes : pc'[m] = pc[m] BY <1>2 DEF RunnerMoves
  <2>2. /\ write'.by \in All \cup {"none"}
        /\ write'.by # "none" => pc'[write'.by] \in {"enter", "leave", "end"}
    BY <1>2, <1>s, <1>n, <1>0, <2>1 DEF RunnerMoves, Unlocked
  <2>3. /\ at' \in Nat \ {0} /\ pc'[Runner] \in RunnerStages
        /\ pc'[Runner] = "wait" => at' \in DOMAIN order
    BY <1>2, <1>s DEF RunnerMoves, RunnerStages
  <2>4. ASSUME NEW j \in 1 .. at' - 1
        PROVE  j \in DOMAIN order /\ pc'[order[j]] = "over"
    <3>1. CASE j \in 1 .. at - 1
      <4>1. j \in DOMAIN order /\ pc[order[j]] = "over" BY <3>1, <1>s
      <4> QED BY <4>1, <2>1, <1>o
    <3>2. CASE j \notin 1 .. at - 1
      <4>1. at' = at \/ (at' = at + 1 /\ pc[Runner] = "wait" /\ pc[order[at]] = "over")
        BY <1>2 DEF RunnerMoves
      <4>2. at \in Nat /\ at' \in Nat BY <1>s, <2>3
      <4>3. j = at /\ at' = at + 1 BY ONLY <3>2, <4>1, <4>2, j \in 1 .. at' - 1
      <4>4. at \in DOMAIN order /\ pc[order[at]] = "over" BY <4>1, <4>3, <4>2, <1>s
      <4> QED BY <4>3, <4>4, <2>1, <1>o
    <3> QED BY <3>1, <3>2
  <2>5. \A c \in Containers : \A m \in ChildrenOf(c) : pc'[c] = pc[c] /\ pc'[m] = pc[m]
    BY <2>1, <1>0
  <2>6. \A m \in Leaves : pc'[m] = pc[m] BY <2>1, <1>0
  <2> QED BY <1>s, <2>1, <2>2, <2>3, <2>4, <2>5, <2>6, ZenonT(40)
<1>3. ASSUME Restarts PROVE Kept
  <2>1. \A m \in All : pc'[m] = "idle" BY <1>3 DEF Restarts
  <2>2. at' = 1 /\ write' = NoWrite BY <1>3 DEF Restarts
  <2> QED BY <2>1, <2>2, <1>0, <1>n DEF NodeStages, RunnerStages
<1>4. ASSUME NEW n \in Nodes, NodeMoves(n) PROVE Kept
  <2>1. /\ \A m \in All \ {n} : pc'[m] = pc[m]
        /\ at' = at /\ pc'[Runner] = pc[Runner]
    BY <1>4, <1>0 DEF NodeMoves
  <2>2. /\ pc'[n] \in NodeStages
        /\ pc'[n] # "queued"
        /\ pc'[n] = "wait" => n \in Subgraphs
        /\ pc'[n] \in Early => pc[n] \in Early \/ Turn(n)
        /\ pc[n] # "over"
        /\ pc[n] = "idle" => Turn(n)
    BY <1>4 DEF NodeMoves, NodeStages, Active, Underway, Early, Turn
  <2>3. Turn(n) => pc[n] \in {"idle", "queued"} BY DEF Turn
  <2>4. /\ write'.by \in All \cup {"none"}
        /\ write'.by # "none" => pc'[write'.by] \in {"enter", "leave", "end"}
    BY <1>4, <1>s, <1>n, <1>0, <2>1 DEF NodeMoves, Unlocked
  <2>5. ASSUME NEW c \in Containers, pc'[c] \in Early, NEW m \in ChildrenOf(c)
        PROVE  pc'[m] = "idle"
    <3>1. pc[c] \in Early
      BY <2>1, <2>2, <2>3, <2>5, <1>0 DEF Early
    <3>2. pc[m] = "idle" /\ m \in All BY <3>1, <1>s, <1>0
    <3>3. m # n BY <3>1, <3>2, <2>2, <1>t
    <3> QED BY <3>2, <3>3, <2>1
  <2>6. \A m \in Leaves : pc'[m] # "wait"
    BY <2>1, <2>2, <1>s, <1>0
  <2>7. \A m \in Nodes : pc'[m] \in NodeStages /\ (pc'[m] = "queued" => m \in Leaves)
    BY <2>1, <2>2, <1>s, <1>0
  <2>8. \A j \in 1 .. at' - 1 : j \in DOMAIN order /\ pc'[order[j]] = "over"
    BY <2>1, <2>2, <1>s, <1>o, <1>0
  <2> QED BY <1>s, <2>1, <2>4, <2>5, <2>6, <2>7, <2>8
<1>5. ASSUME NEW f \in Fans, FanOpens(f) PROVE Kept
  <2>1. /\ pc[f] = "work" /\ pc'[f] = "wait"
        /\ \A m \in ChildrenOf(f) : pc'[m] = "queued" /\ pc[m] = "idle"
        /\ \A m \in All \ ({f} \cup ChildrenOf(f)) : pc'[m] = pc[m]
        /\ at' = at /\ write' = write
    BY <1>5, <1>s, <1>0 DEF FanOpens, Early
  <2>2. ChildrenOf(f) \subseteq Leaves /\ f \in Nodes /\ f \notin Leaves
    BY Family, <1>0
  <2>3. pc'[Runner] = pc[Runner] BY <2>1, <2>2, <1>0
  <2>4. \A m \in All : pc'[m] = pc[m] \/ (m = f /\ pc'[m] = "wait")
                       \/ (m \in ChildrenOf(f) /\ pc'[m] = "queued")
    BY <2>1
  <2>5. \A m \in Nodes : pc[m] \notin {"idle", "work"} => pc'[m] = pc[m]
    BY <2>1, <2>2, <1>0
  <2>6. write'.by # "none" => pc'[write'.by] \in {"enter", "leave", "end"}
    BY <2>1, <2>3, <2>5, <1>s, <1>0
  <2>7. ASSUME NEW c \in Containers, pc'[c] \in Early, NEW m \in ChildrenOf(c)
        PROVE  pc'[m] = "idle"
    <3>1. c # f /\ c \notin ChildrenOf(f) BY <2>1, <2>2, <2>7, <1>0 DEF Early
    <3>2. pc[c] \in Early BY <2>1, <2>7, <3>1, <1>0
    <3>3. pc[m] = "idle" /\ m \in All BY <3>2, <1>s, <1>0
    <3>4. m # f BY <3>3, <2>1
    <3>5. m \notin ChildrenOf(f)
      BY <3>1, <1>0, Family
    <3> QED BY <3>3, <3>4, <3>5, <2>1
  <2>8. \A j \in 1 .. at' - 1 : j \in DOMAIN order /\ pc'[order[j]] = "over"
    BY <2>1, <2>5, <1>s, <1>o
  <2>9. \A m \in Nodes : pc'[m] \in NodeStages /\ (pc'[m] = "queued" => m \in Leaves)
    BY <2>2, <2>4, <1>s, <1>0 DEF NodeStages, Active, Underway
  <2>10. \A m \in Leaves : pc'[m] # "wait" BY <2>2, <2>4, <1>s, <1>0
  <2> QED BY <1>s, <2>1, <2>3, <2>6, <2>7, <2>8, <2>9, <2>10
<1>6. ASSUME NEW f \in Fans, FanAborts(f) PROVE Kept
  <2>1. /\ pc[f] = "wait" /\ at' = at /\ write' \in {NoWrite, write}
        /\ \A m \in All : \/ pc'[m] = pc[m]
                          \/ /\ m \in ChildrenOf(f) /\ pc[m] \in Active
                             /\ pc'[m] = "cancelled" /\ write'.by # m
    BY <1>6 DEF FanAborts
  <2>2. ChildrenOf(f) \subseteq Leaves /\ f \in Nodes BY Family, <1>0
  <2>3. pc'[Runner] = pc[Runner] BY <2>1, <2>2, <1>0
  <2>4. \A m \in Nodes : pc[m] \in {"over", "idle"} => pc'[m] = pc[m]
    BY <2>1, <1>0 DEF Active, Underway
  <2>5. write'.by # "none" => pc'[write'.by] \in {"enter", "leave", "end"}
    BY <2>1, <1>s, <1>0, <1>n
  <2>6. ASSUME NEW c \in Containers, pc'[c] \in Early, NEW m \in ChildrenOf(c)
        PROVE  pc'[m] = "idle"
    <3>1. pc[c] \in Early BY <2>1, <2>6, <1>0 DEF Early
    <3> QED BY <3>1, <2>4, <1>s, <1>0
  <2>7. \A j \in 1 .. at' - 1 : j \in DOMAIN order /\ pc'[order[j]] = "over"
    BY <2>1, <2>4, <1>s, <1>o
  <2>8. \A m \in Nodes : pc'[m] \in NodeStages /\ (pc'[m] = "queued" => m \in Leaves)
                         /\ (m \in Leaves => pc'[m] # "wait")
    BY <2>1, <1>s, <1>0 DEF NodeStages
  <2>9. write'.by \in All \cup {"none"} BY <2>1, <1>s, <1>n
  <2> QED BY <1>s, <1>0, <2>1, <2>3, <2>5, <2>6, <2>7, <2>8, <2>9
<1> HIDE DEF Kept
<1>7. Kept BY <1>k, <1>1, <1>2, <1>3, <1>4, <1>5, <1>6
<1> USE DEF Kept
<1>8. pc' = [m \in All |-> pc'[m]] BY PcIsFunction
<1>9. woken' \subseteq All
  BY <1>p DEF ParkStep, WalkInv, WalkType
<1>10. WalkType' BY <1>7, <1>8, <1>9, <1>f, <1>w DEF WalkType
<1>11. /\ \A n \in woken' : pc'[n] \in Parked
       /\ \A n \in DOMAIN phase' : phase'[n] = "parked" => n \in All /\ pc'[n] \in Parked
  <2>1. \A n \in woken : pc[n] \in Parked BY DEF WalkInv
  <2>2. \A n \in DOMAIN phase : phase[n] = "parked" => n \in All /\ pc[n] \in Parked
    BY DEF WalkInv
  <2> QED BY <1>p, <2>1, <2>2 DEF ParkStep
<1> QED BY <1>7, <1>10, <1>11, <1>f DEF WalkInv

\* Where the runner is (Runner.run, Runner.execute): one lock for the checkpoints, held
\* at a safe point; roots behind the walk are over; nothing is begun inside a container
\* that is not open.
THEOREM WalkHolds == Spec => []WalkInv
<1>1. WalkInv /\ [Next]_vars => WalkInv' BY WalkStep
<1> QED BY <1>1, WalkInit, PTL DEF Spec

(***************************************************************************)
(* The pause gate.                                                         *)
(***************************************************************************)
\* A paused run has its gate closed, and a node that is entered or at work is
\* marked as running until it parks.
HaltInv ==
    /\ run = "paused" => gate
    /\ \A n \in Nodes : pc[n] \in {"enter", "work"} => n \in DOMAIN phase /\ phase[n] = "running"
    /\ PausedRunsNothing

Marked == \A n \in Nodes : pc[n] \in {"enter", "work"} =>
              n \in DOMAIN phase /\ phase[n] = "running"

\* What a step does to the run's state, the gate and the nodes at work.
HaltStep ==
    /\ Marked'
    /\ \/ run' = "paused" /\ \A n \in Nodes : pc'[n] # "work"
       \/ run' = "paused" => \/ run = "paused" /\ slipped \subseteq slipped'
                             \/ gate' /\ Quiet(phase')
    /\ run' = "paused" => gate'
    /\ run = "paused" /\ run' = "paused" =>
         \A n \in Leaves : pc'[n] = "work" =>
            pc[n] = "work" \/ n \in slipped'

LEMMA HaltSteps == ASSUME WalkInv, HaltInv, [Next]_vars PROVE HaltStep
<1>0. /\ \A n \in Nodes : n \in All /\ n # Runner
      /\ Runner \in All /\ All = Nodes \cup {Runner}
      /\ \A n \in Leaves : n \in Nodes
  BY Names DEF All, Nodes
<1>w. /\ DOMAIN pc = All
      /\ \A n \in Nodes : pc[n] \in NodeStages
      /\ \A n \in woken : pc[n] \in Parked
      /\ write.by # "none" => pc[write.by] \in {"enter", "leave", "end"}
      /\ woken \subseteq All
  BY DEF WalkInv, WalkType
<1>h. Marked /\ (run = "paused" => gate) BY DEF HaltInv, Marked
\* The part of the step that is about the run's state, when no node gets to work.
<1>q. ASSUME Marked', gate' = gate, slipped' = slipped,
             \/ run' = run
             \/ run' = IF gate /\ run = "pausing" /\ Quiet(phase') THEN "paused" ELSE run
             \/ run' \in Ended,
             \A n \in Leaves : pc'[n] = "work" => pc[n] = "work" \/ run # "paused"
      PROVE  HaltStep
  <2>1. run' = "paused" => run = "paused" \/ (gate /\ Quiet(phase'))
    BY <1>q DEF Ended
  <2> QED BY <1>q, <1>h, <2>1 DEF HaltStep
\* One node moves, and is marked if it is entered or at work.
<1>m. ASSUME NEW n \in All,
             \A m \in All \ {n} : pc'[m] = pc[m],
             \A k \in DOMAIN phase : k # n => k \in DOMAIN phase' /\ phase'[k] = phase[k],
             \/ n = Runner
             \/ pc'[n] \notin {"enter", "work"}
             \/ n \in DOMAIN phase' /\ phase'[n] = "running"
      PROVE  Marked'
  BY <1>0, <1>h, <1>m DEF Marked
<1>1. ASSUME NEW n \in Nodes,
             Recall(n) \/ Unresolved(n) \/ Caught(n) \/ Return(n) PROVE HaltStep
  <2>1. /\ pc'[n] \in {"over", "failed", "leave"}
        /\ \A m \in All \ {n} : pc'[m] = pc[m]
        /\ phase' = phase /\ run' = run /\ gate' = gate /\ slipped' = slipped
    BY <1>0, <1>w, <1>1 DEF Recall, Unresolved, Caught, Return
  <2>2. Marked' BY <1>0, <2>1, <1>m
  <2>3. \A k \in Leaves : pc'[k] = "work" => pc[k] = "work" BY <2>1, <1>0
  <2> QED BY <2>1, <2>2, <2>3, <1>q
<1>2. ASSUME NEW n \in Nodes, Enter(n) \/ Close(n) PROVE HaltStep
  <2>1. /\ pc'[n] \in {"enter", "leave"}
        /\ \A m \in All \ {n} : pc'[m] = pc[m]
        /\ phase' = With(n, "running") /\ gate' = gate /\ slipped' = slipped
        /\ run' = IF gate /\ run = "pausing" /\ Quiet(phase') THEN "paused" ELSE run
    BY <1>0, <1>w, <1>2 DEF Enter, Close, Phases
  <2>2. Marked' BY <1>0, <2>1, <1>m DEF With
  <2>3. \A k \in Leaves : pc'[k] = "work" => pc[k] = "work" BY <2>1, <1>0
  <2> QED BY <2>1, <2>2, <2>3, <1>q
<1>3. ASSUME NEW n \in Nodes, Exit(n) \/ FailUp(n) \/ Fail(n) \/ Unsaved(n) PROVE HaltStep
  <2>1. /\ pc'[n] \in {"over", "failed"}
        /\ \A m \in All \ {n} : pc'[m] = pc[m]
        /\ phase' = Without({n}) /\ gate' = gate /\ slipped' = slipped
        /\ run' = IF gate /\ run = "pausing" /\ Quiet(phase') THEN "paused" ELSE run
    BY <1>0, <1>w, <1>3 DEF Exit, FailUp, Fail, Unsaved, Failed, Phases
  <2>2. Marked' BY <1>0, <2>1, <1>m DEF Without, Restrict
  <2>3. \A k \in Leaves : pc'[k] = "work" => pc[k] = "work" BY <2>1, <1>0
  <2> QED BY <2>1, <2>2, <2>3, <1>q
<1>4. ASSUME NEW n \in Nodes, Open(n) PROVE HaltStep
  <2>1. /\ \A m \in Nodes : pc'[m] = pc[m] \/ pc'[m] \in {"wait", "queued"}
        /\ \A m \in Nodes : pc'[m] = pc[m] => m # n
        /\ phase' = With(n, "blocked") /\ gate' = gate /\ slipped' = slipped
        /\ run' = IF gate /\ run = "pausing" /\ Quiet(phase') THEN "paused" ELSE run
    BY <1>0, <1>w, <1>4 DEF Open, Phases
  <2>2. \A k \in DOMAIN phase : k # n => k \in DOMAIN phase' /\ phase'[k] = phase[k]
    BY <2>1 DEF With
  <2>3. \A m \in Nodes : pc'[m] \in {"enter", "work"} => pc'[m] = pc[m] BY <2>1
  <2>4. Marked' BY <1>h, <2>1, <2>2, <2>3 DEF Marked
  <2>5. \A k \in Leaves : pc'[k] = "work" => pc[k] = "work" BY <2>3, <1>0
  <2> QED BY <2>1, <2>4, <2>5, <1>q
<1>5. ASSUME NEW n \in Nodes, Abort(n) PROVE HaltStep
  <2> DEFINE cut == {m \in Below[n] : pc[m] \in Underway \cup {"queued"}}
  <2>1. /\ phase' = Without(cut) /\ gate' = gate /\ slipped' = slipped
        /\ pc' = [m \in DOMAIN pc |-> IF m \in cut THEN "cancelled" ELSE pc[m]]
        /\ run' = IF gate /\ run = "pausing" /\ Quiet(phase') THEN "paused" ELSE run
    BY <1>5 DEF Abort, Phases
  <2> HIDE DEF cut
  <2>2. \A m \in Nodes : (pc'[m] = pc[m] /\ m \notin cut) \/ pc'[m] = "cancelled"
    BY <1>0, <1>w, <2>1
  <2>3. \A k \in DOMAIN phase : k \notin cut => k \in DOMAIN phase' /\ phase'[k] = phase[k]
    BY <2>1 DEF Without, Restrict
  <2>4. Marked' BY <1>h, <2>2, <2>3 DEF Marked
  <2>5. \A k \in Leaves : pc'[k] = "work" => pc[k] = "work" BY <2>2, <1>0
  <2> QED BY <2>1, <2>4, <2>5, <1>q
<1>6. ASSUME NEW n \in All, Written(n) PROVE HaltStep
  <2>1. /\ pc[n] \in {"enter", "leave", "end"} /\ gate' = gate /\ slipped' = slipped
        /\ \A m \in All \ {n} : pc'[m] = pc[m]
    BY <1>0, <1>w, <1>6, Names DEF Written
  <2>2. CASE gate /\ pc[n] # "end"
    <3>1. /\ phase' = With(n, "parked") /\ pc'[n] \in Parked
          /\ run' = IF gate /\ run = "pausing" /\ Quiet(phase') THEN "paused" ELSE run
      BY <1>0, <1>w, <1>6, <2>2 DEF Written, Phases, Parked
    <3>2. Marked' BY <2>1, <3>1, <1>m DEF With, Parked
    <3>3. \A k \in Leaves : pc'[k] = "work" => pc[k] = "work"
      BY <2>1, <3>1, <1>0 DEF Parked
    <3> QED BY <2>1, <3>1, <3>2, <3>3, <1>q
  <2>3. CASE ~(gate /\ pc[n] # "end")
    <3>1. /\ pc'[n] = Onward(pc[n]) /\ phase' = phase /\ run' = run
      BY <1>0, <1>w, <1>6, <2>3 DEF Written
    <3>2. pc[n] = "enter" => pc'[n] = "work" BY <3>1 DEF Onward
    <3>3. pc[n] # "enter" => pc'[n] \in {"exit", "over"} BY <2>1, <3>1 DEF Onward
    <3>4. n \in Nodes /\ pc[n] = "enter" => n \in DOMAIN phase' /\ phase'[n] = "running"
      BY <1>h, <3>1 DEF Marked
    <3>5. Marked' BY <1>0, <2>1, <3>1, <3>3, <3>4, <1>m
    <3>6. ASSUME NEW k \in Leaves, pc'[k] = "work" PROVE pc[k] = "work" \/ run # "paused"
      <4>1. k # n => pc[k] = "work" BY <2>1, <3>6, <1>0
      <4>2. k = n => ~gate BY <2>1, <2>3, <3>3, <3>6
      <4> QED BY <4>1, <4>2, <1>h
    <3> QED BY <2>1, <3>1, <3>5, <3>6, <1>q
  <2> QED BY <2>2, <2>3
<1>7. ASSUME NEW n \in All, Wake(n) PROVE HaltStep
  <2>1. /\ phase' = With(n, "running") /\ gate' = gate
        /\ slipped' = IF gate THEN slipped \cup {n} ELSE slipped
        /\ \A m \in All \ {n} : pc'[m] = pc[m]
        /\ run' = IF gate /\ run = "pausing" /\ Quiet(phase') THEN "paused" ELSE run
    BY <1>0, <1>w, <1>7 DEF Wake, Phases
  <2>2. Marked' BY <2>1, <1>m DEF With
  <2>3. run' = "paused" => (run = "paused" /\ slipped \subseteq slipped') \/ (gate' /\ Quiet(phase'))
    BY <2>1
  <2>4. ASSUME run = "paused", NEW k \in Leaves, pc'[k] = "work"
        PROVE  pc[k] = "work" \/ k \in slipped'
    <3>1. gate BY <1>h, <2>4
    <3> QED BY <2>1, <2>4, <3>1, <1>0
  <2> QED BY <1>h, <2>1, <2>2, <2>3, <2>4 DEF HaltStep
<1>8. CASE Walk \/ NextRoot \/ Finish
  <2>1. /\ \A m \in All \ {Runner} : pc'[m] = pc[m]
        /\ gate' = gate /\ slipped' = slipped
        /\ \/ run' \in Ended
           \/ run' = IF gate /\ run = "pausing" /\ Quiet(phase') THEN "paused" ELSE run
    BY <1>0, <1>w, <1>8 DEF Walk, NextRoot, Finish, Ended, Phases
  <2>2. phase' \in {With(Runner, "blocked"), With(Runner, "running"), Without({Runner})}
    BY <1>8 DEF Walk, NextRoot, Finish, Phases
  <2>3. Marked' BY <1>0, <2>1, <2>2, <1>m DEF With, Without, Restrict
  <2>4. \A k \in Leaves : pc'[k] = "work" => pc[k] = "work" BY <2>1, <1>0
  <2> QED BY <2>1, <2>3, <2>4, <1>q
<1>9. CASE Resume \/ StartPaused
  <2>1. Begin BY <1>9 DEF Resume, StartPaused
  <2>2. /\ \A m \in All \ {Runner} : pc'[m] = pc[m]
        /\ \/ phase' = phase
           \/ phase' = With(Runner, "running")
    BY <1>0, <1>w, <2>1 DEF Begin
  <2>3. Marked' BY <1>0, <2>2, <1>m DEF With
  <2>4. \A k \in Leaves : pc'[k] = "work" => pc[k] = "work" BY <2>2, <1>0
  <2>5. \/ run' = "running"
        \/ run' = run /\ gate' = gate /\ slipped' = slipped
    BY <1>9 DEF Resume, StartPaused
  <2> QED BY <1>h, <2>3, <2>4, <2>5 DEF HaltStep
<1>10. CASE CrashAndLoad
  <2>1. gate' = TRUE /\ run' = "paused" /\ \A n \in Nodes : pc'[n] = "idle"
    BY <1>0, <1>w, <1>10 DEF CrashAndLoad
  <2> QED BY <2>1, <1>0 DEF HaltStep, Marked
<1>11. CASE Pause
  <2>1. gate' = TRUE /\ slipped' = slipped /\ phase' = phase /\ pc' = pc
        /\ run = "running" /\ run' = IF Quiet(phase) THEN "paused" ELSE "pausing"
    BY <1>11 DEF Pause
  <2>2. Marked' BY <1>h, <2>1 DEF Marked
  <2>3. Quiet(phase) => Quiet(phase') BY <2>1
  <2> QED BY <2>1, <2>2, <2>3 DEF HaltStep
<1>12. ASSUME UNCHANGED <<pc, phase, run, gate, slipped>> PROVE HaltStep
  <2>1. Marked' BY <1>h, <1>12 DEF Marked
  <2> QED BY <1>12, <2>1, <1>q
<1>13. CASE LateWrite \/ Done \/ UNCHANGED vars \/ \E n \in All : Fold(n)
  <2>1. UNCHANGED <<pc, phase, run, gate, slipped>>
    BY <1>13 DEF LateWrite, Done, vars, session, Fold
  <2> QED BY <2>1, <1>12
<1>14. CASE Progress
  <2>1. CASE \E n \in Nodes : NodeStep(n)
    BY <2>1, <1>1, <1>2, <1>3, <1>4, <1>5 DEF NodeStep
  <2>2. CASE \E n \in All : Fold(n) \/ Written(n) \/ Wake(n)
    BY <2>2, <1>6, <1>7, <1>13
  <2> QED BY <1>14, <2>1, <2>2, <1>8, <1>13 DEF Progress, All
<1> QED BY <1>3, <1>9, <1>10, <1>11, <1>13, <1>14 DEF Next

\* While the run says PAUSED no node body is at work, but for nodes that a resume
\* had released and that had not run yet when the next pause came.
THEOREM PausedIsQuiet == Spec => []PausedRunsNothing
<1>1. Init => HaltInv
  <2> SUFFICES ASSUME Init PROVE HaltInv OBVIOUS
  <2>1. run = "running" /\ \A n \in Nodes : pc[n] = "idle"
    BY Names DEF Init
  <2> QED BY <2>1 DEF HaltInv, PausedRunsNothing
<1>2. WalkInv /\ HaltInv /\ [Next]_vars => HaltInv'
  <2> SUFFICES ASSUME WalkInv, HaltInv, [Next]_vars PROVE HaltInv' OBVIOUS
  <2>1. HaltStep BY HaltSteps
  <2>2. \A n \in Leaves : n \in Nodes BY DEF Nodes
  <2>3. ASSUME run' = "paused", NEW n \in Leaves, pc'[n] = "work" PROVE n \in slipped'
    <3>1. n \in DOMAIN phase' /\ phase'[n] = "running"
      BY <2>1, <2>2, <2>3 DEF HaltStep, Marked
    <3>2. ~Quiet(phase') BY <3>1 DEF Quiet
    <3>3. run = "paused" /\ slipped \subseteq slipped'
      BY <2>1, <2>2, <2>3, <3>2 DEF HaltStep
    <3>4. pc[n] = "work" \/ n \in slipped' BY <2>1, <2>3, <3>3 DEF HaltStep
    <3> QED BY <3>3, <3>4 DEF HaltInv, PausedRunsNothing
  <2> QED BY <2>1, <2>3 DEF HaltInv, HaltStep, Marked, PausedRunsNothing
<1>3. HaltInv => PausedRunsNothing BY DEF HaltInv
<1> QED BY <1>1, <1>2, <1>3, WalkHolds, PTL DEF Spec

(***************************************************************************)
(* The records.                                                            *)
(***************************************************************************)
Outputs == UNION {[D -> Nat] : D \in SUBSET Nodes}

Records == [status : {"none", "running", "completed", "failed"},
            body : Nat, from : Outputs]

Document == [Nodes -> Records]

\* What is in memory, in the file, and on its way to the file.
Documents == {rec, disk} \cup late \cup (IF write.by = "none" THEN {} ELSE {write.data})

\* A record names outputs that are on record, and a container's all its children's.
Sound(r) ==
    /\ \A m \in Nodes : \A d \in DOMAIN r[m].from :
         r[d].status = "completed" /\ r[d].body = r[m].from[d]
    /\ \A c \in Containers : r[c].status = "completed" =>
         ChildrenOf(c) \subseteq DOMAIN r[c].from

\* Nothing on record was computed from the output of n.
Free(n) == \A m \in Nodes : n \notin DOMAIN rec[m].from

Finished == {"leave", "parked_out", "exit"}
Unfinished == {"enter", "parked_in", "work", "wait", "failed"}

\* The walk, the outputs that can be read and the records in memory agree.
Linked ==
    /\ \A n \in Nodes : n \in DOMAIN env <=> pc[n] = "over"
    /\ \A n \in DOMAIN env : Completed(n) /\ env[n] = Output(n)
    /\ \A n \in Nodes : /\ pc[n] \in Finished => Completed(n)
                        /\ pc[n] \in Unfinished => ~Completed(n)
                        /\ pc[n] \in Underway => Free(n)

RecordType ==
    /\ env \in Outputs
    /\ Documents \subseteq Document
    /\ entered \in [Nodes -> Nat]

RecordsInv ==
    /\ RecordType
    /\ \A r \in Documents : Sound(r)
    /\ Linked

LEMMA OutputsFacts ==
    /\ \A e \in Outputs : DOMAIN e \subseteq Nodes /\ \A d \in DOMAIN e : e[d] \in Nat
    /\ \A e : e = [d \in DOMAIN e |-> e[d]] /\ DOMAIN e \subseteq Nodes
              /\ (\A d \in DOMAIN e : e[d] \in Nat) => e \in Outputs
<1>1. ASSUME NEW e \in Outputs
      PROVE  DOMAIN e \subseteq Nodes /\ \A d \in DOMAIN e : e[d] \in Nat
  <2>1. PICK D \in SUBSET Nodes : e \in [D -> Nat] BY DEF Outputs
  <2> QED BY <2>1
<1>2. ASSUME NEW e, e = [d \in DOMAIN e |-> e[d]], DOMAIN e \subseteq Nodes,
             \A d \in DOMAIN e : e[d] \in Nat
      PROVE  e \in Outputs
  <2>1. e \in [DOMAIN e -> Nat] BY <1>2
  <2> QED BY <1>2, <2>1 DEF Outputs
<1> QED BY <1>1, <1>2

LEMMA DocumentFacts ==
    /\ \A r \in Document : /\ r = [m \in Nodes |-> r[m]]
                           /\ \A m \in Nodes : /\ r[m] \in Records
                                               /\ DOMAIN r[m].from \subseteq Nodes
    /\ \A r : r = [m \in Nodes |-> r[m]] /\ (\A m \in Nodes : r[m] \in Records)
              => r \in Document
<1>1. ASSUME NEW r \in Document, NEW m \in Nodes
      PROVE  r[m] \in Records /\ DOMAIN r[m].from \subseteq Nodes
  <2>1. r[m] \in Records BY DEF Document
  <2>2. r[m].from \in Outputs BY <2>1 DEF Records
  <2> QED BY <2>1, <2>2, OutputsFacts
<1>2. \A r \in Document : r = [m \in Nodes |-> r[m]] BY DEF Document
<1>3. ASSUME NEW r, r = [m \in Nodes |-> r[m]], \A m \in Nodes : r[m] \in Records
      PROVE  r \in Document
  BY <1>3 DEF Document
<1> QED BY <1>1, <1>2, <1>3

\* Every document is one that was there before, or the records of now.
LEMMA DocumentsStep == ASSUME WalkInv, [Next]_vars PROVE Documents' \subseteq Documents \cup {rec'}
<1>1. ASSUME disk' \in Documents \cup {rec'}, late' \subseteq Documents,
             write' \in {NoWrite, write} \/ write'.data = rec
      PROVE  Documents' \subseteq Documents \cup {rec'}
  <2>1. rec \in Documents /\ late \subseteq Documents /\ disk \in Documents BY DEF Documents
  <2>2. write.by # "none" => write.data \in Documents BY DEF Documents
  <2>3. NoWrite.by = "none" BY DEF NoWrite
  <2>4. write'.by # "none" => write'.data \in Documents BY <1>1, <2>1, <2>2, <2>3
  <2> QED BY <1>1, <2>4 DEF Documents
<1>0. disk \in Documents /\ late \subseteq Documents
      /\ (write.by # "none" => write.data \in Documents)
  BY DEF Documents
<1>2. ASSUME disk' = disk, late' = late, write' \in {NoWrite, write}
      PROVE  Documents' \subseteq Documents \cup {rec'}
  BY <1>0, <1>1, <1>2
<1>3. ASSUME NEW n \in Nodes, NodeStep(n) \/ Fail(n) \/ Unsaved(n)
      PROVE  Documents' \subseteq Documents \cup {rec'}
  <2>1. CASE Abort(n)
    <3>1. /\ disk' = disk
          /\ \/ write' = write /\ late' = late
             \/ write' = NoWrite /\ late' = late \cup {write.data}
                  /\ write.by \in {m \in Below[n] : pc[m] \in Underway \cup {"queued"}}
      BY <2>1 DEF Abort
    <3>2. "none" \notin Below[n] BY BelowFacts, Names DEF All
    <3>3. late' \subseteq Documents BY <1>0, <3>1, <3>2
    <3> QED BY <1>0, <1>1, <3>1, <3>3
  <2>2. CASE ~Abort(n)
    <3>1. disk' = disk /\ late' = late /\ write' \in {NoWrite, write}
      BY <1>3, <2>2 DEF NodeStep, Recall, Unresolved, Enter, Return, Open, Close, Exit,
         Caught, FailUp, Fail, Unsaved
    <3> QED BY <1>2, <3>1
  <2> QED BY <2>1, <2>2
<1>4. ASSUME NEW n \in All, Fold(n) \/ Wake(n) PROVE Documents' \subseteq Documents \cup {rec'}
  <2>1. disk' = disk /\ late' = late /\ (write' = write \/ write'.data = rec)
    BY <1>4 DEF Fold, Wake
  <2> QED BY <1>0, <1>1, <2>1
<1>5. ASSUME NEW n \in All, Written(n) PROVE Documents' \subseteq Documents \cup {rec'}
  <2>1. disk' = write.data /\ late' = late /\ write' = NoWrite /\ write.by # "none"
    BY <1>5, Names DEF Written
  <2> QED BY <1>0, <1>1, <2>1
<1>6. CASE LateWrite
  <2>1. disk' \in late /\ late' \subseteq late /\ write' = write BY <1>6 DEF LateWrite
  <2> QED BY <1>0, <1>1, <2>1
<1>7. CASE CrashAndLoad
  <2>1. disk' = disk /\ late' = {} /\ write' = NoWrite BY <1>7 DEF CrashAndLoad
  <2> QED BY <1>0, <1>1, <2>1
<1>8. CASE Walk \/ NextRoot \/ Finish \/ Pause \/ Resume \/ StartPaused \/ Done
           \/ UNCHANGED vars
  <2>1. disk' = disk /\ late' = late /\ write' = write
    BY <1>8 DEF Walk, NextRoot, Finish, Pause, Resume, StartPaused, Done, vars, session
  <2> QED BY <1>2, <2>1
<1>9. CASE Progress BY <1>3, <1>4, <1>5, <1>6, <1>8, <1>9 DEF Progress, All
<1> QED BY <1>3, <1>7, <1>8, <1>9 DEF Next

\* One node moves, with the output and the record it gets.
LEMMA OneRecord ==
    ASSUME RecordsInv, NEW n \in Nodes,
           pc[n] # "over",
           \A m \in Nodes \ {n} : pc'[m] = pc[m],
           \A m \in Nodes \ {n} : rec'[m] = rec[m],
           Free(n) \/ (rec'[n] = rec[n] /\ pc'[n] \notin Underway),
           DOMAIN rec'[n].from \subseteq DOMAIN rec[n].from \cup DOMAIN env,
           \A d \in DOMAIN rec'[n].from : Completed(d) /\ Output(d) = rec'[n].from[d],
           n \in Containers /\ rec'[n].status = "completed"
             => ChildrenOf(n) \subseteq DOMAIN rec'[n].from,
           DOMAIN env' = DOMAIN env \cup (IF pc'[n] = "over" THEN {n} ELSE {}),
           \A m \in DOMAIN env : env'[m] = env[m],
           pc'[n] = "over" => rec'[n].status = "completed" /\ env'[n] = rec'[n].body,
           pc'[n] \in Finished => rec'[n].status = "completed",
           pc'[n] \in Unfinished => rec'[n].status # "completed"
    PROVE  Sound(rec') /\ Linked'
<1>1. /\ rec \in Document /\ Sound(rec) /\ Linked /\ DOMAIN env \subseteq Nodes
  BY OutputsFacts DEF RecordsInv, RecordType, Documents
<1>2. n \notin DOMAIN env BY <1>1 DEF Linked
<1>3. \A m \in Nodes : DOMAIN rec[m].from \subseteq Nodes BY <1>1, DocumentFacts
<1>4. CASE rec'[n] = rec[n] /\ pc'[n] \notin Underway
  <2>1. \A m \in Nodes : rec'[m] = rec[m] BY <1>4
  <2>2. Sound(rec') BY <1>1, <1>3, <2>1 DEF Sound, Containers, Nodes
  <2>3. Linked'
    <3>1. \A m \in Nodes : m \in DOMAIN env' <=> pc'[m] = "over"
      BY <1>1, <1>2 DEF Linked
    <3>2. \A m \in DOMAIN env' : rec'[m].status = "completed" /\ env'[m] = rec'[m].body
      BY <1>1, <1>2, <2>1 DEF Linked, Completed, Output
    <3>3. \A m \in Nodes : /\ pc'[m] \in Finished => rec'[m].status = "completed"
                           /\ pc'[m] \in Unfinished => rec'[m].status # "completed"
      BY <1>1, <2>1 DEF Linked, Completed
    <3>4. \A m \in Nodes : pc'[m] \in Underway => \A k \in Nodes : m \notin DOMAIN rec'[k].from
      BY <1>1, <1>4, <2>1 DEF Linked, Free
    <3> QED BY <3>1, <3>2, <3>3, <3>4 DEF Linked, Completed, Output, Free
  <2> QED BY <2>2, <2>3
<1>5. CASE Free(n)
  <2>1. \A m \in Nodes : n \notin DOMAIN rec'[m].from BY <1>2, <1>5 DEF Free
  <2>2. ASSUME NEW m \in Nodes, NEW d \in DOMAIN rec'[m].from
        PROVE  rec'[d].status = "completed" /\ rec'[d].body = rec'[m].from[d]
    <3>1. d # n BY <2>1, <2>2
    <3>2. d \in Nodes BY <1>1, <1>3, <2>2
    <3>3. rec'[d] = rec[d] BY <3>1, <3>2
    <3>4. CASE m = n BY <3>3, <3>4, <2>2 DEF Completed, Output
    <3>5. CASE m # n
      <4>1. rec'[m] = rec[m] BY <3>5
      <4> QED BY <1>1, <2>2, <3>3, <4>1 DEF Sound
    <3> QED BY <3>4, <3>5
  <2>3. ASSUME NEW c \in Containers, rec'[c].status = "completed"
        PROVE  ChildrenOf(c) \subseteq DOMAIN rec'[c].from
    <3>1. CASE c = n BY <2>3, <3>1
    <3>2. CASE c # n
      <4>1. rec'[c] = rec[c] BY <3>2 DEF Containers, Nodes
      <4> QED BY <1>1, <2>3, <4>1 DEF Sound
    <3> QED BY <3>1, <3>2
  <2>4. Sound(rec') BY <2>2, <2>3 DEF Sound
  <2>5. Linked'
    <3>1. \A m \in Nodes : m \in DOMAIN env' <=> pc'[m] = "over"
      BY <1>1, <1>2 DEF Linked
    <3>2. \A m \in DOMAIN env' : rec'[m].status = "completed" /\ env'[m] = rec'[m].body
      BY <1>1, <1>2 DEF Linked, Completed, Output
    <3>3. \A m \in Nodes : /\ pc'[m] \in Finished => rec'[m].status = "completed"
                           /\ pc'[m] \in Unfinished => rec'[m].status # "completed"
      BY <1>1 DEF Linked, Completed
    <3>4. ASSUME NEW m \in Nodes, pc'[m] \in Underway, NEW k \in Nodes
          PROVE  m \notin DOMAIN rec'[k].from
      <4>1. CASE m = n BY <2>1, <4>1
      <4>2. CASE m # n
        <5>1. pc[m] \in Underway /\ pc[m] # "over" BY <3>4, <4>2 DEF Underway
        <5>2. m \notin DOMAIN rec[k].from /\ m \notin DOMAIN env
          BY <1>1, <5>1 DEF Linked, Free
        <5>3. m \notin DOMAIN rec[n].from BY <1>1, <5>1 DEF Linked, Free
        <5> QED BY <5>2, <5>3
      <4> QED BY <4>1, <4>2
    <3> QED BY <3>1, <3>2, <3>3, <3>4 DEF Linked, Completed, Output, Free
  <2> QED BY <2>4, <2>5
<1> QED BY <1>4, <1>5

\* Nodes move without an output or a record.
LEMMA NoRecord ==
    ASSUME RecordsInv, rec' = rec, env' = env,
           \A m \in Nodes : \/ pc'[m] = pc[m]
                            \/ pc[m] # "over" /\ pc'[m] \in {"queued", "cancelled"}
                            \/ pc[m] = "work" /\ pc'[m] = "wait"
    PROVE  Sound(rec') /\ Linked'
<1>1. Sound(rec) /\ Linked BY DEF RecordsInv, Documents
<1>2. \A m \in Nodes : pc'[m] = "over" <=> pc[m] = "over" OBVIOUS
<1>3. \A m \in Nodes : /\ pc'[m] \in Finished => pc[m] \in Finished
                       /\ pc'[m] \in Unfinished => pc[m] \in Unfinished
                       /\ pc'[m] \in Underway => pc[m] \in Underway
  BY DEF Finished, Unfinished, Underway
<1> QED BY <1>1, <1>2, <1>3 DEF Linked, Completed, Output, Free

\* A record that changes stays one.
LEMMA RecordChanges ==
    ASSUME rec \in Document, NEW n \in Nodes, rec' = [m \in Nodes |-> rec'[m]],
           \A m \in Nodes \ {n} : rec'[m] = rec[m], rec'[n] \in Records
    PROVE  rec' \in Document
BY DocumentFacts

LEMMA RecordsStep ==
    ASSUME WalkInv, RecordsInv, [Next]_vars
    PROVE  /\ Sound(rec') /\ Linked'
           /\ env' \in Outputs /\ rec' \in Document /\ entered' \in [Nodes -> Nat]
<1> DEFINE Goal == /\ Sound(rec') /\ Linked'
                   /\ env' \in Outputs /\ rec' \in Document /\ entered' \in [Nodes -> Nat]
<1>0. /\ \A n \in Nodes : n \in All /\ n # Runner
      /\ All = Nodes \cup {Runner}
      /\ \A n \in Leaves : n \in Nodes /\ n \notin Containers
      /\ \A n \in Nodes : ChildrenOf(n) \subseteq Nodes
      /\ \A c \in Containers : c \in Nodes
  BY Names, Family DEF All, Nodes, Containers
<1>w. /\ DOMAIN pc = All
      /\ \A n \in Nodes : pc[n] \in NodeStages
      /\ \A n \in woken : pc[n] \in Parked
      /\ write.by # "none" => pc[write.by] \in {"enter", "leave", "end"}
  BY DEF WalkInv, WalkType
<1>r. /\ rec \in Document /\ disk \in Document /\ env \in Outputs
      /\ entered \in [Nodes -> Nat]
      /\ Sound(rec) /\ Sound(disk) /\ Linked
  BY DEF RecordsInv, RecordType, Documents
<1>l. /\ \A n \in Nodes : n \in DOMAIN env <=> pc[n] = "over"
      /\ \A n \in DOMAIN env : Completed(n) /\ env[n] = Output(n)
      /\ \A n \in Nodes : /\ pc[n] \in Finished => Completed(n)
                          /\ pc[n] \in Unfinished => ~Completed(n)
                          /\ pc[n] \in Underway => Free(n)
  BY <1>r DEF Linked
<1>d. /\ \A m \in Nodes : rec[m] \in Records /\ DOMAIN rec[m].from \subseteq Nodes
      /\ \A m \in Nodes : rec[m].from \in Outputs /\ rec[m].body \in Nat
                          /\ rec[m].status \in {"none", "running", "completed", "failed"}
      /\ rec = [m \in Nodes |-> rec[m]] /\ DOMAIN rec = Nodes
      /\ DOMAIN env \subseteq Nodes /\ \A d \in DOMAIN env : env[d] \in Nat
      /\ \A m \in Nodes : \A d \in DOMAIN rec[m].from : rec[m].from[d] \in Nat
  BY <1>r, DocumentFacts, OutputsFacts DEF Records
\* Nothing was computed from an output that is not there, and all that a record
\* names is there.
<1>a. \A n \in Nodes : ~Completed(n) => Free(n)
  BY <1>r DEF Sound, Free, Completed
<1>b. \A m \in Nodes : \A d \in DOMAIN rec[m].from :
         Completed(d) /\ Output(d) = rec[m].from[d]
  BY <1>r DEF Sound, Completed, Output
<1>c. \A c \in Containers : Completed(c) => ChildrenOf(c) \subseteq DOMAIN rec[c].from
  BY <1>r DEF Sound, Completed
<1> SUFFICES Goal OBVIOUS
<1> HIDE DEF Goal
\* A node moves and its record stays.
<1>m. ASSUME NEW n \in Nodes, pc[n] # "over", rec' = rec, entered' = entered,
             \A m \in All \ {n} : pc'[m] = pc[m],
             Free(n) \/ pc'[n] \notin Underway,
             \/ env' = env /\ pc'[n] # "over"
             \/ Set(n, Output(n)) /\ pc'[n] = "over" /\ Completed(n),
             pc'[n] \in Finished => Completed(n),
             pc'[n] \in Unfinished => ~Completed(n)
      PROVE  Goal
  <2>1. \A m \in Nodes \ {n} : pc'[m] = pc[m] BY <1>m, <1>0
  <2>2. n \notin DOMAIN env BY <1>m, <1>l
  <2>3. /\ DOMAIN env' = DOMAIN env \cup (IF pc'[n] = "over" THEN {n} ELSE {})
        /\ \A m \in DOMAIN env : env'[m] = env[m]
        /\ pc'[n] = "over" => env'[n] = Output(n) /\ Completed(n)
        /\ env' = [d \in DOMAIN env' |-> env'[d]]
    BY <1>m, <1>r, <2>2, OutputsFacts DEF Set, Outputs
  <2>4. Output(n) \in Nat BY <1>d DEF Output
  <2>5. env' \in Outputs
    <3>1. DOMAIN env' \subseteq Nodes /\ \A d \in DOMAIN env' : env'[d] \in Nat
      BY <2>3, <2>4, <1>d
    <3> QED BY <3>1, <2>3, OutputsFacts
  <2>6. Sound(rec') /\ Linked'
    <3>1. /\ \A m \in Nodes \ {n} : rec'[m] = rec[m]
          /\ Free(n) \/ (rec'[n] = rec[n] /\ pc'[n] \notin Underway)
          /\ DOMAIN rec'[n].from \subseteq DOMAIN rec[n].from \cup DOMAIN env
          /\ \A d \in DOMAIN rec'[n].from : Completed(d) /\ Output(d) = rec'[n].from[d]
          /\ n \in Containers /\ rec'[n].status = "completed"
               => ChildrenOf(n) \subseteq DOMAIN rec'[n].from
      BY <1>m, <1>b, <1>c DEF Completed
    <3>2. /\ pc'[n] = "over" => rec'[n].status = "completed" /\ env'[n] = rec'[n].body
          /\ pc'[n] \in Finished => rec'[n].status = "completed"
          /\ pc'[n] \in Unfinished => rec'[n].status # "completed"
      BY <1>m, <2>3 DEF Completed, Output
    <3> QED BY <1>m, <2>1, <2>3, <3>1, <3>2, OneRecord
  <2> QED BY <1>m, <1>r, <2>5, <2>6 DEF Goal
<1>1. ASSUME NEW n \in Nodes, Recall(n) PROVE Goal
  <2>1. /\ pc[n] \in {"idle", "queued"} /\ Completed(n) /\ Set(n, Output(n))
        /\ pc'[n] = "over" /\ \A m \in All \ {n} : pc'[m] = pc[m]
        /\ rec' = rec /\ entered' = entered
    BY <1>0, <1>w, <1>1 DEF Recall, Turn
  <2> QED BY <2>1, <1>m DEF Underway, Finished, Unfinished
<1>2. ASSUME NEW n \in Nodes, Unresolved(n) PROVE Goal
  <2>1. /\ pc[n] \in {"idle", "queued"} /\ ~Completed(n) /\ env' = env
        /\ pc'[n] = "failed" /\ \A m \in All \ {n} : pc'[m] = pc[m]
        /\ rec' = rec /\ entered' = entered
    BY <1>0, <1>w, <1>2 DEF Unresolved, Turn
  <2> QED BY <2>1, <1>m DEF Underway, Finished
<1>3. ASSUME NEW n \in Nodes, Exit(n) PROVE Goal
  <2>1. /\ pc[n] = "exit" /\ Set(n, Output(n))
        /\ pc'[n] = "over" /\ \A m \in All \ {n} : pc'[m] = pc[m]
        /\ rec' = rec /\ entered' = entered
    BY <1>0, <1>w, <1>3 DEF Exit
  <2>2. Completed(n) BY <1>l, <2>1 DEF Finished
  <2> QED BY <2>1, <2>2, <1>m DEF Underway, Finished, Unfinished
<1>4. ASSUME NEW n \in Nodes, Written(n) PROVE Goal
  <2>1. /\ pc[n] \in {"enter", "leave"} /\ env' = env
        /\ \A m \in All \ {n} : pc'[m] = pc[m]
        /\ rec' = rec /\ entered' = entered
    <3>1. pc[n] \in {"enter", "leave", "end"} BY <1>0, <1>w, <1>4, Names DEF Written
    <3>2. pc[n] # "end" BY <1>w DEF NodeStages, Active, Underway
    <3> QED BY <1>0, <1>w, <1>4, <3>1, <3>2 DEF Written
  <2>2. /\ pc[n] = "enter" => pc'[n] \in {"parked_in", "work"}
        /\ pc[n] = "leave" => pc'[n] \in {"parked_out", "exit"}
    BY <1>0, <1>w, <1>4, <2>1 DEF Written, Onward
  <2>3. Free(n) BY <1>l, <2>1 DEF Underway
  <2>4. /\ pc[n] = "enter" => ~Completed(n)
        /\ pc[n] = "leave" => Completed(n)
    BY <1>l, <2>1 DEF Finished, Unfinished
  <2> QED BY <2>1, <2>2, <2>3, <2>4, <1>m DEF Finished, Unfinished
<1>5. ASSUME NEW n \in Nodes, Wake(n) PROVE Goal
  <2>1. /\ pc[n] \in Parked /\ env' = env
        /\ \A m \in All \ {n} : pc'[m] = pc[m]
        /\ rec' = rec /\ entered' = entered
    BY <1>0, <1>w, <1>5 DEF Wake
  <2>2. /\ pc[n] = "parked_in" => pc'[n] = "work"
        /\ pc[n] = "parked_out" => pc'[n] = "exit"
    BY <1>0, <1>w, <1>5 DEF Wake
  <2>3. Free(n) BY <1>l, <2>1 DEF Underway, Parked
  <2>4. /\ pc[n] = "parked_in" => ~Completed(n)
        /\ pc[n] = "parked_out" => Completed(n)
    BY <1>l, <2>1 DEF Finished, Unfinished
  <2> QED BY <2>1, <2>2, <2>3, <2>4, <1>m DEF Finished, Unfinished, Parked
<1> DEFINE Nodewise ==
             \A m \in Nodes : \/ pc'[m] = pc[m]
                              \/ pc[m] # "over" /\ pc'[m] \in {"queued", "cancelled"}
                              \/ pc[m] = "work" /\ pc'[m] = "wait"
<1>n. ASSUME Nodewise, rec' = rec, env' = env, entered' = entered PROVE Goal
  BY <1>n, <1>r, NoRecord DEF Goal
<1>6. ASSUME NEW n \in Nodes, Open(n) PROVE Goal
  <2>1. /\ n \in Containers /\ pc[n] = "work"
        /\ pc' = [m \in DOMAIN pc |->
                IF m = n THEN "wait"
                ELSE IF m \in ChildrenOf(n) /\ n \in Fans THEN "queued" ELSE pc[m]]
        /\ rec' = rec /\ env' = env /\ entered' = entered
    BY <1>6 DEF Open
  <2>2. \A m \in ChildrenOf(n) : pc[m] = "idle" BY <2>1 DEF WalkInv, Early
  <2>3. Nodewise BY <1>0, <1>w, <2>1, <2>2
  <2> QED BY <2>1, <2>3, <1>n
<1>7. ASSUME NEW n \in Nodes, Abort(n) PROVE Goal
  <2> DEFINE cut == {m \in Below[n] : pc[m] \in Underway \cup {"queued"}}
  <2>1. /\ pc' = [m \in DOMAIN pc |-> IF m \in cut THEN "cancelled" ELSE pc[m]]
        /\ rec' = rec /\ env' = env /\ entered' = entered
    BY <1>7 DEF Abort
  <2>2. \A m \in cut : pc[m] # "over" BY DEF Underway
  <2> HIDE DEF cut
  <2>3. Nodewise BY <1>0, <1>w, <2>1, <2>2
  <2> QED BY <2>1, <2>3, <1>n
\* A node moves and its record changes.
<1>e. ASSUME NEW n \in Nodes, pc[n] # "over", Free(n),
             \A m \in All \ {n} : pc'[m] = pc[m],
             rec' = [m \in Nodes |-> rec'[m]],
             \A m \in Nodes \ {n} : rec'[m] = rec[m],
             rec'[n] \in Records,
             DOMAIN rec'[n].from \subseteq DOMAIN rec[n].from \cup DOMAIN env,
             \A d \in DOMAIN rec'[n].from : Completed(d) /\ Output(d) = rec'[n].from[d],
             n \in Containers /\ rec'[n].status = "completed"
               => ChildrenOf(n) \subseteq DOMAIN rec'[n].from,
             \/ env' = env /\ pc'[n] # "over"
             \/ Set(n, rec'[n].body) /\ pc'[n] = "over" /\ rec'[n].status = "completed",
             pc'[n] \in Finished => rec'[n].status = "completed",
             pc'[n] \in Unfinished => rec'[n].status # "completed",
             entered' \in [Nodes -> Nat]
      PROVE  Goal
  <2>1. \A m \in Nodes \ {n} : pc'[m] = pc[m] BY <1>e, <1>0
  <2>2. n \notin DOMAIN env BY <1>e, <1>l
  <2>3. /\ DOMAIN env' = DOMAIN env \cup (IF pc'[n] = "over" THEN {n} ELSE {})
        /\ \A m \in DOMAIN env : env'[m] = env[m]
        /\ pc'[n] = "over" => rec'[n].status = "completed" /\ env'[n] = rec'[n].body
        /\ env' = [d \in DOMAIN env' |-> env'[d]]
    BY <1>e, <1>r, <2>2, OutputsFacts DEF Set, Outputs
  <2>4. rec'[n].body \in Nat BY <1>e DEF Records
  <2>5. env' \in Outputs
    <3>1. DOMAIN env' \subseteq Nodes /\ \A d \in DOMAIN env' : env'[d] \in Nat
      BY <2>3, <2>4, <1>d
    <3> QED BY <3>1, <2>3, OutputsFacts
  <2>6. rec' \in Document BY <1>e, <1>r, RecordChanges
  <2>7. Sound(rec') /\ Linked' BY <1>e, <2>1, <2>3, OneRecord
  <2> QED BY <1>e, <2>5, <2>6, <2>7 DEF Goal
<1>8. ASSUME NEW n \in Nodes, Enter(n) PROVE Goal
  <2> DEFINE from == [d \in graph.wiring[n] |-> env[d]]
  <2>1. /\ pc[n] \in {"idle", "queued"} /\ ~Completed(n) /\ env' = env
        /\ pc'[n] = "enter" /\ \A m \in All \ {n} : pc'[m] = pc[m]
        /\ graph.wiring[n] \subseteq DOMAIN env
        /\ rec' = [rec EXCEPT ![n].status = "running", ![n].from = from]
        /\ entered' = [entered EXCEPT ![n] = @ + 1]
    BY <1>0, <1>w, <1>8 DEF Enter, Turn, Missing
  <2>2. /\ rec'[n] = [status |-> "running", body |-> rec[n].body, from |-> from]
        /\ \A m \in Nodes \ {n} : rec'[m] = rec[m]
        /\ rec' = [m \in Nodes |-> rec'[m]]
    <3>1. rec[n] = [status |-> rec[n].status, body |-> rec[n].body, from |-> rec[n].from]
      BY <1>d DEF Records
    <3> QED BY <2>1, <1>d, <3>1
  <2>3. from \in Outputs
    <3>1. from = [d \in DOMAIN from |-> from[d]] /\ DOMAIN from = graph.wiring[n] OBVIOUS
    <3>2. DOMAIN from \subseteq Nodes /\ \A d \in DOMAIN from : from[d] \in Nat
      BY <2>1, <1>d
    <3> HIDE DEF from
    <3> QED BY <3>1, <3>2, OutputsFacts
  <2>4. /\ DOMAIN from \subseteq DOMAIN env
        /\ \A d \in DOMAIN from : Completed(d) /\ Output(d) = from[d]
    BY <2>1, <1>l
  <2> HIDE DEF from
  <2>5. rec'[n] \in Records BY <2>2, <2>3, <1>d DEF Records
  <2>6. /\ DOMAIN rec'[n].from \subseteq DOMAIN rec[n].from \cup DOMAIN env
        /\ \A d \in DOMAIN rec'[n].from : Completed(d) /\ Output(d) = rec'[n].from[d]
        /\ rec'[n].status = "running"
    BY <2>2, <2>4
  <2>7. entered' \in [Nodes -> Nat] BY <2>1, <1>r
  <2> QED BY <1>e, <1>a, <2>1, <2>2, <2>5, <2>6, <2>7 DEF Finished
<1>9. ASSUME NEW n \in Nodes, Return(n) PROVE Goal
  <2>1. /\ pc[n] = "work" /\ env' = env /\ n \in Leaves /\ entered' = entered
        /\ pc'[n] = "leave" /\ \A m \in All \ {n} : pc'[m] = pc[m]
        /\ Memoise(n, rec[n].from)
    BY <1>0, <1>w, <1>9 DEF Return
  <2>2. /\ rec'[n] = [status |-> "completed", body |-> entered[n], from |-> rec[n].from]
        /\ \A m \in Nodes \ {n} : rec'[m] = rec[m]
        /\ rec' = [m \in Nodes |-> rec'[m]]
    BY <2>1, <1>d DEF Memoise
  <2>3. Free(n) BY <1>l, <2>1 DEF Underway
  <2>4. rec'[n] \in Records BY <2>2, <1>d, <1>r DEF Records
  <2>5. /\ DOMAIN rec'[n].from \subseteq DOMAIN rec[n].from \cup DOMAIN env
        /\ \A d \in DOMAIN rec'[n].from : Completed(d) /\ Output(d) = rec'[n].from[d]
        /\ rec'[n].status = "completed" /\ n \notin Containers
    BY <2>1, <2>2, <1>b, <1>0
  <2> QED BY <1>e, <1>r, <2>1, <2>2, <2>3, <2>4, <2>5 DEF Unfinished
<1>10. ASSUME NEW n \in Nodes, Close(n) PROVE Goal
  <2> DEFINE from == [d \in DOMAIN rec[n].from \cup ChildrenOf(n) |->
                        IF d \in ChildrenOf(n) THEN env[d] ELSE rec[n].from[d]]
  <2>1. /\ pc[n] = "wait" /\ env' = env /\ n \in Containers /\ entered' = entered
        /\ pc'[n] = "leave" /\ \A m \in All \ {n} : pc'[m] = pc[m]
        /\ \A c \in ChildrenOf(n) : pc[c] = "over"
        /\ Memoise(n, from)
    BY <1>0, <1>w, <1>10 DEF Close
  <2>2. \A c \in ChildrenOf(n) : c \in DOMAIN env BY <2>1, <1>l, <1>0
  <2>3. from \in Outputs
    <3>1. from = [d \in DOMAIN from |-> from[d]]
          /\ DOMAIN from = DOMAIN rec[n].from \cup ChildrenOf(n)
      OBVIOUS
    <3>2. DOMAIN from \subseteq Nodes /\ \A d \in DOMAIN from : from[d] \in Nat
      BY <2>2, <1>d, <1>0
    <3> HIDE DEF from
    <3> QED BY <3>1, <3>2, OutputsFacts
  <2>4. /\ DOMAIN from \subseteq DOMAIN rec[n].from \cup DOMAIN env
        /\ \A d \in DOMAIN from : Completed(d) /\ Output(d) = from[d]
        /\ ChildrenOf(n) \subseteq DOMAIN from
    BY <2>2, <1>l, <1>b
  <2> HIDE DEF from
  <2>5. /\ rec'[n] = [status |-> "completed", body |-> entered[n], from |-> from]
        /\ \A m \in Nodes \ {n} : rec'[m] = rec[m]
        /\ rec' = [m \in Nodes |-> rec'[m]]
    BY <2>1, <1>d DEF Memoise
  <2>6. Free(n) BY <1>l, <2>1 DEF Underway
  <2>7. rec'[n] \in Records BY <2>3, <2>5, <1>r DEF Records
  <2>8. /\ DOMAIN rec'[n].from \subseteq DOMAIN rec[n].from \cup DOMAIN env
        /\ \A d \in DOMAIN rec'[n].from : Completed(d) /\ Output(d) = rec'[n].from[d]
        /\ rec'[n].status = "completed" /\ ChildrenOf(n) \subseteq DOMAIN rec'[n].from
    BY <2>4, <2>5
  <2> QED BY <1>e, <1>r, <2>1, <2>5, <2>6, <2>7, <2>8 DEF Unfinished
<1>11. ASSUME NEW n \in Nodes, Caught(n) PROVE Goal
  <2>1. /\ pc[n] = "failed" /\ Set(n, entered[n]) /\ Continues(n) /\ entered' = entered
        /\ pc'[n] = "over" /\ \A m \in All \ {n} : pc'[m] = pc[m]
        /\ Memoise(n, rec[n].from)
    BY <1>0, <1>w, <1>11 DEF Caught
  <2>2. /\ rec'[n] = [status |-> "completed", body |-> entered[n], from |-> rec[n].from]
        /\ \A m \in Nodes \ {n} : rec'[m] = rec[m]
        /\ rec' = [m \in Nodes |-> rec'[m]]
    BY <2>1, <1>d DEF Memoise
  <2>3. Free(n) BY <1>l, <1>a, <2>1 DEF Unfinished
  <2>4. rec'[n] \in Records BY <2>2, <1>d, <1>r DEF Records
  <2>5. n \in Leaves
    <3>1. Parent(n) \in Fans BY <2>1 DEF Continues
    <3>2. n \notin Roots BY <3>1, Names, Family DEF Nodes
    <3> QED BY <3>1, <3>2, Family
  <2>6. /\ DOMAIN rec'[n].from \subseteq DOMAIN rec[n].from \cup DOMAIN env
        /\ \A d \in DOMAIN rec'[n].from : Completed(d) /\ Output(d) = rec'[n].from[d]
        /\ rec'[n].status = "completed" /\ n \notin Containers /\ rec'[n].body = entered[n]
    BY <2>2, <2>5, <1>b, <1>0
  <2> QED BY <1>e, <1>r, <2>1, <2>2, <2>3, <2>4, <2>6 DEF Unfinished
<1>12. ASSUME NEW n \in Nodes, Fail(n) \/ Unsaved(n) \/ FailUp(n) PROVE Goal
  <2>1. /\ pc[n] \in {"work", "enter", "leave", "wait"} /\ env' = env /\ entered' = entered
        /\ pc'[n] = "failed" /\ \A m \in All \ {n} : pc'[m] = pc[m]
        /\ rec' = [rec EXCEPT ![n].status = "failed"]
    BY <1>0, <1>w, <1>12 DEF Fail, Unsaved, FailUp, Failed
  <2>2. /\ rec'[n] = [status |-> "failed", body |-> rec[n].body, from |-> rec[n].from]
        /\ \A m \in Nodes \ {n} : rec'[m] = rec[m]
        /\ rec' = [m \in Nodes |-> rec'[m]]
    <3>1. rec[n] = [status |-> rec[n].status, body |-> rec[n].body, from |-> rec[n].from]
      BY <1>d DEF Records
    <3> QED BY <2>1, <1>d, <3>1
  <2>3. Free(n) BY <1>l, <2>1 DEF Underway
  <2>4. rec'[n] \in Records BY <2>2, <1>d DEF Records
  <2>5. /\ DOMAIN rec'[n].from \subseteq DOMAIN rec[n].from \cup DOMAIN env
        /\ \A d \in DOMAIN rec'[n].from : Completed(d) /\ Output(d) = rec'[n].from[d]
        /\ rec'[n].status = "failed"
    BY <2>2, <1>b
  <2> QED BY <1>e, <1>r, <2>1, <2>2, <2>3, <2>4, <2>5 DEF Finished
<1>13. CASE CrashAndLoad
  <2>1. /\ rec' = disk /\ env' = <<>> /\ entered' = entered
        /\ \A n \in Nodes : pc'[n] = "idle"
    BY <1>0, <1>w, <1>13 DEF CrashAndLoad
  <2>2. env' \in Outputs /\ DOMAIN env' = {}
    <3>1. DOMAIN <<>> = {} /\ <<>> = [d \in {} |-> <<>>[d]] OBVIOUS
    <3> QED BY <2>1, <3>1, OutputsFacts
  <2>3. Linked' BY <2>1, <2>2 DEF Linked, Finished, Unfinished, Underway
  <2> QED BY <1>r, <2>1, <2>2, <2>3 DEF Goal
<1>14. CASE Walk \/ NextRoot \/ Finish \/ Resume \/ StartPaused
  <2>1. /\ \A m \in All \ {Runner} : pc'[m] = pc[m]
        /\ rec' = rec /\ env' = env /\ entered' = entered
    BY <1>0, <1>w, <1>14 DEF Walk, NextRoot, Finish, Resume, StartPaused, Begin, session
  <2>2. Nodewise BY <1>0, <2>1
  <2> QED BY <2>1, <2>2, <1>n
<1>15. ASSUME Written(Runner) \/ Wake(Runner) PROVE Goal
  <2>1. /\ \A m \in All \ {Runner} : pc'[m] = pc[m]
        /\ rec' = rec /\ env' = env /\ entered' = entered
    BY <1>0, <1>w, <1>15 DEF Written, Wake
  <2>2. Nodewise BY <1>0, <2>1
  <2> QED BY <2>1, <2>2, <1>n
<1>16. CASE LateWrite \/ Pause \/ Done \/ UNCHANGED vars \/ \E n \in All : Fold(n)
  <2>1. pc' = pc /\ rec' = rec /\ env' = env /\ entered' = entered
    BY <1>16 DEF LateWrite, Pause, Done, vars, session, Fold
  <2>2. Nodewise BY <2>1
  <2> QED BY <2>1, <2>2, <1>n
<1>17. CASE Progress
  <2>1. CASE \E n \in Nodes : NodeStep(n)
    BY <2>1, <1>1, <1>2, <1>3, <1>6, <1>7, <1>8, <1>9, <1>10, <1>11, <1>12 DEF NodeStep
  <2>2. CASE \E n \in All : Fold(n) \/ Written(n) \/ Wake(n)
    BY <2>2, <1>0, <1>4, <1>5, <1>15, <1>16
  <2> QED BY <1>17, <2>1, <2>2, <1>14, <1>16 DEF Progress, All
<1> QED BY <1>12, <1>13, <1>14, <1>16, <1>17 DEF Next

LEMMA RecordsInit == Init => RecordsInv
<1> SUFFICES ASSUME Init PROVE RecordsInv OBVIOUS
<1>1. /\ rec = [n \in Nodes |-> NewRecord] /\ disk = rec /\ late = {}
      /\ write.by = "none" /\ env = <<>> /\ entered = [n \in Nodes |-> 0]
  BY DEF Init, NoWrite
<1>2. \A n \in Nodes : pc[n] = "idle" BY Names DEF Init
<1>3. DOMAIN <<>> = {} /\ <<>> = [d \in {} |-> <<>>[d]] OBVIOUS
<1>4. <<>> \in Outputs BY <1>3, OutputsFacts
<1>5. NewRecord \in Records BY <1>4 DEF NewRecord, Records
<1>6. rec \in Document BY <1>1, <1>5 DEF Document
<1>7. \A n \in Nodes : rec[n].status = "none" /\ DOMAIN rec[n].from = {}
  BY <1>1, <1>3 DEF NewRecord
<1>8. Sound(rec) BY <1>7 DEF Sound, Containers, Nodes
<1>9. Linked BY <1>1, <1>2, <1>3 DEF Linked, Finished, Unfinished, Underway
<1>10. Documents = {rec} BY <1>1 DEF Documents
<1> QED BY <1>1, <1>4, <1>6, <1>8, <1>9, <1>10 DEF RecordsInv, RecordType

\* What the memo, the file and the checkpoints on their way to it hold (_memoised,
\* save_node, SessionStore): of any document, what a record was computed from is in it,
\* and of the outputs that can be read every one is on record.
THEOREM RecordsHold == Spec => []RecordsInv
<1>1. WalkInv /\ RecordsInv /\ [Next]_vars => RecordsInv'
  <2> SUFFICES ASSUME WalkInv, RecordsInv, [Next]_vars PROVE RecordsInv' OBVIOUS
  <2>1. Documents' \subseteq Documents \cup {rec'} BY DocumentsStep
  <2>2. /\ Sound(rec') /\ Linked'
        /\ env' \in Outputs /\ rec' \in Document /\ entered' \in [Nodes -> Nat]
    BY RecordsStep
  <2>3. Documents' \subseteq Document BY <2>1, <2>2 DEF RecordsInv, RecordType
  <2>4. \A r \in Documents' : Sound(r)
    <3> TAKE r \in Documents'
    <3>1. r \in Documents \/ r = rec' BY <2>1
    <3> QED BY <3>1, <2>2 DEF RecordsInv
  <2> QED BY <2>2, <2>3, <2>4 DEF RecordsInv, RecordType
<1> QED BY <1>1, RecordsInit, WalkHolds, PTL DEF Spec

(***************************************************************************)
(* The inputs.                                                             *)
(***************************************************************************)
GraphInv ==
    /\ graph \in Graphs /\ Compiles(graph.wiring)
    /\ order = TopologicalOrder(graph.wiring)

LEMMA GraphHolds == Spec => []GraphInv
<1>1. Init => GraphInv BY DEF Init, GraphInv
<1>2. GraphInv /\ [Next]_vars => GraphInv' BY Fixed DEF GraphInv
<1> QED BY <1>1, <1>2, PTL DEF Spec

\* With a node's record completed, those of all nodes below it are.
LEMMA WholeBelow ==
    ASSUME Sound(rec), NEW t \in Nodes, Completed(t)
    PROVE  \A x \in Below[t] : Completed(x)
<1> DEFINE S == {n \in Nodes : Completed(n) => \A x \in Below[n] : Completed(x)}
<1>1. ASSUME NEW n \in Nodes, ChildrenOf(n) \subseteq S PROVE n \in S
  <2> SUFFICES ASSUME Completed(n), NEW x \in Below[n] PROVE Completed(x) OBVIOUS
  <2>1. \A c \in ChildrenOf(n) : Completed(c)
    <3> TAKE c \in ChildrenOf(n)
    <3>1. n \in Containers BY DEF ChildrenOf
    <3>2. c \in DOMAIN rec[n].from BY <3>1 DEF Sound, Completed
    <3> QED BY <3>2 DEF Sound, Completed
  <2>2. CASE x \in ChildrenOf(n) BY <2>1, <2>2
  <2>3. CASE x \notin ChildrenOf(n)
    <3>1. PICK c \in ChildrenOf(n) : x \in Below[c] BY <2>3, BelowIs
    <3> QED BY <1>1, <2>1, <3>1
  <2> QED BY <2>2, <2>3
<1> HIDE DEF S
<1>2. S \subseteq Nodes BY DEF S
<1>3. S = Nodes BY <1>1, <1>2, Inward
<1> QED BY <1>3 DEF S

\* The output of a node that is over can be read, and so can that of a node below
\* it, unless the memo had the output of what it is in.
LEMMA OverIsRead ==
    ASSUME RecordsInv, NEW t \in Nodes, pc[t] = "over",
           NEW d, d = t \/ d \in Below[t], d \notin DOMAIN env
    PROVE  d \notin Roots /\ Completed(Parent(d))
<1>1. Sound(rec) /\ Linked BY DEF RecordsInv, Documents
<1>2. t \in DOMAIN env /\ Completed(t) BY <1>1 DEF Linked
<1>3. d \in Below[t] /\ d \notin Roots BY <1>2, BelowFacts
<1>4. \A x \in Below[t] : Completed(x) BY <1>1, <1>2, WholeBelow
<1>5. Parent(d) = t \/ Parent(d) \in Below[t] BY <1>3, BelowFacts
<1> QED BY <1>2, <1>3, <1>4, <1>5

LEMMA InputsAreReady == ASSUME WalkInv, GraphInv, RecordsInv PROVE InputsReady
<1> SUFFICES ASSUME NEW n \in Nodes, Turn(n), NEW d \in Missing(n)
             PROVE  d \notin Roots /\ Completed(Parent(d))
  BY DEF InputsReady
<1>1. d \in graph.wiring[n] /\ d \notin DOMAIN env BY DEF Missing
<1>2. graph.wiring \in [Nodes -> SUBSET Nodes] /\ d \in Nodes
  <2>1. graph.wiring \in [Nodes -> SUBSET Nodes] BY WorkflowAssumption DEF GraphInv
  <2> QED BY <2>1, <1>1
<1>3. CASE n \in Roots
  <2>1. Parent(n) = Runner /\ Runner \notin Fans BY <1>3, Family, Names DEF Nodes
  <2>2. pc[Runner] = "wait" /\ n = order[at] BY <1>3, <2>1 DEF Turn
  <2>3. at \in DOMAIN order /\ \A j \in 1 .. at - 1 : j \in DOMAIN order /\ pc[order[j]] = "over"
    BY <2>2 DEF WalkInv
  <2>4. InOrder(graph.wiring, order, Roots) BY Compiled DEF GraphInv
  <2>5. PICK j \in 1 .. at - 1 : Top[d] = order[j]
    BY <1>1, <1>2, <2>2, <2>3, <2>4, TopFacts DEF InOrder
  <2>6. pc[Top[d]] = "over" /\ Top[d] \in Nodes BY <2>3, <2>5, <1>2, TopFacts, Names
  <2> QED BY <1>1, <1>2, <2>6, TopFacts, OverIsRead
<1>4. CASE n \notin Roots /\ Parent(n) \in Fans
  <2>1. n \in Range(Children[Parent(n)])
    BY <1>4, Family DEF ChildrenOf, Containers
  <2>2. graph.wiring[n] = {} BY <1>4, <2>1, InnerAssumption DEF GraphInv
  <2> QED BY <1>1, <2>2
<1>5. CASE n \notin Roots /\ Parent(n) \notin Fans
  <2> DEFINE s == Parent(n)
             line == Children[s]
             i == CHOOSE k \in DOMAIN line : line[k] = n
  <2>1. s \in Subgraphs /\ n \in Range(line)
    BY <1>5, Family DEF ChildrenOf, Containers
  <2>2. i \in DOMAIN line /\ line[i] = n BY <2>1 DEF Range
  <2>3. \A m \in Before(n) : pc[m] = "over" BY <1>5 DEF Turn
  <2>4. Before(n) = {line[j] : j \in 1 .. i - 1} BY DEF Before
  <2>5. line \in Seq(Nodes \ Roots) BY <2>1, TreeAssumption DEF Containers
  <2> HIDE DEF i, line
  <2>6. PICK j \in 1 .. i - 1 : d = line[j] \/ d \in Below[line[j]]
    BY <1>1, <2>1, <2>2, InnerAssumption DEF GraphInv, line
  <2>7. line[j] \in Nodes
    <3>1. i \in 1 .. Len(line) /\ Len(line) \in Nat BY <2>2, <2>5
    <3>2. j \in 1 .. Len(line) BY <3>1, <2>6
    <3> QED BY <3>2, <2>5
  <2>8. pc[line[j]] = "over" BY <2>3, <2>4, <2>6
  <2> QED BY <1>1, <2>6, <2>7, <2>8, OverIsRead
<1> QED BY <1>3, <1>4, <1>5

\* A node finds every output its input names when its turn comes, unless the memo
\* had the output of what contains it; and the outputs on record, in memory and
\* in the file, were computed from the very outputs recorded with them.
THEOREM InputsAreHeld == Spec => []InputsHold
<1>1. RecordsInv => MemoAgrees
  <2> SUFFICES ASSUME RecordsInv PROVE MemoAgrees OBVIOUS
  <2>1. Sound(rec) /\ Sound(disk) BY DEF RecordsInv, Documents
  <2> QED BY <2>1 DEF MemoAgrees, Agrees, Sound
<1>2. WalkInv /\ GraphInv /\ RecordsInv => InputsHold
  BY <1>1, InputsAreReady DEF InputsHold
<1> QED BY <1>2, WalkHolds, GraphHolds, RecordsHold, PTL

(***************************************************************************)
(* One walk through the tree.                                              *)
(***************************************************************************)
\* What is begun has its parent waiting for it, no root but the one the walk has
\* come to is under way, and a subgraph's nodes are begun in their order.
TreeInv ==
    /\ \A n \in Nodes : pc[n] \in Active => pc[Parent(n)] = "wait"
    /\ \A n \in Roots : pc[n] \notin {"idle", "over"} =>
         at \in DOMAIN order /\ n = order[at]
    /\ \A s \in Subgraphs : \A i, j \in DOMAIN Children[s] :
         j < i /\ pc[Children[s][i]] # "idle" => pc[Children[s][j]] = "over"

\* The nodes of a subgraph are each in one place.
LEMMA Places ==
    ASSUME NEW s \in Subgraphs
    PROVE  /\ ChildrenOf(s) = {Children[s][i] : i \in DOMAIN Children[s]}
           /\ \A i \in DOMAIN Children[s] : Children[s][i] \in ChildrenOf(s)
           /\ \A i, j \in DOMAIN Children[s] : Children[s][i] = Children[s][j] => i = j
           /\ DOMAIN Children[s] \subseteq Nat
<1>1. s \in Containers BY DEF Containers
<1>2. Children[s] \in Seq(Nodes \ Roots) BY <1>1, TreeAssumption
<1> QED BY <1>1, <1>2, TreeAssumption DEF ChildrenOf, Range

\* A node of a subgraph whose turn it is finds those before it over.
LEMMA TurnInOrder ==
    ASSUME NEW s \in Subgraphs, NEW i \in DOMAIN Children[s], Turn(Children[s][i])
    PROVE  /\ pc[s] = "wait" /\ pc[Children[s][i]] = "idle"
           /\ \A j \in DOMAIN Children[s] : j < i => pc[Children[s][j]] = "over"
<1> DEFINE n == Children[s][i]
           line == Children[s]
           k == CHOOSE h \in DOMAIN line : line[h] = n
<1>1. n \in ChildrenOf(s) /\ s \in Containers /\ s \notin Fans
  BY Places, Names DEF Containers
<1>2. Parent(n) = s /\ n \notin Roots BY <1>1, Family DEF Containers, Nodes
<1>3. k \in DOMAIN line /\ line[k] = n OBVIOUS
<1>4. k = i BY <1>3, Places
<1>5. Before(n) = {line[j] : j \in 1 .. i - 1} BY <1>2, <1>4 DEF Before
<1>6. pc[s] = "wait" /\ pc[n] = "idle" /\ \A m \in Before(n) : pc[m] = "over"
  BY <1>1, <1>2 DEF Turn
<1>7. ASSUME NEW j \in DOMAIN line, j < i PROVE pc[line[j]] = "over"
  <2>1. line \in Seq(Nodes \ Roots) BY <1>1, TreeAssumption
  <2>2. j \in 1 .. i - 1 BY <1>7, <2>1
  <2> QED BY <1>5, <1>6, <2>2
<1> QED BY <1>6, <1>7

LEMMA TreeStep == ASSUME WalkInv, TreeInv, [Next]_vars PROVE TreeInv'
<1>0. /\ \A n \in Nodes : n \in All /\ n # Runner
      /\ Runner \in All /\ All = Nodes \cup {Runner}
      /\ Roots \subseteq Nodes
      /\ \A n \in Leaves : n \in Nodes /\ ChildrenOf(n) = {}
      /\ \A c \in Containers : c \in Nodes
      /\ Fans \subseteq Containers /\ Subgraphs \subseteq Containers
      /\ \A f \in Fans : f \notin Subgraphs /\ f \notin Leaves
  BY Names, Family DEF All, Nodes, Containers
<1>1. /\ \A n \in Nodes \ Roots : Parent(n) \in Containers /\ n \in ChildrenOf(Parent(n))
      /\ \A n \in Roots : Parent(n) = Runner
      /\ \A c \in Containers : \A n \in ChildrenOf(c) :
           Parent(n) = c /\ n \in Nodes \ Roots
      /\ \A f \in Fans : ChildrenOf(f) \subseteq Leaves
  BY Family, <1>0
<1>2. graph' = graph /\ order' = order BY Fixed
<1>w. /\ \A m \in Leaves : pc[m] # "wait"
      /\ pc[Runner] = "wait" => at \in DOMAIN order
      /\ \A c \in Containers : pc[c] \in Early => \A m \in ChildrenOf(c) : pc[m] = "idle"
  BY DEF WalkInv
<1>t. /\ \A n \in Nodes : pc[n] \in Active => pc[Parent(n)] = "wait"
      /\ \A n \in Roots : pc[n] \notin {"idle", "over"} =>
           at \in DOMAIN order /\ n = order[at]
      /\ \A s \in Subgraphs : \A i, j \in DOMAIN Children[s] :
           j < i /\ pc[Children[s][i]] # "idle" => pc[Children[s][j]] = "over"
  BY DEF TreeInv
<1>k. \/ Stands \/ RunnerMoves \/ Restarts
      \/ \E n \in Nodes : NodeMoves(n)
      \/ \E f \in Fans : FanOpens(f) \/ FanAborts(f)
  BY Kinds
<1> DEFINE Goal ==
      /\ \A n \in Nodes : pc'[n] \in Active => pc'[Parent(n)] = "wait"
      /\ \A n \in Roots : pc'[n] \notin {"idle", "over"} =>
           at' \in DOMAIN order /\ n = order[at']
      /\ \A s \in Subgraphs : \A i, j \in DOMAIN Children[s] :
           j < i /\ pc'[Children[s][i]] # "idle" => pc'[Children[s][j]] = "over"
<1> SUFFICES Goal BY <1>2 DEF TreeInv
<1>s. \A s \in Subgraphs : \A i \in DOMAIN Children[s] :
        Children[s][i] \in ChildrenOf(s) /\ Children[s][i] \in Nodes
  BY <1>0, <1>1, Places
<1>3. ASSUME Stands PROVE Goal BY <1>3, <1>t DEF Stands
<1>4. ASSUME Restarts PROVE Goal
  <2>1. \A n \in Nodes : pc'[n] = "idle" BY <1>4, <1>0 DEF Restarts
  <2> QED BY <2>1, <1>0, <1>s DEF Active, Underway
<1>5. ASSUME RunnerMoves PROVE Goal
  <2>1. \A n \in Nodes : pc'[n] = pc[n] BY <1>5 DEF RunnerMoves
  <2>2. ASSUME NEW n \in Nodes, pc'[n] \in Active PROVE pc'[Parent(n)] = "wait"
    <3>1. pc[n] \in Active /\ pc[Parent(n)] = "wait" BY <2>1, <2>2, <1>t
    <3>2. CASE n \in Roots
      <4>1. pc[Runner] = "wait" BY <3>1, <3>2, <1>1
      <4>2. n = order[at] /\ pc[n] \notin {"over", "failed"}
        BY <3>1, <3>2, <1>t DEF Active, Underway
      <4> QED BY <1>5, <4>1, <4>2, <3>2, <1>1 DEF RunnerMoves
    <3>3. CASE n \notin Roots BY <2>1, <3>1, <3>3, <1>0, <1>1
    <3> QED BY <3>2, <3>3
  <2>3. ASSUME NEW n \in Roots, pc'[n] \notin {"idle", "over"}
        PROVE  at' \in DOMAIN order /\ n = order[at']
    <3>1. pc[n] \notin {"idle", "over"} BY <2>1, <2>3, <1>0
    <3>2. at \in DOMAIN order /\ n = order[at] BY <3>1, <1>t
    <3>3. at' = at BY <1>5, <3>1, <3>2 DEF RunnerMoves
    <3> QED BY <3>2, <3>3
  <2>4. \A s \in Subgraphs : \A i \in DOMAIN Children[s] :
          pc'[Children[s][i]] = pc[Children[s][i]]
    BY <2>1, <1>s
  <2> QED BY <2>2, <2>3, <2>4, <1>t
\* An order that holds among the nodes that a step leaves alone.
<1>o. ASSUME \A m \in Nodes : pc[m] = "over" => pc'[m] = "over",
             \A s \in Subgraphs : \A i \in DOMAIN Children[s] :
                LET n == Children[s][i] IN pc'[n] # "idle" => pc[n] # "idle" \/ Turn(n)
      PROVE  \A s \in Subgraphs : \A i, j \in DOMAIN Children[s] :
               j < i /\ pc'[Children[s][i]] # "idle" => pc'[Children[s][j]] = "over"
  <2> SUFFICES ASSUME NEW s \in Subgraphs, NEW i \in DOMAIN Children[s],
                      NEW j \in DOMAIN Children[s], j < i, pc'[Children[s][i]] # "idle"
               PROVE  pc'[Children[s][j]] = "over"
    OBVIOUS
  <2>1. pc[Children[s][i]] # "idle" \/ Turn(Children[s][i]) BY <1>o
  <2>2. pc[Children[s][j]] = "over" BY <2>1, <1>t, TurnInOrder
  <2> QED BY <2>2, <1>o, <1>s
<1>6. ASSUME NEW n \in Nodes, NodeMoves(n) PROVE Goal
  <2>1. /\ \A m \in All \ {n} : pc'[m] = pc[m]
        /\ at' = at
    BY <1>6 DEF NodeMoves
  <2>2. /\ pc[n] # "over"
        /\ pc'[n] \in Active => pc[n] \in Active \/ Turn(n)
        /\ pc[n] = "idle" => Turn(n)
        /\ pc[n] = "wait" /\ pc'[n] # "wait" =>
             n \in Containers /\ \A m \in ChildrenOf(n) : pc[m] \notin Active
    <3>1. ChildrenOf(n) \subseteq Below[n] BY BelowFacts
    <3> QED BY <1>6, <3>1 DEF NodeMoves, Active, Underway, Turn
  <2>3. Turn(n) => pc[Parent(n)] = "wait" BY <1>t DEF Turn, Active
  <2>4. ASSUME NEW m \in Nodes, pc'[m] \in Active PROVE pc'[Parent(m)] = "wait"
    <3>1. pc[Parent(m)] = "wait" /\ (m # n => pc[m] \in Active)
      BY <2>1, <2>2, <2>3, <2>4, <1>0, <1>t
    <3>2. CASE Parent(m) # n
      <4>1. Parent(m) \in All BY <1>0, <1>1
      <4> QED BY <2>1, <3>1, <3>2, <4>1
    <3>3. CASE Parent(m) = n
      <4>1. n \in Containers /\ m \in ChildrenOf(n) BY <3>3, <1>0, <1>1
      <4>2. m # n
        <5>1. CASE m = n
          <6>1. ~ Turn(n) BY <3>1, <3>3, <5>1 DEF Turn
          <6>2. pc'[n] = "wait" BY <2>2, <3>1, <3>3, <4>1, <5>1 DEF Active, Underway
          <6>3. pc[n] = pc'[n] BY <3>1, <3>3, <6>2
          <6> QED BY <1>6, <6>1, <6>2, <6>3 DEF NodeMoves
        <5> QED BY <5>1
      <4> QED BY <2>2, <3>1, <3>3, <4>1, <4>2
    <3> QED BY <3>2, <3>3
  <2>5. ASSUME NEW m \in Roots, pc'[m] \notin {"idle", "over"}
        PROVE  at' \in DOMAIN order /\ m = order[at']
    <3>1. CASE pc[m] \notin {"idle", "over"} BY <3>1, <2>1, <1>t
    <3>2. CASE pc[m] \in {"idle", "over"}
      <4>1. m = n BY <2>1, <2>5, <3>2, <1>0
      <4>2. Turn(n) /\ Parent(n) = Runner BY <2>2, <3>2, <4>1, <1>1
      <4>3. Runner \notin Fans BY Names DEF Nodes
      <4>4. n = order[at] /\ pc[Runner] = "wait" BY <4>1, <4>2, <4>3 DEF Turn
      <4> QED BY <4>1, <4>4, <2>1, <1>w
    <3> QED BY <3>1, <3>2
  <2>6. \A m \in Nodes : pc[m] = "over" => pc'[m] = "over" BY <2>1, <2>2, <1>0
  <2>7. \A m \in Nodes : pc'[m] # "idle" => pc[m] # "idle" \/ Turn(m)
    BY <2>1, <2>2, <1>0
  <2> QED BY <2>4, <2>5, <2>6, <2>7, <1>o, <1>s
<1>7. ASSUME NEW f \in Fans, FanOpens(f) PROVE Goal
  <2>1. /\ pc[f] = "work" /\ pc'[f] = "wait" /\ at' = at
        /\ \A m \in ChildrenOf(f) : pc'[m] = "queued" /\ pc[m] = "idle"
        /\ \A m \in All \ ({f} \cup ChildrenOf(f)) : pc'[m] = pc[m]
    BY <1>7, <1>0, <1>w DEF FanOpens, Early
  <2>2. f \in Nodes /\ f \in Containers /\ ChildrenOf(f) \subseteq Leaves BY <1>0, <1>1
  <2>3. ASSUME NEW m \in Nodes, pc'[m] \in Active PROVE pc'[Parent(m)] = "wait"
    <3>1. CASE m \in ChildrenOf(f) BY <3>1, <2>1, <2>2, <1>1
    <3>2. CASE m \notin ChildrenOf(f)
      <4>1. pc[m] \in Active BY <2>1, <2>3, <3>2, <1>0 DEF Active, Underway
      <4>2. pc[Parent(m)] = "wait" /\ Parent(m) \in All BY <4>1, <1>0, <1>1, <1>t
      <4>3. Parent(m) # f /\ Parent(m) \notin ChildrenOf(f) BY <4>2, <2>1
      <4> QED BY <2>1, <4>2, <4>3
    <3> QED BY <3>1, <3>2
  <2>4. \A m \in Nodes : pc[m] = "over" => pc'[m] = "over" BY <2>1, <1>0
  <2>5. \A m \in Roots : m \notin ChildrenOf(f) BY <2>2, <1>1
  <2>6. \A m \in Roots : pc'[m] \notin {"idle", "over"} =>
          at' \in DOMAIN order /\ m = order[at']
    BY <2>1, <2>5, <1>0, <1>t
  <2>7. \A s \in Subgraphs : \A i \in DOMAIN Children[s] : Children[s][i] \notin ChildrenOf(f)
    BY <1>0, <1>1, <1>s
  <2>8. \A s \in Subgraphs : \A i \in DOMAIN Children[s] :
          pc'[Children[s][i]] # "idle" => pc[Children[s][i]] # "idle"
    BY <2>1, <2>7, <1>0, <1>s
  <2> QED BY <2>3, <2>4, <2>6, <2>8, <1>o
<1>8. ASSUME NEW f \in Fans, FanAborts(f) PROVE Goal
  <2>1. /\ \A m \in All : \/ pc'[m] = pc[m]
                          \/ m \in ChildrenOf(f) /\ pc[m] \in Active /\ pc'[m] = "cancelled"
        /\ at' = at
    BY <1>8 DEF FanAborts
  <2>2. ChildrenOf(f) \subseteq Leaves /\ f \in Containers BY <1>0, <1>1
  <2>3. ASSUME NEW m \in Nodes, pc'[m] \in Active PROVE pc'[Parent(m)] = "wait"
    <3>1. pc[m] \in Active BY <2>1, <2>3, <1>0 DEF Active, Underway
    <3>2. pc[Parent(m)] = "wait" /\ Parent(m) \in All BY <3>1, <1>0, <1>1, <1>t
    <3>3. Parent(m) \notin Leaves BY <3>2, <1>w
    <3> QED BY <2>1, <2>2, <3>2, <3>3
  <2>4. \A m \in Nodes : pc[m] = "over" => pc'[m] = "over"
    BY <2>1, <1>0 DEF Active, Underway
  <2>5. \A m \in Nodes : pc'[m] # "idle" => pc[m] # "idle"
    BY <2>1, <1>0 DEF Active, Underway
  <2>6. \A m \in Roots : pc'[m] = pc[m] BY <2>1, <2>2, <1>0, <1>1
  <2>7. \A m \in Roots : pc'[m] \notin {"idle", "over"} =>
          at' \in DOMAIN order /\ m = order[at']
    BY <2>1, <2>6, <1>t
  <2> QED BY <2>3, <2>4, <2>5, <2>7, <1>o, <1>s
<1> HIDE DEF Goal
<1> QED BY <1>k, <1>3, <1>4, <1>5, <1>6, <1>7, <1>8

\* The runner walks one root at a time and a subgraph's nodes in their order: whatever
\* is under way has everything that contains it waiting for it.
THEOREM TreeHolds == Spec => []TreeInv
<1>1. Init => TreeInv
  <2> SUFFICES ASSUME Init PROVE TreeInv OBVIOUS
  <2>1. \A n \in Nodes : pc[n] = "idle" BY Names DEF Init
  <2>2. \A s \in Subgraphs : \A i \in DOMAIN Children[s] : Children[s][i] \in Nodes
    BY Places, Family DEF Nodes
  <2> QED BY <2>1, <2>2, Names DEF TreeInv, Active, Underway
<1>2. WalkInv /\ TreeInv /\ [Next]_vars => TreeInv' BY TreeStep
<1> QED BY <1>1, <1>2, WalkHolds, PTL DEF Spec

(***************************************************************************)
(* What was kept.                                                          *)
(***************************************************************************)
Keeps(r) == \A n \in kept : r[n].status = "completed"

\* Where a node is whose completion was written.
Resting == {"idle", "queued", "parked_out", "exit", "over", "cancelled"}

\* A branch failed while the checkpoint of another was being written: all that is
\* left to happen is that the failure climbs to the root.
Stuck ==
    /\ graph.policy # "continue"
    /\ \A n \in Nodes : pc[n] \in {"idle", "over", "failed", "cancelled", "wait"}
    /\ \A c \in Containers : pc[c] = "wait" =>
         \E m \in ChildrenOf(c) : pc[m] \in {"wait", "failed"}
    /\ \/ pc[Runner] = "wait" /\ pc[order[at]] \in {"wait", "failed"}
       \/ pc[Runner] \in {"end", "over"}

KeptInv ==
    /\ kept \subseteq Nodes
    /\ \A r \in Documents : Keeps(r)
    /\ \A n \in Nodes : write.by = n /\ pc[n] = "leave" => write.data[n].status = "completed"
    /\ \A n \in kept : pc[n] \in Resting
    /\ late # {} => Stuck

LEMMA NobodysTurn ==
    ASSUME WalkInv, TreeInv, Stuck, NEW n \in Nodes
    PROVE  ~Turn(n)
<1> SUFFICES ASSUME Turn(n) PROVE FALSE OBVIOUS
<1>1. pc[n] = "idle" /\ Parent(n) \notin Fans /\ pc[Parent(n)] = "wait"
  BY DEF Turn, Stuck
<1>2. CASE n \in Roots
  <2>1. Parent(n) = Runner BY <1>2, Family
  <2>2. n = order[at] BY <1>1, <1>2 DEF Turn
  <2> QED BY <1>1, <2>1, <2>2 DEF Stuck
<1>3. CASE n \notin Roots
  <2> DEFINE s == Parent(n)
  <2>1. s \in Subgraphs /\ s \in Containers /\ n \in ChildrenOf(s)
    BY <1>1, <1>3, Family DEF Containers
  <2>2. PICK m \in ChildrenOf(s) : pc[m] \in {"wait", "failed"} BY <1>1, <2>1 DEF Stuck
  <2> HIDE DEF s
  <2>3. PICK i \in DOMAIN Children[s] : Children[s][i] = n BY <2>1, Places
  <2>4. PICK j \in DOMAIN Children[s] : Children[s][j] = m BY <2>1, <2>2, Places
  <2>5. i \in Nat /\ j \in Nat /\ i # j BY <1>1, <2>1, <2>2, <2>3, <2>4, Places
  <2>6. Turn(Children[s][i]) BY <2>3
  <2>7. j < i => pc[m] = "over" BY <2>1, <2>3, <2>4, <2>6, TurnInOrder
  <2>8. i < j => pc[n] = "over" BY <2>1, <2>2, <2>3, <2>4 DEF TreeInv
  <2> QED BY <1>1, <2>2, <2>5, <2>7, <2>8
<1> QED BY <1>2, <1>3

LEMMA StaysStuck ==
    ASSUME WalkInv, TreeInv, Stuck, [Next]_vars, ~CrashAndLoad
    PROVE  Stuck' /\ \A n \in Nodes : pc'[n] # pc[n] => pc[n] = "wait" /\ pc'[n] = "failed"
<1>0. /\ \A n \in Nodes : n \in All /\ n # Runner
      /\ Runner \in All /\ All = Nodes \cup {Runner}
      /\ \A c \in Containers : c \in Nodes /\ ChildrenOf(c) \subseteq Nodes
      /\ \A f \in Fans : f \in Nodes /\ f \in Containers /\ ChildrenOf(f) \subseteq Leaves
  BY Names, Family DEF All, Nodes, Containers
<1>1. graph' = graph /\ order' = order BY Fixed
<1>w. /\ \A m \in Leaves : pc[m] # "wait"
      /\ pc[Runner] \in RunnerStages
      /\ pc[Runner] = "wait" => at \in DOMAIN order
      /\ order \in Seq(Nodes)
  BY DEF WalkInv, WalkType
<1>s. /\ graph.policy # "continue"
      /\ \A n \in Nodes : pc[n] \in {"idle", "over", "failed", "cancelled", "wait"}
      /\ \A c \in Containers : pc[c] = "wait" =>
           \E m \in ChildrenOf(c) : pc[m] \in {"wait", "failed"}
      /\ \/ pc[Runner] = "wait" /\ pc[order[at]] \in {"wait", "failed"}
         \/ pc[Runner] \in {"end", "over"}
  BY DEF Stuck
<1> DEFINE Goal == Stuck' /\ \A n \in Nodes : pc'[n] # pc[n] => pc[n] = "wait" /\ pc'[n] = "failed"
<1> SUFFICES Goal OBVIOUS
\* Nodes that wait fail; nothing else happens to nodes.
<1>n. ASSUME \A n \in Nodes : pc'[n] = pc[n] \/ (pc[n] = "wait" /\ pc'[n] = "failed"),
             \/ pc'[Runner] = pc[Runner] /\ at' = at
             \/ pc'[Runner] \in {"end", "over"}
      PROVE  Goal
  <2>1. \A n \in Nodes : pc'[n] \in {"idle", "over", "failed", "cancelled", "wait"}
    BY <1>n, <1>s
  <2>2. \A n \in Nodes : pc[n] \in {"wait", "failed"} => pc'[n] \in {"wait", "failed"}
    BY <1>n
  <2>3. \A c \in Containers : pc'[c] = "wait" =>
          \E m \in ChildrenOf(c) : pc'[m] \in {"wait", "failed"}
    BY <1>0, <1>n, <1>s, <2>2
  <2>4. \/ pc'[Runner] = "wait" /\ pc'[order[at']] \in {"wait", "failed"}
        \/ pc'[Runner] \in {"end", "over"}
    <3>1. pc[Runner] = "wait" => order[at] \in Nodes BY <1>w
    <3> QED BY <1>n, <1>s, <2>2, <3>1
  <2> QED BY <1>1, <1>n, <1>s, <2>1, <2>3, <2>4 DEF Stuck
<1> HIDE DEF Goal
<1>2. ASSUME Stands PROVE Goal BY <1>2, <1>n DEF Stands
<1>3. ASSUME RunnerMoves PROVE Goal
  <2>1. \A n \in Nodes : pc'[n] = pc[n] BY <1>3 DEF RunnerMoves
  <2>2. pc'[Runner] \in {"end", "over"} BY <1>3, <1>s DEF RunnerMoves
  <2> QED BY <2>1, <2>2, <1>n
<1>4. ASSUME NEW n \in Nodes, NodeMoves(n) PROVE Goal
  <2>1. ~Turn(n) BY NobodysTurn
  <2>2. ~Continues(n) BY <1>s DEF Continues
  <2>4. n \in Containers /\ pc[n] = "wait" => ~ \A m \in ChildrenOf(n) : pc[m] = "over"
    BY <1>s
  <2>5. pc[n] = "wait" /\ pc'[n] = "failed" BY <1>4, <1>s, <2>1, <2>2, <2>4 DEF NodeMoves
  <2>6. at' = at /\ \A m \in All \ {n} : pc'[m] = pc[m] BY <1>4 DEF NodeMoves
  <2>7. \A m \in Nodes : pc'[m] = pc[m] \/ (pc[m] = "wait" /\ pc'[m] = "failed")
    BY <2>5, <2>6, <1>0
  <2>8. pc'[Runner] = pc[Runner] BY <2>6, <1>0
  <2> QED BY <2>6, <2>7, <2>8, <1>n
<1>5. ASSUME NEW f \in Fans, FanOpens(f) \/ FanAborts(f) PROVE Goal
  <2>1. ~FanOpens(f) BY <1>0, <1>s DEF FanOpens
  <2>2. /\ at' = at
        /\ \A m \in All : \/ pc'[m] = pc[m]
                          \/ m \in ChildrenOf(f) /\ pc[m] \in Active
    BY <1>5, <2>1 DEF FanAborts
  <2>3. \A m \in ChildrenOf(f) : pc[m] \notin Active
    <3> TAKE m \in ChildrenOf(f)
    <3>1. m \in Leaves /\ m \in Nodes BY <1>0 DEF Nodes
    <3> QED BY <1>s, <1>w, <3>1 DEF Active, Underway
  <2>4. \A m \in All : pc'[m] = pc[m] BY <2>2, <2>3
  <2> QED BY <1>0, <1>n, <2>2, <2>4
<1>6. \/ Stands \/ RunnerMoves
      \/ \E n \in Nodes : NodeMoves(n)
      \/ \E f \in Fans : FanOpens(f) \/ FanAborts(f)
  BY KindsAlive
<1> QED BY <1>2, <1>3, <1>4, <1>5, <1>6


\* The branch that fails while another's checkpoint is being written leaves nothing
\* else under way: the nodes above the fan-out wait for it, and are the only ones.
LEMMA AbortStuck ==
    ASSUME WalkInv, TreeInv, NEW f \in Nodes, Abort(f)
    PROVE  Stuck'
<1>0. /\ \A n \in Nodes : n \in All /\ n # Runner
      /\ Runner \in All /\ All = Nodes \cup {Runner}
      /\ \A c \in Containers : c \in Nodes /\ c \notin Leaves
      /\ \A n \in Leaves : n \in Nodes
      /\ Fans \subseteq Containers /\ Subgraphs \subseteq Containers
      /\ Roots \subseteq Nodes
      /\ \A g \in Fans : g \notin Subgraphs
      /\ \A n \in Nodes : n \in Leaves \/ n \in Fans \/ n \in Subgraphs
  BY Names DEF All, Nodes, Containers
<1>1. /\ \A n \in Nodes \ Roots : Parent(n) \in Containers /\ n \in ChildrenOf(Parent(n))
      /\ \A n \in Roots : Parent(n) = Runner
      /\ \A c \in Containers : \A n \in ChildrenOf(c) :
           Parent(n) = c /\ n \in Nodes \ Roots
      /\ \A g \in Fans : ChildrenOf(g) \subseteq Leaves
  BY Family, <1>0
<1>w. /\ DOMAIN pc = All
      /\ \A m \in Leaves : pc[m] # "wait"
      /\ \A n \in Nodes : pc[n] \in NodeStages
  BY DEF WalkInv, WalkType
<1>t. /\ \A n \in Nodes : pc[n] \in Active => pc[Parent(n)] = "wait"
      /\ \A n \in Roots : pc[n] \notin {"idle", "over"} =>
           at \in DOMAIN order /\ n = order[at]
      /\ \A s \in Subgraphs : \A i, j \in DOMAIN Children[s] :
           j < i /\ pc[Children[s][i]] # "idle" => pc[Children[s][j]] = "over"
  BY DEF TreeInv
<1>f. f \in Fans /\ pc[f] = "wait" BY DEF Abort
<1>c. PICK c \in ChildrenOf(f) : pc[c] = "failed" /\ ~Continues(c) BY DEF Abort
<1>2. graph' = graph /\ order' = order /\ at' = at /\ graph.policy # "continue"
  BY <1>0, <1>1, <1>c, <1>f DEF Abort, Continues
<1>3. \A m \in All : pc'[m] = IF m \in ChildrenOf(f) /\ pc[m] \in Active
                              THEN "cancelled" ELSE pc[m]
  <2> DEFINE cut == {m \in Below[f] : pc[m] \in Underway \cup {"queued"}}
  <2>1. Below[f] = ChildrenOf(f) BY <1>f, BelowFacts
  <2>2. \A m : m \in cut <=> m \in ChildrenOf(f) /\ pc[m] \in Active BY <2>1 DEF Active
  <2>3. pc' = [m \in DOMAIN pc |-> IF m \in cut THEN "cancelled" ELSE pc[m]] BY DEF Abort
  <2> HIDE DEF cut
  <2> QED BY <2>2, <2>3, <1>w
<1> DEFINE P == {a \in Nodes : a = f \/ f \in Below[a]}
<1>4. \A a \in P \ {f} : a \in Containers /\ \E m \in ChildrenOf(a) : m \in P
  <2> TAKE a \in P \ {f}
  <2>1. f \in ChildrenOf(a) \/ \E m \in ChildrenOf(a) : f \in Below[m] BY BelowIs
  <2>2. ChildrenOf(a) \subseteq Nodes BY Family
  <2>3. a \in Containers BY <2>1 DEF ChildrenOf
  <2> QED BY <2>1, <2>2, <2>3
<1>5. f \in P /\ P \subseteq Nodes OBVIOUS
<1>top. Top[f] \in P /\ Top[f] \in Roots BY TopFacts, <1>0
<1> HIDE DEF P
\* All that contains the fan-out waits.
<1>6. \A a \in P : pc[a] = "wait"
  <2> DEFINE S == {a \in Nodes : a \in P => pc[a] = "wait"}
  <2>1. ASSUME NEW n \in Nodes, ChildrenOf(n) \subseteq S PROVE n \in S
    <3>1. CASE n \in P /\ n # f
      <4>1. PICK m \in ChildrenOf(n) : m \in P BY <3>1, <1>4
      <4>2. pc[m] = "wait" BY <4>1, <2>1
      <4>3. Parent(m) = n /\ m \in Nodes BY <3>1, <4>1, <1>1, <1>4
      <4> QED BY <4>2, <4>3, <1>t DEF Active, Underway
    <3> QED BY <3>1, <1>f
  <2> HIDE DEF S
  <2>2. S \subseteq Nodes BY DEF S
  <2>3. S = Nodes BY <2>1, <2>2, Inward
  <2> QED BY <2>3, <1>5 DEF S
\* Nothing else is under way but its branches.
<1>7. \A m \in Nodes : pc[m] \in Active => m \in P \/ m \in ChildrenOf(f)
  <2> DEFINE S == {m \in Nodes : pc[m] \in Active => m \in P \/ m \in ChildrenOf(f)}
  <2>1. Roots \subseteq S
    <3>1. Top[f] = order[at] BY <1>t, <1>6, <1>top
    <3>2. \A m \in Roots : pc[m] \in Active => m = order[at]
      BY <1>t DEF Active, Underway
    <3> QED BY <3>1, <3>2, <1>top, <1>0
  <2>2. ASSUME NEW m \in Nodes \ Roots, Parent(m) \in S PROVE m \in S
    <3> DEFINE p == Parent(m)
    <3> SUFFICES ASSUME pc[m] \in Active PROVE m \in P \/ m \in ChildrenOf(f) OBVIOUS
    <3>1. pc[p] = "wait" /\ p \in Containers /\ m \in ChildrenOf(p) BY <1>1, <1>t
    <3>2. p \in P
      <4>1. p \in P \/ p \in ChildrenOf(f) BY <3>1, <2>2 DEF Active, Underway
      <4>2. p \notin Leaves BY <3>1, <1>0
      <4> QED BY <4>1, <4>2, <1>1, <1>f
    <3>3. CASE p = f BY <3>1, <3>3
    <3>4. CASE p # f
      <4>1. PICK q \in ChildrenOf(p) : q \in P BY <3>2, <3>4, <1>4
      <4>2. pc[q] = "wait" /\ q \notin Leaves BY <4>1, <1>6, <1>w
      <4>3. p \in Subgraphs BY <3>1, <4>1, <4>2, <1>0, <1>1
      <4> HIDE DEF p
      <4>4. PICK i \in DOMAIN Children[p] : Children[p][i] = q BY <4>1, <4>3, Places
      <4>5. PICK j \in DOMAIN Children[p] : Children[p][j] = m BY <3>1, <4>3, Places
      <4>6. i \in Nat /\ j \in Nat BY <4>3, Places
      <4>7. pc[m] \notin {"idle", "over"} BY DEF Active, Underway
      <4>8. ~(i < j) /\ ~(j < i) BY <4>2, <4>3, <4>4, <4>5, <4>7, <1>t
      <4>9. i = j BY <4>6, <4>8
      <4> QED BY <4>1, <4>4, <4>5, <4>9
    <3> QED BY <3>3, <3>4
  <2> HIDE DEF S
  <2>3. S \subseteq Nodes BY DEF S
  <2>4. S = Nodes BY <2>1, <2>2, <2>3, Outward
  <2> QED BY <2>4 DEF S
<1>8. \A a \in P : pc'[a] = "wait"
  <2> TAKE a \in P
  <2>1. a \in Nodes /\ pc[a] = "wait" /\ a \notin Leaves BY <1>5, <1>6, <1>w
  <2>2. a \notin ChildrenOf(f) BY <2>1, <1>1, <1>f
  <2> QED BY <2>1, <2>2, <1>0, <1>3
<1>9. ASSUME NEW n \in Nodes
      PROVE  /\ pc'[n] \in {"idle", "over", "failed", "cancelled", "wait"}
             /\ pc'[n] = "wait" => n \in P \/ n \in Leaves
  <2>1. CASE n \in P BY <2>1, <1>8
  <2>2. CASE n \notin P /\ pc[n] \in Active
    <3>1. n \in ChildrenOf(f) BY <2>2, <1>7
    <3> QED BY <3>1, <2>2, <1>0, <1>3
  <2>3. CASE pc[n] \notin Active
    <3>1. pc'[n] = pc[n] BY <2>3, <1>0, <1>3
    <3> QED BY <2>3, <3>1, <1>w DEF NodeStages, Active, Underway
  <2> QED BY <2>1, <2>2, <2>3
<1>10. ASSUME NEW e \in Containers, pc'[e] = "wait"
       PROVE  \E m \in ChildrenOf(e) : pc'[m] \in {"wait", "failed"}
  <2>1. e \in P BY <1>0, <1>9, <1>10
  <2>2. CASE e = f
    <3>1. pc'[c] = "failed"
      <4>1. c \in All BY <1>0, <1>1, <1>f
      <4> QED BY <4>1, <1>3, <1>c DEF Active, Underway
    <3> QED BY <2>2, <3>1
  <2>3. CASE e # f BY <2>1, <2>3, <1>4, <1>8
  <2> QED BY <2>2, <2>3
<1>11. pc'[Runner] = "wait" /\ pc'[order[at]] = "wait"
  <2>1. Top[f] = order[at] BY <1>t, <1>6, <1>top
  <2>2. pc[Runner] = "wait"
    <3>1. pc[Top[f]] \in Active /\ Top[f] \in Nodes
      BY <1>6, <1>top, <1>0 DEF Active, Underway
    <3> QED BY <3>1, <1>t, <1>top, <1>1
  <2>3. Runner \notin ChildrenOf(f) BY <1>0, <1>1, <1>f
  <2>4. pc'[Runner] = "wait" BY <2>2, <2>3, <1>0, <1>3
  <2> QED BY <2>1, <2>4, <1>8, <1>top
<1> QED BY <1>2, <1>9, <1>10, <1>11 DEF Stuck

LEMMA LateStep ==
    ASSUME WalkInv, TreeInv, KeptInv, [Next]_vars
    PROVE  late' # {} => Stuck'
<1>1. CASE CrashAndLoad BY <1>1 DEF CrashAndLoad
<1>2. CASE \E f \in Nodes : Abort(f) BY <1>2, AbortStuck
<1>3. CASE ~CrashAndLoad /\ ~ \E f \in Nodes : Abort(f)
  <2>1. late' \subseteq late
    <3>1. ASSUME NEW n \in Nodes, NodeStep(n) \/ Fail(n) \/ Unsaved(n) PROVE late' = late
      BY <3>1, <1>3 DEF NodeStep, Recall, Unresolved, Enter, Return, Open, Close, Exit,
         Caught, FailUp, Fail, Unsaved
    <3>2. ASSUME NEW n \in All, Fold(n) \/ Written(n) \/ Wake(n) PROVE late' = late
      BY <3>2 DEF Fold, Written, Wake
    <3>3. CASE LateWrite BY <3>3 DEF LateWrite
    <3>4. CASE Walk \/ NextRoot \/ Finish \/ Pause \/ Resume \/ StartPaused \/ Done
               \/ UNCHANGED vars
      BY <3>4 DEF Walk, NextRoot, Finish, Pause, Resume, StartPaused, Done, vars, session
    <3> QED BY <3>1, <3>2, <3>3, <3>4, <1>3 DEF Next, Progress, All
  <2>2. late # {} => Stuck BY DEF KeptInv
  <2> QED BY <2>1, <2>2, <1>3, StaysStuck
<1> QED BY <1>1, <1>2, <1>3

\* A node that is kept is neither entered nor recorded again.
LEMMA KeptMoves ==
    ASSUME WalkInv, RecordsInv, KeptInv, [Next]_vars, NEW k \in kept
    PROVE  /\ entered'[k] = entered[k]
           /\ pc'[k] \in Resting
           /\ rec'[k] = rec[k] \/ CrashAndLoad
<1> DEFINE Goal == /\ entered'[k] = entered[k]
                   /\ pc'[k] \in Resting
                   /\ rec'[k] = rec[k] \/ CrashAndLoad
<1>0. /\ k \in Nodes /\ pc[k] \in Resting /\ Completed(k)
      /\ \A n \in Nodes : n \in All
      /\ DOMAIN pc = All /\ k \in All /\ k # Runner
      /\ entered \in [Nodes -> Nat] /\ DOMAIN rec = Nodes
  <2>1. k \in Nodes /\ pc[k] \in Resting BY DEF KeptInv
  <2>2. rec \in Documents /\ rec \in Document BY DEF RecordsInv, RecordType, Documents
  <2>3. Completed(k) BY <2>2 DEF KeptInv, Keeps, Completed
  <2>4. DOMAIN rec = Nodes BY <2>2 DEF Document
  <2>5. DOMAIN pc = All /\ entered \in [Nodes -> Nat]
    BY DEF WalkInv, WalkType, RecordsInv, RecordType
  <2> QED BY ONLY <2>1, <2>3, <2>4, <2>5, Names DEF All
<1> SUFFICES Goal OBVIOUS
\* The step is another node's.
<1>1. ASSUME NEW n \in All, n # k,
             pc'[k] = pc[k], \A m \in Nodes \ {n} : rec'[m] = rec[m],
             \A m \in Nodes \ {n} : entered'[m] = entered[m]
      PROVE  Goal
  BY <1>0, <1>1
\* Or it leaves the records alone.
<1>2. ASSUME pc'[k] \in Resting, rec' = rec, entered' = entered PROVE Goal
  BY <1>2
<1> HIDE DEF Goal
<1>3. ASSUME NEW n \in Nodes, Recall(n) \/ Exit(n) PROVE Goal
  <2>1. rec' = rec /\ entered' = entered /\ pc' = [pc EXCEPT ![n] = "over"]
    BY <1>3 DEF Recall, Exit
  <2>2. pc'[k] \in Resting BY <2>1, <1>0 DEF Resting
  <2> QED BY <2>1, <2>2, <1>2
<1>4. ASSUME NEW n \in Nodes, Unresolved(n) \/ Enter(n) PROVE Goal
  <2>1. n # k BY <1>0, <1>4 DEF Unresolved, Enter
  <2>2. /\ pc'[k] = pc[k] /\ \A m \in Nodes \ {n} : rec'[m] = rec[m]
        /\ \A m \in Nodes \ {n} : entered'[m] = entered[m]
    BY <1>0, <1>4, <2>1 DEF Unresolved, Enter
  <2> QED BY <1>0, <1>1, <2>1, <2>2
<1>5. ASSUME NEW n \in Nodes,
             Return(n) \/ Close(n) \/ Caught(n) \/ FailUp(n) \/ Fail(n) \/ Unsaved(n)
      PROVE  Goal
  <2>1. pc[n] \in {"work", "wait", "failed", "enter", "leave"} /\ n \in DOMAIN rec
    BY <1>0, <1>5 DEF Return, Close, Caught, FailUp, Fail, Unsaved
  <2>2. n # k BY <1>0, <2>1 DEF Resting
  <2>3. entered' = entered /\ pc'[k] = pc[k]
    BY <1>0, <1>5, <2>2 DEF Return, Close, Caught, FailUp, Fail, Unsaved, Failed
  <2>4. \A m \in Nodes \ {n} : rec'[m] = rec[m]
    BY <1>0, <1>5, <2>2
    DEF Return, Close, Caught, FailUp, Fail, Unsaved, Failed, Memoise
  <2> QED BY <1>0, <1>1, <2>2, <2>3, <2>4
<1>6. ASSUME NEW n \in Nodes, Open(n) PROVE Goal
  <2>1. /\ pc[n] = "work" /\ rec' = rec /\ entered' = entered
        /\ pc' = [m \in DOMAIN pc |->
                    IF m = n THEN "wait"
                    ELSE IF m \in ChildrenOf(n) /\ n \in Fans THEN "queued" ELSE pc[m]]
    BY <1>6 DEF Open
  <2>2. n # k BY <1>0, <2>1 DEF Resting
  <2>3. pc'[k] = "queued" \/ pc'[k] = pc[k] BY <1>0, <2>1, <2>2
  <2>4. pc'[k] \in Resting BY <1>0, <2>3 DEF Resting
  <2> QED BY <1>2, <2>1, <2>4
<1>7. ASSUME NEW n \in Nodes, Abort(n) PROVE Goal
  <2> DEFINE cut == {m \in Below[n] : pc[m] \in Underway \cup {"queued"}}
  <2>1. /\ rec' = rec /\ entered' = entered
        /\ pc' = [m \in DOMAIN pc |-> IF m \in cut THEN "cancelled" ELSE pc[m]]
    BY <1>7 DEF Abort
  <2> HIDE DEF cut
  <2>2. pc'[k] \in Resting BY <1>0, <2>1 DEF Resting
  <2> QED BY <1>2, <2>1, <2>2
<1>8. ASSUME NEW n \in All, Fold(n) PROVE Goal
  BY <1>0, <1>2, <1>8 DEF Fold
<1>9. ASSUME NEW n \in All, Written(n) PROVE Goal
  <2>1. write.by = n /\ n # "none" BY <1>9, Names DEF Written
  <2>2. n # k BY <1>0, <2>1 DEF Resting, WalkInv
  <2>3. rec' = rec /\ entered' = entered /\ pc'[k] = pc[k]
    BY <1>0, <1>9, <2>2 DEF Written
  <2> QED BY <1>0, <1>2, <2>3
<1>10. ASSUME NEW n \in All, Wake(n) PROVE Goal
  <2>1. /\ rec' = rec /\ entered' = entered
        /\ pc' = [pc EXCEPT ![n] = IF @ = "parked_in" THEN "work" ELSE "exit"]
    BY <1>10 DEF Wake
  <2>2. pc'[k] = pc[k] \/ pc'[k] = "exit" BY <1>0, <2>1 DEF Resting
  <2>3. pc'[k] \in Resting BY <1>0, <2>2 DEF Resting
  <2> QED BY <1>2, <2>1, <2>3
<1>11. CASE Walk \/ NextRoot \/ Finish \/ Pause \/ Resume \/ StartPaused \/ LateWrite
            \/ Done \/ UNCHANGED vars
  <2>1. rec' = rec /\ entered' = entered
    BY <1>11 DEF Walk, NextRoot, Finish, Pause, Resume, StartPaused, LateWrite, Done,
       vars, session
  <2>2. pc'[k] = pc[k]
    BY <1>0, <1>11 DEF Walk, NextRoot, Finish, Pause, Resume, StartPaused, Begin,
       LateWrite, Done, vars
  <2> QED BY <1>0, <1>2, <2>1, <2>2
<1>12. CASE CrashAndLoad
  <2>1. entered' = entered /\ pc'[k] = "idle" BY <1>0, <1>12 DEF CrashAndLoad
  <2> QED BY <2>1, <1>12 DEF Goal, Resting
<1>13. CASE Progress
  <2>1. CASE \E n \in Nodes : NodeStep(n)
    BY <2>1, <1>3, <1>4, <1>5, <1>6, <1>7 DEF NodeStep
  <2>2. CASE \E n \in All : Fold(n) \/ Written(n) \/ Wake(n)
    BY <2>2, <1>8, <1>9, <1>10
  <2> QED BY <1>13, <2>1, <2>2, <1>11 DEF Progress, All
<1> QED BY <1>5, <1>11, <1>12, <1>13 DEF Next

\* What the writer of a checkpoint leaves behind has its own record in it.
LEMMA OwnRecordStep ==
    ASSUME WalkInv, RecordsInv, KeptInv, [Next]_vars,
           NEW n \in Nodes, write'.by = n, pc'[n] = "leave"
    PROVE  write'.data[n].status = "completed"
<1>0. n \in All /\ n # "none" /\ n # Runner /\ "none" \notin All BY Names DEF All
<1>1. CASE \E x \in All : Fold(x)
  <2>1. write'.by = n /\ write'.data = rec /\ pc' = pc BY <1>1 DEF Fold
  <2>2. Completed(n) BY <2>1 DEF RecordsInv, Linked, Finished
  <2> QED BY <2>1, <2>2 DEF Completed
<1>2. CASE ~ \E x \in All : Fold(x)
  <2>1. write' \in {NoWrite, write}
    <3>1. ASSUME NEW x \in Nodes, NodeStep(x) \/ Fail(x) \/ Unsaved(x)
          PROVE  write' \in {NoWrite, write}
      BY <3>1 DEF NodeStep, Recall, Unresolved, Enter, Return, Open, Close, Exit,
         Caught, FailUp, Fail, Unsaved, Abort
    <3>2. ASSUME NEW x \in All, Written(x) \/ Wake(x) PROVE write' \in {NoWrite, write}
      BY <3>2 DEF Written, Wake
    <3>3. CASE LateWrite \/ Walk \/ NextRoot \/ Finish \/ Pause \/ Resume \/ StartPaused
               \/ CrashAndLoad \/ Done \/ UNCHANGED vars
      BY <3>3 DEF LateWrite, Walk, NextRoot, Finish, Pause, Resume, StartPaused,
         CrashAndLoad, Done, vars, session
    <3> QED BY <1>2, <3>1, <3>2, <3>3 DEF Next, Progress, All
  <2>2. write' = write /\ write' # NoWrite BY <1>0, <2>1 DEF NoWrite
  <2>3. pc[n] = "leave"
    <3>1. CASE Stands BY <3>1 DEF Stands
    <3>2. CASE RunnerMoves BY <3>2 DEF RunnerMoves
    <3>3. CASE Restarts BY <3>3, <2>2 DEF Restarts
    <3>4. ASSUME NEW m \in Nodes, NodeMoves(m) PROVE pc[n] = "leave"
      <4>1. m # n BY <3>4, <2>2 DEF NodeMoves, Unlocked
      <4> QED BY <4>1, <3>4, <1>0 DEF NodeMoves
    <3>5. ASSUME NEW f \in Fans, FanOpens(f) \/ FanAborts(f) PROVE pc[n] = "leave"
      BY <3>5, <1>0 DEF FanOpens, FanAborts
    <3> QED BY <3>1, <3>2, <3>3, <3>4, <3>5, Kinds
  <2> QED BY <2>2, <2>3 DEF KeptInv
<1> QED BY <1>1, <1>2

LEMMA KeptStep ==
    ASSUME WalkInv, TreeInv, RecordsInv, KeptInv, [Next]_vars
    PROVE  KeptInv'
<1>1. \A n \in Nodes : write'.by = n /\ pc'[n] = "leave" =>
        write'.data[n].status = "completed"
  BY OwnRecordStep
<1>2. late' # {} => Stuck' BY LateStep
<1>3. \A k \in kept : pc'[k] \in Resting /\ (rec'[k] = rec[k] \/ CrashAndLoad)
  BY KeptMoves
<1>4. /\ kept \subseteq Nodes /\ \A r \in Documents : Keeps(r)
      /\ rec \in Documents /\ disk \in Documents
      /\ Documents' \subseteq Documents \cup {rec'}
  BY DocumentsStep DEF KeptInv, Documents
<1>5. ASSUME NEW r \in Documents', NEW k \in kept PROVE r[k].status = "completed"
  <2>1. CASE r \in Documents BY <2>1, <1>4 DEF Keeps
  <2>2. CASE r = rec' /\ ~CrashAndLoad BY <2>2, <1>3, <1>4 DEF Keeps
  <2>3. CASE r = rec' /\ CrashAndLoad
    <3>1. rec' = disk BY <2>3 DEF CrashAndLoad
    <3> QED BY <2>3, <3>1, <1>4 DEF Keeps
  <2> QED BY <2>1, <2>2, <2>3, <1>4
<1>6. CASE kept' = kept
  BY <1>1, <1>2, <1>3, <1>4, <1>5, <1>6 DEF KeptInv, Keeps
<1>7. CASE \E n \in All : Written(n) /\ pc[n] = "leave"
  <2>1. PICK n \in All : Written(n) /\ pc[n] = "leave" BY <1>7
  <2>2. /\ write.by = n /\ kept' = kept \cup {n} /\ rec' = rec /\ late' = late
        /\ disk' = write.data /\ write' = NoWrite
    BY <2>1 DEF Written
  <2>3. n \in Nodes BY <2>1 DEF All, WalkInv, WalkType, RunnerStages
  <2>4. late = {} BY <2>1, <2>3 DEF KeptInv, Stuck
  <2>5. pc'[n] \in Resting
    <3>1. DOMAIN pc = All BY DEF WalkInv, WalkType
    <3> QED BY <2>1, <3>1 DEF Written, Onward, Resting
  <2>6. Documents' = {rec, write.data}
    <3>1. NoWrite.by = "none" BY DEF NoWrite
    <3> QED BY <2>2, <2>4, <3>1 DEF Documents
  <2>7. rec[n].status = "completed" /\ write.data[n].status = "completed"
    BY <2>1, <2>2, <2>3 DEF RecordsInv, Linked, Finished, Completed, KeptInv
  <2>8. \A r \in Documents' : \A k \in kept' : r[k].status = "completed"
    BY <2>2, <2>6, <2>7, <1>5
  <2>9. \A k \in kept' : pc'[k] \in Resting BY <2>2, <2>5, <1>3
  <2> QED BY <1>1, <1>2, <1>4, <2>2, <2>3, <2>8, <2>9 DEF KeptInv, Keeps
<1>8. kept' = kept \/ \E n \in All : Written(n) /\ pc[n] = "leave"
  <2>1. ASSUME NEW n \in Nodes, NodeStep(n) \/ Fail(n) \/ Unsaved(n) PROVE kept' = kept
    BY <2>1 DEF NodeStep, Recall, Unresolved, Enter, Return, Open, Close, Exit,
       Caught, FailUp, Fail, Unsaved, Abort
  <2>2. ASSUME NEW n \in All, Fold(n) \/ Wake(n) PROVE kept' = kept
    BY <2>2 DEF Fold, Wake
  <2>3. ASSUME NEW n \in All, Written(n), pc[n] # "leave" PROVE kept' = kept
    BY <2>3 DEF Written
  <2>4. CASE LateWrite \/ Walk \/ NextRoot \/ Finish \/ Pause \/ Resume \/ StartPaused
             \/ CrashAndLoad \/ Done \/ UNCHANGED vars
    BY <2>4 DEF LateWrite, Walk, NextRoot, Finish, Pause, Resume, StartPaused,
       CrashAndLoad, Done, vars, session
  <2> QED BY <2>1, <2>2, <2>3, <2>4 DEF Next, Progress, All
<1> QED BY <1>6, <1>7, <1>8

\* A completion that reached the file is in the memory, in the file and in every
\* checkpoint that can still reach it, those of cancelled writes included: when such
\* a late write is on its way, nothing more completes in this process.
THEOREM KeptHolds == Spec => []KeptInv
<1>1. Init => KeptInv
  <2> SUFFICES ASSUME Init PROVE KeptInv OBVIOUS
  <2>1. kept = {} /\ late = {} /\ write.by = "none" BY DEF Init, NoWrite
  <2>2. "none" \notin Nodes BY Names DEF All
  <2> QED BY <2>1, <2>2 DEF KeptInv, Keeps
<1>2. WalkInv /\ TreeInv /\ RecordsInv /\ KeptInv /\ [Next]_vars => KeptInv'
  BY KeptStep
<1> QED BY <1>1, <1>2, WalkHolds, TreeHolds, RecordsHold, PTL DEF Spec

\* R-W-6: no process enters a node again whose completion reached the file.
THEOREM KeptIsFinal == Spec => KeptNotRerun
<1>1. WalkInv /\ RecordsInv /\ KeptInv /\ [Next]_vars =>
        [\A n \in kept : entered'[n] = entered[n]]_vars
  BY KeptMoves
<1> QED BY <1>1, WalkHolds, RecordsHold, KeptHolds, PTL DEF Spec, KeptNotRerun
=============================================================================
