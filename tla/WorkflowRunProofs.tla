------------------------- MODULE WorkflowRunProofs -------------------------
(***************************************************************************)
(* Proofs about WorkflowRun, for all flows: nothing outlives the container *)
(* it is in, failures are not swallowed, iterations do not see one         *)
(* another's outputs, the top level is scheduled as a level of its own,    *)
(* what was reported of an action is what became of it, and what it may    *)
(* read is there when it runs.                                             *)
(*                                                                         *)
(* The levels form a tree.  The invariant describes it by families: the    *)
(* levels of one container action are the members of its family, and what  *)
(* they may look like follows from how far the executor of the action is.  *)
(***************************************************************************)
EXTENDS WorkflowRun, FiniteSetTheorems, SequenceTheorems, WellFoundedInduction, TLAPS

-----------------------------------------------------------------------------
(* Types.                                                                  *)

Names == UNION {UNION {Ids(f[path]) : path \in DOMAIN f} : f \in Flows}

Branch == {"body", "other"}

Scope == Seq(Names \X Nat)

Key == Seq(Names \X Branch) \X Scope

LevelType(d) ==
    [phase : {"pass", "wait", "done", "closed"},
     pending : SUBSET Ids(d),
     still_pending : SUBSET Ids(d),
     running : SUBSET Ids(d),
     outcomes : [Ids(d) -> RunOutcome \cup {"none"}],
     stuck : SUBSET Ids(d)]

ProgressType ==
    [stage : {"leaf", "start", "head", "body", "other", "iterations"},
     round : Nat, queued : SUBSET Nat, open : SUBSET Nat, failed : BOOLEAN]

ExecType == {e \in ProgressType : e.stage # "iterations" => e.queued = {} /\ e.open = {}}

-----------------------------------------------------------------------------
(* The inductive invariant.                                                *)

(* What waits or runs has no outcome yet, and a level ends with nothing    *)
(* left.                                                                   *)
LevelSound(d, l) ==
    /\ l \in LevelType(d)
    /\ \A a \in l.pending \cup l.still_pending \cup l.running : l.outcomes[a] = "none"
    /\ l.pending \cap l.still_pending = {}
    /\ (l.pending \cup l.still_pending) \cap l.running = {}
    /\ l.phase \in {"done", "closed"} =>
          l.pending = {} /\ l.still_pending = {} /\ l.running = {}

(* The Foreach actions along a path give the scope its length. *)
Loops(path) == {n \in 1..Len(path) : flow[SubSeq(path, 1, n - 1)].kind[path[n][1]] = "Foreach"}

ScopeFits(k) == Len(k[2]) = Cardinality(Loops(k[1]))

LevelsSound ==
    \A k \in DOMAIN levels :
        /\ k \in Key
        /\ Given(k)
        /\ LevelSound(Def(k), levels[k])
        /\ ScopeFits(k)
        /\ k[2] \in DOMAIN data

(* An executor belongs to a running action. *)
ExecSound ==
    \A i \in DOMAIN exec :
        /\ i = <<i[1], i[2]>>
        /\ i[1] \in DOMAIN levels
        /\ i[2] \in levels[i[1]].running
        /\ exec[i] \in ExecType
        /\ exec[i].stage = "iterations" => Kind(i[1], i[2]) = "Foreach"
        /\ exec[i].stage \in {"head", "body", "other"} => Kind(i[1], i[2]) # "Foreach"

(* The levels of container c of level m. *)
Member(j, m, c) ==
    IF Kind(m, c) = "Foreach" THEN \E index \in Nat : j = Iteration(m, c, index)
    ELSE \E branch \in Branch : j = Inner(m, c, branch)

Childless(m, c) == \A j \in DOMAIN levels : ~Member(j, m, c)

IsClosed(j) == j \in DOMAIN levels /\ levels[j].phase = "closed"

IsOpen(j) == j \in DOMAIN levels /\ levels[j].phase # "closed"

(* Before and after its executor. *)
FamilyAtRest(m, c) ==
    /\ levels[m].outcomes[c] \notin {"Succeeded", "Failed"} => Childless(m, c)
    /\ \A j \in DOMAIN levels :
          Member(j, m, c) =>
            /\ levels[j].phase = "closed"
            /\ \/ AllOk(levels[j])
               \/ levels[m].outcomes[c] = "Failed"
               \/ Recovered(j, <<m, c>>)

(* While the executor of a container without iterations is under way. *)
FamilyOfBranches(m, c, stage) ==
    LET body == Inner(m, c, "body")
        other == Inner(m, c, "other")
    IN  /\ stage \in {"leaf", "start"} => Childless(m, c)
        /\ stage = "head" =>
              /\ Given(body)
              /\ other \notin DOMAIN levels
              /\ body \in DOMAIN levels =>
                    /\ levels[body].phase = "closed"
                    /\ AllOk(levels[body])
                    /\ \A a \in Ids(Def(body)) : Childless(body, a)
        /\ stage = "body" => IsOpen(body) /\ other \notin DOMAIN levels
        /\ stage = "other" =>
              /\ IsOpen(other)
              /\ body \in DOMAIN levels => IsClosed(body) /\ Kind(m, c) = "Try"

(* While that of a loop over items is. *)
FamilyOfIterations(m, c, e) ==
    /\ e.stage # "iterations" => Childless(m, c)
    /\ e.stage = "iterations" =>
          \A index \in Nat :
            LET inner == Iteration(m, c, index)
            IN  /\ index \in e.open => IsOpen(inner)
                /\ index \in e.queued =>
                      /\ inner \notin DOMAIN levels
                      /\ index \notin e.open
                      /\ IterationScope(m, c, index) \in DOMAIN data
                      /\ Given(inner)
                /\ index \notin e.open /\ inner \in DOMAIN levels =>
                      levels[inner].phase = "closed" /\ (AllOk(levels[inner]) \/ e.failed)

Family(m, c) ==
    IF <<m, c>> \notin DOMAIN exec THEN FamilyAtRest(m, c)
    ELSE IF Kind(m, c) = "Foreach" THEN FamilyOfIterations(m, c, exec[<<m, c>>])
    ELSE FamilyOfBranches(m, c, exec[<<m, c>>].stage)

FamiliesSound == \A m \in DOMAIN levels : \A c \in Ids(Def(m)) : Family(m, c)

(* Every level but the first has a parent. *)
NoOrphans ==
    \A j \in DOMAIN levels \ {RootKey} : \E m \in DOMAIN levels : \E c \in Ids(Def(m)) : Member(j, m, c)

(* Level j is somewhere inside level k. *)
Inside(j, k) == IsStrictPrefix(k[1], j[1]) /\ IsPrefix(k[2], j[2])

(* On the way from an open level outwards, all levels are open. *)
Lineage ==
    \A j, k \in DOMAIN levels :
        IsOpen(j) /\ Inside(j, k) =>
            \E i \in DOMAIN levels : \E c \in Ids(Def(k)) :
                Member(i, k, c) /\ IsOpen(i) /\ (i = j \/ Inside(j, i))

(* Between two awaits there is one place where the run goes on. *)
AwakeLevel(k) == k \in DOMAIN levels /\ levels[k].phase \in {"pass", "done"}

AwakeExec(i) == i \in DOMAIN exec /\ exec[i].stage \in {"start", "head"}

OneAwake ==
    /\ \A j, k \in DOMAIN levels : AwakeLevel(j) /\ AwakeLevel(k) => j = k
    /\ \A h, i \in DOMAIN exec : AwakeExec(h) /\ AwakeExec(i) => h = i
    /\ \A k \in DOMAIN levels, i \in DOMAIN exec : ~(AwakeLevel(k) /\ AwakeExec(i))

ResultSound ==
    /\ flow \in Flows
    /\ result \in {"new", "rejected", "running", "Ok", "Err"}
    /\ IF result \in {"new", "rejected"} THEN DOMAIN levels = {} /\ DOMAIN exec = {} /\ DOMAIN data = {}
       ELSE /\ RootKey \in DOMAIN levels
            /\ levels[RootKey].phase # "closed" <=> result = "running"
            /\ result = "Ok" => AllOk(levels[RootKey])

(* What a context holds was written in it or around it. *)
DataSound ==
    \A s \in DOMAIN data :
        /\ s \in Scope
        /\ \A a \in DOMAIN data[s] : data[s][a].by \in Scope /\ IsPrefix(data[s][a].by, s)

TreeSound ==
    /\ LevelsSound
    /\ ResultSound
    /\ ExecSound
    /\ FamiliesSound
    /\ NoOrphans
    /\ Lineage

IInv == TreeSound /\ OneAwake /\ DataSound

-----------------------------------------------------------------------------
(* Sequences.                                                              *)

LEMMA PrefixElements ==
    ASSUME NEW S, NEW s \in Seq(S), NEW t \in Seq(S)
    PROVE  IsPrefix(s, t) <=> Len(s) <= Len(t) /\ \A i \in 1..Len(s) : s[i] = t[i]
<1>1. SubSeq(s, 1, Len(s)) = s
  BY SubSeqFull
<1>2. ASSUME Len(s) <= Len(t), s = SubSeq(t, 1, Len(s))
      PROVE  \A i \in 1..Len(s) : s[i] = t[i]
  <2>1. \A i \in 1..Len(s) : SubSeq(t, 1, Len(s))[i] = t[i]
    BY <1>2
  <2>2. QED
    BY <1>2, <2>1
<1>3. ASSUME Len(s) <= Len(t), \A i \in 1..Len(s) : s[i] = t[i]
      PROVE  s = SubSeq(t, 1, Len(s))
  <2> DEFINE u == SubSeq(t, 1, Len(s))
  <2>1. u \in Seq(S) /\ Len(u) = Len(s) /\ \A i \in 1..Len(s) : u[i] = t[i]
    BY <1>3
  <2> HIDE DEF u
  <2>2. s = u
    BY <1>3, <2>1, SeqEqual
  <2>3. QED
    BY <2>2 DEF u
<1>4. QED
  BY <1>1, <1>2, <1>3 DEF IsPrefix

LEMMA AppendSplits ==
    ASSUME NEW S, NEW s \in Seq(S), NEW t \in Seq(S), NEW x \in S, NEW y \in S,
           Append(s, x) = Append(t, y)
    PROVE  s = t /\ x = y
<1>1. Len(s) = Len(t)
  BY AppendProperties
<1>2. \A i \in 1..Len(s) : s[i] = Append(s, x)[i] /\ t[i] = Append(t, y)[i]
  BY <1>1
<1>3. s = t
  BY <1>1, <1>2, SeqEqual
<1>4. Append(s, x)[Len(s) + 1] = x /\ Append(t, y)[Len(t) + 1] = y
  OBVIOUS
<1>5. QED
  BY <1>1, <1>3, <1>4

LEMMA AppendElements ==
    ASSUME NEW S, NEW s \in Seq(S), NEW x \in S
    PROVE  /\ Append(s, x) \in Seq(S)
           /\ Len(Append(s, x)) = Len(s) + 1
           /\ \A i \in 1..Len(s) : Append(s, x)[i] = s[i]
           /\ Append(s, x)[Len(s) + 1] = x
BY AppendProperties

LEMMA FrontAndLast ==
    ASSUME NEW S, NEW s \in Seq(S), NEW x \in S
    PROVE  Front(Append(s, x)) = s /\ Last(Append(s, x)) = x /\ Append(s, x) # <<>>
<1> DEFINE t == Append(s, x)
<1>1. t \in Seq(S) /\ Len(s) \in Nat /\ Len(t) = Len(s) + 1 /\ \A i \in 1..Len(s) : t[i] = s[i]
  BY AppendElements
<1>2. t[Len(s) + 1] = x
  BY AppendElements
<1> HIDE DEF t
<1>3. Last(t) = x
  BY <1>1, <1>2 DEF Last
<1> DEFINE u == Front(t)
<1>4. u = SubSeq(t, 1, Len(s))
  BY <1>1 DEF Front
<1>5. u \in Seq(S) /\ Len(u) = Len(s)
  BY <1>1, <1>4
<1>6. \A i \in 1..Len(s) : u[i] = t[i]
  BY <1>1, <1>4
<1> HIDE DEF u
<1>7. u = s
  BY <1>1, <1>5, <1>6, SeqEqual
<1>8. t # <<>>
  BY <1>1
<1>9. QED
  BY <1>3, <1>7, <1>8 DEF t, u

(* What is in front of the last element. *)
LEMMA PrefixOfAppend ==
    ASSUME NEW S, NEW s \in Seq(S), NEW t \in Seq(S), NEW x \in S
    PROVE  IsPrefix(s, Append(t, x)) /\ Len(s) <= Len(t) => IsPrefix(s, t)
<1> DEFINE u == Append(t, x)
<1>1. u \in Seq(S) /\ Len(u) = Len(t) + 1 /\ \A i \in 1..Len(t) : u[i] = t[i]
  BY AppendElements
<1> HIDE DEF u
<1>2. IsPrefix(s, u) <=> Len(s) <= Len(u) /\ \A i \in 1..Len(s) : s[i] = u[i]
  BY <1>1, PrefixElements
<1>3. IsPrefix(s, t) <=> Len(s) <= Len(t) /\ \A i \in 1..Len(s) : s[i] = t[i]
  BY PrefixElements
<1>4. IsPrefix(s, u) /\ Len(s) <= Len(t) => IsPrefix(s, t)
  BY <1>1, <1>2, <1>3
<1>5. QED
  BY <1>4 DEF u

LEMMA PrefixThenAppend ==
    ASSUME NEW S, NEW s \in Seq(S), NEW t \in Seq(S), NEW x \in S, IsPrefix(s, t)
    PROVE  IsPrefix(s, Append(t, x))
<1> DEFINE u == Append(t, x)
<1>1. u \in Seq(S) /\ Len(u) = Len(t) + 1 /\ \A i \in 1..Len(t) : u[i] = t[i]
  BY AppendElements
<1> HIDE DEF u
<1>2. IsPrefix(s, u) <=> Len(s) <= Len(u) /\ \A i \in 1..Len(s) : s[i] = u[i]
  BY <1>1, PrefixElements
<1>3. Len(s) <= Len(t) /\ \A i \in 1..Len(s) : s[i] = t[i]
  BY PrefixElements
<1>4. IsPrefix(s, u)
  BY <1>1, <1>2, <1>3
<1>5. QED
  BY <1>4 DEF u

LEMMA PrefixSameLength ==
    ASSUME NEW S, NEW s \in Seq(S), NEW t \in Seq(S), IsPrefix(s, t), Len(t) <= Len(s)
    PROVE  s = t
BY PrefixElements, SeqEqual

LEMMA PrefixReflexive ==
    ASSUME NEW S, NEW s \in Seq(S)
    PROVE  IsPrefix(s, s)
BY PrefixElements

LEMMA PrefixTransitive ==
    ASSUME NEW S, NEW s \in Seq(S), NEW t \in Seq(S), NEW u \in Seq(S),
           IsPrefix(s, t), IsPrefix(t, u)
    PROVE  IsPrefix(s, u)
<1>1. Len(s) <= Len(t) /\ \A i \in 1..Len(s) : s[i] = t[i]
  BY PrefixElements
<1>2. Len(t) <= Len(u) /\ \A i \in 1..Len(t) : t[i] = u[i]
  BY PrefixElements
<1>3. Len(s) <= Len(u) /\ \A i \in 1..Len(s) : s[i] = u[i]
  BY <1>1, <1>2
<1>4. QED
  BY <1>3, PrefixElements

(* Two prefixes of one sequence that are as long as each other. *)
LEMMA PrefixesEqual ==
    ASSUME NEW S, NEW s \in Seq(S), NEW t \in Seq(S), NEW u \in Seq(S),
           IsPrefix(s, u), IsPrefix(t, u), Len(s) = Len(t)
    PROVE  s = t
<1>1. \A i \in 1..Len(s) : s[i] = u[i]
  BY PrefixElements
<1>2. \A i \in 1..Len(t) : t[i] = u[i]
  BY PrefixElements
<1>3. QED
  BY <1>1, <1>2, SeqEqual

-----------------------------------------------------------------------------
(* The length of a scope.                                                  *)

LEMMA LoopsFinite ==
    ASSUME NEW S, NEW path \in Seq(S)
    PROVE  IsFiniteSet(Loops(path)) /\ Cardinality(Loops(path)) \in Nat
<1>1. Len(path) \in Int
  OBVIOUS
<1>2. IsFiniteSet(1..Len(path))
  BY <1>1, FS_Interval
<1>3. Loops(path) \subseteq 1..Len(path)
  BY DEF Loops
<1>4. IsFiniteSet(Loops(path))
  BY <1>2, <1>3, FS_Subset
<1>5. QED
  BY <1>4, FS_CardinalityType

LEMMA LoopsOfAppend ==
    ASSUME NEW S, NEW path \in Seq(S), NEW x \in S
    PROVE  Cardinality(Loops(Append(path, x))) =
               IF flow[path].kind[x[1]] = "Foreach" THEN Cardinality(Loops(path)) + 1
               ELSE Cardinality(Loops(path))
<1> DEFINE u == Append(path, x)
           N == Len(path) + 1
           IsLoop(p, n) == flow[SubSeq(p, 1, n - 1)].kind[p[n][1]] = "Foreach"
<1>1. u \in Seq(S) /\ Len(u) = N /\ u[N] = x /\ \A i \in 1..Len(path) : u[i] = path[i]
  BY AppendElements
<1>2. \A n \in 1..Len(path) : SubSeq(u, 1, n - 1) = SubSeq(path, 1, n - 1)
  <2>1. SUFFICES ASSUME NEW n \in 1..Len(path)
                 PROVE  SubSeq(u, 1, n - 1) = SubSeq(path, 1, n - 1)
    OBVIOUS
  <2> DEFINE v == SubSeq(u, 1, n - 1)
             w == SubSeq(path, 1, n - 1)
  <2>2. /\ v \in Seq(S) /\ Len(v) = n - 1 /\ \A i \in 1..n - 1 : v[i] = u[i]
        /\ w \in Seq(S) /\ Len(w) = n - 1 /\ \A i \in 1..n - 1 : w[i] = path[i]
    BY <1>1
  <2> HIDE DEF u, v, w
  <2>3. v = w
    BY <1>1, <2>2, SeqEqual
  <2>4. QED
    BY <2>3 DEF v, w
<1>3. SubSeq(u, 1, N - 1) = path
  <2> DEFINE v == SubSeq(u, 1, N - 1)
  <2>1. v \in Seq(S) /\ Len(v) = Len(path) /\ \A i \in 1..Len(path) : v[i] = u[i]
    BY <1>1
  <2> HIDE DEF u, v
  <2>2. v = path
    BY <1>1, <2>1, SeqEqual
  <2>3. QED
    BY <2>2 DEF v
<1>4. Loops(u) = {n \in 1..N : IsLoop(u, n)} /\ Loops(path) = {n \in 1..Len(path) : IsLoop(path, n)}
  BY <1>1 DEF Loops
<1>5. (\A n \in 1..Len(path) : IsLoop(u, n) <=> IsLoop(path, n))
      /\ (IsLoop(u, N) <=> flow[path].kind[x[1]] = "Foreach")
  BY <1>1, <1>2, <1>3
<1>6. Len(path) \in Nat
  OBVIOUS
<1> HIDE DEF u, IsLoop
<1>7. CASE flow[path].kind[x[1]] = "Foreach"
  <2>1. Loops(u) = Loops(path) \cup {N} /\ N \notin Loops(path)
    BY <1>4, <1>5, <1>6, <1>7
  <2>2. IsFiniteSet(Loops(path))
    BY LoopsFinite
  <2>3. Cardinality(Loops(path) \cup {N}) = Cardinality(Loops(path)) + 1
    BY <2>1, <2>2, FS_AddElement
  <2>4. QED
    BY <1>7, <2>1, <2>3 DEF u
<1>8. CASE flow[path].kind[x[1]] # "Foreach"
  <2>1. Loops(u) = Loops(path)
    BY <1>4, <1>5, <1>6, <1>8
  <2>2. QED
    BY <1>8, <2>1 DEF u
<1>9. QED
  BY <1>7, <1>8

LEMMA LoopsOfPrefix ==
    ASSUME NEW S, NEW p \in Seq(S), NEW q \in Seq(S), IsPrefix(p, q)
    PROVE  Cardinality(Loops(p)) <= Cardinality(Loops(q))
<1>1. Len(p) \in Nat /\ Len(q) \in Nat /\ Len(p) <= Len(q) /\ \A i \in 1..Len(p) : p[i] = q[i]
  BY PrefixElements
<1>2. \A n \in 1..Len(p) : SubSeq(p, 1, n - 1) = SubSeq(q, 1, n - 1)
  <2>1. SUFFICES ASSUME NEW n \in 1..Len(p)
                 PROVE  SubSeq(p, 1, n - 1) = SubSeq(q, 1, n - 1)
    OBVIOUS
  <2> DEFINE v == SubSeq(p, 1, n - 1)
             w == SubSeq(q, 1, n - 1)
  <2>2. /\ v \in Seq(S) /\ Len(v) = n - 1 /\ \A i \in 1..n - 1 : v[i] = p[i]
        /\ w \in Seq(S) /\ Len(w) = n - 1 /\ \A i \in 1..n - 1 : w[i] = q[i]
    BY <1>1
  <2> HIDE DEF v, w
  <2>3. v = w
    BY <1>1, <2>2, SeqEqual
  <2>4. QED
    BY <2>3 DEF v, w
<1>3. Loops(p) \subseteq Loops(q)
  <2>1. SUFFICES ASSUME NEW n \in 1..Len(p),
                        flow[SubSeq(p, 1, n - 1)].kind[p[n][1]] = "Foreach"
                 PROVE  n \in 1..Len(q) /\ flow[SubSeq(q, 1, n - 1)].kind[q[n][1]] = "Foreach"
    BY DEF Loops
  <2>2. p[n] = q[n] /\ n \in 1..Len(q)
    BY <1>1
  <2>3. QED
    BY <1>2, <2>1, <2>2
<1>4. QED
  BY <1>3, LoopsFinite, FS_Subset

-----------------------------------------------------------------------------
(* Keys of levels.                                                         *)

Path == Seq(Names \X Branch)

LEMMA KeyParts ==
    ASSUME NEW k \in Key
    PROVE  k[1] \in Path /\ k[2] \in Scope /\ k = <<k[1], k[2]>>
BY DEF Key, Path

LEMMA KeyEqual ==
    ASSUME NEW k \in Key, NEW m \in Key, k[1] = m[1], k[2] = m[2]
    PROVE  k = m
BY KeyParts

LEMMA RootIsKey ==
    RootKey \in Key /\ RootKey[1] = <<>> /\ RootKey[2] = <<>> /\ Len(RootKey[1]) = 0
<1> DEFINE p == <<>>
           s == <<>>
<1>1. p \in Path /\ s \in Scope /\ Len(p) = 0
  BY DEF Path, Scope
<1>2. p = <<>> /\ s = <<>>
  OBVIOUS
<1>3. RootKey = <<p, s>>
  BY DEF RootKey
<1> HIDE DEF p, s
<1>4. RootKey \in Key /\ RootKey[1] = p /\ RootKey[2] = s
  BY <1>1, <1>3 DEF Key, Path
<1>5. QED
  BY <1>1, <1>2, <1>4

LEMMA InnerKey ==
    ASSUME NEW m \in Key, NEW c \in Names, NEW branch \in Branch
    PROVE  /\ Inner(m, c, branch) \in Key
           /\ Inner(m, c, branch)[1] = Append(m[1], <<c, branch>>)
           /\ Inner(m, c, branch)[2] = m[2]
<1>1. <<c, branch>> \in Names \X Branch
  OBVIOUS
<1>2. Append(m[1], <<c, branch>>) \in Path
  BY <1>1, KeyParts DEF Path
<1>3. QED
  BY <1>2, KeyParts DEF Inner, Key, Path

LEMMA IterationKey ==
    ASSUME NEW m \in Key, NEW c \in Names, NEW index \in Nat
    PROVE  /\ Iteration(m, c, index) \in Key
           /\ Iteration(m, c, index)[1] = Append(m[1], <<c, "body">>)
           /\ Iteration(m, c, index)[2] = Append(m[2], <<c, index>>)
           /\ IterationScope(m, c, index) = Append(m[2], <<c, index>>)
           /\ IterationScope(m, c, index) \in Scope
<1>1. <<c, "body">> \in Names \X Branch /\ <<c, index>> \in Names \X Nat
  BY DEF Branch
<1>2. Append(m[1], <<c, "body">>) \in Path /\ Append(m[2], <<c, index>>) \in Scope
  BY <1>1, KeyParts DEF Path, Scope
<1>3. QED
  BY <1>2 DEF Iteration, IterationScope, Key, Path

(* The two forms a member may have. *)
LEMMA MemberKey ==
    ASSUME NEW m \in Key, NEW c \in Names, NEW j, Member(j, m, c)
    PROVE  /\ j \in Key
           /\ \E branch \in Branch : j[1] = Append(m[1], <<c, branch>>)
           /\ Kind(m, c) # "Foreach" => j[2] = m[2]
           /\ Kind(m, c) = "Foreach" => \E index \in Nat : j[2] = Append(m[2], <<c, index>>)
<1>1. CASE Kind(m, c) = "Foreach"
  <2>1. PICK index \in Nat : j = Iteration(m, c, index)
    BY <1>1 DEF Member
  <2>2. QED
    BY <1>1, <2>1, IterationKey DEF Branch
<1>2. CASE Kind(m, c) # "Foreach"
  <2>1. PICK branch \in Branch : j = Inner(m, c, branch)
    BY <1>2 DEF Member
  <2>2. QED
    BY <1>2, <2>1, InnerKey
<1>3. QED
  BY <1>1, <1>2

LEMMA MemberUnique ==
    ASSUME NEW m \in Key, NEW n \in Key, NEW c \in Names, NEW d \in Names, NEW j,
           Member(j, m, c), Member(j, n, d)
    PROVE  m = n /\ c = d
<1>1. PICK b1 \in Branch : j[1] = Append(m[1], <<c, b1>>)
  BY MemberKey
<1>2. PICK b2 \in Branch : j[1] = Append(n[1], <<d, b2>>)
  BY MemberKey
<1>3. m[1] = n[1] /\ <<c, b1>> = <<d, b2>>
  <2> DEFINE x == <<c, b1>>
             y == <<d, b2>>
             S == Names \X Branch
             s == m[1]
             t == n[1]
  <2>1. x \in S /\ y \in S
    OBVIOUS
  <2>2. s \in Seq(S) /\ t \in Seq(S)
    BY KeyParts DEF Path
  <2>3. Append(s, x) = Append(t, y)
    BY <1>1, <1>2
  <2> HIDE DEF x, y, S, s, t
  <2>4. s = t /\ x = y
    BY <2>1, <2>2, <2>3, AppendSplits
  <2>5. QED
    BY <2>4 DEF x, y, s, t
<1>4. c = d /\ Kind(m, c) = Kind(n, d)
  BY <1>3 DEF Kind, Def
<1>5. m[2] = n[2]
  <2>1. CASE Kind(m, c) # "Foreach"
    BY <1>4, <2>1, MemberKey
  <2>2. CASE Kind(m, c) = "Foreach"
    <3>1. PICK i1 \in Nat : j[2] = Append(m[2], <<c, i1>>)
      BY <2>2, MemberKey
    <3>2. Kind(n, d) = "Foreach"
      BY <1>4, <2>2
    <3>3. PICK i2 \in Nat : j[2] = Append(n[2], <<d, i2>>)
      BY <3>2, MemberKey
    <3> DEFINE x == <<c, i1>>
               y == <<d, i2>>
               S == Names \X Nat
               s == m[2]
               t == n[2]
    <3>4. x \in S /\ y \in S
      OBVIOUS
    <3>5. s \in Seq(S) /\ t \in Seq(S)
      BY KeyParts DEF Scope
    <3>6. Append(s, x) = Append(t, y)
      BY <3>1, <3>3
    <3> HIDE DEF x, y, S, s, t
    <3>7. s = t
      BY <3>4, <3>5, <3>6, AppendSplits
    <3>8. QED
      BY <3>7 DEF s, t
  <2>3. QED
    BY <2>1, <2>2
<1>6. QED
  BY <1>3, <1>4, <1>5, KeyEqual

LEMMA MemberLonger ==
    ASSUME NEW m \in Key, NEW c \in Names, NEW j, Member(j, m, c)
    PROVE  Len(j[1]) = Len(m[1]) + 1 /\ j # m /\ j # RootKey
<1>1. PICK branch \in Branch : j[1] = Append(m[1], <<c, branch>>)
  BY MemberKey
<1>2. <<c, branch>> \in Names \X Branch /\ m[1] \in Seq(Names \X Branch)
  BY KeyParts DEF Path
<1>3. Len(j[1]) = Len(m[1]) + 1 /\ Len(m[1]) \in Nat
  BY <1>1, <1>2, AppendElements
<1>4. QED
  BY <1>3, RootIsKey

LEMMA MemberFits ==
    ASSUME NEW m \in Key, NEW c \in Names, NEW j, Member(j, m, c), ScopeFits(m)
    PROVE  ScopeFits(j)
<1>1. PICK branch \in Branch : j[1] = Append(m[1], <<c, branch>>)
  BY MemberKey
<1> DEFINE x == <<c, branch>>
<1>2. x \in Names \X Branch /\ m[1] \in Seq(Names \X Branch) /\ x[1] = c
  BY KeyParts DEF Path
<1> HIDE DEF x
<1>3. Cardinality(Loops(Append(m[1], x))) =
          IF flow[m[1]].kind[x[1]] = "Foreach" THEN Cardinality(Loops(m[1])) + 1
          ELSE Cardinality(Loops(m[1]))
  BY <1>2, LoopsOfAppend
<1>4. Cardinality(Loops(j[1])) = IF Kind(m, c) = "Foreach" THEN Len(m[2]) + 1 ELSE Len(m[2])
  BY <1>1, <1>2, <1>3 DEF ScopeFits, Kind, Def, x
<1>5. CASE Kind(m, c) # "Foreach"
  BY <1>4, <1>5, MemberKey DEF ScopeFits
<1>6. CASE Kind(m, c) = "Foreach"
  <2>1. PICK index \in Nat : j[2] = Append(m[2], <<c, index>>)
    BY <1>6, MemberKey
  <2>2. <<c, index>> \in Names \X Nat /\ m[2] \in Seq(Names \X Nat)
    BY KeyParts DEF Scope
  <2>3. Len(j[2]) = Len(m[2]) + 1
    BY <2>1, <2>2, AppendElements
  <2>4. QED
    BY <1>4, <1>6, <2>3 DEF ScopeFits
<1>7. QED
  BY <1>5, <1>6

(* A member is inside whatever its parent is inside of, and nothing else.  *)
LEMMA InsideParts ==
    ASSUME NEW j \in Key, NEW k \in Key
    PROVE  /\ Inside(j, k) => /\ IsPrefix(k[1], j[1]) /\ IsPrefix(k[2], j[2])
                              /\ Len(k[1]) < Len(j[1])
           /\ /\ IsPrefix(k[1], j[1]) /\ IsPrefix(k[2], j[2]) /\ Len(k[1]) < Len(j[1])
              => Inside(j, k)
<1>1. j[1] \in Path /\ k[1] \in Path
  BY KeyParts
<1>2. ASSUME IsPrefix(k[1], j[1]), k[1] # j[1] PROVE Len(k[1]) < Len(j[1])
  <2>1. Len(j[1]) <= Len(k[1]) => k[1] = j[1]
    BY <1>1, <1>2, PrefixSameLength DEF Path
  <2>2. Len(j[1]) \in Nat /\ Len(k[1]) \in Nat
    BY <1>1 DEF Path
  <2>3. QED
    BY <1>2, <2>1, <2>2
<1>3. Len(k[1]) < Len(j[1]) => k[1] # j[1]
  BY <1>1 DEF Path
<1>4. QED
  BY <1>2, <1>3 DEF Inside, IsStrictPrefix

LEMMA MemberInside ==
    ASSUME NEW m \in Key, NEW c \in Names, NEW j, Member(j, m, c)
    PROVE  Inside(j, m)
<1>1. j \in Key /\ Len(j[1]) = Len(m[1]) + 1 /\ Len(m[1]) \in Nat
  BY MemberKey, MemberLonger, KeyParts DEF Path
<1>2. IsPrefix(m[1], j[1])
  <2>1. PICK branch \in Branch : j[1] = Append(m[1], <<c, branch>>)
    BY MemberKey
  <2>2. <<c, branch>> \in Names \X Branch /\ m[1] \in Seq(Names \X Branch)
    BY KeyParts DEF Path
  <2>3. QED
    BY <2>1, <2>2, PrefixReflexive, PrefixThenAppend
<1>3. IsPrefix(m[2], j[2])
  <2>1. m[2] \in Seq(Names \X Nat)
    BY KeyParts DEF Scope
  <2>2. CASE Kind(m, c) # "Foreach"
    BY <2>1, <2>2, MemberKey, PrefixReflexive
  <2>3. CASE Kind(m, c) = "Foreach"
    <3>1. PICK index \in Nat : j[2] = Append(m[2], <<c, index>>)
      BY <2>3, MemberKey
    <3>2. <<c, index>> \in Names \X Nat
      OBVIOUS
    <3>3. QED
      BY <2>1, <3>1, <3>2, PrefixReflexive, PrefixThenAppend
  <2>4. QED
    BY <2>2, <2>3
<1>4. QED
  BY <1>1, <1>2, <1>3, InsideParts

LEMMA InsideTransitive ==
    ASSUME NEW i \in Key, NEW j \in Key, NEW k \in Key, Inside(i, j), Inside(j, k)
    PROVE  Inside(i, k)
<1>1. IsPrefix(k[1], i[1])
  BY InsideParts, KeyParts, PrefixTransitive DEF Path
<1>2. IsPrefix(k[2], i[2])
  BY InsideParts, KeyParts, PrefixTransitive DEF Scope
<1>3. Len(k[1]) < Len(i[1])
  BY InsideParts, KeyParts DEF Path
<1>4. QED
  BY <1>1, <1>2, <1>3, InsideParts

LEMMA InsideMember ==
    ASSUME NEW m \in Key, NEW c \in Names, NEW j, Member(j, m, c), ScopeFits(m),
           NEW k \in Key, ScopeFits(k), Inside(j, k)
    PROVE  k = m \/ Inside(m, k)
<1>1. j \in Key /\ Len(j[1]) = Len(m[1]) + 1
  BY MemberKey, MemberLonger
<1>2. IsPrefix(k[1], j[1]) /\ IsPrefix(k[2], j[2]) /\ Len(k[1]) < Len(j[1])
  BY <1>1, InsideParts
<1>3. /\ k[1] \in Seq(Names \X Branch) /\ m[1] \in Seq(Names \X Branch)
      /\ k[2] \in Seq(Names \X Nat) /\ m[2] \in Seq(Names \X Nat)
  BY KeyParts DEF Path, Scope
<1>4. Len(k[1]) <= Len(m[1])
  BY <1>1, <1>2, <1>3
<1>5. IsPrefix(k[1], m[1])
  <2>1. PICK branch \in Branch : j[1] = Append(m[1], <<c, branch>>)
    BY MemberKey
  <2>2. <<c, branch>> \in Names \X Branch
    OBVIOUS
  <2>3. QED
    BY <1>2, <1>3, <1>4, <2>1, <2>2, PrefixOfAppend
<1>6. Len(k[2]) <= Len(m[2])
  BY <1>3, <1>5, LoopsOfPrefix DEF ScopeFits
<1>7. IsPrefix(k[2], m[2])
  <2>1. CASE Kind(m, c) # "Foreach"
    BY <1>2, <2>1, MemberKey
  <2>2. CASE Kind(m, c) = "Foreach"
    <3>1. PICK index \in Nat : j[2] = Append(m[2], <<c, index>>)
      BY <2>2, MemberKey
    <3>2. <<c, index>> \in Names \X Nat
      OBVIOUS
    <3>3. QED
      BY <1>2, <1>3, <1>6, <3>1, <3>2, PrefixOfAppend
  <2>3. QED
    BY <2>1, <2>2
<1>8. CASE Len(k[1]) < Len(m[1])
  BY <1>5, <1>7, <1>8, InsideParts
<1>9. CASE Len(k[1]) = Len(m[1])
  <2>1. k[1] = m[1]
    BY <1>3, <1>5, <1>9, PrefixSameLength
  <2>2. k[2] = m[2]
    BY <1>3, <1>7, <2>1, PrefixSameLength DEF ScopeFits
  <2>3. QED
    BY <2>1, <2>2, KeyEqual
<1>10. QED
  BY <1>3, <1>4, <1>8, <1>9

(* Owner finds the parent. *)
LEMMA MemberOwner ==
    ASSUME NEW m \in Key, NEW c \in Names, NEW j, Member(j, m, c)
    PROVE  Owner(j) = <<m, c>>
<1>1. PICK branch \in Branch : j[1] = Append(m[1], <<c, branch>>)
  BY MemberKey
<1> DEFINE x == <<c, branch>>
<1>2. x \in Names \X Branch /\ m[1] \in Seq(Names \X Branch) /\ x[1] = c
  BY KeyParts DEF Path
<1> HIDE DEF x
<1>3. Last(j[1])[1] = c /\ Front(j[1]) = m[1]
  BY <1>1, <1>2, FrontAndLast DEF x
<1>4. (IF flow[Front(j[1])].kind[c] = "Foreach" THEN Front(j[2]) ELSE j[2]) = m[2]
  <2>1. flow[Front(j[1])].kind[c] = Kind(m, c)
    BY <1>3 DEF Kind, Def
  <2>2. CASE Kind(m, c) # "Foreach"
    BY <2>1, <2>2, MemberKey
  <2>3. CASE Kind(m, c) = "Foreach"
    <3>1. PICK index \in Nat : j[2] = Append(m[2], <<c, index>>)
      BY <2>3, MemberKey
    <3> DEFINE y == <<c, index>>
    <3>2. y \in Names \X Nat /\ m[2] \in Seq(Names \X Nat)
      BY KeyParts DEF Scope
    <3> HIDE DEF y
    <3>3. Front(j[2]) = m[2]
      BY <3>1, <3>2, FrontAndLast DEF y
    <3>4. QED
      BY <2>1, <2>3, <3>3
  <2>4. QED
    BY <2>2, <2>3
<1>5. <<Front(j[1]), IF flow[Front(j[1])].kind[c] = "Foreach" THEN Front(j[2]) ELSE j[2]>> = m
  BY <1>3, <1>4, KeyParts
<1>6. QED
  BY <1>3, <1>5 DEF Owner

-----------------------------------------------------------------------------
(* The local variables of a level.                                         *)

LEMMA NewLevelSound ==
    ASSUME NEW d
    PROVE  /\ LevelSound(d, NewLevel(d))
           /\ NewLevel(d).phase = "pass"
           /\ NewLevel(d).running = {}
           /\ \A c \in Ids(d) : NewLevel(d).outcomes[c] = "none"
BY DEF NewLevel, LevelSound, LevelType

LEMMA DecideSound ==
    ASSUME NEW d, NEW l, LevelSound(d, l), l.phase = "pass", NEW a \in l.pending
    PROVE  /\ LevelSound(d, Decide(d, l, a))
           /\ Decide(d, l, a).phase = "pass"
           /\ l.running \subseteq Decide(d, l, a).running
           /\ \A c \in Ids(d) : \/ Decide(d, l, a).outcomes[c] = l.outcomes[c]
                                \/ l.outcomes[c] = "none" /\ c \notin l.running
<1>1. l \in LevelType(d) /\ a \in Ids(d) /\ l.outcomes[a] = "none" /\ a \notin l.running
      /\ a \notin l.still_pending
  BY DEF LevelSound, LevelType
<1>2. CASE ~DepsResolved(d, l, a)
  <2> DEFINE e == [l EXCEPT !.pending = @ \ {a}, !.still_pending = @ \cup {a}]
  <2>1. Decide(d, l, a) = e
    BY <1>2 DEF Decide
  <2>2. /\ e \in LevelType(d) /\ e.phase = l.phase /\ e.pending = l.pending \ {a}
        /\ e.still_pending = l.still_pending \cup {a} /\ e.running = l.running
        /\ e.outcomes = l.outcomes
    BY <1>1 DEF LevelType
  <2> HIDE DEF e
  <2>3. QED
    BY <1>1, <2>1, <2>2 DEF LevelSound
<1>3. CASE DepsResolved(d, l, a) /\ ShouldRun(d, l, a)
  <2> DEFINE e == [l EXCEPT !.pending = @ \ {a}, !.running = @ \cup {a}]
  <2>1. Decide(d, l, a) = e
    BY <1>3 DEF Decide
  <2>2. /\ e \in LevelType(d) /\ e.phase = l.phase /\ e.pending = l.pending \ {a}
        /\ e.still_pending = l.still_pending /\ e.running = l.running \cup {a}
        /\ e.outcomes = l.outcomes
    BY <1>1 DEF LevelType
  <2> HIDE DEF e
  <2>3. QED
    BY <1>1, <2>1, <2>2 DEF LevelSound
<1>4. CASE DepsResolved(d, l, a) /\ ~ShouldRun(d, l, a)
  <2> DEFINE e == [l EXCEPT !.pending = @ \ {a}, !.outcomes[a] = "Skipped"]
  <2>1. Decide(d, l, a) = e
    BY <1>4 DEF Decide
  <2>2. /\ e \in LevelType(d) /\ e.phase = l.phase /\ e.pending = l.pending \ {a}
        /\ e.still_pending = l.still_pending /\ e.running = l.running
        /\ e.outcomes = [l.outcomes EXCEPT ![a] = "Skipped"]
    BY <1>1 DEF LevelType, RunOutcome
  <2> HIDE DEF e
  <2>3. \A c \in Ids(d) : c # a => e.outcomes[c] = l.outcomes[c]
    BY <1>1, <2>2 DEF LevelType
  <2>4. QED
    BY <1>1, <2>1, <2>2, <2>3 DEF LevelSound, LevelType
<1>5. QED
  BY <1>2, <1>3, <1>4

LEMMA EndPassSound ==
    ASSUME NEW d, NEW l, LevelSound(d, l), l.phase = "pass", l.pending = {}
    PROVE  /\ LevelSound(d, EndPass(l))
           /\ EndPass(l).phase \in {"wait", "done"}
           /\ EndPass(l).running = l.running
           /\ \A c \in Ids(d) : \/ EndPass(l).outcomes[c] = l.outcomes[c]
                                \/ l.outcomes[c] = "none" /\ c \notin l.running
<1>1. l \in LevelType(d) /\ DOMAIN l.outcomes = Ids(d)
  BY DEF LevelSound, LevelType
<1>2. CASE l.running # {}
  <2> DEFINE e == [l EXCEPT !.phase = "wait", !.pending = l.still_pending, !.still_pending = {}]
  <2>1. EndPass(l) = e
    BY <1>2 DEF EndPass
  <2>2. /\ e \in LevelType(d) /\ e.phase = "wait" /\ e.pending = l.still_pending
        /\ e.still_pending = {} /\ e.running = l.running /\ e.outcomes = l.outcomes
    BY <1>1 DEF LevelType
  <2> HIDE DEF e
  <2>3. QED
    BY <1>1, <2>1, <2>2 DEF LevelSound
<1>3. CASE l.running = {}
  <2> DEFINE o == [a \in DOMAIN l.outcomes |-> IF a \in l.still_pending THEN "Failed" ELSE l.outcomes[a]]
             e == [l EXCEPT !.phase = "done", !.still_pending = {}, !.stuck = l.still_pending,
                            !.outcomes = o]
  <2>1. EndPass(l) = e
    BY <1>1, <1>3 DEF EndPass, LevelType
  <2>2. /\ o \in [Ids(d) -> RunOutcome \cup {"none"}]
        /\ \A a \in Ids(d) : o[a] = IF a \in l.still_pending THEN "Failed" ELSE l.outcomes[a]
    BY <1>1 DEF LevelType, RunOutcome
  <2> HIDE DEF o
  <2>3. /\ e \in LevelType(d) /\ e.phase = "done" /\ e.pending = {}
        /\ e.still_pending = {} /\ e.running = {} /\ e.outcomes = o
    BY <1>1, <1>3, <2>2 DEF LevelType
  <2> HIDE DEF e
  <2>4. QED
    BY <1>1, <1>3, <2>1, <2>2, <2>3 DEF LevelSound
<1>4. QED
  BY <1>2, <1>3

LEMMA ResolveSound ==
    ASSUME NEW d, NEW l, LevelSound(d, l), NEW a \in l.running,
           NEW outcome \in {"Succeeded", "Failed"}
    PROVE  /\ LevelSound(d, Resolve(l, a, outcome))
           /\ Resolve(l, a, outcome).phase = "pass"
           /\ Resolve(l, a, outcome).running = l.running \ {a}
           /\ Resolve(l, a, outcome).outcomes[a] = outcome
           /\ \A c \in Ids(d) \ {a} : Resolve(l, a, outcome).outcomes[c] = l.outcomes[c]
<1> DEFINE e == Resolve(l, a, outcome)
<1>1. l \in LevelType(d) /\ a \in Ids(d) /\ a \notin l.pending \cup l.still_pending
  BY DEF LevelSound, LevelType
<1>2. /\ e \in LevelType(d) /\ e.phase = "pass" /\ e.pending = l.pending
      /\ e.still_pending = l.still_pending /\ e.running = l.running \ {a}
      /\ e.outcomes = [l.outcomes EXCEPT ![a] = outcome]
  BY <1>1 DEF LevelType, Resolve, RunOutcome
<1>3. e.outcomes[a] = outcome /\ \A c \in Ids(d) \ {a} : e.outcomes[c] = l.outcomes[c]
  BY <1>1, <1>2 DEF LevelType
<1> HIDE DEF e
<1>4. LevelSound(d, e)
  <2>1. \A c \in e.pending \cup e.still_pending \cup e.running : e.outcomes[c] = l.outcomes[c]
    BY <1>1, <1>2, <1>3 DEF LevelType
  <2>2. QED
    BY <1>1, <1>2, <2>1 DEF LevelSound
<1>5. QED
  BY <1>2, <1>3, <1>4 DEF e

Close(l) == [l EXCEPT !.phase = "closed"]

LEMMA CloseSound ==
    ASSUME NEW d, NEW l, LevelSound(d, l), l.phase = "done"
    PROVE  /\ LevelSound(d, Close(l))
           /\ Close(l).phase = "closed"
           /\ Close(l).outcomes = l.outcomes
           /\ AllOk(Close(l)) <=> AllOk(l)
<1> DEFINE e == Close(l)
<1>1. l \in LevelType(d)
  BY DEF LevelSound
<1>2. /\ e \in LevelType(d) /\ e.phase = "closed" /\ e.pending = l.pending
      /\ e.still_pending = l.still_pending /\ e.running = l.running /\ e.outcomes = l.outcomes
  BY <1>1 DEF LevelType, Close
<1> HIDE DEF e
<1>3. LevelSound(d, e)
  BY <1>1, <1>2 DEF LevelSound
<1>4. QED
  BY <1>2, <1>3 DEF e, AllOk

LEMMA RunningIsOpen ==
    ASSUME NEW d, NEW l, LevelSound(d, l), NEW a \in l.running
    PROVE  /\ l.phase \in {"pass", "wait"}
           /\ a \in Ids(d)
           /\ l.outcomes[a] = "none"
BY DEF LevelSound, LevelType

-----------------------------------------------------------------------------
(* What the invariant says of one level and of one executor.               *)

LEMMA LevelFacts ==
    ASSUME LevelsSound, ResultSound, NEW m \in DOMAIN levels
    PROVE  /\ m \in Key
           /\ Given(m)
           /\ Ids(Def(m)) \subseteq Names
           /\ LevelSound(Def(m), levels[m])
           /\ ScopeFits(m)
           /\ m[2] \in DOMAIN data
<1>1. m[1] \in DOMAIN flow /\ flow \in Flows
  BY DEF LevelsSound, Given, ResultSound
<1>2. Ids(flow[m[1]]) \in {Ids(flow[path]) : path \in DOMAIN flow}
  BY <1>1
<1>3. Ids(flow[m[1]]) \subseteq UNION {Ids(flow[path]) : path \in DOMAIN flow}
  BY <1>2
<1>4. Ids(Def(m)) \subseteq Names
  BY <1>1, <1>3 DEF Names, Def
<1>5. QED
  BY <1>4 DEF LevelsSound

LEMMA ExecFacts ==
    ASSUME LevelsSound, ExecSound, ResultSound, NEW k, NEW a, <<k, a>> \in DOMAIN exec
    PROVE  /\ k \in DOMAIN levels
           /\ k \in Key
           /\ a \in Names
           /\ a \in Ids(Def(k))
           /\ a \in levels[k].running
           /\ levels[k].phase \in {"pass", "wait"}
           /\ levels[k].outcomes[a] = "none"
           /\ exec[<<k, a>>] \in ExecType
           /\ exec[<<k, a>>].stage = "iterations" => Kind(k, a) = "Foreach"
           /\ exec[<<k, a>>].stage \in {"head", "body", "other"} => Kind(k, a) # "Foreach"
<1>1. k \in DOMAIN levels /\ a \in levels[k].running /\ exec[<<k, a>>] \in ExecType
      /\ (exec[<<k, a>>].stage = "iterations" => Kind(k, a) = "Foreach")
      /\ (exec[<<k, a>>].stage \in {"head", "body", "other"} => Kind(k, a) # "Foreach")
  BY DEF ExecSound
<1>2. k \in Key /\ Ids(Def(k)) \subseteq Names /\ LevelSound(Def(k), levels[k])
  BY <1>1, LevelFacts
<1>3. QED
  BY <1>1, <1>2, RunningIsOpen

(* The parent of a level is there, and it is the only one. *)
LEMMA ParentFacts ==
    ASSUME LevelsSound, ResultSound, NoOrphans, NEW j \in DOMAIN levels,
           NEW m \in Key, NEW c \in Names, Member(j, m, c)
    PROVE  m \in DOMAIN levels /\ c \in Ids(Def(m))
<1>1. j # RootKey
  BY MemberLonger
<1>2. PICK n \in DOMAIN levels : \E d \in Ids(Def(n)) : Member(j, n, d)
  BY <1>1 DEF NoOrphans
<1>3. PICK d \in Ids(Def(n)) : Member(j, n, d)
  BY <1>2
<1>4. n \in Key /\ d \in Names
  BY <1>2, <1>3, LevelFacts
<1>5. m = n /\ c = d
  BY <1>3, <1>4, MemberUnique
<1>6. QED
  BY <1>2, <1>3, <1>5

(* Inside a level where nothing runs, everything is closed. *)
LEMMA NothingInside ==
    ASSUME LevelsSound, ResultSound, ExecSound, FamiliesSound, Lineage,
           NEW k \in DOMAIN levels, levels[k].running = {},
           NEW j \in DOMAIN levels, Inside(j, k)
    PROVE  levels[j].phase = "closed"
<1>1. SUFFICES ASSUME IsOpen(j) PROVE FALSE
  BY DEF IsOpen
<1>2. PICK i \in DOMAIN levels, c \in Ids(Def(k)) : Member(i, k, c) /\ IsOpen(i)
  BY <1>1 DEF Lineage
<1>3. <<k, c>> \notin DOMAIN exec
  <2>1. <<k, c>> \in DOMAIN exec => c \in levels[k].running
    BY ExecFacts
  <2>2. QED
    BY <2>1
<1>4. Family(k, c)
  BY DEF FamiliesSound
<1>5. QED
  BY <1>2, <1>3, <1>4 DEF Family, FamilyAtRest, IsOpen

LEMMA KeysKept ==
    ASSUME flow' = flow
    PROVE  /\ \A j, m, c : Member(j, m, c)' <=> Member(j, m, c)
           /\ \A k : ScopeFits(k)' <=> ScopeFits(k)
           /\ \A k : (Given(k)' <=> Given(k)) /\ Def(k)' = Def(k)
           /\ \A m, c : Kind(m, c)' = Kind(m, c)
BY DEF Member, ScopeFits, Loops, Given, Def, Kind, Inner, Iteration, IterationScope

(* A family nothing happens to. *)
LEMMA FamilyFrame ==
    ASSUME flow' = flow,
           NEW m, NEW c, Family(m, c),
           levels'[m].outcomes[c] = levels[m].outcomes[c],
           <<m, c>> \in DOMAIN exec' <=> <<m, c>> \in DOMAIN exec,
           <<m, c>> \in DOMAIN exec => exec'[<<m, c>>] = exec[<<m, c>>],
           DOMAIN data \subseteq DOMAIN data',
           \A j : Member(j, m, c) =>
              /\ j \in DOMAIN levels' <=> j \in DOMAIN levels
              /\ IsOpen(j) => IsOpen(j)'
              /\ IsClosed(j) => levels'[j] = levels[j] /\ \A a \in Ids(Def(j)) : Childless(j, a)'
                                                                           \/ ~Childless(j, a)
    PROVE  Family(m, c)'
<1>1. \A j : Member(j, m, c)' <=> Member(j, m, c)
  BY KeysKept
<1>2. Kind(m, c)' = Kind(m, c)
  BY KeysKept
<1>3. Childless(m, c)' <=> Childless(m, c)
  BY <1>1 DEF Childless
<1>4. CASE <<m, c>> \notin DOMAIN exec
  <2>1. FamilyAtRest(m, c)
    BY <1>4 DEF Family
  <2>2. ASSUME NEW j \in DOMAIN levels', Member(j, m, c)
        PROVE  /\ levels'[j].phase = "closed"
               /\ \/ AllOk(levels'[j])
                  \/ levels'[m].outcomes[c] = "Failed"
                  \/ Recovered(j, <<m, c>>)'
    <3>1. j \in DOMAIN levels /\ levels[j].phase = "closed" /\ levels'[j] = levels[j]
      BY <2>1, <2>2 DEF FamilyAtRest, IsClosed
    <3>2. AllOk(levels[j]) \/ levels[m].outcomes[c] = "Failed" \/ Recovered(j, <<m, c>>)
      BY <2>1, <2>2, <3>1 DEF FamilyAtRest
    <3>3. Recovered(j, <<m, c>>) => Recovered(j, <<m, c>>)'
      <4> DEFINE o == Inner(m, c, "other")
      <4>1. o' = o /\ Inner(m, c, "body")' = Inner(m, c, "body")
        BY DEF Inner
      <4>2. Recovered(j, <<m, c>>) <=> /\ Kind(m, c) = "Try" /\ j = Inner(m, c, "body")
                                       /\ o \in DOMAIN levels /\ AllOk(levels[o])
        BY DEF Recovered
      <4>3. Recovered(j, <<m, c>>)' <=> /\ Kind(m, c)' = "Try" /\ j = Inner(m, c, "body")'
                                        /\ o' \in DOMAIN levels' /\ AllOk(levels'[o'])
        BY DEF Recovered
      <4>4. ASSUME Recovered(j, <<m, c>>) PROVE levels'[o] = levels[o] /\ o \in DOMAIN levels'
        <5>1. Member(o, m, c) /\ o \in DOMAIN levels
          BY <4>2, <4>4 DEF Member, Branch
        <5>2. IsClosed(o)
          BY <2>1, <5>1 DEF FamilyAtRest, IsClosed
        <5>3. QED
          BY <5>1, <5>2
      <4>5. QED
        BY <1>2, <4>1, <4>2, <4>3, <4>4
    <3>4. QED
      BY <3>1, <3>2, <3>3
  <2>3. levels'[m].outcomes[c] \notin {"Succeeded", "Failed"} => Childless(m, c)'
    BY <1>3, <2>1 DEF FamilyAtRest
  <2>4. FamilyAtRest(m, c)'
    BY <1>1, <2>2, <2>3 DEF FamilyAtRest
  <2>5. QED
    BY <1>4, <2>4 DEF Family
<1>5. CASE <<m, c>> \in DOMAIN exec /\ Kind(m, c) = "Foreach"
  <2> DEFINE e == exec[<<m, c>>]
  <2>1. FamilyOfIterations(m, c, e)
    BY <1>5 DEF Family
  <2>2. \A index \in Nat : Member(Iteration(m, c, index), m, c)
    BY <1>5 DEF Member
  <2>3. ASSUME NEW index \in Nat
        PROVE  Iteration(m, c, index)' = Iteration(m, c, index)
               /\ IterationScope(m, c, index)' = IterationScope(m, c, index)
               /\ (Given(Iteration(m, c, index))' <=> Given(Iteration(m, c, index)))
    BY DEF Iteration, IterationScope, Given
  <2> HIDE DEF e
  <2>4. ASSUME e.stage = "iterations", NEW index \in Nat
        PROVE  LET inner == Iteration(m, c, index)
               IN  /\ index \in e.open => IsOpen(inner)'
                   /\ index \in e.queued =>
                         /\ inner \notin DOMAIN levels'
                         /\ index \notin e.open
                         /\ IterationScope(m, c, index) \in DOMAIN data'
                         /\ Given(inner)
                   /\ index \notin e.open /\ inner \in DOMAIN levels' =>
                         levels'[inner].phase = "closed" /\ (AllOk(levels'[inner]) \/ e.failed)
    <3> DEFINE inner == Iteration(m, c, index)
    <3>1. Member(inner, m, c)
      BY <2>2
    <3> HIDE DEF inner
    <3>2. /\ index \in e.open => IsOpen(inner)
          /\ index \in e.queued =>
                /\ inner \notin DOMAIN levels
                /\ index \notin e.open
                /\ IterationScope(m, c, index) \in DOMAIN data
                /\ Given(inner)
          /\ index \notin e.open /\ inner \in DOMAIN levels =>
                levels[inner].phase = "closed" /\ (AllOk(levels[inner]) \/ e.failed)
      BY <2>1, <2>4 DEF FamilyOfIterations, inner
    <3>3. /\ inner \in DOMAIN levels' <=> inner \in DOMAIN levels
          /\ IsOpen(inner) => IsOpen(inner)'
          /\ IsClosed(inner) => levels'[inner] = levels[inner]
      BY <3>1
    <3>4. index \notin e.open /\ inner \in DOMAIN levels' =>
                levels'[inner].phase = "closed" /\ (AllOk(levels'[inner]) \/ e.failed)
      BY <3>2, <3>3 DEF IsClosed
    <3>5. QED
      BY <3>2, <3>3, <3>4 DEF inner
  <2>5. exec'[<<m, c>>] = e
    BY <1>5 DEF e
  <2>6. e.stage # "iterations" => Childless(m, c)'
    BY <1>3, <2>1 DEF FamilyOfIterations
  <2>7. FamilyOfIterations(m, c, exec[<<m, c>>])'
    BY <2>3, <2>4, <2>5, <2>6 DEF FamilyOfIterations
  <2>8. QED
    BY <1>2, <1>5, <2>7 DEF Family
<1>6. CASE <<m, c>> \in DOMAIN exec /\ Kind(m, c) # "Foreach"
  <2> DEFINE stage == exec[<<m, c>>].stage
             body == Inner(m, c, "body")
             other == Inner(m, c, "other")
  <2>1. FamilyOfBranches(m, c, stage)
    BY <1>6 DEF Family
  <2>2. Member(body, m, c) /\ Member(other, m, c)
    BY <1>6 DEF Member, Branch
  <2>3. body' = body /\ other' = other
    BY DEF Inner
  <2>4. \A k : (Given(k)' <=> Given(k)) /\ Def(k)' = Def(k)
    BY KeysKept
  <2>5. /\ body \in DOMAIN levels' <=> body \in DOMAIN levels
        /\ IsOpen(body) => IsOpen(body)'
        /\ IsClosed(body) => levels'[body] = levels[body]
                             /\ \A a \in Ids(Def(body)) : Childless(body, a)' \/ ~Childless(body, a)
        /\ other \in DOMAIN levels' <=> other \in DOMAIN levels
        /\ IsOpen(other) => IsOpen(other)'
        /\ IsClosed(other) => levels'[other] = levels[other]
    BY <2>2
  <2> HIDE DEF stage, body, other
  <2>6. /\ stage \in {"leaf", "start"} => Childless(m, c)
        /\ stage = "head" =>
              /\ Given(body)
              /\ other \notin DOMAIN levels
              /\ body \in DOMAIN levels =>
                    /\ levels[body].phase = "closed"
                    /\ AllOk(levels[body])
                    /\ \A a \in Ids(Def(body)) : Childless(body, a)
        /\ stage = "body" => IsOpen(body) /\ other \notin DOMAIN levels
        /\ stage = "other" =>
              /\ IsOpen(other)
              /\ body \in DOMAIN levels => IsClosed(body) /\ Kind(m, c) = "Try"
    BY <2>1 DEF FamilyOfBranches, body, other
  <2>7. body \in DOMAIN levels /\ stage = "head" =>
              /\ levels'[body].phase = "closed"
              /\ AllOk(levels'[body])
              /\ \A a \in Ids(Def(body)) : Childless(body, a)'
    BY <2>5, <2>6 DEF IsClosed
  <2>8. stage = "other" => (body \in DOMAIN levels' => IsClosed(body)' /\ Kind(m, c) = "Try")
    BY <2>5, <2>6 DEF IsClosed
  <2>9. /\ stage \in {"leaf", "start"} => Childless(m, c)'
        /\ stage = "head" =>
              /\ Given(body)
              /\ other \notin DOMAIN levels'
              /\ body \in DOMAIN levels' =>
                    /\ levels'[body].phase = "closed"
                    /\ AllOk(levels'[body])
                    /\ \A a \in Ids(Def(body)) : Childless(body, a)'
        /\ stage = "body" => IsOpen(body)' /\ other \notin DOMAIN levels'
        /\ stage = "other" =>
              /\ IsOpen(other)'
              /\ body \in DOMAIN levels' => IsClosed(body)' /\ Kind(m, c) = "Try"
    BY <1>3, <2>5, <2>6, <2>7, <2>8
  <2>10. exec'[<<m, c>>].stage = stage
    BY <1>6 DEF stage
  <2>11. \A a : Childless(Inner(m, c, "body"), a)' <=> Childless(body, a)'
    BY <2>3 DEF body, Childless, Member, Kind, Def, Inner, Iteration, IterationScope
  <2>12. FamilyOfBranches(m, c, exec[<<m, c>>].stage)'
    BY <1>2, <2>3, <2>4, <2>9, <2>10, <2>11 DEF FamilyOfBranches, IsOpen, IsClosed, body, other
  <2>13. QED
    BY <1>2, <1>6, <2>12 DEF Family
<1>7. QED
  BY <1>4, <1>5, <1>6

-----------------------------------------------------------------------------
(* What a step of the executor of action a in level k may do to the        *)
(* levels: a level of the container is opened, one that is done is closed, *)
(* what is inside it may be forgotten, and k resolves a when it returns.   *)

OpenedNow(j, k, a) ==
    /\ Member(j, k, a)
    /\ ~IsOpen(j)
    /\ j \in DOMAIN levels => \A c \in Ids(Def(j)) : Childless(j, c)
    /\ Given(j)
    /\ j[2] \in DOMAIN data'
    /\ levels'[j] = NewLevel(Def(j))

ClosedNow(j, k, a) ==
    /\ Member(j, k, a)
    /\ j \in DOMAIN levels
    /\ levels[j].phase = "done"
    /\ levels'[j] = Close(levels[j])

ForgottenInside(inner, k, a) ==
    /\ Member(inner, k, a)
    /\ inner \in DOMAIN levels
    /\ levels[inner].phase = "done"
    /\ \A j \in DOMAIN levels : j \in DOMAIN levels' <=> ~Inside(j, inner)

ExecStep(k, a) ==
    /\ flow' = flow /\ result' = result
    /\ DOMAIN data \subseteq DOMAIN data'
    /\ <<k, a>> \in DOMAIN exec
    /\ DOMAIN exec' \subseteq DOMAIN exec
    /\ \A i \in DOMAIN exec : i # <<k, a>> => i \in DOMAIN exec' /\ exec'[i] = exec[i]
    /\ <<k, a>> \in DOMAIN exec' =>
          /\ exec'[<<k, a>>] \in ExecType
          /\ exec'[<<k, a>>].stage = "iterations" => Kind(k, a) = "Foreach"
          /\ exec'[<<k, a>>].stage \in {"head", "body", "other"} => Kind(k, a) # "Foreach"
    /\ k \in DOMAIN levels'
    /\ IF <<k, a>> \in DOMAIN exec' THEN levels'[k] = levels[k]
       ELSE \E outcome \in {"Succeeded", "Failed"} : levels'[k] = Resolve(levels[k], a, outcome)
    /\ \A j \in DOMAIN levels' \ {k} :
          \/ j \in DOMAIN levels /\ levels'[j] = levels[j]
          \/ ClosedNow(j, k, a)
          \/ OpenedNow(j, k, a)
    /\ \/ DOMAIN levels \subseteq DOMAIN levels'
       \/ \E inner : ForgottenInside(inner, k, a)

LEMMA ExecStepLevel ==
    ASSUME TreeSound, NEW k, NEW a, ExecStep(k, a)
    PROVE  /\ LevelSound(Def(k), levels'[k])
           /\ levels'[k].phase \in {"pass", "wait"}
           /\ levels[k].phase \in {"pass", "wait"}
           /\ levels[k].running \ {a} \subseteq levels'[k].running
           /\ <<k, a>> \in DOMAIN exec' => a \in levels'[k].running
           /\ \A c \in Ids(Def(k)) \ {a} : levels'[k].outcomes[c] = levels[k].outcomes[c]
<1>1. k \in DOMAIN levels /\ a \in levels[k].running /\ levels[k].phase \in {"pass", "wait"}
  BY ExecFacts DEF TreeSound, ExecStep
<1>2. LevelSound(Def(k), levels[k])
  BY <1>1, LevelFacts DEF TreeSound
<1>3. CASE <<k, a>> \in DOMAIN exec'
  <2>1. levels'[k] = levels[k]
    BY <1>3 DEF ExecStep
  <2>2. QED
    BY <1>1, <1>2, <2>1
<1>4. CASE <<k, a>> \notin DOMAIN exec'
  <2>1. PICK outcome \in {"Succeeded", "Failed"} : levels'[k] = Resolve(levels[k], a, outcome)
    BY <1>4 DEF ExecStep
  <2>2. QED
    BY <1>1, <1>2, <1>4, <2>1, ResolveSound
<1>5. QED
  BY <1>3, <1>4

(* No level outside the container appears. *)
LEMMA ExecStepNew ==
    ASSUME TreeSound, NEW k, NEW a, ExecStep(k, a), NEW j \in DOMAIN levels',
           ~(j \in DOMAIN levels /\ levels'[j] = levels[j]), j # k
    PROVE  Member(j, k, a)
BY DEF ExecStep, ClosedNow, OpenedNow

LEMMA ExecStepLevelsSound ==
    ASSUME TreeSound, NEW k, NEW a, ExecStep(k, a)
    PROVE  LevelsSound'
<1>1. flow' = flow /\ DOMAIN data \subseteq DOMAIN data'
  BY DEF ExecStep
<1>2. k \in DOMAIN levels /\ k \in Key /\ a \in Names /\ ScopeFits(k)
  BY ExecFacts, LevelFacts DEF TreeSound, ExecStep
<1>3. SUFFICES ASSUME NEW j \in DOMAIN levels'
               PROVE  /\ j \in Key
                      /\ Given(j)
                      /\ LevelSound(Def(j), levels'[j])
                      /\ ScopeFits(j)
                      /\ j[2] \in DOMAIN data'
  BY <1>1, KeysKept DEF LevelsSound
<1>4. CASE j = k
  <2>1. Given(k) /\ k[2] \in DOMAIN data
    BY <1>2, LevelFacts DEF TreeSound
  <2>2. LevelSound(Def(k), levels'[k])
    BY ExecStepLevel
  <2>3. QED
    BY <1>1, <1>2, <1>4, <2>1, <2>2
<1>5. CASE j \in DOMAIN levels /\ levels'[j] = levels[j]
  BY <1>1, <1>5, LevelFacts DEF TreeSound
<1>6. CASE j # k /\ ClosedNow(j, k, a)
  BY <1>1, <1>6, CloseSound, LevelFacts DEF TreeSound, ClosedNow
<1>7. CASE j # k /\ OpenedNow(j, k, a)
  <2>1. j \in Key /\ ScopeFits(j)
    BY <1>2, <1>7, MemberKey, MemberFits DEF OpenedNow
  <2>2. QED
    BY <1>7, <2>1, NewLevelSound DEF OpenedNow
<1>8. QED
  BY <1>4, <1>5, <1>6, <1>7 DEF ExecStep

(* Nothing executes in a level that is closed, opened or forgotten. *)
LEMMA ExecStepIdle ==
    ASSUME TreeSound, NEW k, NEW a, ExecStep(k, a), NEW j, NEW c, <<j, c>> \in DOMAIN exec
    PROVE  j \in DOMAIN levels' /\ (j = k \/ levels'[j] = levels[j])
<1>1. j \in DOMAIN levels /\ c \in levels[j].running /\ levels[j].phase \in {"pass", "wait"}
  BY ExecFacts DEF TreeSound
<1>2. j \in DOMAIN levels'
  <2>1. ASSUME NEW inner, ForgottenInside(inner, k, a), Inside(j, inner) PROVE FALSE
    <3>1. inner \in DOMAIN levels /\ levels[inner].phase = "done"
      BY <2>1 DEF ForgottenInside
    <3>2. levels[inner].running = {}
      BY <3>1, LevelFacts DEF TreeSound, LevelSound
    <3>3. levels[j].phase = "closed"
      BY <1>1, <2>1, <3>1, <3>2, NothingInside DEF TreeSound
    <3>4. QED
      BY <1>1, <3>3
  <2>2. QED
    BY <1>1, <2>1 DEF ExecStep, ForgottenInside
<1>3. ~ClosedNow(j, k, a)
  BY <1>1 DEF ClosedNow
<1>4. ~OpenedNow(j, k, a)
  BY <1>1 DEF OpenedNow, IsOpen
<1>5. QED
  BY <1>2, <1>3, <1>4 DEF ExecStep

LEMMA ExecStepExecSound ==
    ASSUME TreeSound, NEW k, NEW a, ExecStep(k, a)
    PROVE  ExecSound'
<1>1. flow' = flow
  BY DEF ExecStep
<1>2. SUFFICES ASSUME NEW i \in DOMAIN exec'
               PROVE  /\ i = <<i[1], i[2]>>
                      /\ i[1] \in DOMAIN levels'
                      /\ i[2] \in levels'[i[1]].running
                      /\ exec'[i] \in ExecType
                      /\ exec'[i].stage = "iterations" => Kind(i[1], i[2]) = "Foreach"
                      /\ exec'[i].stage \in {"head", "body", "other"} => Kind(i[1], i[2]) # "Foreach"
  BY <1>1, KeysKept DEF ExecSound
<1>3. i \in DOMAIN exec /\ i = <<i[1], i[2]>>
  BY DEF ExecStep, TreeSound, ExecSound
<1>4. CASE i = <<k, a>>
  <2>1. i[1] = k /\ i[2] = a
    BY <1>4
  <2>2. QED
    BY <1>4, <2>1, ExecStepLevel DEF ExecStep
<1>5. CASE i # <<k, a>>
  <2>1. i[1] \in DOMAIN levels' /\ (i[1] = k \/ levels'[i[1]] = levels[i[1]])
    BY <1>3, ExecStepIdle
  <2>2. exec'[i] = exec[i]
    BY <1>3, <1>5 DEF ExecStep
  <2>3. i[2] \in levels[i[1]].running
    BY <1>3 DEF TreeSound, ExecSound
  <2>4. i[1] = k => i[2] # a
    BY <1>3, <1>5
  <2>5. i[2] \in levels'[i[1]].running
    <3>1. levels[k].running \ {a} \subseteq levels'[k].running
      BY ExecStepLevel
    <3>2. QED
      BY <2>1, <2>3, <2>4, <3>1
  <2>6. QED
    BY <1>3, <2>1, <2>2, <2>5 DEF TreeSound, ExecSound
<1>6. QED
  BY <1>4, <1>5

LEMMA ExecStepNoOrphans ==
    ASSUME TreeSound, NEW k, NEW a, ExecStep(k, a)
    PROVE  NoOrphans'
<1>1. flow' = flow /\ k \in DOMAIN levels /\ k \in DOMAIN levels' /\ a \in Ids(Def(k))
  BY ExecFacts DEF TreeSound, ExecStep
<1>2. RootKey' = RootKey
  BY DEF RootKey
<1>3. SUFFICES ASSUME NEW j \in DOMAIN levels', j # RootKey
               PROVE  \E m \in DOMAIN levels' : \E c \in Ids(Def(m)) : Member(j, m, c)
  BY <1>1, <1>2, KeysKept DEF NoOrphans
<1>4. CASE j \in DOMAIN levels
  <2>0. PICK m \in DOMAIN levels : \E c \in Ids(Def(m)) : Member(j, m, c)
    BY <1>3, <1>4 DEF TreeSound, NoOrphans
  <2>1. PICK c \in Ids(Def(m)) : Member(j, m, c)
    BY <2>0
  <2>2. m \in Key /\ c \in Names /\ j \in Key
    BY <1>4, LevelFacts DEF TreeSound
  <2>3. ASSUME NEW inner, ForgottenInside(inner, k, a), Inside(m, inner) PROVE FALSE
    <3>1. inner \in Key
      BY <2>3, LevelFacts DEF TreeSound, ForgottenInside
    <3>2. Inside(j, inner)
      BY <2>1, <2>2, <2>3, <3>1, MemberInside, InsideTransitive
    <3>3. QED
      BY <1>4, <2>3, <3>2 DEF ForgottenInside
  <2>4. m \in DOMAIN levels'
    BY <2>3 DEF ExecStep, ForgottenInside
  <2>5. QED
    BY <2>1, <2>4
<1>5. CASE j \notin DOMAIN levels
  BY <1>1, <1>5, ExecStepNew
<1>6. QED
  BY <1>4, <1>5

LEMMA ExecStepFamilies ==
    ASSUME TreeSound, NEW k, NEW a, ExecStep(k, a), Family(k, a)'
    PROVE  FamiliesSound'
<1>1. /\ flow' = flow /\ DOMAIN data \subseteq DOMAIN data'
      /\ k \in DOMAIN levels /\ k \in DOMAIN levels'
      /\ a \in Ids(Def(k)) /\ k \in Key /\ a \in Names
      /\ levels[k].phase \in {"pass", "wait"} /\ levels'[k].phase \in {"pass", "wait"}
  BY ExecFacts, ExecStepLevel DEF TreeSound, ExecStep
<1>2. SUFFICES ASSUME NEW m \in DOMAIN levels', NEW c \in Ids(Def(m)), <<m, c>> # <<k, a>>
               PROVE  Family(m, c)'
  BY <1>1, KeysKept DEF FamiliesSound
<1>3. m \in Key /\ Ids(Def(m)) \subseteq Names /\ c \in Names
  <2>1. m \in Key /\ Given(m)
    BY <1>1, ExecStepLevelsSound, KeysKept DEF LevelsSound
  <2>2. m[1] \in DOMAIN flow /\ flow \in Flows
    BY <2>1 DEF Given, TreeSound, ResultSound
  <2>3. Ids(flow[m[1]]) \in {Ids(flow[path]) : path \in DOMAIN flow}
    BY <2>2
  <2>4. Ids(flow[m[1]]) \subseteq UNION {Ids(flow[path]) : path \in DOMAIN flow}
    BY <2>3
  <2>5. QED
    BY <2>1, <2>2, <2>4 DEF Names, Def
<1>4. ASSUME NEW j, Member(j, m, c) PROVE ~Member(j, k, a)
  BY <1>1, <1>2, <1>3, <1>4, MemberUnique
<1>5. <<m, c>> \in DOMAIN exec' <=> <<m, c>> \in DOMAIN exec
  BY <1>2 DEF ExecStep
<1>6. <<m, c>> \in DOMAIN exec => exec'[<<m, c>>] = exec[<<m, c>>]
  BY <1>2 DEF ExecStep
<1>7. CASE m # k /\ OpenedNow(m, k, a)
  <2>1. <<m, c>> \notin DOMAIN exec
    <3>1. <<m, c>> \in DOMAIN exec => m \in DOMAIN levels /\ levels[m].phase \in {"pass", "wait"}
      BY ExecFacts DEF TreeSound
    <3>2. QED
      BY <1>7, <3>1 DEF OpenedNow, IsOpen
  <2>2. ASSUME NEW j \in DOMAIN levels', Member(j, m, c) PROVE FALSE
    <3>1. j # k
      <4>1. Len(j[1]) = Len(m[1]) + 1 /\ Len(m[1]) = Len(k[1]) + 1 /\ Len(k[1]) \in Nat
        BY <1>1, <1>3, <1>7, <2>2, MemberLonger, KeyParts DEF OpenedNow, Path
      <4>2. QED
        BY <4>1
    <3>2. j \in DOMAIN levels
      BY <1>4, <2>2, <3>1, ExecStepNew
    <3>3. m \in DOMAIN levels
      BY <1>3, <2>2, <3>2, ParentFacts DEF TreeSound
    <3>4. Childless(m, c)
      BY <1>7, <3>3 DEF OpenedNow
    <3>5. QED
      BY <2>2, <3>2, <3>4 DEF Childless
  <2>3. \A j : Member(j, m, c)' <=> Member(j, m, c)
    BY <1>1, KeysKept
  <2>4. FamilyAtRest(m, c)'
    BY <2>2, <2>3 DEF FamilyAtRest, Childless
  <2>5. QED
    BY <1>5, <2>1, <2>4 DEF Family
<1>8. CASE m = k \/ ~OpenedNow(m, k, a)
  <2>1. m \in DOMAIN levels /\ c \in Ids(Def(m))
    BY <1>1, <1>2, <1>8 DEF ExecStep, ClosedNow
  <2>2. levels'[m].outcomes[c] = levels[m].outcomes[c]
    <3>1. CASE m = k
      <4>1. \A b \in Ids(Def(k)) \ {a} : levels'[k].outcomes[b] = levels[k].outcomes[b]
        BY ExecStepLevel
      <4>2. c # a
        BY <1>2, <3>1
      <4>3. QED
        BY <2>1, <3>1, <4>1, <4>2
    <3>2. CASE levels'[m] = levels[m]
      BY <3>2
    <3>3. CASE ClosedNow(m, k, a)
      BY <3>3, <2>1, LevelFacts, CloseSound DEF TreeSound, ClosedNow
    <3>4. QED
      BY <1>8, <3>1, <3>2, <3>3 DEF ExecStep
  <2>3. Family(m, c)
    BY <2>1 DEF TreeSound, FamiliesSound
  <2>4. \A j : Member(j, m, c)' <=> Member(j, m, c)
    BY <1>1, KeysKept
  <2>5. CASE ForgottenInside(m, k, a)
    <3>1. ASSUME NEW j \in DOMAIN levels', Member(j, m, c) PROVE FALSE
      <4>1. j # k
        <5>1. Len(j[1]) = Len(m[1]) + 1 /\ Len(m[1]) = Len(k[1]) + 1 /\ Len(k[1]) \in Nat
          BY <1>1, <1>3, <2>5, <3>1, MemberLonger, KeyParts DEF ForgottenInside, Path
        <5>2. QED
          BY <5>1
      <4>2. j \in DOMAIN levels
        BY <1>4, <3>1, <4>1, ExecStepNew
      <4>3. Inside(j, m)
        BY <1>3, <3>1, MemberInside
      <4>4. QED
        BY <2>5, <4>2, <4>3 DEF ForgottenInside
    <3>2. <<m, c>> \notin DOMAIN exec
      <4>1. <<m, c>> \in DOMAIN exec => levels[m].phase \in {"pass", "wait"}
        BY ExecFacts DEF TreeSound
      <4>2. QED
        BY <2>5, <4>1 DEF ForgottenInside
    <3>3. FamilyAtRest(m, c)'
      BY <2>4, <3>1 DEF FamilyAtRest, Childless
    <3>4. QED
      BY <1>5, <3>2, <3>3 DEF Family
  <2>6. CASE ~ForgottenInside(m, k, a)
    <3>1. ASSUME NEW j, Member(j, m, c)
          PROVE  /\ j \in DOMAIN levels' <=> j \in DOMAIN levels
                 /\ IsOpen(j) => IsOpen(j)'
                 /\ IsClosed(j) => levels'[j] = levels[j] /\ \A b \in Ids(Def(j)) : Childless(j, b)'
                                                                          \/ ~Childless(j, b)
      <4>1. ~Member(j, k, a) /\ j \in Key
        BY <1>3, <1>4, <3>1, MemberKey
      <4>2. j \in DOMAIN levels' => j \in DOMAIN levels
        BY <1>1, <4>1, ExecStepNew
      <4>3. ASSUME j \in DOMAIN levels, NEW inner, ForgottenInside(inner, k, a), Inside(j, inner)
            PROVE  FALSE
        <5>1. inner \in Key /\ ScopeFits(inner) /\ ScopeFits(m) /\ inner \in DOMAIN levels
          BY <2>1, <4>3, LevelFacts DEF TreeSound, ForgottenInside
        <5>2. inner = m \/ Inside(m, inner)
          BY <1>3, <3>1, <4>3, <5>1, InsideMember
        <5>3. QED
          BY <2>1, <2>6, <4>3, <5>2 DEF ForgottenInside
      <4>4. j \in DOMAIN levels => j \in DOMAIN levels'
        BY <4>3 DEF ExecStep, ForgottenInside
      <4>5. j \in DOMAIN levels /\ j # k => levels'[j] = levels[j]
        BY <4>1, <4>4, ExecStepNew
      <4>6. IsOpen(j) => IsOpen(j)'
        BY <1>1, <4>4, <4>5 DEF IsOpen
      <4>7. IsClosed(j) => levels'[j] = levels[j] /\ j # k
        BY <1>1, <4>5 DEF IsClosed
      <4>8. ASSUME IsClosed(j), NEW b \in Ids(Def(j)), Childless(j, b) PROVE Childless(j, b)'
        <5>1. SUFFICES ASSUME NEW i \in DOMAIN levels', Member(i, j, b) PROVE FALSE
          BY <1>1, KeysKept DEF Childless
        <5>2. i \notin DOMAIN levels
          BY <4>8, <5>1 DEF Childless
        <5>3. Member(i, k, a)
          BY <1>1, <5>2, ExecStepNew
        <5>4. b \in Names
          <6>1. j \in DOMAIN levels
            BY <4>8 DEF IsClosed
          <6>2. QED
            BY <4>8, <6>1, LevelFacts DEF TreeSound
        <5>5. j = k
          BY <1>1, <4>1, <5>1, <5>3, <5>4, MemberUnique
        <5>6. QED
          BY <1>1, <4>8, <5>5 DEF IsClosed
      <4>9. QED
        BY <4>2, <4>4, <4>6, <4>7, <4>8
    <3>2. QED
      BY <1>1, <1>5, <1>6, <2>2, <2>3, <3>1, FamilyFrame
  <2>7. QED
    BY <2>5, <2>6
<1>9. QED
  BY <1>7, <1>8

LEMMA ExecStepLineage ==
    ASSUME TreeSound, NEW k, NEW a, ExecStep(k, a)
    PROVE  Lineage'
<1>1. /\ flow' = flow
      /\ k \in DOMAIN levels /\ k \in DOMAIN levels'
      /\ a \in Ids(Def(k)) /\ k \in Key /\ a \in Names /\ ScopeFits(k)
      /\ IsOpen(k) /\ IsOpen(k)'
  BY ExecFacts, ExecStepLevel, LevelFacts DEF TreeSound, ExecStep, IsOpen
<1>2. ASSUME NEW j \in DOMAIN levels' PROVE j \in Key /\ ScopeFits(j)
  BY <1>1, ExecStepLevelsSound, KeysKept DEF LevelsSound
<1>3. SUFFICES ASSUME NEW j \in DOMAIN levels', NEW m \in DOMAIN levels', IsOpen(j)', Inside(j, m)
               PROVE  \E i \in DOMAIN levels' : \E c \in Ids(Def(m)) :
                         Member(i, m, c) /\ IsOpen(i)' /\ (i = j \/ Inside(j, i))
  BY <1>1, KeysKept DEF Lineage, Inside
<1>4. j \in Key /\ m \in Key /\ ScopeFits(j) /\ ScopeFits(m)
  BY <1>2
(* What was open above an open level still is. *)
<1>5. ASSUME NEW i \in DOMAIN levels, IsOpen(i), NEW h \in DOMAIN levels, h \in DOMAIN levels', IsOpen(h),
             IsOpen(h)', i = h \/ Inside(h, i)
      PROVE  i \in DOMAIN levels' /\ IsOpen(i)'
  <2>1. i \in Key /\ h \in Key
    BY <1>5, LevelFacts DEF TreeSound
  <2>2. ASSUME NEW inner \in DOMAIN levels, levels[inner].phase = "done", Inside(i, inner) PROVE FALSE
    <3>1. levels[inner].running = {}
      BY <2>2, LevelFacts DEF TreeSound, LevelSound
    <3>2. QED
      BY <1>5, <2>2, <3>1, NothingInside DEF TreeSound, IsOpen
  <2>3. i \in DOMAIN levels'
    BY <1>5, <2>2 DEF ExecStep, ForgottenInside
  <2>4. ~ClosedNow(i, k, a)
    <3>1. SUFFICES ASSUME ClosedNow(i, k, a) PROVE FALSE
      OBVIOUS
    <3>2. levels[i].phase = "done" /\ levels[i].running = {}
      BY <1>5, <3>1, LevelFacts DEF TreeSound, LevelSound, ClosedNow
    <3>3. i = h
      BY <1>5, <3>2, NothingInside DEF TreeSound, IsOpen
    <3>4. levels'[i].phase = "closed"
      BY <1>5, <3>1, CloseSound, LevelFacts DEF TreeSound, ClosedNow
    <3>5. QED
      BY <1>5, <3>3, <3>4 DEF IsOpen
  <2>5. CASE i = k
    BY <1>1, <2>5
  <2>6. CASE i # k
    <3>1. ~OpenedNow(i, k, a)
      BY <1>5 DEF OpenedNow
    <3>2. levels'[i] = levels[i]
      BY <2>3, <2>4, <2>6, <3>1 DEF ExecStep
    <3>3. QED
      BY <1>5, <2>3, <3>2 DEF IsOpen
  <2>7. QED
    BY <2>3, <2>5, <2>6
<1>6. CASE IsOpen(j) /\ m \in DOMAIN levels /\ ~(m # k /\ OpenedNow(m, k, a))
  <2>1. j \in DOMAIN levels
    BY <1>6 DEF IsOpen
  <2>2. PICK i \in DOMAIN levels, c \in Ids(Def(m)) : Member(i, m, c) /\ IsOpen(i) /\ (i = j \/ Inside(j, i))
    BY <1>3, <1>6, <2>1 DEF TreeSound, Lineage
  <2>3. i \in DOMAIN levels' /\ IsOpen(i)'
    BY <1>3, <1>5, <1>6, <2>1, <2>2
  <2>4. QED
    BY <2>2, <2>3
<1>7. CASE IsOpen(j) /\ m # k /\ OpenedNow(m, k, a)
  <2>1. Member(m, k, a) /\ ~IsOpen(m)
    BY <1>7 DEF OpenedNow
  <2>2. j \in DOMAIN levels /\ Inside(m, k) /\ Inside(j, k)
    BY <1>1, <1>3, <1>4, <1>7, <2>1, MemberInside, InsideTransitive DEF IsOpen
  <2>3. PICK i \in DOMAIN levels, c \in Ids(Def(k)) : Member(i, k, c) /\ IsOpen(i) /\ (i = j \/ Inside(j, i))
    BY <1>1, <1>7, <2>2 DEF TreeSound, Lineage
  <2>4. i \in Key /\ ScopeFits(i)
    BY <2>3, LevelFacts DEF TreeSound
  <2>5. /\ Len(i[1]) = Len(k[1]) + 1 /\ Len(m[1]) = Len(k[1]) + 1
        /\ Len(k[1]) \in Nat /\ Len(j[1]) \in Nat
    <3>1. c \in Names
      BY <1>1, <2>3, LevelFacts DEF TreeSound
    <3>2. QED
      BY <1>1, <1>4, <2>1, <2>3, <3>1, MemberLonger, KeyParts DEF Path
  <2>6. Len(m[1]) < Len(j[1]) /\ IsPrefix(m[1], j[1]) /\ IsPrefix(m[2], j[2])
    BY <1>3, <1>4, InsideParts
  <2>7. i # j
    BY <2>5, <2>6
  <2>8. IsPrefix(i[1], j[1]) /\ IsPrefix(i[2], j[2])
    BY <1>4, <2>3, <2>4, <2>7, InsideParts
  <2>9. i[1] = m[1]
    BY <1>4, <2>4, <2>5, <2>6, <2>8, KeyParts, PrefixesEqual DEF Path
  <2>10. i[2] = m[2]
    <3>1. Len(i[2]) = Len(m[2])
      BY <1>4, <2>4, <2>9 DEF ScopeFits
    <3>2. QED
      BY <1>4, <2>4, <2>6, <2>8, <3>1, KeyParts, PrefixesEqual DEF Scope
  <2>11. i = m
    BY <1>4, <2>4, <2>9, <2>10, KeyEqual
  <2>12. QED
    BY <2>1, <2>3, <2>11
<1>8. CASE ~IsOpen(j)
  <2>1. j # k
    BY <1>1, <1>8
  <2>2. levels'[j].phase # "closed"
    BY <1>3 DEF IsOpen
  <2>3. ~ClosedNow(j, k, a)
    BY <2>2, CloseSound, LevelFacts DEF TreeSound, ClosedNow
  <2>4. OpenedNow(j, k, a)
    BY <1>3, <1>8, <2>1, <2>2, <2>3 DEF ExecStep, IsOpen
  <2>5. Member(j, k, a) /\ j # k
    BY <2>1, <2>4 DEF OpenedNow
  <2>6. m = k \/ Inside(k, m)
    BY <1>1, <1>3, <1>4, <2>5, InsideMember
  <2>7. CASE m = k
    BY <1>1, <1>3, <2>5, <2>7
  <2>8. CASE m # k
    <3>1. Inside(k, m)
      BY <2>6, <2>8
    <3>2. ~Member(m, k, a)
      <4>1. Len(m[1]) < Len(k[1]) /\ Len(k[1]) \in Nat /\ Len(m[1]) \in Nat
        BY <1>1, <1>4, <3>1, InsideParts, KeyParts DEF Path
      <4>2. Member(m, k, a) => Len(m[1]) = Len(k[1]) + 1
        BY <1>1, MemberLonger
      <4>3. QED
        BY <4>1, <4>2
    <3>3. m \in DOMAIN levels
      BY <2>8, <3>2, ExecStepNew
    <3>4. PICK i \in DOMAIN levels, c \in Ids(Def(m)) : Member(i, m, c) /\ IsOpen(i) /\ (i = k \/ Inside(k, i))
      BY <1>1, <3>1, <3>3 DEF TreeSound, Lineage
    <3>5. i \in DOMAIN levels' /\ IsOpen(i)' /\ i \in Key
      BY <1>1, <1>5, <3>4, LevelFacts DEF TreeSound
    <3>6. Inside(j, i)
      <4>1. Inside(j, k)
        BY <1>1, <2>5, MemberInside
      <4>2. QED
        BY <1>1, <1>4, <3>4, <3>5, <4>1, InsideTransitive
    <3>7. QED
      BY <3>4, <3>5, <3>6
  <2>9. QED
    BY <2>7, <2>8
<1>9. m \in DOMAIN levels \/ (m # k /\ OpenedNow(m, k, a))
  BY <1>1 DEF ExecStep, ClosedNow
<1>10. QED
  BY <1>6, <1>7, <1>8, <1>9

LEMMA ExecStepResult ==
    ASSUME TreeSound, NEW k, NEW a, ExecStep(k, a)
    PROVE  ResultSound'
<1>1. flow' = flow /\ result' = result /\ k \in Key /\ a \in Names /\ k \in DOMAIN levels
  BY ExecFacts DEF TreeSound, ExecStep
<1>2. RootKey' = RootKey
  BY DEF RootKey
<1>3. RootKey \in DOMAIN levels
  BY DEF TreeSound, ResultSound, ExecStep
<1>4. \A j : Member(j, k, a) => j # RootKey
  BY <1>1, MemberLonger
<1>5. RootKey \in DOMAIN levels'
  <2>1. ASSUME NEW inner \in DOMAIN levels PROVE ~Inside(RootKey, inner)
    <3>1. inner \in Key
      BY <2>1, LevelFacts DEF TreeSound
    <3>2. Len(inner[1]) \in Nat
      BY <3>1, KeyParts DEF Path
    <3>3. QED
      BY <3>1, <3>2, RootIsKey, InsideParts
  <2>2. QED
    BY <1>3, <2>1 DEF ExecStep, ForgottenInside
<1>6. CASE RootKey = k
  <2>1. levels[RootKey].phase # "closed" /\ levels'[RootKey].phase # "closed"
    BY <1>6, ExecStepLevel
  <2>2. QED
    BY <1>1, <1>2, <1>3, <1>5, <2>1 DEF TreeSound, ResultSound
<1>7. CASE RootKey # k
  <2>1. levels'[RootKey] = levels[RootKey]
    BY <1>4, <1>5, <1>7, ExecStepNew
  <2>2. QED
    BY <1>1, <1>2, <1>3, <1>5, <2>1 DEF TreeSound, ResultSound
<1>8. QED
  BY <1>6, <1>7

LEMMA ExecStepTree ==
    ASSUME TreeSound, NEW k, NEW a, ExecStep(k, a), Family(k, a)'
    PROVE  TreeSound'
BY ExecStepLevelsSound, ExecStepExecSound, ExecStepFamilies, ExecStepNoOrphans, ExecStepLineage,
   ExecStepResult DEF TreeSound

(* Who goes on after a step. *)
LEMMA AwakeOne ==
    ASSUME NEW x,
           \A j : AwakeLevel(j)' => x = <<"level", j>>,
           \A i : AwakeExec(i)' => x = <<"exec", i>>
    PROVE  OneAwake'
BY DEF OneAwake

LEMMA ExecStepAwake ==
    ASSUME TreeSound, OneAwake, NEW k, NEW a, ExecStep(k, a), NEW x,
           Quiet \/ AwakeExec(<<k, a>>) \/ \E inner : inner # k /\ ClosedNow(inner, k, a),
           \A j \in DOMAIN levels' \ {k} :
              \/ j \in DOMAIN levels /\ levels'[j] = levels[j]
              \/ ClosedNow(j, k, a)
              \/ x = <<"level", j>>,
           <<k, a>> \notin DOMAIN exec' => x = <<"level", k>>,
           AwakeExec(<<k, a>>)' => x = <<"exec", <<k, a>>>>
    PROVE  OneAwake'
<1>1. k \in DOMAIN levels
  BY ExecFacts DEF TreeSound, ExecStep
<1>2. ASSUME NEW j, ClosedNow(j, k, a) PROVE ~AwakeLevel(j)' /\ AwakeLevel(j)
  <2>1. LevelSound(Def(j), levels[j])
    BY <1>2, LevelFacts DEF TreeSound, ClosedNow
  <2>2. QED
    BY <1>2, <2>1, CloseSound DEF ClosedNow, AwakeLevel
<1>3. ASSUME NEW j, AwakeLevel(j) PROVE ClosedNow(j, k, a) /\ j # k
  <2>1. ~Quiet
    BY <1>3 DEF Quiet, AwakeLevel
  <2>2. ~AwakeExec(<<k, a>>)
    BY <1>3 DEF OneAwake, AwakeExec, AwakeLevel
  <2>3. PICK inner : inner # k /\ ClosedNow(inner, k, a)
    BY <2>1, <2>2
  <2>4. AwakeLevel(inner)
    BY <1>2, <2>3
  <2>5. QED
    BY <1>3, <2>3, <2>4 DEF OneAwake, AwakeLevel
<1>4. ASSUME NEW j, AwakeLevel(j)' PROVE x = <<"level", j>>
  <2>1. CASE j = k
    <3>1. <<k, a>> \in DOMAIN exec' => levels'[k] = levels[k]
      BY DEF ExecStep
    <3>2. <<k, a>> \notin DOMAIN exec'
      BY <1>1, <1>3, <1>4, <2>1, <3>1 DEF AwakeLevel
    <3>3. QED
      BY <2>1, <3>2
  <2>2. CASE j # k
    <3>1. ~ClosedNow(j, k, a)
      BY <1>2, <1>4
    <3>2. ~(j \in DOMAIN levels /\ levels'[j] = levels[j])
      BY <1>3, <1>4, <3>1 DEF AwakeLevel
    <3>3. QED
      BY <1>4, <2>2, <3>1, <3>2 DEF AwakeLevel
  <2>3. QED
    BY <2>1, <2>2
<1>5. ASSUME NEW i, AwakeExec(i)' PROVE x = <<"exec", i>>
  <2>1. CASE i = <<k, a>>
    BY <1>5, <2>1
  <2>2. CASE i # <<k, a>>
    <3>1. AwakeExec(i)
      BY <1>5, <2>2 DEF AwakeExec, ExecStep
    <3>2. ~Quiet
      BY <3>1 DEF Quiet, AwakeExec
    <3>3. ~AwakeExec(<<k, a>>)
      BY <2>2, <3>1 DEF OneAwake, AwakeExec
    <3>4. PICK inner : ClosedNow(inner, k, a)
      BY <3>2, <3>3
    <3>5. AwakeLevel(inner)
      BY <1>2, <3>4
    <3>6. QED
      BY <3>1, <3>5 DEF OneAwake, AwakeExec, AwakeLevel
  <2>3. QED
    BY <2>1, <2>2
<1>6. QED
  BY <1>4, <1>5, AwakeOne

-----------------------------------------------------------------------------
(* Contexts. *)

DataOk(d) ==
    \A s \in DOMAIN d :
        /\ s \in Scope
        /\ \A a \in DOMAIN d[s] : d[s][a].by \in Scope /\ IsPrefix(d[s][a].by, s)

LEMMA RecordSound ==
    ASSUME NEW d, DataOk(d), NEW k \in Key, NEW a, NEW error
    PROVE  DataOk(RecordOutputs(d, k, a, error)) /\ DOMAIN RecordOutputs(d, k, a, error) = DOMAIN d
<1> DEFINE r == RecordOutputs(d, k, a, error)
           entry == [by |-> k[2], error |-> error]
           new == Put(d[k[2]], a, entry)
<1>1. k[2] \in Scope /\ IsPrefix(k[2], k[2])
  BY KeyParts, PrefixReflexive DEF Scope
<1>2. DOMAIN r = DOMAIN d /\ \A s \in DOMAIN d : r[s] = IF s = k[2] THEN new ELSE d[s]
  BY DEF RecordOutputs
<1>3. entry.by = k[2]
  OBVIOUS
<1> HIDE DEF entry
<1>4. DOMAIN new = {a} \cup DOMAIN d[k[2]] /\ \A b \in DOMAIN new : new[b] = IF b = a THEN entry ELSE d[k[2]][b]
  BY DEF Put
<1> HIDE DEF r, new
<1>5. DataOk(r)
  <2>1. SUFFICES ASSUME NEW s \in DOMAIN r, NEW b \in DOMAIN r[s]
                 PROVE  s \in Scope /\ r[s][b].by \in Scope /\ IsPrefix(r[s][b].by, s)
    BY <1>2 DEF DataOk
  <2>2. CASE s = k[2] /\ b = a
    BY <1>1, <1>2, <1>3, <1>4, <2>1, <2>2
  <2>3. CASE s = k[2] /\ b # a
    BY <1>2, <1>4, <2>1, <2>3 DEF DataOk
  <2>4. CASE s # k[2]
    BY <1>2, <2>1, <2>4 DEF DataOk
  <2>5. QED
    BY <2>2, <2>3, <2>4
<1>6. QED
  BY <1>2, <1>5 DEF r

LEMMA ChildrenSound ==
    ASSUME DataSound, NEW k \in Key, k[2] \in DOMAIN data, NEW a \in Names, NEW total \in Nat
    PROVE  /\ DataOk(Extend(data, Children(k, a, total)))
           /\ DOMAIN Extend(data, Children(k, a, total)) =
                  {IterationScope(k, a, index) : index \in 1..total} \cup DOMAIN data
<1> DEFINE new == {IterationScope(k, a, index) : index \in 1..total}
           r == Extend(data, Children(k, a, total))
<1>1. /\ DOMAIN r = new \cup DOMAIN data
      /\ \A s \in DOMAIN r : r[s] = IF s \in new THEN data[k[2]] ELSE data[s]
  BY DEF Children, Extend
<1>2. ASSUME NEW s \in new
      PROVE  s \in Scope /\ IsPrefix(k[2], s)
  <2>1. PICK index \in 1..total : s = IterationScope(k, a, index)
    BY <1>2
  <2>2. index \in Nat
    BY <2>1
  <2>3. s = Append(k[2], <<a, index>>) /\ s \in Scope
    BY <2>1, <2>2, IterationKey
  <2>4. <<a, index>> \in Names \X Nat /\ k[2] \in Seq(Names \X Nat)
    BY <2>2, KeyParts DEF Scope
  <2>5. QED
    BY <2>3, <2>4, PrefixReflexive, PrefixThenAppend
<1> HIDE DEF r, new
<1>3. DataOk(r)
  <2>1. SUFFICES ASSUME NEW s \in DOMAIN r
                 PROVE  s \in Scope /\ \A b \in DOMAIN r[s] : r[s][b].by \in Scope /\ IsPrefix(r[s][b].by, s)
    BY DEF DataOk
  <2>2. CASE s \in new
    <3>1. s \in Scope /\ IsPrefix(k[2], s) /\ k[2] \in Scope /\ r[s] = data[k[2]]
      BY <1>1, <1>2, <2>2, KeyParts
    <3>2. ASSUME NEW b \in DOMAIN data[k[2]]
          PROVE  data[k[2]][b].by \in Scope /\ IsPrefix(data[k[2]][b].by, s)
      <4>1. data[k[2]][b].by \in Scope /\ IsPrefix(data[k[2]][b].by, k[2])
        BY DEF DataSound
      <4>2. QED
        BY <3>1, <4>1, PrefixTransitive DEF Scope
    <3>3. QED
      BY <3>1, <3>2
  <2>3. CASE s \notin new
    BY <1>1, <2>1, <2>3 DEF DataSound
  <2>4. QED
    BY <2>2, <2>3
<1>4. QED
  BY <1>1, <1>3 DEF r, new

-----------------------------------------------------------------------------
(* The steps of an executor, by what becomes of the levels.                *)

LEMMA ClosedLevels ==
    ASSUME NEW inner \in DOMAIN levels
    PROVE  /\ DOMAIN Closed(inner) = DOMAIN levels
           /\ Closed(inner)[inner] = Close(levels[inner])
           /\ \A j \in DOMAIN levels \ {inner} : Closed(inner)[j] = levels[j]
BY DEF Closed, Close

(* The executor goes on: it was just polled, or a level of its came to its *)
(* end and is left.                                                        *)
GoesOn(ls, k, a) ==
    \/ ls = levels /\ (Quiet \/ AwakeExec(<<k, a>>))
    \/ \E inner \in DOMAIN levels :
          Member(inner, k, a) /\ levels[inner].phase = "done" /\ ls = Closed(inner)

LEMMA GoesOnFacts ==
    ASSUME TreeSound, NEW k, NEW a, <<k, a>> \in DOMAIN exec, NEW ls, GoesOn(ls, k, a)
    PROVE  /\ DOMAIN ls = DOMAIN levels
           /\ k \in DOMAIN levels
           /\ ls[k] = levels[k]
           /\ \A j \in DOMAIN levels :
                 \/ ls[j] = levels[j]
                 \/ j # k /\ Member(j, k, a) /\ levels[j].phase = "done" /\ ls[j] = Close(levels[j])
           /\ \/ Quiet
              \/ AwakeExec(<<k, a>>)
              \/ \E inner \in DOMAIN levels :
                    /\ inner # k /\ Member(inner, k, a) /\ levels[inner].phase = "done"
                    /\ ls[inner] = Close(levels[inner])
<1>1. k \in DOMAIN levels /\ k \in Key /\ a \in Names
  BY ExecFacts DEF TreeSound
<1>2. CASE ls = levels /\ (Quiet \/ AwakeExec(<<k, a>>))
  BY <1>1, <1>2
<1>3. CASE \E inner \in DOMAIN levels :
              Member(inner, k, a) /\ levels[inner].phase = "done" /\ ls = Closed(inner)
  <2>1. PICK inner \in DOMAIN levels :
                Member(inner, k, a) /\ levels[inner].phase = "done" /\ ls = Closed(inner)
    BY <1>3
  <2>2. inner # k
    BY <1>1, <2>1, MemberLonger
  <2>3. /\ DOMAIN ls = DOMAIN levels
        /\ ls[inner] = Close(levels[inner])
        /\ \A j \in DOMAIN levels \ {inner} : ls[j] = levels[j]
    BY <2>1, ClosedLevels
  <2>4. QED
    BY <1>1, <2>1, <2>2, <2>3
<1>4. QED
  BY <1>2, <1>3 DEF GoesOn

(* execute_action returns. *)
LEMMA FinishShape ==
    ASSUME TreeSound, OneAwake, NEW k, NEW a, <<k, a>> \in DOMAIN exec,
           NEW outcome \in {"Succeeded", "Failed"}, NEW ls, GoesOn(ls, k, a),
           flow' = flow, result' = result, DOMAIN data \subseteq DOMAIN data',
           levels' = [ls EXCEPT ![k] = Resolve(@, a, outcome)],
           exec' = [i \in DOMAIN exec \ {<<k, a>>} |-> exec[i]]
    PROVE  /\ ExecStep(k, a)
           /\ OneAwake'
           /\ <<k, a>> \notin DOMAIN exec'
           /\ DOMAIN levels' = DOMAIN levels
           /\ levels'[k].outcomes[a] = outcome
           /\ \A j \in DOMAIN levels \ {k} : levels'[j] = ls[j]
<1>1. /\ DOMAIN ls = DOMAIN levels
      /\ k \in DOMAIN levels
      /\ ls[k] = levels[k]
      /\ \A j \in DOMAIN levels :
            \/ ls[j] = levels[j]
            \/ j # k /\ Member(j, k, a) /\ levels[j].phase = "done" /\ ls[j] = Close(levels[j])
      /\ \/ Quiet
         \/ AwakeExec(<<k, a>>)
         \/ \E inner \in DOMAIN levels :
               /\ inner # k /\ Member(inner, k, a) /\ levels[inner].phase = "done"
               /\ ls[inner] = Close(levels[inner])
  BY GoesOnFacts
<1>2. /\ DOMAIN levels' = DOMAIN levels
      /\ levels'[k] = Resolve(levels[k], a, outcome)
      /\ \A j \in DOMAIN levels \ {k} : levels'[j] = ls[j]
  BY <1>1
<1>3. <<k, a>> \notin DOMAIN exec'
  OBVIOUS
<1>4. \A j \in DOMAIN levels' \ {k} :
          \/ j \in DOMAIN levels /\ levels'[j] = levels[j]
          \/ ClosedNow(j, k, a)
  BY <1>1, <1>2 DEF ClosedNow
<1>5. ExecStep(k, a)
  BY <1>1, <1>2, <1>3, <1>4 DEF ExecStep
<1>6. levels'[k].outcomes[a] = outcome
  <2>1. LevelSound(Def(k), levels[k]) /\ a \in levels[k].running
    BY ExecFacts, LevelFacts DEF TreeSound
  <2>2. QED
    BY <1>2, <2>1, ResolveSound
<1>7. Quiet \/ AwakeExec(<<k, a>>) \/ \E inner : inner # k /\ ClosedNow(inner, k, a)
  BY <1>1, <1>2 DEF ClosedNow
<1> DEFINE x == <<"level", k>>
<1>8. x = <<"level", k>>
  OBVIOUS
<1> HIDE DEF x
<1>9. ~AwakeExec(<<k, a>>)'
  BY <1>3 DEF AwakeExec
<1>10. OneAwake'
  BY <1>4, <1>5, <1>7, <1>8, <1>9, ExecStepAwake
<1>11. QED
  BY <1>2, <1>3, <1>5, <1>6, <1>10

(* The executor keeps the result to itself and its progress becomes e. *)
Proceeds(k, a, e) ==
    /\ DOMAIN exec' = DOMAIN exec
    /\ exec'[<<k, a>>] = e
    /\ \A i \in DOMAIN exec \ {<<k, a>>} : exec'[i] = exec[i]
    /\ e \in ExecType
    /\ e.stage = "iterations" => Kind(k, a) = "Foreach"
    /\ e.stage \in {"head", "body", "other"} => Kind(k, a) # "Foreach"

(* It opens a level. *)
Opens(j, ls, k, a) ==
    /\ flow' = flow /\ result' = result /\ DOMAIN data \subseteq DOMAIN data'
    /\ Member(j, k, a)
    /\ ~IsOpen(j)
    /\ j \in DOMAIN levels => \A c \in Ids(Def(j)) : Childless(j, c)
    /\ Given(j)
    /\ j[2] \in DOMAIN data'
    /\ levels' = Put(ls, j, NewLevel(Def(j)))

LEMMA OpenShape ==
    ASSUME TreeSound, OneAwake, NEW k, NEW a, <<k, a>> \in DOMAIN exec, NEW e, NEW ls, NEW j,
           GoesOn(ls, k, a), Proceeds(k, a, e), e.stage \notin {"start", "head"},
           Opens(j, ls, k, a)
    PROVE  /\ ExecStep(k, a)
           /\ OneAwake'
           /\ DOMAIN levels' = DOMAIN levels \cup {j}
           /\ j # k
           /\ levels'[j].phase # "closed"
           /\ \A i \in DOMAIN levels \ {j} : levels'[i] = ls[i]
<1>1. /\ DOMAIN ls = DOMAIN levels
      /\ k \in DOMAIN levels
      /\ ls[k] = levels[k]
      /\ \A i \in DOMAIN levels :
            \/ ls[i] = levels[i]
            \/ i # k /\ Member(i, k, a) /\ levels[i].phase = "done" /\ ls[i] = Close(levels[i])
      /\ \/ Quiet
         \/ AwakeExec(<<k, a>>)
         \/ \E inner \in DOMAIN levels :
               /\ inner # k /\ Member(inner, k, a) /\ levels[inner].phase = "done"
               /\ ls[inner] = Close(levels[inner])
  BY GoesOnFacts
<1>2. j # k
  BY ExecFacts, MemberLonger DEF TreeSound, Opens
<1>3. /\ DOMAIN levels' = DOMAIN levels \cup {j}
      /\ levels'[j] = NewLevel(Def(j))
      /\ \A i \in DOMAIN levels \ {j} : levels'[i] = ls[i]
  BY <1>1 DEF Put, Opens
<1>4. OpenedNow(j, k, a)
  BY <1>3 DEF OpenedNow, Opens
<1>5. \A i \in DOMAIN levels' \ {k, j} :
          \/ i \in DOMAIN levels /\ levels'[i] = levels[i]
          \/ ClosedNow(i, k, a)
  BY <1>1, <1>3 DEF ClosedNow
<1>6. ExecStep(k, a)
  BY <1>1, <1>2, <1>3, <1>4, <1>5 DEF ExecStep, Proceeds, Opens
<1>7. Quiet \/ AwakeExec(<<k, a>>) \/ \E inner : inner # k /\ ClosedNow(inner, k, a)
  <2>1. ASSUME NEW inner \in DOMAIN levels, levels[inner].phase = "done" PROVE inner # j
    BY <2>1 DEF IsOpen, Opens
  <2>2. QED
    BY <1>1, <1>3, <2>1 DEF ClosedNow
<1> DEFINE x == <<"level", j>>
<1>8. x = <<"level", j>>
  OBVIOUS
<1> HIDE DEF x
<1>9. ~AwakeExec(<<k, a>>)' /\ <<k, a>> \in DOMAIN exec'
  BY DEF AwakeExec, Proceeds
<1>10. \A i \in DOMAIN levels' \ {k} :
          \/ i \in DOMAIN levels /\ levels'[i] = levels[i]
          \/ ClosedNow(i, k, a)
          \/ x = <<"level", i>>
  BY <1>5, <1>8
<1>11. OneAwake'
  BY <1>6, <1>7, <1>9, <1>10, ExecStepAwake
<1>12. levels'[j].phase # "closed"
  BY <1>3, NewLevelSound
<1>13. QED
  BY <1>2, <1>3, <1>6, <1>11, <1>12

(* It opens none. *)
LEMMA KeepShape ==
    ASSUME TreeSound, OneAwake, NEW k, NEW a, <<k, a>> \in DOMAIN exec, NEW e, NEW ls,
           GoesOn(ls, k, a), Proceeds(k, a, e),
           flow' = flow, result' = result, DOMAIN data \subseteq DOMAIN data',
           levels' = ls
    PROVE  ExecStep(k, a) /\ OneAwake'
<1>1. /\ DOMAIN ls = DOMAIN levels
      /\ k \in DOMAIN levels
      /\ ls[k] = levels[k]
      /\ \A i \in DOMAIN levels :
            \/ ls[i] = levels[i]
            \/ i # k /\ Member(i, k, a) /\ levels[i].phase = "done" /\ ls[i] = Close(levels[i])
      /\ \/ Quiet
         \/ AwakeExec(<<k, a>>)
         \/ \E inner \in DOMAIN levels :
               /\ inner # k /\ Member(inner, k, a) /\ levels[inner].phase = "done"
               /\ ls[inner] = Close(levels[inner])
  BY GoesOnFacts
<1>2. \A i \in DOMAIN levels' \ {k} :
          \/ i \in DOMAIN levels /\ levels'[i] = levels[i]
          \/ ClosedNow(i, k, a)
  BY <1>1 DEF ClosedNow
<1>3. ExecStep(k, a)
  BY <1>1, <1>2 DEF ExecStep, Proceeds
<1>4. Quiet \/ AwakeExec(<<k, a>>) \/ \E inner : inner # k /\ ClosedNow(inner, k, a)
  BY <1>1 DEF ClosedNow
<1> DEFINE x == <<"exec", <<k, a>>>>
<1>5. x = <<"exec", <<k, a>>>>
  OBVIOUS
<1> HIDE DEF x
<1>6. <<k, a>> \in DOMAIN exec'
  BY DEF Proceeds
<1>7. OneAwake'
  BY <1>2, <1>3, <1>4, <1>5, <1>6, ExecStepAwake
<1>8. QED
  BY <1>3, <1>7

(* A round of a loop is over: what was inside is forgotten. *)
LEMMA ForgetShape ==
    ASSUME TreeSound, OneAwake, NEW k, NEW a, <<k, a>> \in DOMAIN exec, NEW e,
           Proceeds(k, a, e),
           flow' = flow, result' = result, DOMAIN data \subseteq DOMAIN data',
           NEW inner \in DOMAIN levels, Member(inner, k, a), levels[inner].phase = "done",
           levels' = WithoutInside(inner)
    PROVE  /\ ExecStep(k, a)
           /\ OneAwake'
           /\ \A j : j \in DOMAIN levels' <=> j \in DOMAIN levels /\ ~Inside(j, inner)
           /\ levels'[inner] = Close(levels[inner])
           /\ inner \in DOMAIN levels'
           /\ \A j \in DOMAIN levels' \ {inner} : levels'[j] = levels[j]
<1>1. k \in DOMAIN levels /\ k \in Key /\ a \in Names
  BY ExecFacts DEF TreeSound
<1>2. inner \in Key /\ inner # k /\ Len(inner[1]) = Len(k[1]) + 1 /\ Len(k[1]) \in Nat
  BY <1>1, MemberLonger, MemberKey, KeyParts DEF Path
<1>3. DOMAIN levels' = {j \in DOMAIN levels : ~Inside(j, inner)}
  BY DEF WithoutInside, Inside
<1>4. \A j \in DOMAIN levels' : levels'[j] = Closed(inner)[j]
  BY <1>3 DEF WithoutInside, Inside
<1>5. ~Inside(k, inner) /\ ~Inside(inner, inner)
  BY <1>1, <1>2, InsideParts
<1>6. /\ levels'[inner] = Close(levels[inner])
      /\ \A j \in DOMAIN levels' \ {inner} : levels'[j] = levels[j]
  BY <1>3, <1>4, <1>5, ClosedLevels
<1>7. ClosedNow(inner, k, a)
  BY <1>6 DEF ClosedNow
<1>8. k \in DOMAIN levels' /\ levels'[k] = levels[k]
  BY <1>1, <1>2, <1>3, <1>5, <1>6
<1>9. \A i \in DOMAIN levels' \ {k} :
          \/ i \in DOMAIN levels /\ levels'[i] = levels[i]
          \/ ClosedNow(i, k, a)
  BY <1>3, <1>6, <1>7
<1>10. ForgottenInside(inner, k, a)
  BY <1>3 DEF ForgottenInside
<1>11. ExecStep(k, a)
  BY <1>8, <1>9, <1>10 DEF ExecStep, Proceeds
<1> DEFINE x == <<"exec", <<k, a>>>>
<1>12. x = <<"exec", <<k, a>>>>
  OBVIOUS
<1> HIDE DEF x
<1>13. <<k, a>> \in DOMAIN exec'
  BY DEF Proceeds
<1>14. OneAwake'
  BY <1>2, <1>7, <1>9, <1>11, <1>12, <1>13, ExecStepAwake
<1>15. QED
  BY <1>3, <1>5, <1>6, <1>11, <1>14

-----------------------------------------------------------------------------
(* Every step of an executor keeps the invariant.                          *)

LEMMA BeforeLevels ==
    ASSUME TreeSound, NEW k, NEW a, <<k, a>> \in DOMAIN exec,
           exec[<<k, a>>].stage \in {"leaf", "start"}
    PROVE  Childless(k, a)
<1>1. Family(k, a)
  BY ExecFacts DEF TreeSound, FamiliesSound
<1>2. QED
  BY <1>1 DEF Family, FamilyOfIterations, FamilyOfBranches

(* The end of an action: its levels are closed, and what failed in them    *)
(* shows in the outcome.                                                   *)
LEMMA FinishStep ==
    ASSUME IInv, NEW k, NEW a, <<k, a>> \in DOMAIN exec,
           NEW outcome \in {"Succeeded", "Failed"}, NEW error, NEW ls, NEW d, NEW st,
           GoesOn(ls, k, a), DataOk(d), DOMAIN d = DOMAIN data,
           Finish(k, a, outcome, error, ls, d, st),
           \A j \in DOMAIN levels : Member(j, k, a) =>
              /\ ls[j].phase = "closed"
              /\ AllOk(levels[j]) \/ outcome = "Failed" \/ Recovered(j, <<k, a>>)
    PROVE  IInv'
<1>1. TreeSound /\ OneAwake /\ k \in Key /\ k \in DOMAIN levels /\ a \in Names
  BY ExecFacts DEF IInv, TreeSound
<1>2. DataOk(data') /\ DOMAIN data' = DOMAIN d
  <2>1. CASE outcome = "Succeeded"
    BY <1>1, <2>1, RecordSound DEF Finish
  <2>2. CASE outcome # "Succeeded"
    BY <2>2 DEF Finish
  <2>3. QED
    BY <2>1, <2>2
<1>3. DataSound'
  BY <1>2 DEF DataSound, DataOk
<1>4. /\ flow' = flow /\ result' = result /\ DOMAIN data \subseteq DOMAIN data'
      /\ levels' = [ls EXCEPT ![k] = Resolve(@, a, outcome)]
      /\ exec' = [i \in DOMAIN exec \ {<<k, a>>} |-> exec[i]]
  BY <1>2 DEF Finish
<1>5. /\ ExecStep(k, a)
      /\ OneAwake'
      /\ <<k, a>> \notin DOMAIN exec'
      /\ DOMAIN levels' = DOMAIN levels
      /\ levels'[k].outcomes[a] = outcome
      /\ \A j \in DOMAIN levels \ {k} : levels'[j] = ls[j]
  BY <1>1, <1>4, FinishShape
<1>6. \A j : Member(j, k, a) => j # k
  BY <1>1, MemberLonger
<1>7. ASSUME NEW j \in DOMAIN levels, j # k PROVE AllOk(levels'[j]) <=> AllOk(levels[j])
  <2>1. ls[j] = levels[j] \/ (levels[j].phase = "done" /\ ls[j] = Close(levels[j]))
    BY <1>1, GoesOnFacts
  <2>2. LevelSound(Def(j), levels[j])
    BY <1>1, LevelFacts DEF TreeSound
  <2>3. QED
    BY <1>5, <1>7, <2>1, <2>2, CloseSound
<1>8. ASSUME NEW j, j \in DOMAIN levels', Member(j, k, a)
      PROVE  /\ levels'[j].phase = "closed"
             /\ AllOk(levels'[j]) \/ outcome = "Failed" \/ Recovered(j, <<k, a>>)'
  <2>1. j # k /\ j \in DOMAIN levels /\ levels'[j].phase = "closed"
    BY <1>5, <1>6, <1>8
  <2>2. Recovered(j, <<k, a>>) => Recovered(j, <<k, a>>)'
    <3> DEFINE o == Inner(k, a, "other")
    <3>1. o' = o /\ Inner(k, a, "body")' = Inner(k, a, "body") /\ Kind(k, a)' = Kind(k, a)
      BY <1>4, KeysKept DEF Inner
    <3>2. Recovered(j, <<k, a>>) <=> /\ Kind(k, a) = "Try" /\ j = Inner(k, a, "body")
                                     /\ o \in DOMAIN levels /\ AllOk(levels[o])
      BY DEF Recovered
    <3>3. Recovered(j, <<k, a>>)' <=> /\ Kind(k, a)' = "Try" /\ j = Inner(k, a, "body")'
                                      /\ o' \in DOMAIN levels' /\ AllOk(levels'[o'])
      BY DEF Recovered
    <3>4. Kind(k, a) = "Try" => o # k
      <4>1. Kind(k, a) = "Try" => Member(o, k, a)
        BY DEF Member, Branch
      <4>2. QED
        BY <1>6, <4>1
    <3> HIDE DEF o
    <3>5. QED
      BY <1>5, <1>7, <3>1, <3>2, <3>3, <3>4
  <2>3. QED
    BY <1>7, <1>8, <2>1, <2>2
<1>9. \A j : Member(j, k, a)' <=> Member(j, k, a)
  BY <1>4, KeysKept
<1>10. FamilyAtRest(k, a)'
  BY <1>5, <1>8, <1>9 DEF FamilyAtRest
<1>11. Family(k, a)'
  BY <1>5, <1>10 DEF Family
<1>12. QED
  BY <1>1, <1>3, <1>5, <1>11, ExecStepTree DEF IInv

(* An action that ends before it had any level. *)
LEMMA EndStep ==
    ASSUME IInv, NEW k, NEW a, <<k, a>> \in DOMAIN exec,
           NEW outcome \in {"Succeeded", "Failed"}, Quiet \/ AwakeExec(<<k, a>>),
           End(k, a, outcome),
           \A j \in DOMAIN levels : Member(j, k, a) =>
              /\ levels[j].phase = "closed"
              /\ AllOk(levels[j]) \/ outcome = "Failed"
    PROVE  IInv'
<1> DEFINE no == FALSE
           ls == levels
           d == data
           st == status
<1>1. Finish(k, a, outcome, no, ls, d, st)
  BY DEF End
<1>2. GoesOn(ls, k, a) /\ DataOk(d) /\ DOMAIN d = DOMAIN data
  BY DEF GoesOn, IInv, DataSound, DataOk
<1>3. \A j \in DOMAIN levels : Member(j, k, a) =>
              /\ ls[j].phase = "closed"
              /\ AllOk(levels[j]) \/ outcome = "Failed" \/ Recovered(j, <<k, a>>)
  OBVIOUS
<1> HIDE DEF no, ls, d, st
<1>4. QED
  BY <1>1, <1>2, <1>3, FinishStep

LEMMA LeafEndsStep ==
    ASSUME IInv, NEW k, NEW a, <<k, a>> \in DOMAIN exec, LeafEnds(k, a)
    PROVE  IInv'
<1>1. PICK outcome \in {"Succeeded", "Failed"} : End(k, a, outcome)
  BY DEF LeafEnds
<1>2. Childless(k, a)
  BY BeforeLevels DEF IInv, LeafEnds
<1>3. QED
  BY <1>1, <1>2, EndStep DEF LeafEnds, Childless

(* It ends as soon as it was polled. *)
LEMMA EndsAtOnce ==
    ASSUME IInv, NEW k, NEW a, <<k, a>> \in DOMAIN exec, exec[<<k, a>>].stage = "start",
           NEW outcome \in {"Succeeded", "Failed"}, End(k, a, outcome)
    PROVE  IInv'
<1>1. Childless(k, a)
  BY BeforeLevels DEF IInv
<1>2. AwakeExec(<<k, a>>)
  BY DEF AwakeExec
<1>3. QED
  BY <1>1, <1>2, EndStep DEF Childless

LEMMA ContainerErrsStep ==
    ASSUME IInv, NEW k, NEW a, <<k, a>> \in DOMAIN exec, ContainerErrs(k, a)
    PROVE  IInv'
<1> DEFINE outcome == "Failed"
<1>1. outcome \in {"Succeeded", "Failed"} /\ End(k, a, outcome) /\ exec[<<k, a>>].stage = "start"
  BY DEF ContainerErrs
<1> HIDE DEF outcome
<1>2. QED
  BY <1>1, EndsAtOnce

(* A level of a container other than a Foreach is opened. *)
LEMMA OpenLevelStep ==
    ASSUME IInv, NEW k, NEW a, <<k, a>> \in DOMAIN exec, Kind(k, a) # "Foreach",
           NEW branch \in Branch, NEW round \in Nat, NEW ls, GoesOn(ls, k, a),
           Given(Inner(k, a, branch)), ~IsOpen(Inner(k, a, branch)),
           Inner(k, a, branch) \in DOMAIN levels =>
              \A c \in Ids(Def(Inner(k, a, branch))) : Childless(Inner(k, a, branch), c),
           branch = "body" => Inner(k, a, "other") \notin DOMAIN levels,
           branch = "other" /\ Inner(k, a, "body") \in DOMAIN levels =>
              ls[Inner(k, a, "body")].phase = "closed" /\ Kind(k, a) = "Try",
           OpenLevel(k, a, branch, branch, round, ls),
           flow' = flow, result' = result, DataOk(data'), DOMAIN data' = DOMAIN data
    PROVE  IInv'
<1> DEFINE i == <<k, a>>
           e == [exec[i] EXCEPT !.stage = branch, !.round = round]
           j == Inner(k, a, branch)
           body == Inner(k, a, "body")
           other == Inner(k, a, "other")
<1>1. /\ TreeSound /\ OneAwake /\ k \in DOMAIN levels /\ k \in Key /\ a \in Names
      /\ exec[i] \in ExecType /\ exec[i].stage # "iterations" /\ k[2] \in DOMAIN data
  BY ExecFacts, LevelFacts DEF IInv, TreeSound
<1>2. exec' = [exec EXCEPT ![i] = e]
  BY DEF OpenLevel
<1>3. e \in ExecType /\ e.stage = branch
  BY <1>1 DEF ExecType, ProgressType, Branch
<1> HIDE DEF e
<1>4. Proceeds(k, a, e) /\ e.stage \notin {"start", "head"}
  BY <1>2, <1>3 DEF Proceeds, Branch
<1>5. levels' = Put(ls, j, NewLevel(Def(j)))
  BY DEF OpenLevel
<1>6. Member(j, k, a) /\ j[2] \in DOMAIN data' /\ Given(j) /\ ~IsOpen(j)
      /\ (j \in DOMAIN levels => \A c \in Ids(Def(j)) : Childless(j, c))
  BY <1>1, InnerKey DEF Member
<1>7. Member(body, k, a) /\ Member(other, k, a) /\ body' = body /\ other' = other /\ j \in {body, other}
      /\ (branch = "body" => j = body) /\ (branch = "other" => j = other) /\ body # other
  <2>1. Member(body, k, a) /\ Member(other, k, a)
    BY DEF Member, Branch
  <2>2. body' = body /\ other' = other
    BY DEF Inner
  <2>3. j \in {body, other} /\ (branch = "body" => j = body) /\ (branch = "other" => j = other)
    BY DEF Branch
  <2>4. body # other
    <3> DEFINE x == <<a, "body">>
               y == <<a, "other">>
               S == Names \X Branch
               s == k[1]
    <3>1. x \in S /\ y \in S /\ x # y /\ s \in Seq(S)
      BY <1>1, KeyParts DEF Branch, Path
    <3>2. body[1] = Append(s, x) /\ other[1] = Append(s, y)
      BY <1>1, InnerKey DEF Branch
    <3> HIDE DEF x, y, S, s, body, other
    <3>3. QED
      BY <3>1, <3>2, AppendSplits
  <2>5. QED
    BY <2>1, <2>2, <2>3, <2>4
<1> HIDE DEF j
<1>8. /\ ExecStep(k, a)
      /\ OneAwake'
      /\ DOMAIN levels' = DOMAIN levels \cup {j}
      /\ j # k
      /\ levels'[j].phase # "closed"
      /\ \A h \in DOMAIN levels \ {j} : levels'[h] = ls[h]
  <2>1. Opens(j, ls, k, a)
    BY <1>5, <1>6 DEF Opens
  <2>2. QED
    BY <1>1, <1>4, <2>1, OpenShape
<1>9. FamilyOfBranches(k, a, branch)'
  <2>1. branch = "body" => IsOpen(body)' /\ other \notin DOMAIN levels'
    BY <1>7, <1>8 DEF IsOpen
  <2>2. branch = "other" => /\ IsOpen(other)'
                            /\ body \in DOMAIN levels' => IsClosed(body)' /\ Kind(k, a) = "Try"
    BY <1>7, <1>8 DEF IsClosed, IsOpen
  <2>3. Kind(k, a)' = Kind(k, a)
    BY KeysKept
  <2>4. branch \in {"body", "other"}
    BY DEF Branch
  <2> HIDE DEF body, other
  <2>5. Inner(k, a, "body")' = body /\ Inner(k, a, "other")' = other
    BY <1>7 DEF body, other
  <2>6. QED
    BY <2>1, <2>2, <2>3, <2>4, <2>5 DEF FamilyOfBranches, IsOpen, IsClosed
<1>10. exec'[i].stage = branch /\ i \in DOMAIN exec'
  BY <1>3, <1>4 DEF Proceeds
<1>11. Family(k, a)'
  BY <1>9, <1>10, KeysKept DEF Family
<1>12. DataSound'
  BY DEF DataSound, DataOk
<1>13. QED
  BY <1>1, <1>8, <1>11, <1>12, ExecStepTree DEF IInv

LEMMA StartIfStep ==
    ASSUME IInv, NEW k, NEW a, <<k, a>> \in DOMAIN exec, StartIf(k, a)
    PROVE  IInv'
<1>1. Childless(k, a) /\ AwakeExec(<<k, a>>) /\ Kind(k, a) # "Foreach"
  BY BeforeLevels DEF IInv, StartIf, AwakeExec
<1>2. PICK branch \in Branch :
        IF Given(Inner(k, a, branch))
        THEN /\ OpenLevel(k, a, branch, branch, 0, levels)
             /\ UNCHANGED <<flow, result, data, status>>
        ELSE End(k, a, "Succeeded")
  BY DEF StartIf, Branch
<1>3. CASE ~Given(Inner(k, a, branch))
  <2> DEFINE outcome == "Succeeded"
  <2>1. outcome \in {"Succeeded", "Failed"} /\ End(k, a, outcome)
    BY <1>2, <1>3
  <2> HIDE DEF outcome
  <2>2. QED
    BY <2>1, EndsAtOnce DEF StartIf
<1>4. CASE Given(Inner(k, a, branch))
  <2> DEFINE round == 0
             ls == levels
  <2>1. OpenLevel(k, a, branch, branch, round, ls) /\ flow' = flow /\ result' = result /\ data' = data
    BY <1>2, <1>4
  <2>2. \A b \in Branch : Inner(k, a, b) \notin DOMAIN levels
    BY <1>1 DEF Childless, Member
  <2>3. round \in Nat /\ GoesOn(ls, k, a)
    BY <1>1 DEF GoesOn
  <2>4. DataOk(data')
    BY <2>1 DEF IInv, DataSound, DataOk
  <2>5. /\ ~IsOpen(Inner(k, a, branch)) /\ Inner(k, a, branch) \notin DOMAIN levels
        /\ Inner(k, a, "body") \notin DOMAIN levels /\ Inner(k, a, "other") \notin DOMAIN levels
    BY <2>2 DEF IsOpen, Branch
  <2> HIDE DEF round, ls
  <2>6. QED
    BY <1>1, <1>4, <2>1, <2>3, <2>4, <2>5, OpenLevelStep
<1>5. QED
  BY <1>3, <1>4

LEMMA StartTryStep ==
    ASSUME IInv, NEW k, NEW a, <<k, a>> \in DOMAIN exec, StartTry(k, a)
    PROVE  IInv'
<1>1. Childless(k, a) /\ AwakeExec(<<k, a>>) /\ Kind(k, a) # "Foreach"
  BY BeforeLevels DEF IInv, StartTry, AwakeExec
<1> DEFINE round == 0
           ls == levels
           branch == "body"
<1>2. OpenLevel(k, a, branch, branch, round, ls) /\ flow' = flow /\ result' = result /\ data' = data
      /\ Given(Inner(k, a, branch))
  BY DEF StartTry
<1>3. \A b \in Branch : Inner(k, a, b) \notin DOMAIN levels
  BY <1>1 DEF Childless, Member
<1>4. round \in Nat /\ GoesOn(ls, k, a) /\ branch \in Branch
  BY <1>1 DEF GoesOn, Branch
<1>5. DataOk(data')
  BY <1>2 DEF IInv, DataSound, DataOk
<1>6. /\ ~IsOpen(Inner(k, a, branch)) /\ Inner(k, a, branch) \notin DOMAIN levels
      /\ Inner(k, a, "body") \notin DOMAIN levels /\ Inner(k, a, "other") \notin DOMAIN levels
  BY <1>3 DEF IsOpen, Branch
<1> HIDE DEF round, ls, branch
<1>7. QED
  BY <1>1, <1>2, <1>4, <1>5, <1>6, OpenLevelStep

LEMMA StartUntilStep ==
    ASSUME IInv, NEW k, NEW a, <<k, a>> \in DOMAIN exec, StartUntil(k, a)
    PROVE  IInv'
<1> DEFINE i == <<k, a>>
           e == [exec[i] EXCEPT !.stage = "head"]
           ls == levels
<1>1. Childless(k, a) /\ AwakeExec(i) /\ Kind(k, a) # "Foreach" /\ Given(Inner(k, a, "body"))
  BY BeforeLevels DEF IInv, StartUntil, AwakeExec
<1>2. /\ TreeSound /\ OneAwake /\ exec[i] \in ExecType /\ exec[i].stage # "iterations"
  BY ExecFacts DEF IInv, TreeSound, StartUntil
<1>3. /\ exec' = [exec EXCEPT ![i] = e]
      /\ flow' = flow /\ result' = result /\ data' = data /\ levels' = ls
  BY DEF StartUntil
<1>4. e \in ExecType /\ e.stage = "head"
  BY <1>2 DEF ExecType, ProgressType
<1>5. GoesOn(ls, k, a)
  BY <1>1 DEF GoesOn
<1> HIDE DEF e, ls
<1>6. Proceeds(k, a, e)
  BY <1>1, <1>3, <1>4 DEF Proceeds
<1>7. ExecStep(k, a) /\ OneAwake'
  BY <1>2, <1>3, <1>5, <1>6, KeepShape
<1>8. \A b \in Branch : Inner(k, a, b) \notin DOMAIN levels'
  BY <1>1, <1>3 DEF Childless, Member, ls
<1>9. Given(Inner(k, a, "body"))'
  BY <1>1, <1>3 DEF Given, Inner
<1>10. Inner(k, a, "body")' \notin DOMAIN levels' /\ Inner(k, a, "other")' \notin DOMAIN levels'
  BY <1>8 DEF Branch, Inner
<1>11. exec'[i].stage = "head" /\ i \in DOMAIN exec'
  BY <1>4, <1>6 DEF Proceeds
<1>12. FamilyOfBranches(k, a, exec[i].stage)'
  BY <1>9, <1>10, <1>11 DEF FamilyOfBranches
<1>13. Family(k, a)'
  BY <1>1, <1>3, <1>11, <1>12, KeysKept DEF Family
<1>14. DataSound'
  BY <1>3 DEF IInv, DataSound
<1>15. QED
  BY <1>2, <1>7, <1>13, <1>14, ExecStepTree DEF IInv

LEMMA UntilHeadStep ==
    ASSUME IInv, NEW k, NEW a, <<k, a>> \in DOMAIN exec, UntilHead(k, a)
    PROVE  IInv'
<1>1. /\ TreeSound /\ Kind(k, a) # "Foreach" /\ exec[<<k, a>>] \in ExecType /\ AwakeExec(<<k, a>>)
      /\ exec[<<k, a>>].stage = "head" /\ Family(k, a)
  BY ExecFacts DEF IInv, TreeSound, UntilHead, AwakeExec, FamiliesSound
<1> DEFINE body == Inner(k, a, "body")
           other == Inner(k, a, "other")
<1>2. /\ Given(body) /\ other \notin DOMAIN levels
      /\ body \in DOMAIN levels => /\ levels[body].phase = "closed"
                                   /\ \A c \in Ids(Def(body)) : Childless(body, c)
  BY <1>1 DEF Family, FamilyOfBranches
<1>3. \A j : Member(j, k, a) <=> j \in {body, other}
  BY <1>1 DEF Member, Branch
<1>4. CASE End(k, a, "Failed")
  <2> DEFINE outcome == "Failed"
  <2>1. /\ outcome \in {"Succeeded", "Failed"} /\ End(k, a, outcome)
        /\ \A j \in DOMAIN levels : Member(j, k, a) =>
              levels[j].phase = "closed" /\ (AllOk(levels[j]) \/ outcome = "Failed")
    BY <1>2, <1>3, <1>4
  <2> HIDE DEF outcome
  <2>2. QED
    BY <1>1, <2>1, EndStep
<1>5. CASE OpenLevel(k, a, "body", "body", exec[<<k, a>>].round, levels)
           /\ UNCHANGED <<flow, result, data, status>>
  <2> DEFINE round == exec[<<k, a>>].round
             ls == levels
             branch == "body"
  <2>1. /\ OpenLevel(k, a, branch, branch, round, ls)
        /\ flow' = flow /\ result' = result /\ data' = data
    BY <1>5
  <2>2. round \in Nat /\ GoesOn(ls, k, a) /\ branch \in Branch
    BY <1>1 DEF GoesOn, Branch, ExecType, ProgressType
  <2>3. DataOk(data')
    BY <2>1 DEF IInv, DataSound, DataOk
  <2>4. /\ ~IsOpen(Inner(k, a, branch)) /\ Given(Inner(k, a, branch))
        /\ Inner(k, a, branch) \in DOMAIN levels =>
              \A c \in Ids(Def(Inner(k, a, branch))) : Childless(Inner(k, a, branch), c)
        /\ Inner(k, a, "other") \notin DOMAIN levels
        /\ branch # "other"
    BY <1>2 DEF IsOpen
  <2> HIDE DEF round, ls, branch
  <2>5. QED
    BY <1>1, <2>1, <2>2, <2>3, <2>4, OpenLevelStep
<1>6. QED
  BY <1>4, <1>5 DEF UntilHead

(* A level of the container came to its end. *)
LEMMA ReturnsFacts ==
    ASSUME IInv, NEW k, NEW a, <<k, a>> \in DOMAIN exec, NEW branch \in Branch, Returns(k, a, branch)
    PROVE  /\ Kind(k, a) # "Foreach"
           /\ Inner(k, a, branch) \in DOMAIN levels
           /\ levels[Inner(k, a, branch)].phase = "done"
           /\ Member(Inner(k, a, branch), k, a)
           /\ GoesOn(Closed(Inner(k, a, branch)), k, a)
           /\ Closed(Inner(k, a, branch))[Inner(k, a, branch)].phase = "closed"
           /\ \A j : Member(j, k, a) <=> j \in {Inner(k, a, "body"), Inner(k, a, "other")}
           /\ branch = "body" => Inner(k, a, "other") \notin DOMAIN levels
           /\ branch = "other" /\ Inner(k, a, "body") \in DOMAIN levels =>
                 /\ Kind(k, a) = "Try"
                 /\ levels[Inner(k, a, "body")].phase = "closed"
                 /\ Closed(Inner(k, a, branch))[Inner(k, a, "body")].phase = "closed"
<1> DEFINE inner == Inner(k, a, branch)
<1>1. Kind(k, a) # "Foreach" /\ Family(k, a)
  BY ExecFacts DEF IInv, TreeSound, Returns, Branch, FamiliesSound
<1>2. FamilyOfBranches(k, a, branch) /\ branch \in {"body", "other"}
  BY <1>1 DEF Family, Returns, Branch
<1>3. inner \in DOMAIN levels /\ levels[inner].phase = "done"
  BY <1>2 DEF FamilyOfBranches, IsOpen, Returns
<1>4. Member(inner, k, a)
  BY <1>1 DEF Member
<1> HIDE DEF inner
<1>5. GoesOn(Closed(inner), k, a)
  BY <1>3, <1>4 DEF GoesOn
<1>6. Closed(inner)[inner].phase = "closed"
  BY SMTT(20), <1>3, LevelFacts, CloseSound, ClosedLevels DEF IInv, TreeSound
<1>7. \A j : Member(j, k, a) <=> j \in {Inner(k, a, "body"), Inner(k, a, "other")}
  BY <1>1 DEF Member, Branch
<1>8. branch = "other" /\ Inner(k, a, "body") \in DOMAIN levels =>
                 /\ Kind(k, a) = "Try"
                 /\ levels[Inner(k, a, "body")].phase = "closed"
  BY <1>2 DEF FamilyOfBranches, IsClosed
<1>9. ASSUME NEW j \in DOMAIN levels, levels[j].phase = "closed" PROVE Closed(inner)[j].phase = "closed"
  BY <1>3, <1>6, <1>9, ClosedLevels
<1>10. branch = "body" => Inner(k, a, "other") \notin DOMAIN levels
  BY <1>2 DEF FamilyOfBranches
<1>11. QED
  BY <1>1, <1>3, <1>4, <1>5, <1>6, <1>7, <1>8, <1>9, <1>10 DEF inner

(* The container ends with this level. *)
LEMMA FinishReturns ==
    ASSUME IInv, NEW k, NEW a, <<k, a>> \in DOMAIN exec, NEW branch \in Branch, Returns(k, a, branch),
           NEW outcome \in {"Succeeded", "Failed"}, NEW error, NEW d, NEW st,
           DataOk(d), DOMAIN d = DOMAIN data,
           outcome = "Failed" \/ AllOk(levels[Inner(k, a, branch)]),
           Finish(k, a, outcome, error, Closed(Inner(k, a, branch)), d, st)
    PROVE  IInv'
<1> DEFINE ls == Closed(Inner(k, a, branch))
           body == Inner(k, a, "body")
           other == Inner(k, a, "other")
<1>1. /\ GoesOn(ls, k, a)
      /\ ls[Inner(k, a, branch)].phase = "closed"
      /\ Inner(k, a, branch) \in DOMAIN levels
      /\ \A j : Member(j, k, a) <=> j \in {body, other}
      /\ branch = "body" => other \notin DOMAIN levels
      /\ branch = "other" /\ body \in DOMAIN levels =>
            Kind(k, a) = "Try" /\ ls[body].phase = "closed"
  BY ReturnsFacts
<1>2. branch \in {"body", "other"} /\ (branch = "body" => Inner(k, a, branch) = body)
      /\ (branch = "other" => Inner(k, a, branch) = other)
  BY DEF Branch
<1>3. AllOk(levels[other]) /\ other \in DOMAIN levels /\ Kind(k, a) = "Try" => Recovered(body, <<k, a>>)
  BY DEF Recovered
<1>4. Finish(k, a, outcome, error, ls, d, st)
  OBVIOUS
<1> HIDE DEF ls, body, other
<1>5. \A j \in DOMAIN levels : Member(j, k, a) =>
              /\ ls[j].phase = "closed"
              /\ AllOk(levels[j]) \/ outcome = "Failed" \/ Recovered(j, <<k, a>>)
  BY <1>1, <1>2, <1>3
<1>6. QED
  BY <1>1, <1>4, <1>5, FinishStep

(* The same, its contexts as they were. *)
LEMMA FinishPlain ==
    ASSUME IInv, NEW k, NEW a, <<k, a>> \in DOMAIN exec, NEW branch \in Branch, Returns(k, a, branch),
           NEW outcome \in {"Succeeded", "Failed"}, NEW error,
           outcome = "Failed" \/ AllOk(levels[Inner(k, a, branch)]),
           Finish(k, a, outcome, error, Closed(Inner(k, a, branch)), data,
                  ReportSkipped(Inner(k, a, branch)))
    PROVE  IInv'
<1> DEFINE d == data
           st == ReportSkipped(Inner(k, a, branch))
<1>1. DataOk(d) /\ DOMAIN d = DOMAIN data
  BY DEF IInv, DataSound, DataOk
<1>2. Finish(k, a, outcome, error, Closed(Inner(k, a, branch)), d, st)
  OBVIOUS
<1> HIDE DEF d, st
<1>3. QED
  BY <1>1, <1>2, FinishReturns

LEMMA OutcomeFacts ==
    ASSUME NEW k
    PROVE  OutcomeOf(k) \in {"Succeeded", "Failed"} /\ (OutcomeOf(k) = "Failed" \/ AllOk(levels[k]))
BY DEF OutcomeOf

LEMMA IfReturnsStep ==
    ASSUME IInv, NEW k, NEW a, <<k, a>> \in DOMAIN exec, IfReturns(k, a)
    PROVE  IInv'
<1> DEFINE error == FALSE
<1>1. PICK branch \in Branch :
        /\ Returns(k, a, branch)
        /\ Finish(k, a, OutcomeOf(Inner(k, a, branch)), error, Closed(Inner(k, a, branch)), data,
                  ReportSkipped(Inner(k, a, branch)))
  BY DEF IfReturns, Branch
<1> DEFINE outcome == OutcomeOf(Inner(k, a, branch))
<1>2. outcome \in {"Succeeded", "Failed"} /\ (outcome = "Failed" \/ AllOk(levels[Inner(k, a, branch)]))
  BY OutcomeFacts
<1>3. Finish(k, a, outcome, error, Closed(Inner(k, a, branch)), data,
                  ReportSkipped(Inner(k, a, branch)))
  BY <1>1
<1> HIDE DEF error, outcome
<1>4. QED
  BY <1>1, <1>2, <1>3, FinishPlain

LEMMA TryCatchReturnsStep ==
    ASSUME IInv, NEW k, NEW a, <<k, a>> \in DOMAIN exec, TryCatchReturns(k, a)
    PROVE  IInv'
<1> DEFINE error == TRUE
           branch == "other"
           outcome == OutcomeOf(Inner(k, a, branch))
<1>1. /\ branch \in Branch
      /\ Returns(k, a, branch)
      /\ Finish(k, a, outcome, error, Closed(Inner(k, a, branch)), data,
                ReportSkipped(Inner(k, a, branch)))
  BY DEF TryCatchReturns, Branch
<1>2. outcome \in {"Succeeded", "Failed"} /\ (outcome = "Failed" \/ AllOk(levels[Inner(k, a, branch)]))
  BY OutcomeFacts
<1> HIDE DEF error, outcome, branch
<1>3. QED
  BY <1>1, <1>2, FinishPlain

LEMMA TryBodyReturnsStep ==
    ASSUME IInv, NEW k, NEW a, <<k, a>> \in DOMAIN exec, TryBodyReturns(k, a)
    PROVE  IInv'
<1> DEFINE error == FALSE
           branch == "body"
           body == Inner(k, a, "body")
           other == Inner(k, a, "other")
           recorded == RecordOutputs(data, k, a, TRUE)
           caught == TRUE
<1>1. branch \in Branch /\ Returns(k, a, branch) /\ Kind(k, a) = "Try" /\ body = Inner(k, a, branch)
  BY DEF TryBodyReturns, Branch
<1>2. k \in Key /\ DataOk(data)
  BY ExecFacts DEF IInv, TreeSound, DataSound, DataOk
<1>3. DataOk(recorded) /\ DOMAIN recorded = DOMAIN data
  <2>1. recorded = RecordOutputs(data, k, a, caught)
    OBVIOUS
  <2> HIDE DEF caught, recorded
  <2>2. QED
    BY <1>2, <2>1, RecordSound
<1>4. CASE AllOk(levels[body])
  <2> DEFINE outcome == "Succeeded"
  <2>1. /\ outcome \in {"Succeeded", "Failed"}
        /\ Finish(k, a, outcome, error, Closed(Inner(k, a, branch)), data,
                  ReportSkipped(Inner(k, a, branch)))
        /\ AllOk(levels[Inner(k, a, branch)])
    BY <1>4 DEF TryBodyReturns
  <2> HIDE DEF error, outcome, branch
  <2>2. QED
    BY <1>1, <2>1, FinishPlain
<1>5. CASE ~AllOk(levels[body]) /\ ~Given(other)
  <2> DEFINE outcome == "Failed"
             st == ReportSkipped(Inner(k, a, branch))
             d == recorded
  <2>1. /\ outcome \in {"Succeeded", "Failed"} /\ outcome = "Failed"
        /\ Finish(k, a, outcome, error, Closed(Inner(k, a, branch)), d, st)
    BY <1>5 DEF TryBodyReturns
  <2>2. DataOk(d) /\ DOMAIN d = DOMAIN data
    BY <1>3
  <2> HIDE DEF error, outcome, branch, st, d
  <2>3. QED
    BY <1>1, <2>1, <2>2, FinishReturns
<1>6. CASE ~AllOk(levels[body]) /\ Given(other)
  <2> DEFINE round == 0
             ls == Closed(body)
             catch == "other"
  <2>1. /\ OpenLevel(k, a, catch, catch, round, ls)
        /\ flow' = flow /\ result' = result /\ data' = recorded
    BY <1>6 DEF TryBodyReturns
  <2>2. /\ round \in Nat /\ catch \in Branch /\ catch # "body" /\ Inner(k, a, catch) = other
    BY DEF Branch
  <2>3. GoesOn(ls, k, a) /\ other \notin DOMAIN levels /\ ls[body].phase = "closed"
    BY <1>1, ReturnsFacts
  <2>4. DataOk(data') /\ DOMAIN data' = DOMAIN data
    BY <1>3, <2>1
  <2>5. ~IsOpen(other)
    BY <2>3 DEF IsOpen
  <2>6. /\ Given(Inner(k, a, catch)) /\ ~IsOpen(Inner(k, a, catch))
        /\ Inner(k, a, catch) \notin DOMAIN levels
        /\ ls[Inner(k, a, "body")].phase = "closed"
        /\ Kind(k, a) = "Try" /\ Kind(k, a) # "Foreach"
    BY <1>1, <1>6, <2>2, <2>3, <2>5
  <2> HIDE DEF round, ls, catch, recorded
  <2>7. QED
    BY <2>1, <2>2, <2>3, <2>4, <2>6, OpenLevelStep
<1>7. QED
  BY <1>4, <1>5, <1>6

LEMMA UntilReturnsStep ==
    ASSUME IInv, NEW k, NEW a, <<k, a>> \in DOMAIN exec, UntilReturns(k, a)
    PROVE  IInv'
<1> DEFINE no == FALSE
           i == <<k, a>>
           next == exec[i].round + 1
           e == [exec[i] EXCEPT !.stage = "head", !.round = next]
           branch == "body"
           body == Inner(k, a, "body")
           other == Inner(k, a, "other")
           st == ReportSkipped(body)
<1>1. branch \in Branch /\ Returns(k, a, branch) /\ branch = "body" /\ no = FALSE
  BY DEF UntilReturns, Branch
<1>2. /\ Kind(k, a) # "Foreach"
      /\ body \in DOMAIN levels
      /\ levels[body].phase = "done"
      /\ Member(body, k, a)
      /\ other \notin DOMAIN levels
  BY <1>1, ReturnsFacts
<1>3. CASE \E outcome \in {"Succeeded", "Failed"} :
             /\ outcome = "Failed" \/ AllOk(levels[body])
             /\ Finish(k, a, outcome, FALSE, Closed(body), data, st)
  <2>1. PICK outcome \in {"Succeeded", "Failed"} :
             /\ outcome = "Failed" \/ AllOk(levels[Inner(k, a, branch)])
             /\ Finish(k, a, outcome, no, Closed(Inner(k, a, branch)), data,
                       ReportSkipped(Inner(k, a, branch)))
    BY <1>3
  <2> HIDE DEF no, branch
  <2>2. QED
    BY <1>1, <2>1, FinishPlain
<1>4. CASE /\ AllOk(levels[body])
           /\ exec' = [exec EXCEPT ![i].stage = "head", ![i].round = @ + 1]
           /\ levels' = WithoutInside(body)
           /\ UNCHANGED <<flow, result, data>>
  <2>1. /\ TreeSound /\ OneAwake /\ exec[i] \in ExecType /\ exec[i].stage # "iterations"
        /\ k \in DOMAIN levels /\ k \in Key /\ a \in Names
        /\ body \in Key /\ Given(body) /\ LevelSound(Def(body), levels[body])
        /\ Ids(Def(body)) \subseteq Names
    BY <1>2, ExecFacts, LevelFacts DEF IInv, TreeSound
  <2>2. exec' = [exec EXCEPT ![i] = e]
    BY <1>4
  <2>3. e \in ExecType /\ e.stage = "head"
    <3>1. next \in Nat
      BY <2>1 DEF ExecType, ProgressType
    <3> HIDE DEF next
    <3>2. QED
      BY <2>1, <3>1 DEF ExecType, ProgressType
  <2> HIDE DEF e
  <2>4. Proceeds(k, a, e)
    BY <1>2, <2>2, <2>3 DEF Proceeds
  <2>5. flow' = flow /\ result' = result /\ DOMAIN data \subseteq DOMAIN data' /\ data' = data
    BY <1>4
  <2>6. body' = body /\ other' = other
    BY DEF Inner
  <2> HIDE DEF body, other
  <2>7. /\ ExecStep(k, a)
        /\ OneAwake'
        /\ \A j : j \in DOMAIN levels' <=> j \in DOMAIN levels /\ ~Inside(j, body)
        /\ levels'[body] = Close(levels[body])
        /\ body \in DOMAIN levels'
    BY <1>2, <1>4, <2>1, <2>4, <2>5, ForgetShape
  <2>8. levels'[body].phase = "closed" /\ AllOk(levels'[body])
    BY <1>4, <2>1, <2>7, <1>2, CloseSound
  <2>9. \A j, c : Member(j, body, c)' <=> Member(j, body, c)
    <3>1. \A j, m, c : Member(j, m, c)' <=> Member(j, m, c)
      BY <2>5, KeysKept
    <3>2. QED
      BY <2>6, <3>1 DEF Member, Kind, Def, Inner, Iteration, IterationScope
  <2>10. \A c \in Ids(Def(body)) : Childless(body, c)'
    <3>1. SUFFICES ASSUME NEW c \in Ids(Def(body)), NEW j \in DOMAIN levels', Member(j, body, c)
                   PROVE  FALSE
      BY <2>6, <2>9 DEF Childless
    <3>2. Inside(j, body)
      BY <2>1, <3>1, MemberInside
    <3>3. QED
      BY <2>7, <3>1, <3>2
  <2>11. Given(body)' /\ Def(body)' = Def(body)
    BY <2>1, <2>5, <2>6 DEF Given, Def
  <2>12. exec'[i].stage = "head" /\ i \in DOMAIN exec'
    BY <2>3, <2>4 DEF Proceeds
  <2>13. FamilyOfBranches(k, a, exec[i].stage)'
    <3>1. other \notin DOMAIN levels'
      BY <1>2, <2>7
    <3>2. \A c \in Ids(Def(body))' : Childless(body, c)'
      BY <2>6, <2>10, <2>11
    <3>3. QED
      BY <2>6, <2>8, <2>11, <2>12, <3>1, <3>2 DEF FamilyOfBranches, body, other
  <2>14. Family(k, a)'
    BY <1>2, <2>5, <2>12, <2>13, KeysKept DEF Family
  <2>15. DataSound'
    BY <2>5 DEF IInv, DataSound
  <2>16. QED
    BY <2>1, <2>7, <2>14, <2>15, ExecStepTree DEF IInv
<1>5. QED
  <2>1. \/ Finish(k, a, "Failed", FALSE, Closed(body), data, st)
        \/ /\ AllOk(levels[body])
           /\ Finish(k, a, "Succeeded", FALSE, Closed(body), data, st)
        \/ /\ AllOk(levels[body])
           /\ exec' = [exec EXCEPT ![i].stage = "head", ![i].round = @ + 1]
           /\ levels' = WithoutInside(body)
           /\ UNCHANGED <<flow, result, data>>
    BY DEF UntilReturns
  <2>2. QED
    BY <1>3, <1>4, <2>1

-----------------------------------------------------------------------------
(* Iterations.                                                             *)

LEMMA IterationInjective ==
    ASSUME NEW k \in Key, NEW a \in Names, NEW m \in Nat, NEW n \in Nat,
           Iteration(k, a, m) = Iteration(k, a, n)
    PROVE  m = n
<1> DEFINE x == <<a, m>>
           y == <<a, n>>
           S == Names \X Nat
           s == k[2]
<1>1. x \in S /\ y \in S /\ s \in Seq(S)
  BY KeyParts DEF Scope
<1>2. Append(s, x) = Append(s, y)
  <2>1. Iteration(k, a, m)[2] = Append(s, x)
    BY IterationKey
  <2>2. Iteration(k, a, n)[2] = Append(s, y)
    BY IterationKey
  <2>3. QED
    BY <2>1, <2>2
<1> HIDE DEF x, y, S, s
<1>3. x = y
  BY <1>1, <1>2, AppendSplits
<1>4. QED
  BY <1>3 DEF x, y

LEMMA StartForeachStep ==
    ASSUME IInv, NEW k, NEW a, <<k, a>> \in DOMAIN exec, StartForeach(k, a)
    PROVE  IInv'
<1> DEFINE i == <<k, a>>
           ls == levels
<1>1. Childless(k, a) /\ AwakeExec(i) /\ Kind(k, a) = "Foreach"
  BY BeforeLevels DEF IInv, StartForeach, AwakeExec
<1>2. /\ TreeSound /\ OneAwake /\ exec[i] \in ExecType
      /\ k \in DOMAIN levels /\ k \in Key /\ a \in Names /\ k[2] \in DOMAIN data
      /\ exec[i].stage = "start"
  BY ExecFacts, LevelFacts DEF IInv, TreeSound, StartForeach
<1>3. PICK total \in 0..MaxItems :
        IF total = 0 \/ ~Given(Inner(k, a, "body"))
        THEN End(k, a, "Succeeded")
        ELSE /\ exec' = [exec EXCEPT ![<<k, a>>].stage = "iterations",
                                     ![<<k, a>>].queued = 1 .. total]
             /\ data' = Extend(data, Children(k, a, total))
             /\ UNCHANGED <<flow, result, levels, status>>
  BY DEF StartForeach
<1>4. CASE total = 0 \/ ~Given(Inner(k, a, "body"))
  <2> DEFINE outcome == "Succeeded"
  <2>1. outcome \in {"Succeeded", "Failed"} /\ End(k, a, outcome)
    BY <1>3, <1>4
  <2> HIDE DEF outcome
  <2>2. QED
    BY <1>2, <2>1, EndsAtOnce
<1>5. CASE ~(total = 0 \/ ~Given(Inner(k, a, "body")))
  <2> DEFINE e == [exec[i] EXCEPT !.stage = "iterations", !.queued = 1..total]
  <2>1. /\ exec' = [exec EXCEPT ![i] = e]
        /\ flow' = flow /\ result' = result /\ levels' = ls
        /\ data' = Extend(data, Children(k, a, total))
        /\ Given(Inner(k, a, "body"))
    BY <1>3, <1>5
  <2>2. total \in Nat /\ 1..total \subseteq Nat
    OBVIOUS
  <2>3. e \in ExecType /\ e.stage = "iterations" /\ e.queued = 1..total /\ e.open = {}
    BY <1>2, <2>2 DEF ExecType, ProgressType
  <2>4. GoesOn(ls, k, a)
    BY <1>1 DEF GoesOn
  <2>5. /\ DataOk(data')
        /\ DOMAIN data' = {IterationScope(k, a, index) : index \in 1..total} \cup DOMAIN data
    BY <1>2, <2>1, <2>2, ChildrenSound DEF IInv
  <2> HIDE DEF e, ls
  <2>6. Proceeds(k, a, e)
    BY <1>1, <2>1, <2>3 DEF Proceeds
  <2>7. DOMAIN data \subseteq DOMAIN data'
    BY <2>5
  <2>8. ExecStep(k, a) /\ OneAwake'
    BY <1>2, <2>1, <2>4, <2>6, <2>7, KeepShape
  <2>9. \A index \in Nat : Iteration(k, a, index) \notin DOMAIN levels'
    BY <1>1, <2>1 DEF Childless, Member, ls
  <2>10. \A index \in Nat : Given(Iteration(k, a, index))
    BY <2>1 DEF Given, Iteration, Inner
  <2>11. ASSUME NEW index \in Nat
         PROVE  LET inner == Iteration(k, a, index)
                IN  /\ index \in e.open => IsOpen(inner)'
                    /\ index \in e.queued =>
                          /\ inner \notin DOMAIN levels'
                          /\ index \notin e.open
                          /\ IterationScope(k, a, index) \in DOMAIN data'
                          /\ Given(inner)
                    /\ index \notin e.open /\ inner \in DOMAIN levels' =>
                          levels'[inner].phase = "closed" /\ (AllOk(levels'[inner]) \/ e.failed)
    BY <2>3, <2>5, <2>9, <2>10
  <2>12. ASSUME NEW index \in Nat
         PROVE  Iteration(k, a, index)' = Iteration(k, a, index)
                /\ IterationScope(k, a, index)' = IterationScope(k, a, index)
                /\ (Given(Iteration(k, a, index))' <=> Given(Iteration(k, a, index)))
    BY <2>1 DEF Iteration, IterationScope, Given
  <2>13. exec'[i] = e /\ i \in DOMAIN exec'
    BY <2>6 DEF Proceeds
  <2>14. FamilyOfIterations(k, a, exec[i])'
    BY <2>3, <2>11, <2>12, <2>13 DEF FamilyOfIterations
  <2>15. Family(k, a)'
    BY <1>1, <2>1, <2>13, <2>14, KeysKept DEF Family
  <2>16. DataSound'
    BY <2>5 DEF DataSound, DataOk
  <2>17. QED
    BY <1>2, <2>8, <2>15, <2>16, ExecStepTree DEF IInv
<1>6. QED
  BY <1>4, <1>5

(* What the invariant says of the loop while it is under way. *)
LEMMA IterationFacts ==
    ASSUME IInv, NEW k, NEW a, <<k, a>> \in DOMAIN exec,
           NEW index \in exec[<<k, a>>].queued \cup exec[<<k, a>>].open
    PROVE  /\ TreeSound /\ OneAwake /\ k \in DOMAIN levels /\ k \in Key /\ a \in Names
           /\ exec[<<k, a>>] \in ExecType
           /\ exec[<<k, a>>].stage = "iterations"
           /\ Kind(k, a) = "Foreach"
           /\ index \in Nat
           /\ FamilyOfIterations(k, a, exec[<<k, a>>])
<1>1. /\ TreeSound /\ OneAwake /\ k \in DOMAIN levels /\ k \in Key /\ a \in Names
      /\ exec[<<k, a>>] \in ExecType
      /\ exec[<<k, a>>].stage = "iterations" => Kind(k, a) = "Foreach"
      /\ Family(k, a)
  BY ExecFacts DEF IInv, TreeSound, FamiliesSound
<1>2. exec[<<k, a>>].stage = "iterations" /\ index \in Nat
  BY <1>1 DEF ExecType, ProgressType
<1>3. QED
  BY <1>1, <1>2 DEF Family

LEMMA IterationStartsStep ==
    ASSUME IInv, NEW k, NEW a, <<k, a>> \in DOMAIN exec, IterationStarts(k, a)
    PROVE  IInv'
<1> DEFINE i == <<k, a>>
           ls == levels
<1>1. PICK index \in exec[i].queued :
        /\ levels' = Put(levels, Iteration(k, a, index), NewLevel(Def(Iteration(k, a, index))))
        /\ exec' = [exec EXCEPT ![i].queued = @ \ {index}, ![i].open = @ \cup {index}]
  BY DEF IterationStarts
<1> DEFINE j == Iteration(k, a, index)
           f == exec[i]
           e == [f EXCEPT !.queued = @ \ {index}, !.open = @ \cup {index}]
<1>2. /\ TreeSound /\ OneAwake /\ k \in DOMAIN levels /\ k \in Key /\ a \in Names
      /\ f \in ExecType /\ f.stage = "iterations" /\ Kind(k, a) = "Foreach"
      /\ index \in Nat /\ FamilyOfIterations(k, a, f)
  BY IterationFacts
<1>3. \A n \in Nat : /\ n \in f.open => IsOpen(Iteration(k, a, n))
                     /\ n \in f.queued => /\ Iteration(k, a, n) \notin DOMAIN levels
                                          /\ n \notin f.open
                                          /\ IterationScope(k, a, n) \in DOMAIN data
                                          /\ Given(Iteration(k, a, n))
                     /\ n \notin f.open /\ Iteration(k, a, n) \in DOMAIN levels =>
                          /\ levels[Iteration(k, a, n)].phase = "closed"
                          /\ AllOk(levels[Iteration(k, a, n)]) \/ f.failed
  BY <1>2 DEF FamilyOfIterations
<1>4. exec' = [exec EXCEPT ![i] = e] /\ flow' = flow /\ result' = result /\ data' = data
  BY <1>1 DEF IterationStarts
<1>5. /\ e \in ExecType /\ e.stage = "iterations" /\ e.failed = f.failed
      /\ e.queued = f.queued \ {index} /\ e.open = f.open \cup {index}
  <2> HIDE DEF f
  <2>1. QED
    BY <1>2 DEF ExecType, ProgressType
<1>6. GoesOn(ls, k, a)
  BY DEF GoesOn, IterationStarts
<1> HIDE DEF e, f
<1>7. Proceeds(k, a, e) /\ e.stage \notin {"start", "head"}
  BY <1>2, <1>4, <1>5 DEF Proceeds
<1>8. /\ j \notin DOMAIN levels /\ j[2] \in DOMAIN data /\ Given(j) /\ Member(j, k, a)
  BY <1>1, <1>2, <1>3, IterationKey DEF Member, f
<1>9. levels' = Put(ls, j, NewLevel(Def(j)))
  BY <1>1
<1>10. DOMAIN data \subseteq DOMAIN data'
  BY <1>4
<1> HIDE DEF ls
<1>11. Opens(j, ls, k, a)
  BY <1>4, <1>8, <1>9, <1>10 DEF Opens, IsOpen
<1>12. /\ ExecStep(k, a)
       /\ OneAwake'
       /\ DOMAIN levels' = DOMAIN levels \cup {j}
       /\ levels'[j].phase # "closed"
       /\ \A h \in DOMAIN levels \ {j} : levels'[h] = ls[h]
  <2> HIDE DEF j
  <2>1. QED
    BY <1>2, <1>6, <1>7, <1>11, OpenShape
<1>13. ASSUME NEW n \in Nat
       PROVE  LET inner == Iteration(k, a, n)
              IN  /\ n \in e.open => IsOpen(inner)'
                  /\ n \in e.queued =>
                        /\ inner \notin DOMAIN levels'
                        /\ n \notin e.open
                        /\ IterationScope(k, a, n) \in DOMAIN data'
                        /\ Given(inner)
                  /\ n \notin e.open /\ inner \in DOMAIN levels' =>
                        levels'[inner].phase = "closed" /\ (AllOk(levels'[inner]) \/ e.failed)
  <2> DEFINE inner == Iteration(k, a, n)
  <2>1. CASE n = index
    BY <1>5, <1>12, <2>1 DEF IsOpen, Iteration, IterationScope
  <2>2. CASE n # index
    <3>1. inner # j
      BY <1>2, <2>2, IterationInjective
    <3>2. (inner \in DOMAIN levels' <=> inner \in DOMAIN levels)
          /\ (inner \in DOMAIN levels => levels'[inner] = levels[inner])
      BY <1>12, <3>1 DEF ls
    <3>3. inner' = inner
      BY <1>4 DEF Iteration, IterationScope
    <3>4. n \in e.open => IsOpen(inner)'
      BY <1>3, <1>5, <2>2, <3>2, <3>3 DEF IsOpen
    <3>5. QED
      BY <1>3, <1>4, <1>5, <2>2, <3>2, <3>4
  <2>3. QED
    BY <2>1, <2>2
<1>14. ASSUME NEW n \in Nat
       PROVE  Iteration(k, a, n)' = Iteration(k, a, n)
              /\ IterationScope(k, a, n)' = IterationScope(k, a, n)
              /\ (Given(Iteration(k, a, n))' <=> Given(Iteration(k, a, n)))
  BY <1>4 DEF Iteration, IterationScope, Given
<1>15. exec'[i] = e /\ i \in DOMAIN exec'
  BY <1>7 DEF Proceeds
<1>16. FamilyOfIterations(k, a, exec[i])'
  BY <1>5, <1>13, <1>14, <1>15 DEF FamilyOfIterations
<1>17. Family(k, a)'
  BY <1>2, <1>4, <1>15, <1>16, KeysKept DEF Family
<1>18. DataSound'
  BY <1>4 DEF IInv, DataSound
<1>19. QED
  BY <1>2, <1>12, <1>17, <1>18, ExecStepTree DEF IInv

LEMMA IterationReturnsStep ==
    ASSUME IInv, NEW k, NEW a, <<k, a>> \in DOMAIN exec, IterationReturns(k, a)
    PROVE  IInv'
<1> DEFINE i == <<k, a>>
           f == exec[i]
           no == FALSE
<1>1. PICK index \in exec[i].open :
        LET inner == Iteration(k, a, index)
            failed == exec[<<k, a>>].failed \/ ~AllOk(levels[inner])
        IN  /\ levels[inner].phase = "done"
            /\ IF exec[<<k, a>>].open = {index} /\ exec[<<k, a>>].queued = {}
               THEN Finish(k, a, IF failed THEN "Failed" ELSE "Succeeded", FALSE,
                           Closed(inner), data, ReportSkipped(inner))
               ELSE /\ exec' = [exec EXCEPT ![<<k, a>>].open = @ \ {index},
                                            ![<<k, a>>].failed = failed]
                    /\ levels' = Closed(inner)
                    /\ status' = ReportSkipped(inner)
                    /\ UNCHANGED <<flow, result, data>>
  BY DEF IterationReturns
<1> DEFINE j == Iteration(k, a, index)
           ls == Closed(j)
           failed == f.failed \/ ~AllOk(levels[j])
           st == ReportSkipped(j)
<1>2. /\ TreeSound /\ OneAwake /\ k \in DOMAIN levels /\ k \in Key /\ a \in Names
      /\ f \in ExecType /\ f.stage = "iterations" /\ Kind(k, a) = "Foreach"
      /\ index \in Nat /\ FamilyOfIterations(k, a, f)
  BY IterationFacts
<1>3. \A n \in Nat : /\ n \in f.open => IsOpen(Iteration(k, a, n))
                     /\ n \in f.queued => /\ Iteration(k, a, n) \notin DOMAIN levels
                                          /\ n \notin f.open
                                          /\ IterationScope(k, a, n) \in DOMAIN data
                                          /\ Given(Iteration(k, a, n))
                     /\ n \notin f.open /\ Iteration(k, a, n) \in DOMAIN levels =>
                          /\ levels[Iteration(k, a, n)].phase = "closed"
                          /\ AllOk(levels[Iteration(k, a, n)]) \/ f.failed
  BY <1>2 DEF FamilyOfIterations
<1>4. j \in DOMAIN levels /\ levels[j].phase = "done" /\ Member(j, k, a) /\ LevelSound(Def(j), levels[j])
  <2>1. j \in DOMAIN levels /\ levels[j].phase = "done" /\ Member(j, k, a)
    BY <1>1, <1>2, <1>3 DEF IsOpen, Member
  <2>2. QED
    BY <1>2, <2>1, LevelFacts DEF TreeSound
<1>5. GoesOn(ls, k, a)
  BY <1>4 DEF GoesOn
<1>6. /\ DOMAIN ls = DOMAIN levels /\ ls[j].phase = "closed" /\ (AllOk(ls[j]) <=> AllOk(levels[j]))
      /\ \A h \in DOMAIN levels \ {j} : ls[h] = levels[h]
  BY <1>4, ClosedLevels, CloseSound
<1>7. CASE f.open = {index} /\ f.queued = {}
  <2> DEFINE outcome == IF failed THEN "Failed" ELSE "Succeeded"
             d == data
  <2>1. /\ outcome \in {"Succeeded", "Failed"}
        /\ failed => outcome = "Failed"
        /\ DataOk(d) /\ DOMAIN d = DOMAIN data
        /\ Finish(k, a, outcome, no, ls, d, st)
    BY <1>1, <1>7 DEF IInv, DataSound, DataOk
  <2>2. failed <=> f.failed \/ ~AllOk(levels[j])
    OBVIOUS
  <2> HIDE DEF outcome, no, d, st, ls, f, failed
  <2>3. ASSUME NEW h \in DOMAIN levels, Member(h, k, a)
        PROVE  /\ ls[h].phase = "closed"
               /\ AllOk(levels[h]) \/ outcome = "Failed"
    <3>1. PICK n \in Nat : h = Iteration(k, a, n)
      BY <1>2, <2>3 DEF Member
    <3>2. CASE n = index
      BY <1>6, <2>1, <2>2, <3>1, <3>2
    <3>3. CASE n # index
      <4>1. h # j
        BY <1>2, <3>1, <3>3, IterationInjective
      <4>2. levels[h].phase = "closed" /\ (AllOk(levels[h]) \/ f.failed)
        BY <1>3, <1>7, <2>3, <3>1, <3>3
      <4>3. QED
        BY <1>6, <2>1, <2>2, <2>3, <4>1, <4>2
    <3>4. QED
      BY <3>2, <3>3
  <2> HIDE DEF j
  <2>4. QED
    BY <1>5, <2>1, <2>3, FinishStep
<1>8. CASE ~(f.open = {index} /\ f.queued = {})
  <2> DEFINE e == [f EXCEPT !.open = @ \ {index}, !.failed = failed]
  <2>1. exec' = [exec EXCEPT ![i] = e] /\ flow' = flow /\ result' = result /\ data' = data
        /\ levels' = ls
    BY <1>1, <1>8
  <2>2. failed \in BOOLEAN /\ (failed <=> f.failed \/ ~AllOk(levels[j]))
    BY <1>2 DEF ExecType, ProgressType
  <2>3. /\ e \in ExecType /\ e.stage = "iterations" /\ e.failed = failed
        /\ e.queued = f.queued /\ e.open = f.open \ {index}
    <3> HIDE DEF f, failed
    <3>1. QED
      BY <1>2, <2>2 DEF ExecType, ProgressType
  <2> HIDE DEF e, f, failed
  <2>4. Proceeds(k, a, e)
    BY <1>2, <2>1, <2>3 DEF Proceeds
  <2>5. DOMAIN data \subseteq DOMAIN data'
    BY <2>1
  <2>6. ExecStep(k, a) /\ OneAwake'
    <3> HIDE DEF ls
    <3>1. QED
      BY <1>2, <1>5, <2>1, <2>4, <2>5, KeepShape
  <2>7. ASSUME NEW n \in Nat
        PROVE  LET inner == Iteration(k, a, n)
               IN  /\ n \in e.open => IsOpen(inner)'
                   /\ n \in e.queued =>
                         /\ inner \notin DOMAIN levels'
                         /\ n \notin e.open
                         /\ IterationScope(k, a, n) \in DOMAIN data'
                         /\ Given(inner)
                   /\ n \notin e.open /\ inner \in DOMAIN levels' =>
                         levels'[inner].phase = "closed" /\ (AllOk(levels'[inner]) \/ e.failed)
    <3> DEFINE inner == Iteration(k, a, n)
    <3>1. inner' = inner
      BY <2>1 DEF Iteration, IterationScope
    <3>2. CASE n = index
      <4>1. inner = j
        BY <3>2
      <4>2. n \notin e.open /\ levels'[inner].phase = "closed" /\ (AllOk(levels'[inner]) \/ e.failed)
        BY <1>6, <2>1, <2>2, <2>3, <3>2, <4>1
      <4>3. n \in f.open
        BY <3>2 DEF f
      <4>4. n \notin e.queued
        BY <1>3, <2>3, <4>3
      <4>5. QED
        BY <4>2, <4>4
    <3>3. CASE n # index
      <4>1. inner # j
        BY <1>2, <3>3, IterationInjective
      <4>2. (inner \in DOMAIN levels' <=> inner \in DOMAIN levels)
            /\ (inner \in DOMAIN levels => levels'[inner] = levels[inner])
        BY <1>6, <2>1, <4>1
      <4>3. n \in e.open => IsOpen(inner)'
        BY <1>3, <2>3, <3>1, <3>3, <4>2 DEF IsOpen
      <4>4. QED
        BY <1>3, <2>1, <2>2, <2>3, <3>3, <4>2, <4>3
    <3>4. QED
      BY <3>2, <3>3
  <2>8. ASSUME NEW n \in Nat
        PROVE  Iteration(k, a, n)' = Iteration(k, a, n)
               /\ IterationScope(k, a, n)' = IterationScope(k, a, n)
               /\ (Given(Iteration(k, a, n))' <=> Given(Iteration(k, a, n)))
    BY <2>1 DEF Iteration, IterationScope, Given
  <2>9. exec'[i] = e /\ i \in DOMAIN exec'
    BY <2>4 DEF Proceeds
  <2>10. FamilyOfIterations(k, a, exec[i])'
    BY <2>3, <2>7, <2>8, <2>9 DEF FamilyOfIterations
  <2>11. Family(k, a)'
    BY <1>2, <2>1, <2>9, <2>10, KeysKept DEF Family
  <2>12. DataSound'
    BY <2>1 DEF IInv, DataSound
  <2>13. QED
    BY <1>2, <2>6, <2>11, <2>12, ExecStepTree DEF IInv
<1>9. QED
  BY <1>7, <1>8

-----------------------------------------------------------------------------
(* The steps of a level.                                                   *)

(* run_level goes on with its own variables only. *)
LevelStep(k, l) ==
    /\ flow' = flow /\ result' = result /\ exec' = exec /\ data' = data
    /\ levels' = [levels EXCEPT ![k] = l]
    /\ levels[k].phase = "pass"
    /\ LevelSound(Def(k), l)
    /\ l.phase # "closed"
    /\ levels[k].running \subseteq l.running
    /\ \A c \in Ids(Def(k)) : \/ l.outcomes[c] = levels[k].outcomes[c]
                              \/ levels[k].outcomes[c] = "none" /\ c \notin levels[k].running

LEMMA LevelStepKept ==
    ASSUME IInv, NEW k \in DOMAIN levels, NEW l, LevelStep(k, l)
    PROVE  IInv'
<1>1. /\ TreeSound /\ OneAwake /\ DataSound /\ LevelsSound /\ ResultSound /\ ExecSound
      /\ FamiliesSound /\ NoOrphans /\ Lineage
  BY DEF IInv, TreeSound
<1>2. /\ flow' = flow /\ result' = result /\ exec' = exec /\ data' = data
      /\ DOMAIN levels' = DOMAIN levels /\ levels'[k] = l
      /\ \A j \in DOMAIN levels \ {k} : levels'[j] = levels[j]
      /\ levels[k].phase = "pass" /\ l.phase # "closed"
  BY DEF LevelStep
<1>3. \A j : IsOpen(j)' <=> IsOpen(j)
  BY <1>2 DEF IsOpen
<1>4. LevelsSound'
  <2>1. ASSUME NEW j \in DOMAIN levels
        PROVE  /\ j \in Key
               /\ Given(j)
               /\ LevelSound(Def(j), levels'[j])
               /\ ScopeFits(j)
               /\ j[2] \in DOMAIN data'
    BY <1>1, <1>2, LevelFacts DEF LevelStep
  <2>2. QED
    BY <1>2, <2>1, KeysKept DEF LevelsSound
<1>5. ExecSound'
  <2>1. \A i \in DOMAIN exec : i[2] \in levels'[i[1]].running
    BY <1>1, <1>2 DEF ExecSound, LevelStep
  <2>2. QED
    BY <1>1, <1>2, <2>1, KeysKept DEF ExecSound
<1>6. ResultSound'
  <2>1. RootKey' = RootKey
    BY DEF RootKey
  <2>2. CASE result \in {"new", "rejected"}
    BY <1>1, <2>2 DEF ResultSound
  <2>3. CASE result \notin {"new", "rejected"}
    <3>1. RootKey \in DOMAIN levels' /\ (levels'[RootKey].phase # "closed" <=> levels[RootKey].phase # "closed")
      BY <1>1, <1>2, <2>3 DEF ResultSound
    <3>2. result = "Ok" => RootKey # k
      BY <1>1, <1>2 DEF ResultSound
    <3>3. QED
      BY <1>1, <1>2, <2>1, <2>3, <3>1, <3>2 DEF ResultSound
  <2>4. QED
    BY <2>2, <2>3
<1>7. FamiliesSound'
  <2>1. SUFFICES ASSUME NEW m \in DOMAIN levels, NEW c \in Ids(Def(m)) PROVE Family(m, c)'
    BY <1>2, KeysKept DEF FamiliesSound
  <2>2. \A a, b : Childless(a, b)' <=> Childless(a, b)
    BY <1>2, KeysKept DEF Childless
  <2>3. Family(m, c)
    BY <1>1, <2>1 DEF FamiliesSound
  <2>4. CASE levels'[m].outcomes[c] = levels[m].outcomes[c]
    <3>1. \A j : /\ j \in DOMAIN levels' <=> j \in DOMAIN levels
                 /\ IsOpen(j) => IsOpen(j)'
                 /\ IsClosed(j) => levels'[j] = levels[j]
      BY <1>2, <1>3 DEF IsClosed
    <3>2. QED
      BY <1>2, <2>2, <2>3, <2>4, <3>1, FamilyFrame
  <2>5. CASE levels'[m].outcomes[c] # levels[m].outcomes[c]
    <3>1. m = k /\ levels[m].outcomes[c] = "none" /\ c \notin levels[m].running
      BY <1>2, <2>1, <2>5 DEF LevelStep
    <3>2. <<m, c>> \notin DOMAIN exec
      BY <1>1, <3>1, ExecFacts
    <3>3. Childless(m, c)'
      BY <2>2, <2>3, <3>1, <3>2 DEF Family, FamilyAtRest
    <3>4. FamilyAtRest(m, c)'
      BY <3>3 DEF FamilyAtRest, Childless
    <3>5. QED
      BY <1>2, <3>2, <3>4 DEF Family
  <2>6. QED
    BY <2>4, <2>5
<1>8. NoOrphans'
  BY <1>1, <1>2, KeysKept DEF NoOrphans, RootKey
<1>9. Lineage'
  BY <1>1, <1>2, <1>3, KeysKept DEF Lineage, Inside
<1>10. OneAwake'
  <2> DEFINE x == <<"level", k>>
  <2>1. AwakeLevel(k)
    BY <1>2 DEF AwakeLevel
  <2>2. \A j : AwakeLevel(j)' => j = k
    BY <1>1, <1>2, <2>1 DEF OneAwake, AwakeLevel
  <2>3. \A i : ~AwakeExec(i)'
    BY <1>1, <1>2, <2>1 DEF OneAwake, AwakeLevel, AwakeExec
  <2>4. \A j : AwakeLevel(j)' => x = <<"level", j>>
    BY <2>2
  <2> HIDE DEF x
  <2>5. QED
    BY <2>3, <2>4, AwakeOne
<1>11. DataSound'
  BY <1>1, <1>2 DEF DataSound
<1>12. QED
  BY <1>4, <1>5, <1>6, <1>7, <1>8, <1>9, <1>10, <1>11 DEF IInv, TreeSound

LEMMA DecideFrontStep ==
    ASSUME IInv, NEW k \in DOMAIN levels, DecideFront(k)
    PROVE  IInv'
<1>1. PICK a \in levels[k].pending : levels' = [levels EXCEPT ![k] = Decide(Def(k), @, a)]
  BY DEF DecideFront
<1> DEFINE l == Decide(Def(k), levels[k], a)
<1>2. LevelSound(Def(k), levels[k]) /\ levels[k].phase = "pass"
  BY LevelFacts DEF IInv, TreeSound, DecideFront
<1>3. /\ LevelSound(Def(k), l)
      /\ l.phase = "pass"
      /\ levels[k].running \subseteq l.running
      /\ \A c \in Ids(Def(k)) : \/ l.outcomes[c] = levels[k].outcomes[c]
                                \/ levels[k].outcomes[c] = "none" /\ c \notin levels[k].running
  BY <1>1, <1>2, DecideSound
<1>4. levels' = [levels EXCEPT ![k] = l]
  BY <1>1
<1> HIDE DEF l
<1>5. LevelStep(k, l)
  BY <1>2, <1>3, <1>4 DEF LevelStep, DecideFront
<1>6. QED
  BY <1>5, LevelStepKept

LEMMA PassEndsStep ==
    ASSUME IInv, NEW k \in DOMAIN levels, PassEnds(k)
    PROVE  IInv'
<1> DEFINE l == EndPass(levels[k])
<1>1. LevelSound(Def(k), levels[k]) /\ levels[k].phase = "pass" /\ levels[k].pending = {}
  BY LevelFacts DEF IInv, TreeSound, PassEnds
<1>2. /\ LevelSound(Def(k), l)
      /\ l.phase \in {"wait", "done"}
      /\ l.running = levels[k].running
      /\ \A c \in Ids(Def(k)) : \/ l.outcomes[c] = levels[k].outcomes[c]
                                \/ levels[k].outcomes[c] = "none" /\ c \notin levels[k].running
  BY <1>1, EndPassSound
<1>3. levels' = [levels EXCEPT ![k] = l]
  BY DEF PassEnds
<1> HIDE DEF l
<1>4. LevelStep(k, l)
  BY <1>1, <1>2, <1>3 DEF LevelStep, PassEnds
<1>5. QED
  BY <1>4, LevelStepKept

LEMMA StartActionStep ==
    ASSUME IInv, NEW k \in DOMAIN levels, StartAction(k)
    PROVE  IInv'
<1>1. /\ TreeSound /\ OneAwake /\ DataSound /\ LevelsSound /\ ResultSound /\ ExecSound
      /\ FamiliesSound /\ NoOrphans /\ Lineage
  BY DEF IInv, TreeSound
<1>2. PICK a \in levels[k].running :
        /\ <<k, a>> \notin DOMAIN exec
        /\ exec' = Put(exec, <<k, a>>, Progress(IF Kind(k, a) = "leaf" THEN "leaf" ELSE "start"))
  BY DEF StartAction
<1> DEFINE e == Progress(IF Kind(k, a) = "leaf" THEN "leaf" ELSE "start")
           i == <<k, a>>
<1>3. e \in ExecType /\ e.stage \in {"leaf", "start"}
  BY DEF Progress, ExecType, ProgressType
<1> HIDE DEF e
<1>4. /\ DOMAIN exec' = DOMAIN exec \cup {i} /\ exec'[i] = e
      /\ \A h \in DOMAIN exec : h # i /\ exec'[h] = exec[h]
  BY <1>2 DEF Put, e
<1>5. flow' = flow /\ result' = result /\ levels' = levels /\ data' = data
  BY DEF StartAction
<1>6. LevelSound(Def(k), levels[k]) /\ a \in Ids(Def(k)) /\ levels[k].outcomes[a] = "none"
  BY <1>1, LevelFacts, RunningIsOpen
<1>7. LevelsSound'
  BY <1>1, <1>5, KeysKept DEF LevelsSound
<1>8. ExecSound'
  <2>1. SUFFICES ASSUME NEW h \in DOMAIN exec'
                 PROVE  /\ h = <<h[1], h[2]>>
                        /\ h[1] \in DOMAIN levels
                        /\ h[2] \in levels[h[1]].running
                        /\ exec'[h] \in ExecType
                        /\ exec'[h].stage = "iterations" => Kind(h[1], h[2]) = "Foreach"
                        /\ exec'[h].stage \in {"head", "body", "other"} => Kind(h[1], h[2]) # "Foreach"
    BY <1>5, KeysKept DEF ExecSound
  <2>2. CASE h = i
    <3>1. h[1] = k /\ h[2] = a /\ exec'[h] = e
      BY <1>4, <2>2
    <3>2. QED
      BY <1>3, <2>2, <3>1
  <2>3. CASE h # i
    BY <1>1, <1>4, <2>1, <2>3 DEF ExecSound
  <2>4. QED
    BY <2>2, <2>3
<1>9. FamiliesSound'
  <2>1. SUFFICES ASSUME NEW m \in DOMAIN levels, NEW c \in Ids(Def(m)) PROVE Family(m, c)'
    BY <1>5, KeysKept DEF FamiliesSound
  <2>2. \A b, d : Childless(b, d)' <=> Childless(b, d)
    BY <1>5, KeysKept DEF Childless
  <2>3. Family(m, c)
    BY <1>1, <2>1 DEF FamiliesSound
  <2>4. CASE <<m, c>> = i
    <3>1. m = k /\ c = a
      BY <2>4
    <3>2. Childless(m, c)'
      BY <1>2, <1>6, <2>2, <2>3, <3>1 DEF Family, FamilyAtRest
    <3>3. exec'[<<m, c>>] = e /\ <<m, c>> \in DOMAIN exec'
      BY <1>4, <2>4
    <3>4. e.open = {} /\ e.stage # "iterations" /\ e.stage \notin {"head", "body", "other"}
      BY <1>3 DEF ExecType
    <3>5. FamilyOfIterations(m, c, exec[<<m, c>>])' /\ FamilyOfBranches(m, c, exec[<<m, c>>].stage)'
      BY <3>2, <3>3, <3>4 DEF FamilyOfIterations, FamilyOfBranches
    <3>6. QED
      BY <3>3, <3>5 DEF Family
  <2>5. CASE <<m, c>> # i
    <3>1. /\ <<m, c>> \in DOMAIN exec' <=> <<m, c>> \in DOMAIN exec
          /\ <<m, c>> \in DOMAIN exec => exec'[<<m, c>>] = exec[<<m, c>>]
      BY <1>4, <2>5
    <3>2. \A j : /\ j \in DOMAIN levels' <=> j \in DOMAIN levels
                 /\ IsOpen(j) => IsOpen(j)'
                 /\ IsClosed(j) => levels'[j] = levels[j]
      BY <1>5 DEF IsOpen
    <3>3. QED
      BY <1>5, <2>2, <2>3, <3>1, <3>2, FamilyFrame
  <2>6. QED
    BY <2>4, <2>5
<1>10. NoOrphans' /\ Lineage' /\ DataSound'
  <2>1. NoOrphans'
    BY <1>1, <1>5, KeysKept DEF NoOrphans, RootKey
  <2>2. Lineage'
    BY <1>1, <1>5, KeysKept DEF Lineage, Inside, IsOpen
  <2>3. DataSound'
    BY <1>1, <1>5 DEF DataSound
  <2>4. QED
    BY <2>1, <2>2, <2>3
<1>11. ResultSound'
  <2>1. result = "running"
    BY DEF StartAction, Quiet
  <2>2. QED
    BY <1>1, <1>5, <2>1 DEF ResultSound, RootKey
<1>12. OneAwake'
  <2> DEFINE x == <<"exec", i>>
  <2>1. (\A j : ~AwakeLevel(j)) /\ (\A h : ~AwakeExec(h))
    BY DEF StartAction, Quiet, AwakeLevel, AwakeExec
  <2>2. \A j : ~AwakeLevel(j)'
    BY <1>5, <2>1 DEF AwakeLevel
  <2>3. \A h : AwakeExec(h)' => h = i
    BY <1>4, <2>1 DEF AwakeExec
  <2>4. \A h : AwakeExec(h)' => x = <<"exec", h>>
    BY <2>3
  <2> HIDE DEF x
  <2>5. QED
    BY <2>2, <2>4, AwakeOne
<1>13. QED
  BY <1>7, <1>8, <1>9, <1>10, <1>11, <1>12 DEF IInv, TreeSound

-----------------------------------------------------------------------------
(* The first step of the run and its last one.                             *)

LEMMA RootFits == ScopeFits(RootKey)
<1> DEFINE p == RootKey[1]
<1>1. p \in Seq(Names \X Branch) /\ Len(p) = 0 /\ Len(RootKey[2]) = 0
  <2>1. Len(<<>>) = 0
    OBVIOUS
  <2>2. RootKey[2] = <<>> /\ Len(RootKey[1]) = 0 /\ RootKey \in Key
    BY RootIsKey
  <2>3. Len(RootKey[2]) = 0
    BY <2>1, <2>2
  <2>4. QED
    BY <2>2, <2>3, KeyParts DEF Path
<1>2. Loops(p) = {}
  <2> HIDE DEF p
  <2>1. QED
    BY <1>1 DEF Loops
<1>3. QED
  BY <1>1, <1>2, FS_EmptySet DEF ScopeFits

LEMMA RunWorkflowStep ==
    ASSUME IInv, RunWorkflow
    PROVE  IInv'
<1>1. /\ flow \in Flows /\ result = "new" /\ flow' = flow /\ exec' = exec
      /\ DOMAIN levels = {} /\ DOMAIN exec = {} /\ DOMAIN data = {}
  BY DEF IInv, TreeSound, ResultSound, RunWorkflow
<1>2. RootKey' = RootKey
  BY DEF RootKey
<1>3. CASE result' = "rejected" /\ UNCHANGED <<levels, data>>
  <2>1. DOMAIN levels' = {} /\ DOMAIN exec' = {} /\ DOMAIN data' = {}
    BY <1>1, <1>3
  <2>2. LevelsSound' /\ ExecSound' /\ FamiliesSound' /\ NoOrphans' /\ Lineage' /\ DataSound'
    BY <2>1 DEF LevelsSound, ExecSound, FamiliesSound, NoOrphans, Lineage, DataSound
  <2>3. OneAwake' /\ ResultSound'
    BY <1>1, <1>3, <2>1 DEF OneAwake, ResultSound
  <2>4. QED
    BY <2>2, <2>3 DEF IInv, TreeSound
<1>4. CASE /\ result' = "running"
           /\ levels' = [k \in {RootKey} |-> NewLevel(flow[<<>>])]
           /\ data' = [s \in {<<>>} |-> <<>>]
  <2>1. /\ RootKey \in Key /\ RootKey[1] = <<>> /\ RootKey[2] = <<>>
        /\ <<>> \in DOMAIN flow /\ ScopeFits(RootKey)
    BY <1>1, RootIsKey, RootFits, WorkflowAssumption
  <2> DEFINE l == NewLevel(flow[<<>>])
             none == <<>>
  <2>2. DOMAIN levels' = {RootKey} /\ levels'[RootKey] = l /\ DOMAIN exec' = {}
        /\ DOMAIN data' = {none} /\ data'[none] = none
    BY <1>1, <1>4
  <2>3. Given(RootKey) /\ Def(RootKey) = flow[<<>>]
    BY <2>1 DEF Given, Def
  <2>4. LevelSound(Def(RootKey), l) /\ l.phase = "pass"
    BY <2>3, NewLevelSound
  <2>5. RootKey[2] = none /\ none \in Scope /\ DOMAIN none = {}
    BY <2>1, RootIsKey, KeyParts
  <2> HIDE DEF l, none
  <2>6. LevelsSound'
    BY <1>1, <2>1, <2>2, <2>3, <2>4, <2>5, KeysKept DEF LevelsSound
  <2>7. ExecSound'
    BY <2>2 DEF ExecSound
  <2>8. ASSUME NEW m \in DOMAIN levels', NEW c \in Ids(Def(m)) PROVE Childless(m, c)'
    <3>1. m = RootKey /\ c \in Names
      <4>1. Ids(Def(RootKey)) \in {Ids(flow[path]) : path \in DOMAIN flow}
        BY <2>1 DEF Def
      <4>2. Ids(Def(RootKey)) \subseteq UNION {Ids(flow[path]) : path \in DOMAIN flow}
        BY <4>1
      <4>3. m = RootKey
        BY <2>2, <2>8
      <4>4. QED
        BY <1>1, <2>8, <4>2, <4>3 DEF Names
    <3>2. ~Member(RootKey, m, c)
      BY <2>1, <3>1, MemberLonger
    <3>3. QED
      BY <1>1, <2>2, <3>2, KeysKept DEF Childless
  <2>9. FamiliesSound'
    <3>1. SUFFICES ASSUME NEW m \in DOMAIN levels', NEW c \in Ids(Def(m)) PROVE Family(m, c)'
      BY <1>1, KeysKept DEF FamiliesSound
    <3>2. FamilyAtRest(m, c)'
      BY <2>8 DEF FamilyAtRest, Childless
    <3>3. QED
      BY <2>2, <3>2 DEF Family
  <2>10. NoOrphans'
    BY <1>2, <2>2 DEF NoOrphans
  <2>11. Lineage'
    <3>1. ~Inside(RootKey, RootKey)
      BY <2>1, RootIsKey, InsideParts
    <3>2. QED
      BY <2>2, <3>1 DEF Lineage, Inside
  <2>12. OneAwake'
    BY <2>2 DEF OneAwake
  <2>13. ResultSound'
    BY <1>1, <1>2, <1>4, <2>2, <2>4 DEF ResultSound
  <2>14. DataSound'
    BY <2>2, <2>5 DEF DataSound
  <2>15. QED
    BY <2>6, <2>7, <2>9, <2>10, <2>11, <2>12, <2>13, <2>14 DEF IInv, TreeSound
<1>5. QED
  BY <1>3, <1>4 DEF RunWorkflow

LEMMA RunReturnsStep ==
    ASSUME IInv, RunReturns
    PROVE  IInv'
<1>1. /\ TreeSound /\ OneAwake /\ DataSound /\ LevelsSound /\ ResultSound /\ ExecSound
      /\ FamiliesSound /\ NoOrphans /\ Lineage
  BY DEF IInv, TreeSound
<1>2. /\ flow' = flow /\ exec' = exec /\ data' = data /\ result = "running"
      /\ levels[RootKey].phase = "done" /\ levels' = Closed(RootKey)
      /\ result' = IF AllOk(levels[RootKey]) THEN "Ok" ELSE "Err"
  BY DEF RunReturns
<1>3. RootKey \in DOMAIN levels /\ RootKey' = RootKey /\ RootKey \in Key
  BY <1>1, <1>2, RootIsKey DEF ResultSound, RootKey
<1>4. LevelSound(Def(RootKey), levels[RootKey]) /\ levels[RootKey].running = {}
  BY <1>1, <1>2, <1>3, LevelFacts DEF LevelSound
<1>5. /\ DOMAIN levels' = DOMAIN levels
      /\ levels'[RootKey] = Close(levels[RootKey])
      /\ \A j \in DOMAIN levels \ {RootKey} : levels'[j] = levels[j]
  BY <1>2, <1>3, ClosedLevels
<1>6. /\ LevelSound(Def(RootKey), levels'[RootKey])
      /\ levels'[RootKey].phase = "closed"
      /\ levels'[RootKey].outcomes = levels[RootKey].outcomes
      /\ AllOk(levels'[RootKey]) <=> AllOk(levels[RootKey])
  BY <1>2, <1>4, <1>5, CloseSound
<1>7. \A m \in DOMAIN levels : \A c \in Ids(Def(m)) : \A j : Member(j, m, c) => j # RootKey
  BY <1>1, LevelFacts, MemberLonger
<1>8. LevelsSound'
  <2>1. ASSUME NEW j \in DOMAIN levels
        PROVE  /\ j \in Key
               /\ Given(j)
               /\ LevelSound(Def(j), levels'[j])
               /\ ScopeFits(j)
               /\ j[2] \in DOMAIN data'
    BY <1>1, <1>2, <1>5, <1>6, LevelFacts
  <2>2. QED
    BY <1>2, <1>5, <2>1, KeysKept DEF LevelsSound
<1>9. ExecSound'
  <2>1. \A i \in DOMAIN exec : i[1] # RootKey /\ i[2] \in levels'[i[1]].running
    BY <1>1, <1>4, <1>5 DEF ExecSound
  <2>2. QED
    BY <1>1, <1>2, <1>5, <2>1, KeysKept DEF ExecSound
<1>10. FamiliesSound'
  <2>1. SUFFICES ASSUME NEW m \in DOMAIN levels, NEW c \in Ids(Def(m)) PROVE Family(m, c)'
    BY <1>2, <1>5, KeysKept DEF FamiliesSound
  <2>2. \A a, b : Childless(a, b)' <=> Childless(a, b)
    BY <1>2, <1>5, KeysKept DEF Childless
  <2>3. Family(m, c) /\ levels'[m].outcomes[c] = levels[m].outcomes[c]
    BY <1>1, <1>5, <1>6, <2>1 DEF FamiliesSound
  <2>4. \A j : Member(j, m, c) =>
               /\ j \in DOMAIN levels' <=> j \in DOMAIN levels
               /\ IsOpen(j) => IsOpen(j)'
               /\ IsClosed(j) => levels'[j] = levels[j]
    BY <1>5, <1>7 DEF IsOpen, IsClosed
  <2>5. QED
    BY <1>2, <2>2, <2>3, <2>4, FamilyFrame
<1>11. NoOrphans'
  BY <1>1, <1>2, <1>3, <1>5, KeysKept DEF NoOrphans
<1>12. Lineage'
  <2>1. \A j : IsOpen(j)' <=> IsOpen(j) /\ j # RootKey
    BY <1>5, <1>6 DEF IsOpen
  <2>2. SUFFICES ASSUME NEW j \in DOMAIN levels, NEW k \in DOMAIN levels, IsOpen(j)', Inside(j, k)
                 PROVE  \E i \in DOMAIN levels : \E c \in Ids(Def(k)) :
                           Member(i, k, c) /\ IsOpen(i)' /\ (i = j \/ Inside(j, i))
    BY <1>2, <1>5, KeysKept DEF Lineage, Inside
  <2>3. PICK i \in DOMAIN levels, c \in Ids(Def(k)) :
                Member(i, k, c) /\ IsOpen(i) /\ (i = j \/ Inside(j, i))
    BY <1>1, <2>1, <2>2 DEF Lineage
  <2>4. QED
    BY <1>7, <2>1, <2>3
<1>13. OneAwake'
  <2>1. AwakeLevel(RootKey)
    BY <1>2, <1>3 DEF AwakeLevel
  <2>2. \A j : ~AwakeLevel(j)'
    BY <1>1, <1>5, <1>6, <2>1 DEF OneAwake, AwakeLevel
  <2>3. \A i : ~AwakeExec(i)'
    BY <1>1, <1>2, <2>1 DEF OneAwake, AwakeLevel, AwakeExec
  <2>4. QED
    BY <2>2, <2>3, AwakeOne
<1>14. ResultSound'
  BY <1>1, <1>2, <1>3, <1>5, <1>6 DEF ResultSound
<1>15. DataSound'
  BY <1>1, <1>2 DEF DataSound
<1>16. QED
  BY <1>8, <1>9, <1>10, <1>11, <1>12, <1>13, <1>14, <1>15 DEF IInv, TreeSound

LEMMA InitEstablishes == Init => IInv
<1> DEFINE none == <<>>
<1>1. SUFFICES ASSUME Init PROVE IInv
  OBVIOUS
<1>2. DOMAIN none = {}
  OBVIOUS
<1>3. levels = none /\ exec = none /\ data = none /\ flow \in Flows /\ result = "new"
  BY <1>1 DEF Init
<1> HIDE DEF none
<1>4. LevelsSound /\ ExecSound /\ FamiliesSound /\ NoOrphans /\ Lineage /\ DataSound
  BY <1>2, <1>3 DEF LevelsSound, ExecSound, FamiliesSound, NoOrphans, Lineage, DataSound
<1>5. OneAwake /\ ResultSound
  BY <1>2, <1>3 DEF OneAwake, ResultSound
<1>6. QED
  BY <1>4, <1>5 DEF IInv, TreeSound

LEMMA NextKeeps == IInv /\ [Next]_vars => IInv'
<1>1. SUFFICES ASSUME IInv, [Next]_vars PROVE IInv'
  OBVIOUS
<1>2. CASE RunWorkflow
  BY <1>1, <1>2, RunWorkflowStep
<1>3. CASE RunReturns
  BY <1>1, <1>3, RunReturnsStep
<1>4. ASSUME NEW k \in DOMAIN levels, DecideFront(k) \/ PassEnds(k) \/ StartAction(k) PROVE IInv'
  BY <1>1, <1>4, DecideFrontStep, PassEndsStep, StartActionStep
<1>5. ASSUME NEW i \in DOMAIN exec PROVE i = <<i[1], i[2]>>
  BY <1>1, <1>5 DEF IInv, TreeSound, ExecSound
<1>6. ASSUME NEW i \in DOMAIN exec,
             \/ LeafEnds(i[1], i[2]) \/ ContainerErrs(i[1], i[2])
             \/ StartIf(i[1], i[2]) \/ StartTry(i[1], i[2])
             \/ StartUntil(i[1], i[2]) \/ StartForeach(i[1], i[2])
      PROVE  IInv'
  <2> DEFINE k == i[1]
             a == i[2]
  <2>1. <<k, a>> \in DOMAIN exec
    BY <1>5, <1>6
  <2> HIDE DEF k, a
  <2>2. \/ LeafEnds(k, a) \/ ContainerErrs(k, a)
        \/ StartIf(k, a) \/ StartTry(k, a)
        \/ StartUntil(k, a) \/ StartForeach(k, a)
    BY <1>6 DEF k, a
  <2>3. QED
    BY <1>1, <2>1, <2>2, LeafEndsStep, ContainerErrsStep, StartIfStep, StartTryStep, StartUntilStep,
       StartForeachStep
<1>7. ASSUME NEW i \in DOMAIN exec,
             \/ IfReturns(i[1], i[2]) \/ TryBodyReturns(i[1], i[2])
             \/ TryCatchReturns(i[1], i[2]) \/ UntilHead(i[1], i[2])
             \/ UntilReturns(i[1], i[2]) \/ IterationStarts(i[1], i[2])
             \/ IterationReturns(i[1], i[2])
      PROVE  IInv'
  <2> DEFINE k == i[1]
             a == i[2]
  <2>1. <<k, a>> \in DOMAIN exec
    BY <1>5, <1>7
  <2> HIDE DEF k, a
  <2>2. \/ IfReturns(k, a) \/ TryBodyReturns(k, a)
        \/ TryCatchReturns(k, a) \/ UntilHead(k, a)
        \/ UntilReturns(k, a) \/ IterationStarts(k, a)
        \/ IterationReturns(k, a)
    BY <1>7 DEF k, a
  <2>3. QED
    BY <1>1, <2>1, <2>2, IfReturnsStep, TryBodyReturnsStep, TryCatchReturnsStep, UntilHeadStep,
       UntilReturnsStep, IterationStartsStep, IterationReturnsStep
<1>8. CASE UNCHANGED vars
  <2>1. /\ flow' = flow /\ result' = result /\ levels' = levels /\ exec' = exec /\ data' = data
    BY <1>8 DEF vars
  <2>2. \A m, c : Childless(m, c)' <=> Childless(m, c)
    BY <2>1, KeysKept DEF Childless
  <2>3. TreeSound
    BY <1>1 DEF IInv
  <2>4. LevelsSound' /\ ExecSound' /\ NoOrphans'
    BY <2>1, <2>3, KeysKept DEF TreeSound, LevelsSound, ExecSound, NoOrphans, RootKey
  <2>5. Lineage' /\ ResultSound'
    BY <2>1, <2>3, KeysKept DEF TreeSound, Lineage, ResultSound, Inside, IsOpen, RootKey
  <2>6. FamiliesSound'
    <3>1. SUFFICES ASSUME NEW m \in DOMAIN levels, NEW c \in Ids(Def(m)) PROVE Family(m, c)'
      BY <2>1, KeysKept DEF FamiliesSound
    <3>2. Family(m, c)
      BY <2>3, <3>1 DEF TreeSound, FamiliesSound
    <3>3. \A j : /\ j \in DOMAIN levels' <=> j \in DOMAIN levels
                 /\ IsOpen(j) => IsOpen(j)'
                 /\ IsClosed(j) => levels'[j] = levels[j]
      BY <2>1 DEF IsOpen
    <3>4. QED
      BY <2>1, <2>2, <3>2, <3>3, FamilyFrame
  <2>7. OneAwake' /\ DataSound'
    BY <1>1, <2>1 DEF IInv, OneAwake, DataSound, AwakeLevel, AwakeExec
  <2>8. QED
    BY <2>4, <2>5, <2>6, <2>7 DEF IInv, TreeSound
<1>9. QED
  BY <1>1, <1>2, <1>3, <1>4, <1>6, <1>7, <1>8 DEF Next

THEOREM Invariance == Spec => []IInv
<1>1. Init => IInv
  BY InitEstablishes
<1>2. IInv /\ [Next]_vars => IInv'
  BY NextKeeps
<1>3. QED
  BY <1>1, <1>2, PTL DEF Spec

-----------------------------------------------------------------------------
(* What follows of it.                                                     *)

(* The parent of a level, and what is known of the family it is in. *)
LEMMA OwnerFacts ==
    ASSUME IInv, NEW k \in DOMAIN levels, k # RootKey
    PROVE  LET o == Owner(k)
           IN  /\ o = <<o[1], o[2]>>
               /\ o[1] \in DOMAIN levels
               /\ o[2] \in Ids(Def(o[1]))
               /\ Member(k, o[1], o[2])
               /\ Family(o[1], o[2])
<1>1. PICK m \in DOMAIN levels : \E c \in Ids(Def(m)) : Member(k, m, c)
  BY DEF IInv, TreeSound, NoOrphans
<1>2. PICK c \in Ids(Def(m)) : Member(k, m, c)
  BY <1>1
<1>3. m \in Key /\ c \in Names
  BY <1>1, <1>2, LevelFacts DEF IInv, TreeSound
<1>4. Owner(k) = <<m, c>>
  BY <1>2, <1>3, MemberOwner
<1>5. Family(m, c)
  BY <1>1, <1>2 DEF IInv, TreeSound, FamiliesSound
<1>6. QED
  BY <1>1, <1>2, <1>4, <1>5

(* When a container has resolved, or the run has its result, nothing       *)
(* inside still runs (execute_foreach runs all iterations to completion,   *)
(* and an executor awaits every level it starts).                          *)
THEOREM NothingOutlivesTheorem == Spec => []NothingOutlivesItsContainer
<1>1. IInv => NothingOutlivesItsContainer
  <2>1. SUFFICES ASSUME IInv, NEW k \in DOMAIN levels, levels[k].phase # "closed"
                 PROVE  IF k = RootKey THEN result = "running" ELSE Owner(k) \in DOMAIN exec
    BY DEF NothingOutlivesItsContainer
  <2>2. CASE k = RootKey
    BY <2>1, <2>2 DEF IInv, TreeSound, ResultSound
  <2>3. CASE k # RootKey
    <3> DEFINE o == Owner(k)
    <3>1. o = <<o[1], o[2]>> /\ Member(k, o[1], o[2]) /\ Family(o[1], o[2])
      BY <2>1, <2>3, OwnerFacts
    <3> HIDE DEF o
    <3>2. <<o[1], o[2]>> \in DOMAIN exec
      BY <2>1, <3>1 DEF Family, FamilyAtRest
    <3>3. QED
      BY <2>3, <3>1, <3>2 DEF o
  <2>4. QED
    BY <2>2, <2>3
<1>2. QED
  BY <1>1, Invariance, PTL

(* A failed action makes its container fail, unless that is a Try whose    *)
(* catch then succeeds, and so on outwards to the result of the run        *)
(* (OutcomeOf in the executors and in run_workflow).                       *)
THEOREM FailureNotSwallowedTheorem == Spec => []FailureNotSwallowed
<1>1. IInv => FailureNotSwallowed
  <2>1. SUFFICES ASSUME IInv, NEW k \in DOMAIN levels, levels[k].phase = "closed", ~AllOk(levels[k])
                 PROVE  IF k = RootKey THEN result = "Err"
                        ELSE LET o == Owner(k)
                                 outcome == levels[o[1]].outcomes[o[2]]
                             IN  \/ outcome = "Failed"
                                 \/ outcome = "none" /\ o \in DOMAIN exec
                                 \/ Recovered(k, o)
    BY DEF FailureNotSwallowed
  <2>2. CASE k = RootKey
    BY <2>1, <2>2 DEF IInv, TreeSound, ResultSound
  <2>3. CASE k # RootKey
    <3> DEFINE o == Owner(k)
               m == o[1]
               c == o[2]
    <3>1. o = <<m, c>> /\ Member(k, m, c) /\ Family(m, c)
      BY <2>1, <2>3, OwnerFacts
    <3>2. CASE <<m, c>> \in DOMAIN exec
      <4>1. levels[m].outcomes[c] = "none"
        <5> HIDE DEF m, c
        <5>1. QED
          BY <2>1, <3>2, ExecFacts DEF IInv, TreeSound
      <4>2. QED
        BY <2>3, <3>1, <3>2, <4>1
    <3>3. CASE <<m, c>> \notin DOMAIN exec
      <4>1. levels[m].outcomes[c] = "Failed" \/ Recovered(k, <<m, c>>)
        <5> HIDE DEF m, c
        <5>1. QED
          BY <2>1, <3>1, <3>3 DEF Family, FamilyAtRest
      <4>2. QED
        BY <2>3, <3>1, <4>1
    <3>4. QED
      BY <3>2, <3>3
  <2>4. QED
    BY <2>2, <2>3
<1>2. QED
  BY <1>1, Invariance, PTL

(* What a context holds was written in it or in one around it              *)
(* (RunContext::child, record_outputs).                                    *)
THEOREM IterationsIsolatedTheorem == Spec => []IterationsIsolated
<1>1. IInv => IterationsIsolated
  BY DEF IInv, DataSound, IterationsIsolated
<1>2. QED
  BY <1>1, Invariance, PTL

-----------------------------------------------------------------------------
(* Refinement: what a step does to the top level is a step of a scheduler, *)
(* the end of an action being the end of its executor, or nothing at all.  *)

SameRoot(ls) == RootKey \in DOMAIN ls /\ ls[RootKey] = levels[RootKey]

RootResolves(a, outcome) ==
    /\ RootKey \in DOMAIN levels /\ RootKey \in DOMAIN levels'
    /\ levels[RootKey].phase = "wait"
    /\ a \in levels[RootKey].running
    /\ levels'[RootKey] = Resolve(levels[RootKey], a, outcome)

RootTurn ==
    /\ flow' = flow
    /\ \/ SameRoot(levels')
       \/ \E a \in Ids(Def(RootKey)), outcome \in {"Succeeded", "Failed"} : RootResolves(a, outcome)

(* What the executor of a in k waited for came, so that it goes on. *)
Awaited(k, a) ==
    \/ Quiet
    \/ AwakeExec(<<k, a>>)
    \/ \E inner \in DOMAIN levels : inner # k /\ levels[inner].phase = "done"

LEMMA AwaitingWaits ==
    ASSUME IInv, NEW k, NEW a, <<k, a>> \in DOMAIN exec, Awaited(k, a)
    PROVE  levels[k].phase = "wait"
<1>1. k \in DOMAIN levels /\ levels[k].phase \in {"pass", "wait"}
  BY ExecFacts DEF IInv, TreeSound
<1>2. CASE Quiet
  BY <1>1, <1>2 DEF Quiet
<1>3. CASE AwakeExec(<<k, a>>)
  BY <1>1, <1>3 DEF IInv, OneAwake, AwakeLevel
<1>4. CASE \E inner \in DOMAIN levels : inner # k /\ levels[inner].phase = "done"
  BY <1>1, <1>4 DEF IInv, OneAwake, AwakeLevel
<1>5. QED
  BY <1>2, <1>3, <1>4 DEF Awaited

(* A level of a container is not the first. *)
LEMMA RootNotInner ==
    ASSUME IInv, NEW k, NEW a, <<k, a>> \in DOMAIN exec
    PROVE  /\ \A branch \in Branch : Inner(k, a, branch) \in Key \ {k, RootKey}
           /\ \A index \in Nat : Iteration(k, a, index) \in Key \ {k, RootKey}
<1>1. k \in Key /\ a \in Names /\ Len(k[1]) \in Nat
  BY ExecFacts, KeyParts DEF IInv, TreeSound, Path
<1>2. ASSUME NEW j \in Key, NEW branch \in Branch, j[1] = Append(k[1], <<a, branch>>)
      PROVE  j # k /\ j # RootKey
  <2> DEFINE x == <<a, branch>>
             S == Names \X Branch
  <2>1. x \in S /\ k[1] \in Seq(S)
    BY <1>1, KeyParts DEF Path
  <2> HIDE DEF x, S
  <2>2. Len(Append(k[1], x)) = Len(k[1]) + 1
    BY <2>1, AppendElements
  <2>3. Len(j[1]) = Len(k[1]) + 1
    BY <1>2, <2>2 DEF x
  <2>4. QED
    BY <1>1, <2>3, RootIsKey
<1>3. \A branch \in Branch : Inner(k, a, branch) \in Key \ {k, RootKey}
  BY <1>1, <1>2, InnerKey
<1>4. \A index \in Nat : Iteration(k, a, index) \in Key \ {k, RootKey}
  <2> DEFINE branch == "body"
  <2>1. branch \in Branch /\ branch = "body"
    BY DEF Branch
  <2> HIDE DEF branch
  <2>2. QED
    BY <1>1, <1>2, <2>1, IterationKey
<1>5. QED
  BY <1>3, <1>4

LEMMA SameRootKept ==
    ASSUME IInv, NEW k, NEW a, <<k, a>> \in DOMAIN exec
    PROVE  /\ SameRoot(levels)
           /\ \A j \in Key \ {RootKey} : SameRoot(Closed(j)) /\ SameRoot(WithoutInside(j))
           /\ \A j \in Key \ {RootKey} : \A l, ls : SameRoot(ls) => SameRoot(Put(ls, j, l))
<1>1. RootKey \in DOMAIN levels
  BY DEF IInv, TreeSound, ResultSound
<1>2. SameRoot(levels)
  BY <1>1 DEF SameRoot
<1>3. ASSUME NEW j \in Key \ {RootKey} PROVE SameRoot(Closed(j)) /\ SameRoot(WithoutInside(j))
  <2>1. RootKey \in DOMAIN Closed(j) /\ Closed(j)[RootKey] = levels[RootKey]
    BY <1>1 DEF Closed
  <2>2. ~Inside(RootKey, j)
    BY RootIsKey, InsideParts, KeyParts DEF Path
  <2>3. RootKey \in DOMAIN WithoutInside(j) /\ WithoutInside(j)[RootKey] = Closed(j)[RootKey]
    BY <1>1, <2>2 DEF WithoutInside, Inside
  <2>4. QED
    BY <2>1, <2>3 DEF SameRoot
<1>4. ASSUME NEW j \in Key \ {RootKey}, NEW l, NEW ls, SameRoot(ls) PROVE SameRoot(Put(ls, j, l))
  BY <1>4 DEF SameRoot, Put
<1>5. QED
  BY <1>2, <1>3, <1>4

LEMMA FinishTurn ==
    ASSUME IInv, NEW k, NEW a, <<k, a>> \in DOMAIN exec, Awaited(k, a),
           NEW outcome \in {"Succeeded", "Failed"}, NEW error, NEW ls, NEW d, NEW st,
           SameRoot(ls), Finish(k, a, outcome, error, ls, d, st)
    PROVE  RootTurn
<1>1. RootKey \in DOMAIN levels /\ a \in levels[k].running /\ a \in Ids(Def(k))
  BY ExecFacts DEF IInv, TreeSound, ResultSound
<1>2. /\ levels' = [ls EXCEPT ![k] = Resolve(@, a, outcome)] /\ flow' = flow
      /\ RootKey \in DOMAIN ls /\ ls[RootKey] = levels[RootKey]
  BY DEF Finish, SameRoot
<1>3. CASE k = RootKey
  <2>1. levels[RootKey].phase = "wait"
    BY <1>3, AwaitingWaits
  <2>2. RootKey \in DOMAIN levels' /\ levels'[RootKey] = Resolve(levels[RootKey], a, outcome)
    BY <1>2, <1>3
  <2>3. RootResolves(a, outcome)
    BY <1>1, <1>3, <2>1, <2>2 DEF RootResolves
  <2>4. QED
    BY <1>1, <1>2, <1>3, <2>3 DEF RootTurn
<1>4. CASE k # RootKey
  BY <1>2, <1>4 DEF RootTurn, SameRoot
<1>5. QED
  BY <1>3, <1>4

LEMMA EndTurn ==
    ASSUME IInv, NEW k, NEW a, <<k, a>> \in DOMAIN exec, Quiet \/ AwakeExec(<<k, a>>),
           NEW outcome \in {"Succeeded", "Failed"}, End(k, a, outcome)
    PROVE  RootTurn
<1> DEFINE no == FALSE
           ls == levels
           d == data
           st == status
<1>1. Finish(k, a, outcome, no, ls, d, st) /\ Awaited(k, a)
  BY DEF End, Awaited
<1>2. SameRoot(ls)
  BY SameRootKept
<1> HIDE DEF no, ls, d, st
<1>3. QED
  BY <1>1, <1>2, FinishTurn

(* The executor returns with the level that came to its end. *)
LEMMA ReturnTurn ==
    ASSUME IInv, NEW k, NEW a, <<k, a>> \in DOMAIN exec,
           NEW inner \in Key \ {k, RootKey}, inner \in DOMAIN levels, levels[inner].phase = "done",
           NEW outcome \in {"Succeeded", "Failed"}, NEW error, NEW d, NEW st,
           Finish(k, a, outcome, error, Closed(inner), d, st)
    PROVE  RootTurn
<1> DEFINE ls == Closed(inner)
<1>1. Awaited(k, a)
  BY DEF Awaited
<1>2. SameRoot(ls) /\ Finish(k, a, outcome, error, ls, d, st)
  BY SameRootKept
<1> HIDE DEF ls
<1>3. QED
  BY <1>1, <1>2, FinishTurn

LEMMA OpenTurn ==
    ASSUME IInv, NEW k, NEW a, <<k, a>> \in DOMAIN exec, NEW branch \in Branch, NEW stage, NEW round,
           NEW ls, SameRoot(ls), OpenLevel(k, a, branch, stage, round, ls), flow' = flow
    PROVE  RootTurn
<1> DEFINE l == NewLevel(Def(Inner(k, a, branch)))
<1>1. levels' = Put(ls, Inner(k, a, branch), l)
  BY DEF OpenLevel
<1> HIDE DEF l
<1>2. SameRoot(levels')
  BY <1>1, RootNotInner, SameRootKept
<1>3. QED
  BY <1>2 DEF RootTurn

LEMMA StartTurn ==
    ASSUME IInv, NEW k, NEW a, <<k, a>> \in DOMAIN exec,
           \/ LeafEnds(k, a) \/ ContainerErrs(k, a)
           \/ StartIf(k, a) \/ StartTry(k, a)
           \/ StartUntil(k, a) \/ StartForeach(k, a)
           \/ UntilHead(k, a)
    PROVE  RootTurn
<1> DEFINE failed == "Failed"
           succeeded == "Succeeded"
           body == "body"
           zero == 0
           round == exec[<<k, a>>].round
<1>1. /\ failed \in {"Succeeded", "Failed"} /\ succeeded \in {"Succeeded", "Failed"}
      /\ body \in Branch /\ Branch = {"body", "other"}
  BY DEF Branch
<1>2. exec[<<k, a>>].stage \in {"start", "head"} => AwakeExec(<<k, a>>)
  BY DEF AwakeExec
<1>3. SameRoot(levels)
  BY SameRootKept
<1>4. CASE LeafEnds(k, a)
  <2>1. PICK outcome \in {"Succeeded", "Failed"} : End(k, a, outcome)
    BY <1>4 DEF LeafEnds
  <2>2. QED
    BY <1>4, <2>1, EndTurn DEF LeafEnds
<1>5. CASE ContainerErrs(k, a)
  <2>1. End(k, a, failed) /\ exec[<<k, a>>].stage = "start"
    BY <1>5 DEF ContainerErrs
  <2> HIDE DEF failed
  <2>2. QED
    BY <1>1, <1>2, <2>1, EndTurn
<1>6. CASE StartIf(k, a)
  <2>1. PICK branch \in Branch :
          IF Given(Inner(k, a, branch))
          THEN OpenLevel(k, a, branch, branch, zero, levels) /\ flow' = flow
          ELSE End(k, a, succeeded)
    BY <1>6 DEF StartIf, Branch
  <2>2. exec[<<k, a>>].stage = "start"
    BY <1>6 DEF StartIf
  <2> HIDE DEF zero, succeeded
  <2>3. QED
    BY <1>1, <1>2, <1>3, <2>1, <2>2, OpenTurn, EndTurn
<1>7. CASE StartTry(k, a)
  <2>1. OpenLevel(k, a, body, body, zero, levels) /\ flow' = flow
    BY <1>7 DEF StartTry
  <2> HIDE DEF zero, body
  <2>2. QED
    BY <1>1, <1>3, <2>1, OpenTurn
<1>8. CASE StartUntil(k, a)
  BY <1>3, <1>8 DEF StartUntil, RootTurn, SameRoot
<1>9. CASE StartForeach(k, a)
  <2>1. (UNCHANGED <<flow, levels>>) \/ End(k, a, succeeded)
    BY <1>9 DEF StartForeach
  <2>2. exec[<<k, a>>].stage = "start"
    BY <1>9 DEF StartForeach
  <2>3. CASE UNCHANGED <<flow, levels>>
    BY <1>3, <2>3 DEF RootTurn, SameRoot
  <2>4. CASE End(k, a, succeeded)
    <3> HIDE DEF succeeded
    <3>1. QED
      BY <1>1, <1>2, <2>2, <2>4, EndTurn
  <2>5. QED
    BY <2>1, <2>3, <2>4
<1>10. CASE UntilHead(k, a)
  <2>1. \/ End(k, a, failed)
        \/ OpenLevel(k, a, body, body, round, levels) /\ flow' = flow
    BY <1>10 DEF UntilHead
  <2>2. exec[<<k, a>>].stage = "head"
    BY <1>10 DEF UntilHead
  <2> HIDE DEF failed, body, round
  <2>3. QED
    BY <1>1, <1>2, <1>3, <2>1, <2>2, OpenTurn, EndTurn
<1>11. QED
  BY <1>4, <1>5, <1>6, <1>7, <1>8, <1>9, <1>10

LEMMA ReturnsTurn ==
    ASSUME IInv, NEW k, NEW a, <<k, a>> \in DOMAIN exec,
           \/ IfReturns(k, a) \/ TryBodyReturns(k, a) \/ TryCatchReturns(k, a) \/ UntilReturns(k, a)
    PROVE  RootTurn
<1>1. PICK branch \in Branch :
        LET inner == Inner(k, a, branch)
        IN  /\ Returns(k, a, branch)
            /\ \/ \E outcome \in {"Succeeded", "Failed"} : \E error, d, st :
                     Finish(k, a, outcome, error, Closed(inner), d, st)
               \/ \E other \in Branch : \E stage, round :
                     OpenLevel(k, a, other, stage, round, Closed(inner)) /\ flow' = flow
               \/ levels' = WithoutInside(inner) /\ flow' = flow
  <2>1. CASE IfReturns(k, a)
    <3>1. PICK branch \in Branch :
            /\ Returns(k, a, branch)
            /\ Finish(k, a, OutcomeOf(Inner(k, a, branch)), FALSE, Closed(Inner(k, a, branch)), data,
                      ReportSkipped(Inner(k, a, branch)))
      BY <2>1 DEF IfReturns, Branch
    <3>2. OutcomeOf(Inner(k, a, branch)) \in {"Succeeded", "Failed"}
      BY OutcomeFacts
    <3>3. QED
      BY <3>1, <3>2
  <2>2. CASE TryCatchReturns(k, a)
    <3> DEFINE branch == "other"
    <3>1. /\ Returns(k, a, branch) /\ branch \in Branch
          /\ Finish(k, a, OutcomeOf(Inner(k, a, branch)), TRUE, Closed(Inner(k, a, branch)), data,
                    ReportSkipped(Inner(k, a, branch)))
      BY <2>2 DEF TryCatchReturns, Branch
    <3>2. OutcomeOf(Inner(k, a, branch)) \in {"Succeeded", "Failed"}
      BY OutcomeFacts
    <3> HIDE DEF branch
    <3>3. QED
      BY <3>1, <3>2
  <2>3. CASE TryBodyReturns(k, a)
    <3> DEFINE branch == "body"
               catch == "other"
               recorded == RecordOutputs(data, k, a, TRUE)
    <3>1. Returns(k, a, branch) /\ branch \in Branch /\ catch \in Branch
      BY <2>3 DEF TryBodyReturns, Branch
    <3>2. \/ Finish(k, a, "Succeeded", FALSE, Closed(Inner(k, a, branch)), data,
                    ReportSkipped(Inner(k, a, branch)))
          \/ Finish(k, a, "Failed", FALSE, Closed(Inner(k, a, branch)), recorded,
                    ReportSkipped(Inner(k, a, branch)))
          \/ OpenLevel(k, a, catch, catch, 0, Closed(Inner(k, a, branch))) /\ flow' = flow
      BY <2>3 DEF TryBodyReturns
    <3> HIDE DEF branch, catch, recorded
    <3>3. QED
      BY <3>1, <3>2
  <2>4. CASE UntilReturns(k, a)
    <3> DEFINE branch == "body"
    <3>1. Returns(k, a, branch) /\ branch \in Branch
      BY <2>4 DEF UntilReturns, Branch
    <3>2. \/ Finish(k, a, "Succeeded", FALSE, Closed(Inner(k, a, branch)), data,
                    ReportSkipped(Inner(k, a, branch)))
          \/ Finish(k, a, "Failed", FALSE, Closed(Inner(k, a, branch)), data,
                    ReportSkipped(Inner(k, a, branch)))
          \/ levels' = WithoutInside(Inner(k, a, branch)) /\ flow' = flow
      BY <2>4 DEF UntilReturns
    <3> HIDE DEF branch
    <3>3. QED
      BY <3>1, <3>2
  <2>5. QED
    BY <2>1, <2>2, <2>3, <2>4
<1> DEFINE inner == Inner(k, a, branch)
<1>2. /\ inner \in DOMAIN levels /\ levels[inner].phase = "done"
      /\ inner \in Key \ {k, RootKey}
  BY <1>1, ReturnsFacts, RootNotInner
<1>3. SameRoot(Closed(inner)) /\ SameRoot(WithoutInside(inner))
  BY <1>2, SameRootKept
<1>4. \/ \E outcome \in {"Succeeded", "Failed"} : \E error, d, st :
            Finish(k, a, outcome, error, Closed(inner), d, st)
      \/ \E other \in Branch : \E stage, round :
            OpenLevel(k, a, other, stage, round, Closed(inner)) /\ flow' = flow
      \/ levels' = WithoutInside(inner) /\ flow' = flow
  BY <1>1
<1> HIDE DEF inner
<1>5. CASE \E outcome \in {"Succeeded", "Failed"} : \E error, d, st :
              Finish(k, a, outcome, error, Closed(inner), d, st)
  BY <1>2, <1>5, ReturnTurn
<1>6. CASE \E other \in Branch : \E stage, round :
              OpenLevel(k, a, other, stage, round, Closed(inner)) /\ flow' = flow
  BY <1>3, <1>6, OpenTurn
<1>7. CASE levels' = WithoutInside(inner) /\ flow' = flow
  BY <1>3, <1>7 DEF RootTurn
<1>8. QED
  BY <1>4, <1>5, <1>6, <1>7

LEMMA IterationTurn ==
    ASSUME IInv, NEW k, NEW a, <<k, a>> \in DOMAIN exec, IterationStarts(k, a) \/ IterationReturns(k, a)
    PROVE  RootTurn
<1>1. CASE IterationStarts(k, a)
  <2>1. PICK index \in exec[<<k, a>>].queued :
          levels' = Put(levels, Iteration(k, a, index), NewLevel(Def(Iteration(k, a, index))))
    BY <1>1 DEF IterationStarts
  <2>2. Iteration(k, a, index) \in Key \ {RootKey}
    BY IterationFacts, RootNotInner
  <2>3. SameRoot(levels')
    BY <2>1, <2>2, SameRootKept
  <2>4. QED
    BY <1>1, <2>3 DEF RootTurn, IterationStarts
<1>2. CASE IterationReturns(k, a)
  <2>1. PICK index \in exec[<<k, a>>].open :
          /\ levels[Iteration(k, a, index)].phase = "done"
          /\ \/ \E outcome \in {"Succeeded", "Failed"} :
                   Finish(k, a, outcome, FALSE, Closed(Iteration(k, a, index)), data,
                          ReportSkipped(Iteration(k, a, index)))
             \/ levels' = Closed(Iteration(k, a, index)) /\ flow' = flow
    BY <1>2 DEF IterationReturns
  <2> DEFINE inner == Iteration(k, a, index)
             no == FALSE
             d == data
             st == ReportSkipped(inner)
  <2>2. inner \in Key \ {k, RootKey} /\ inner \in DOMAIN levels
    BY IterationFacts, RootNotInner DEF FamilyOfIterations, IsOpen
  <2>3. SameRoot(Closed(inner))
    BY <2>2, SameRootKept
  <2>4. /\ levels[inner].phase = "done"
        /\ \/ \E outcome \in {"Succeeded", "Failed"} : Finish(k, a, outcome, no, Closed(inner), d, st)
           \/ levels' = Closed(inner) /\ flow' = flow
    BY <2>1
  <2> HIDE DEF inner, no, d, st
  <2>5. CASE \E outcome \in {"Succeeded", "Failed"} : Finish(k, a, outcome, no, Closed(inner), d, st)
    BY <2>2, <2>4, <2>5, ReturnTurn
  <2>6. CASE levels' = Closed(inner) /\ flow' = flow
    BY <2>3, <2>6 DEF RootTurn
  <2>7. QED
    BY <2>4, <2>5, <2>6
<1>3. QED
  BY <1>1, <1>2

(* The operators of a level are the same seen from the scheduler. *)
LEMMA SameOperators ==
    /\ \A d : Root!NewLevel(d) = NewLevel(d) /\ (Root!Validate(d) <=> Validate(d))
    /\ \A d, l, a : (Root!IsFront(d, l, a) <=> IsFront(d, l, a)) /\ Root!Decide(d, l, a) = Decide(d, l, a)
    /\ \A l : Root!EndPass(l) = EndPass(l)
    /\ \A l, a, outcome : Root!Resolve(l, a, outcome) = Resolve(l, a, outcome)
<1>1. \A d : Root!NewLevel(d) = NewLevel(d)
  BY DEF Root!NewLevel, NewLevel, Root!Ids, Ids
<1>2. \A d : Root!Validate(d) <=> Validate(d)
  <2>1. \A d : Root!Frontiers(d) = Frontiers(d)
    BY DEF Root!Frontiers, Frontiers, Root!FirstFrontier, FirstFrontier, Root!NextFrontier, NextFrontier,
           Root!Ids, Ids, Root!Deps, Deps, Root!Cardinality, Cardinality
  <2>2. QED
    BY <2>1 DEF Root!Validate, Validate, Root!Ids, Ids, Root!Deps, Deps
<1>3. \A d, l, a : Root!IsFront(d, l, a) <=> IsFront(d, l, a)
  BY DEF Root!IsFront, IsFront
<1>4. \A d, l, a : Root!Decide(d, l, a) = Decide(d, l, a)
  BY DEF Root!Decide, Decide, Root!DepsResolved, DepsResolved, Root!ShouldRun, ShouldRun, Root!Deps, Deps
<1>5. \A l : Root!EndPass(l) = EndPass(l)
  BY DEF Root!EndPass, EndPass
<1>6. \A l, a, outcome : Root!Resolve(l, a, outcome) = Resolve(l, a, outcome)
  BY DEF Root!Resolve, Resolve
<1>7. QED
  BY <1>1, <1>2, <1>3, <1>4, <1>5, <1>6

(* The level of the scheduler. *)
Shown(l) == [l EXCEPT !.phase = IF @ = "closed" THEN "done" ELSE @]

RootLevel ==
    IF RootKey \in DOMAIN levels THEN Shown(levels[RootKey])
    ELSE [NewLevel(flow[<<>>]) EXCEPT
            !.phase = IF result = "rejected" /\ ~Validate(flow[<<>>]) THEN "rejected" ELSE "new"]

LEMMA ShownOpen ==
    ASSUME NEW d, NEW l \in LevelType(d), l.phase # "closed"
    PROVE  Shown(l) = l
BY DEF Shown, LevelType

LEMMA ShownClosed ==
    ASSUME NEW d, NEW l \in LevelType(d), l.phase = "done"
    PROVE  Shown(Close(l)) = l
BY DEF Shown, Close, LevelType

LEMMA RootInit == Init => Root!Init
<1>1. SUFFICES ASSUME Init PROVE Root!Init
  OBVIOUS
<1> DEFINE none == <<>>
           d == flow[none]
<1>2. flow \in Flows /\ result = "new" /\ levels = none /\ DOMAIN none = {}
  BY <1>1 DEF Init
<1>3. RootLevel = [NewLevel(d) EXCEPT !.phase = "new"]
  BY <1>2 DEF RootLevel
<1>4. d \in {f[none] : f \in Flows}
  BY <1>2
<1>5. Root!Init <=> d \in {f[none] : f \in Flows} /\ RootLevel = [Root!NewLevel(d) EXCEPT !.phase = "new"]
  BY DEF Root!Init, RootLevel, Shown
<1>6. QED
  BY <1>3, <1>4, <1>5, SameOperators

LEMMA RootUnchanged ==
    ASSUME flow' = flow, RootLevel' = RootLevel
    PROVE  UNCHANGED Root!vars
BY DEF Root!vars, RootLevel, Shown

(* What the invariant says of the top level. *)
LEMMA RootFacts ==
    ASSUME IInv, RootKey \in DOMAIN levels
    PROVE  /\ levels[RootKey] \in LevelType(Def(RootKey))
           /\ Def(RootKey) = flow[<<>>]
           /\ Ids(Def(RootKey)) = RootIds
           /\ RootLevel = Shown(levels[RootKey])
           /\ levels[RootKey].phase # "closed" => RootLevel = levels[RootKey]
<1>1. levels[RootKey] \in LevelType(Def(RootKey)) /\ flow \in Flows
  BY LevelFacts DEF IInv, TreeSound, LevelSound, ResultSound
<1>2. Def(RootKey) = flow[<<>>]
  BY RootIsKey DEF Def
<1>3. Ids(flow[<<>>]) = RootIds
  BY <1>1, WorkflowAssumption
<1>4. RootLevel = Shown(levels[RootKey])
  BY DEF RootLevel
<1>5. QED
  BY <1>1, <1>2, <1>3, <1>4, ShownOpen

LEMMA RootTurnStep ==
    ASSUME IInv, RootKey \in DOMAIN levels, RootTurn
    PROVE  Root!Next \/ UNCHANGED Root!vars
<1>1. flow' = flow /\ RootKey' = RootKey
  BY DEF RootTurn, RootKey
<1>2. CASE SameRoot(levels')
  <2>1. RootLevel' = RootLevel
    BY <1>1, <1>2 DEF RootLevel, SameRoot, Shown
  <2>2. QED
    BY <1>1, <2>1, RootUnchanged
<1>3. CASE \E a \in Ids(Def(RootKey)), outcome \in {"Succeeded", "Failed"} : RootResolves(a, outcome)
  <2>1. PICK a \in RootIds, outcome \in {"Succeeded", "Failed"} : RootResolves(a, outcome)
    BY <1>3, RootFacts
  <2>2. RootLevel = levels[RootKey] /\ LevelSound(Def(RootKey), levels[RootKey])
    BY <2>1, RootFacts, LevelFacts DEF RootResolves, IInv, TreeSound
  <2>3. RootLevel' = Resolve(levels[RootKey], a, outcome)
    <3> DEFINE l == Resolve(levels[RootKey], a, outcome)
    <3>1. LevelSound(Def(RootKey), l) /\ l.phase = "pass"
      BY <2>1, <2>2, ResolveSound DEF RootResolves
    <3>2. RootLevel' = Shown(l)
      BY <1>1, <2>1 DEF RootLevel, RootResolves, Shown
    <3> HIDE DEF l
    <3>3. Shown(l) = l
      BY <3>1, ShownOpen DEF LevelSound
    <3>4. QED
      BY <3>2, <3>3 DEF l
  <2>4. Root!ActionResolves(a, outcome) <=>
          /\ RootLevel.phase = "wait"
          /\ a \in RootLevel.running
          /\ RootLevel' = Root!Resolve(RootLevel, a, outcome)
          /\ UNCHANGED flow[<<>>]
    BY DEF Root!ActionResolves, RootLevel, Shown
  <2>5. Root!ActionResolves(a, outcome)
    BY <1>1, <2>1, <2>2, <2>3, <2>4, SameOperators DEF RootResolves
  <2>6. QED
    BY <2>5 DEF Root!Next
<1>4. QED
  BY <1>2, <1>3 DEF RootTurn

LEMMA RunWorkflowRoot ==
    ASSUME IInv, RunWorkflow
    PROVE  Root!Next \/ UNCHANGED Root!vars
<1> DEFINE none == <<>>
           d == flow[none]
           new == [NewLevel(d) EXCEPT !.phase = "new"]
<1>1. /\ flow \in Flows /\ flow' = flow /\ result = "new" /\ none \in DOMAIN flow
      /\ RootKey \notin DOMAIN levels /\ RootKey' = RootKey
  BY WorkflowAssumption DEF IInv, TreeSound, ResultSound, RunWorkflow, RootKey
<1>2. RootLevel = new
  BY <1>1 DEF RootLevel
<1>3. Root!RunWorkflow <=>
        /\ RootLevel.phase = "new"
        /\ RootLevel' = IF Root!Validate(d) THEN Root!NewLevel(d) ELSE [RootLevel EXCEPT !.phase = "rejected"]
        /\ UNCHANGED d
  BY DEF Root!RunWorkflow, RootLevel, Shown
<1>4. new.phase = "new" /\ [new EXCEPT !.phase = "rejected"] = [NewLevel(d) EXCEPT !.phase = "rejected"]
  BY DEF NewLevel
<1>5. CASE \A path \in DOMAIN flow : Validate(flow[path])
  <2>1. Validate(d) /\ RootKey \in DOMAIN levels' /\ levels'[RootKey] = NewLevel(d)
    BY <1>1, <1>5 DEF RunWorkflow
  <2>2. RootLevel' = Shown(NewLevel(d))
    BY <1>1, <2>1 DEF RootLevel, Shown
  <2>3. Shown(NewLevel(d)) = NewLevel(d)
    BY NewLevelSound, ShownOpen DEF LevelSound
  <2>4. Root!RunWorkflow
    BY <1>1, <1>2, <1>3, <1>4, <2>1, <2>2, <2>3, SameOperators
  <2>5. QED
    BY <2>4 DEF Root!Next
<1>6. CASE ~(\A path \in DOMAIN flow : Validate(flow[path])) /\ ~Validate(d)
  <2>1. result' = "rejected" /\ levels' = levels
    BY <1>6 DEF RunWorkflow
  <2>2. RootLevel' = [NewLevel(d) EXCEPT !.phase = "rejected"]
    BY <1>1, <1>6, <2>1 DEF RootLevel
  <2>3. Root!RunWorkflow
    BY <1>1, <1>2, <1>3, <1>4, <1>6, <2>2, SameOperators
  <2>4. QED
    BY <2>3 DEF Root!Next
<1>7. CASE ~(\A path \in DOMAIN flow : Validate(flow[path])) /\ Validate(d)
  <2>1. levels' = levels
    BY <1>7 DEF RunWorkflow
  <2>2. RootLevel' = RootLevel
    BY <1>1, <1>2, <1>7, <2>1 DEF RootLevel
  <2>3. QED
    BY <1>1, <2>2, RootUnchanged
<1>8. QED
  BY <1>5, <1>6, <1>7

(* The level is left with what it came to. *)
LEMMA RunReturnsRoot ==
    ASSUME IInv, RunReturns
    PROVE  UNCHANGED Root!vars
<1>1. /\ RootKey \in DOMAIN levels /\ RootKey' = RootKey /\ flow' = flow
      /\ levels[RootKey].phase = "done" /\ levels' = Closed(RootKey)
  BY DEF IInv, TreeSound, ResultSound, RunReturns, RootKey
<1>2. RootLevel = levels[RootKey] /\ levels[RootKey] \in LevelType(Def(RootKey))
  BY <1>1, RootFacts
<1>3. RootKey \in DOMAIN levels' /\ levels'[RootKey] = Close(levels[RootKey])
  BY <1>1, ClosedLevels
<1>4. RootLevel' = Shown(Close(levels[RootKey]))
  BY <1>1, <1>3 DEF RootLevel, Shown
<1>5. RootLevel' = RootLevel
  BY <1>1, <1>2, <1>4, ShownClosed
<1>6. QED
  BY <1>1, <1>5, RootUnchanged

LEMMA DecideFrontRoot ==
    ASSUME IInv, NEW k \in DOMAIN levels, DecideFront(k)
    PROVE  Root!Next \/ UNCHANGED Root!vars
<1>1. PICK a \in levels[k].pending :
        IsFront(Def(k), levels[k], a) /\ levels' = [levels EXCEPT ![k] = Decide(Def(k), @, a)]
  BY DEF DecideFront
<1>2. flow' = flow /\ RootKey' = RootKey /\ RootKey \in DOMAIN levels /\ levels[k].phase = "pass"
  BY DEF DecideFront, RootKey, IInv, TreeSound, ResultSound
<1>3. CASE k # RootKey
  <2>1. RootTurn
    BY <1>1, <1>2, <1>3 DEF RootTurn, SameRoot
  <2>2. QED
    BY <1>2, <2>1, RootTurnStep
<1>4. CASE k = RootKey
  <2> DEFINE d == flow[<<>>]
             l == Decide(d, levels[RootKey], a)
  <2>1. /\ LevelSound(d, levels[RootKey]) /\ levels[RootKey] \in LevelType(d) /\ Def(k) = d
        /\ RootLevel = levels[RootKey] /\ Ids(d) = RootIds
    BY <1>2, <1>4, RootFacts, LevelFacts DEF IInv, TreeSound
  <2>2. a \in RootIds
    BY <1>1, <1>4, <2>1 DEF LevelType
  <2>3. LevelSound(d, l) /\ l.phase = "pass"
    BY <1>1, <1>2, <1>4, <2>1, DecideSound
  <2>4. RootLevel' = Shown(l)
    BY <1>1, <1>2, <1>4, <2>1 DEF RootLevel, Shown
  <2>5. Root!DecideFront(a) <=>
          /\ RootLevel.phase = "pass"
          /\ Root!IsFront(d, RootLevel, a)
          /\ RootLevel' = Root!Decide(d, RootLevel, a)
          /\ UNCHANGED d
    BY DEF Root!DecideFront, RootLevel, Shown
  <2>6. UNCHANGED d
    BY <1>2
  <2> HIDE DEF d
  <2>7. Shown(l) = l
    <3> HIDE DEF l
    <3>1. QED
      BY <2>3, ShownOpen DEF LevelSound
  <2>8. Root!DecideFront(a)
    BY <1>1, <1>2, <1>4, <2>1, <2>4, <2>5, <2>6, <2>7, SameOperators
  <2>9. QED
    BY <2>2, <2>8 DEF Root!Next
<1>5. QED
  BY <1>3, <1>4

LEMMA PassEndsRoot ==
    ASSUME IInv, NEW k \in DOMAIN levels, PassEnds(k)
    PROVE  Root!Next \/ UNCHANGED Root!vars
<1>1. /\ flow' = flow /\ RootKey' = RootKey /\ RootKey \in DOMAIN levels
      /\ levels[k].phase = "pass" /\ levels[k].pending = {}
      /\ levels' = [levels EXCEPT ![k] = EndPass(@)]
  BY DEF PassEnds, RootKey, IInv, TreeSound, ResultSound
<1>2. CASE k # RootKey
  <2>1. RootTurn
    BY <1>1, <1>2 DEF RootTurn, SameRoot
  <2>2. QED
    BY <1>1, <2>1, RootTurnStep
<1>3. CASE k = RootKey
  <2> DEFINE l == EndPass(levels[RootKey])
  <2>1. LevelSound(Def(k), levels[RootKey]) /\ RootLevel = levels[RootKey]
    BY <1>1, <1>3, RootFacts, LevelFacts DEF IInv, TreeSound
  <2>2. LevelSound(Def(k), l) /\ l.phase \in {"wait", "done"}
    BY <1>1, <1>3, <2>1, EndPassSound
  <2>3. RootLevel' = Shown(l)
    BY <1>1, <1>3 DEF RootLevel, Shown
  <2>4. Shown(l) = l
    <3> HIDE DEF l
    <3>1. QED
      BY <2>2, ShownOpen DEF LevelSound
  <2>5. Root!PassEnds <=>
          /\ RootLevel.phase = "pass"
          /\ RootLevel.pending = {}
          /\ RootLevel' = Root!EndPass(RootLevel)
          /\ UNCHANGED flow[<<>>]
    BY DEF Root!PassEnds, RootLevel, Shown
  <2>6. Root!PassEnds
    BY <1>1, <1>3, <2>1, <2>3, <2>4, <2>5, SameOperators
  <2>7. QED
    BY <2>6 DEF Root!Next
<1>4. QED
  BY <1>2, <1>3

LEMMA RootStep == IInv /\ [Next]_vars => [Root!Next]_(Root!vars)
<1>1. SUFFICES ASSUME IInv, [Next]_vars PROVE Root!Next \/ UNCHANGED Root!vars
  OBVIOUS
<1>2. CASE RunWorkflow
  BY <1>1, <1>2, RunWorkflowRoot
<1>3. CASE RunReturns
  BY <1>1, <1>3, RunReturnsRoot
<1>4. ASSUME NEW k \in DOMAIN levels, DecideFront(k) \/ PassEnds(k) \/ StartAction(k)
      PROVE  Root!Next \/ UNCHANGED Root!vars
  <2>1. CASE DecideFront(k) \/ PassEnds(k)
    BY <1>1, <1>4, <2>1, DecideFrontRoot, PassEndsRoot
  <2>2. CASE StartAction(k)
    <3>1. flow' = flow /\ RootLevel' = RootLevel
      BY <2>2 DEF StartAction, RootLevel, RootKey, Shown
    <3>2. QED
      BY <3>1, RootUnchanged
  <2>3. QED
    BY <1>4, <2>1, <2>2
<1>5. ASSUME NEW i \in DOMAIN exec,
             \/ LeafEnds(i[1], i[2]) \/ ContainerErrs(i[1], i[2])
             \/ StartIf(i[1], i[2]) \/ StartTry(i[1], i[2])
             \/ StartUntil(i[1], i[2]) \/ StartForeach(i[1], i[2])
             \/ IfReturns(i[1], i[2]) \/ TryBodyReturns(i[1], i[2])
             \/ TryCatchReturns(i[1], i[2]) \/ UntilHead(i[1], i[2])
             \/ UntilReturns(i[1], i[2]) \/ IterationStarts(i[1], i[2])
             \/ IterationReturns(i[1], i[2])
      PROVE  Root!Next \/ UNCHANGED Root!vars
  <2> DEFINE k == i[1]
             a == i[2]
  <2>1. <<k, a>> \in DOMAIN exec
    BY <1>1, <1>5 DEF IInv, TreeSound, ExecSound
  <2>2. RootKey \in DOMAIN levels
    BY <1>1, <1>5 DEF IInv, TreeSound, ResultSound
  <2> HIDE DEF k, a
  <2>3. \/ LeafEnds(k, a) \/ ContainerErrs(k, a)
        \/ StartIf(k, a) \/ StartTry(k, a)
        \/ StartUntil(k, a) \/ StartForeach(k, a)
        \/ IfReturns(k, a) \/ TryBodyReturns(k, a)
        \/ TryCatchReturns(k, a) \/ UntilHead(k, a)
        \/ UntilReturns(k, a) \/ IterationStarts(k, a)
        \/ IterationReturns(k, a)
    BY <1>5 DEF k, a
  <2>4. RootTurn
    BY <1>1, <2>1, <2>3, StartTurn, ReturnsTurn, IterationTurn
  <2>5. QED
    BY <1>1, <2>2, <2>4, RootTurnStep
<1>6. CASE UNCHANGED vars
  <2>1. flow' = flow /\ RootLevel' = RootLevel
    BY <1>6 DEF vars, RootLevel, RootKey, Shown
  <2>2. QED
    BY <2>1, RootUnchanged
<1>7. QED
  BY <1>1, <1>2, <1>3, <1>4, <1>5, <1>6 DEF Next

(* A whole run, whatever is nested in its containers and however its parts *)
(* interleave, runs its top level the way run_level runs one level: it     *)
(* implements Scheduler, so what Scheduler promises of a level, for the    *)
(* definitions SchedulerAssumption describes, holds of the top of a flow   *)
(* of containers (run_workflow, run_level).                                *)
THEOREM RootIsScheduledTheorem == Spec => RootIsScheduled
<1>1. Init => Root!Init
  BY RootInit
<1>2. IInv /\ [Next]_vars => [Root!Next]_(Root!vars)
  BY RootStep
<1>3. QED
  BY <1>1, <1>2, Invariance, PTL DEF Spec, RootIsScheduled, Root!Spec

-----------------------------------------------------------------------------
(* What is on record of an action, in the reports and in the contexts,     *)
(* against what became of it.                                              *)

(* Every action of the level stands in the file after the actions it       *)
(* depends on.                                                             *)
OrderedLevel(d) ==
    /\ d.pos \in [Ids(d) -> Nat]
    /\ \A a \in Ids(d) : \A b \in Deps(d, a) : b \in Ids(d) /\ d.pos[b] < d.pos[a]

InFileOrder == \A path \in DOMAIN flow : OrderedLevel(flow[path])

(* No id is used twice in a flow, in whatever levels. *)
DistinctIds ==
    \A p, q \in DOMAIN flow : p # q => Ids(flow[p]) \cap Ids(flow[q]) = {}

(* What has no outcome is in one of the queues or runs, and what was put   *)
(* back waits for something that runs: in file order nothing gets stuck.   *)
LevelTidy(d, l) ==
    /\ \A a \in Ids(d) : l.outcomes[a] = "none" => a \in l.pending \cup l.still_pending \cup l.running
    /\ l.phase # "pass" => l.still_pending = {}
    /\ l.phase \in {"pass", "wait"} => l.stuck = {}
    /\ OrderedLevel(d) => l.stuck = {} /\ (l.still_pending # {} => l.running # {})

(* What was reported last. *)
Seen(st, k, a) == IF <<k[2], a>> \in DOMAIN st THEN st[<<k[2], a>>] ELSE "none"

(* A report fits what became of the action; ran tells whether its executor *)
(* is under way.                                                           *)
Told(l, a, seen, ran) ==
    /\ l.outcomes[a] \in {"Succeeded", "Failed"} /\ a \notin l.stuck => seen = l.outcomes[a]
    /\ l.outcomes[a] = "Skipped" /\ l.phase = "closed" => seen = "Skipped"
    /\ ran => seen = "Running"

StatusFits(ls, E, st) ==
    \A k \in DOMAIN ls : \A a \in Ids(Def(k)) : Told(ls[k], a, Seen(st, k, a), <<k, a>> \in E)

(* What ran successfully has its outputs in the context of its iteration.  *)
Recorded(d, k, a) == a \in DOMAIN d[k[2]] /\ d[k[2]][a].by = k[2]

(* The error of a Try is there as long as its catch is or after it         *)
(* recovered.                                                              *)
Caught(ls, k, a) == Kind(k, a) = "Try" /\ Inner(k, a, "other") \in DOMAIN ls /\ ls[k].outcomes[a] # "Failed"

ErrorHeld(d, k, a) == a \in DOMAIN d[k[2]] /\ d[k[2]][a].error

OutputsFit(ls, d) ==
    \A k \in DOMAIN ls : \A a \in Ids(Def(k)) :
        /\ ls[k].outcomes[a] = "Succeeded" => Recorded(d, k, a)
        /\ Caught(ls, k, a) => ErrorHeld(d, k, a)

DepsKnown ==
    result \notin {"new", "rejected"} =>
        \A path \in DOMAIN flow : \A a \in Ids(flow[path]) : Deps(flow[path], a) \subseteq Ids(flow[path])

(* All of it, of the levels ls, the executors E under way, the data d and  *)
(* the reports st that an executor has in hand.                            *)
Fit(ls, E, d, st) ==
    /\ \A k \in DOMAIN ls : LevelTidy(Def(k), ls[k])
    /\ DistinctIds => StatusFits(ls, E, st) /\ OutputsFit(ls, d)

RecordsSound == DepsKnown /\ Fit(levels, DOMAIN exec, data, status)

-----------------------------------------------------------------------------
(* One level.                                                              *)

LEMMA NewLevelTidy ==
    ASSUME NEW d
    PROVE  LevelTidy(d, NewLevel(d))
BY DEF LevelTidy, NewLevel

LEMMA DecideTidy ==
    ASSUME NEW d, NEW l, LevelSound(d, l), LevelTidy(d, l), l.phase = "pass", NEW a, IsFront(d, l, a)
    PROVE  LevelTidy(d, Decide(d, l, a))
<1> DEFINE m == Decide(d, l, a)
<1>1. l \in LevelType(d) /\ a \in l.pending /\ a \in Ids(d)
  BY DEF LevelSound, LevelType, IsFront
<1>2. CASE ~DepsResolved(d, l, a)
  <2>1. /\ m.phase = "pass" /\ m.pending = l.pending \ {a} /\ m.running = l.running
        /\ m.still_pending = l.still_pending \cup {a} /\ m.outcomes = l.outcomes /\ m.stuck = l.stuck
    BY <1>1, <1>2 DEF Decide, LevelType
  <2>2. ASSUME OrderedLevel(d) PROVE l.running # {}
    <3>1. PICK b \in Deps(d, a) : l.outcomes[b] = "none"
      BY <1>2 DEF DepsResolved
    <3>2. b \in Ids(d) /\ d.pos[b] < d.pos[a] /\ d.pos[a] \in Nat /\ d.pos[b] \in Nat
      BY <1>1, <2>2 DEF OrderedLevel
    <3>3. b \notin l.pending
      BY <3>2 DEF IsFront
    <3>4. b \in l.still_pending \cup l.running
      BY <3>1, <3>2, <3>3 DEF LevelTidy
    <3>5. QED
      BY <2>2, <3>4 DEF LevelTidy
  <2> HIDE DEF m
  <2>3. LevelTidy(d, m)
    BY <2>1, <2>2 DEF LevelTidy
  <2>4. QED
    BY <2>3 DEF m
<1>3. CASE DepsResolved(d, l, a) /\ ShouldRun(d, l, a)
  <2>1. /\ m.phase = "pass" /\ m.pending = l.pending \ {a} /\ m.running = l.running \cup {a}
        /\ m.still_pending = l.still_pending /\ m.outcomes = l.outcomes /\ m.stuck = l.stuck
    BY <1>1, <1>3 DEF Decide, LevelType
  <2> HIDE DEF m
  <2>2. LevelTidy(d, m)
    BY <2>1 DEF LevelTidy
  <2>3. QED
    BY <2>2 DEF m
<1>4. CASE DepsResolved(d, l, a) /\ ~ShouldRun(d, l, a)
  <2>1. /\ m.phase = "pass" /\ m.pending = l.pending \ {a} /\ m.running = l.running
        /\ m.still_pending = l.still_pending /\ m.stuck = l.stuck
        /\ m.outcomes = [l.outcomes EXCEPT ![a] = "Skipped"]
    BY <1>1, <1>4 DEF Decide, LevelType
  <2>2. l.outcomes \in [Ids(d) -> RunOutcome \cup {"none"}]
    BY <1>1 DEF LevelType
  <2> HIDE DEF m
  <2>3. \A b \in Ids(d) : m.outcomes[b] = "none" => b # a /\ l.outcomes[b] = "none"
    BY <2>1, <2>2
  <2>4. LevelTidy(d, m)
    BY <2>1, <2>3 DEF LevelTidy
  <2>5. QED
    BY <2>4 DEF m
<1>5. QED
  BY <1>2, <1>3, <1>4

LEMMA EndPassTidy ==
    ASSUME NEW d, NEW l, LevelSound(d, l), LevelTidy(d, l), l.phase = "pass", l.pending = {}
    PROVE  LevelTidy(d, EndPass(l))
<1> DEFINE m == EndPass(l)
<1>1. l \in LevelType(d)
  BY DEF LevelSound
<1>2. CASE l.running # {}
  <2>1. /\ m.phase = "wait" /\ m.pending = l.still_pending /\ m.running = l.running
        /\ m.still_pending = {} /\ m.outcomes = l.outcomes /\ m.stuck = l.stuck
    BY <1>1, <1>2 DEF EndPass, LevelType
  <2> HIDE DEF m
  <2>2. LevelTidy(d, m)
    BY <2>1 DEF LevelTidy
  <2>3. QED
    BY <2>2 DEF m
<1>3. CASE l.running = {}
  <2>1. l.outcomes \in [Ids(d) -> RunOutcome \cup {"none"}]
    BY <1>1 DEF LevelType
  <2>2. /\ m.phase = "done" /\ m.pending = {} /\ m.running = {}
        /\ m.still_pending = {} /\ m.stuck = l.still_pending
        /\ m.outcomes = [b \in Ids(d) |-> IF b \in l.still_pending THEN "Failed" ELSE l.outcomes[b]]
    BY <1>1, <1>3, <2>1 DEF EndPass, LevelType
  <2> HIDE DEF m
  <2>3. LevelTidy(d, m)
    BY <1>3, <2>2 DEF LevelTidy
  <2>4. QED
    BY <2>3 DEF m
<1>4. QED
  BY <1>2, <1>3

LEMMA ResolveTidy ==
    ASSUME NEW d, NEW l, LevelSound(d, l), LevelTidy(d, l), l.phase = "wait", NEW a,
           NEW outcome \in {"Succeeded", "Failed"}
    PROVE  LevelTidy(d, Resolve(l, a, outcome))
<1> DEFINE m == Resolve(l, a, outcome)
<1>1. /\ m.phase = "pass" /\ m.pending = l.pending /\ m.running = l.running \ {a}
      /\ m.still_pending = l.still_pending /\ m.stuck = l.stuck
      /\ m.outcomes = [l.outcomes EXCEPT ![a] = outcome]
      /\ l.outcomes \in [Ids(d) -> RunOutcome \cup {"none"}]
  BY DEF Resolve, LevelSound, LevelType
<1> HIDE DEF m
<1>2. \A b \in Ids(d) : m.outcomes[b] = "none" => b # a /\ l.outcomes[b] = "none"
  BY <1>1
<1>3. LevelTidy(d, m)
  BY <1>1, <1>2 DEF LevelTidy
<1>4. QED
  BY <1>3 DEF m

LEMMA CloseTidy ==
    ASSUME NEW d, NEW l, LevelSound(d, l), LevelTidy(d, l), l.phase = "done"
    PROVE  LevelTidy(d, Close(l)) /\ Close(l).stuck = l.stuck
<1> DEFINE m == Close(l)
<1>1. /\ m.phase = "closed" /\ m.pending = l.pending /\ m.running = l.running
      /\ m.still_pending = l.still_pending /\ m.stuck = l.stuck /\ m.outcomes = l.outcomes
  BY DEF Close, LevelSound, LevelType
<1> HIDE DEF m
<1>2. LevelTidy(d, m) /\ m.stuck = l.stuck
  BY <1>1 DEF LevelTidy
<1>3. QED
  BY <1>2 DEF m

-----------------------------------------------------------------------------
(* Reports.                                                                *)

LEMMA SeenReport ==
    ASSUME NEW st, NEW k, NEW a, NEW new, NEW j, NEW b
    PROVE  Seen(Report(st, k, a, new), j, b) = IF j[2] = k[2] /\ b = a THEN new ELSE Seen(st, j, b)
BY DEF Seen, Report, Put

LEMMA SeenSkipped ==
    ASSUME NEW k, NEW j, NEW b
    PROVE  Seen(ReportSkipped(k), j, b) =
              IF j[2] = k[2] /\ b \in Ids(Def(k)) /\ levels[k].outcomes[b] = "Skipped"
              THEN "Skipped" ELSE Seen(status, j, b)
<1> DEFINE new == {<<k[2], a>> : a \in {a \in Ids(Def(k)) : levels[k].outcomes[a] = "Skipped"}}
           st == ReportSkipped(k)
<1>1. /\ DOMAIN st = DOMAIN status \cup new
      /\ \A i \in DOMAIN st : st[i] = IF i \in new THEN "Skipped" ELSE status[i]
  BY DEF ReportSkipped, Extend
<1>2. <<j[2], b>> \in new <=> j[2] = k[2] /\ b \in Ids(Def(k)) /\ levels[k].outcomes[b] = "Skipped"
  OBVIOUS
<1> HIDE DEF new, st
<1>3. Seen(st, j, b) = IF <<j[2], b>> \in new THEN "Skipped" ELSE Seen(status, j, b)
  BY <1>1 DEF Seen
<1>4. QED
  BY <1>2, <1>3 DEF st

(* In one iteration an id tells the level. *)
LEMMA SameKey ==
    ASSUME DistinctIds, NEW j \in Key, NEW k \in Key, Given(j), Given(k), j[2] = k[2],
           NEW a \in Ids(Def(j)), a \in Ids(Def(k))
    PROVE  j = k
<1>1. j[1] = k[1]
  BY DEF DistinctIds, Given, Def
<1>2. QED
  BY <1>1, KeyEqual

-----------------------------------------------------------------------------
(* What an executor has in hand fits, and what it makes of it.             *)

(* A level that came to its end is left, what it skipped is reported. *)
LEMMA CloseFit ==
    ASSUME IInv, Fit(levels, DOMAIN exec, data, status),
           NEW inner \in DOMAIN levels, levels[inner].phase = "done"
    PROVE  Fit(Closed(inner), DOMAIN exec, data, ReportSkipped(inner))
<1> DEFINE ls == Closed(inner)
           st == ReportSkipped(inner)
<1>1. /\ DOMAIN ls = DOMAIN levels
      /\ ls[inner] = Close(levels[inner])
      /\ \A j \in DOMAIN levels \ {inner} : ls[j] = levels[j]
  BY ClosedLevels
<1>2. \A j \in DOMAIN levels : j \in Key /\ Given(j) /\ LevelSound(Def(j), levels[j])
  BY LevelFacts DEF IInv, TreeSound
<1>3. /\ ls[inner].phase = "closed" /\ ls[inner].outcomes = levels[inner].outcomes
      /\ ls[inner].stuck = levels[inner].stuck /\ LevelTidy(Def(inner), ls[inner])
  BY <1>1, <1>2, CloseSound, CloseTidy DEF Fit
<1>4. \A j \in DOMAIN levels : ls[j].outcomes = levels[j].outcomes
  BY <1>1, <1>3
<1>5. \A j, b : Seen(st, j, b) =
              IF j[2] = inner[2] /\ b \in Ids(Def(inner)) /\ levels[inner].outcomes[b] = "Skipped"
              THEN "Skipped" ELSE Seen(status, j, b)
  BY SeenSkipped
<1> HIDE DEF ls, st
<1>6. ASSUME NEW j \in DOMAIN ls PROVE LevelTidy(Def(j), ls[j])
  BY <1>1, <1>3 DEF Fit
<1>7. ASSUME DistinctIds PROVE StatusFits(ls, DOMAIN exec, st)
  <2>1. SUFFICES ASSUME NEW j \in DOMAIN levels, NEW b \in Ids(Def(j))
                 PROVE  Told(ls[j], b, Seen(st, j, b), <<j, b>> \in DOMAIN exec)
    BY <1>1 DEF StatusFits
  <2>2. Told(levels[j], b, Seen(status, j, b), <<j, b>> \in DOMAIN exec)
    BY <1>7 DEF Fit, StatusFits
  <2>3. CASE j = inner
    <3>1. <<j, b>> \notin DOMAIN exec
      BY <2>3, ExecFacts DEF IInv, TreeSound
    <3>2. QED
      BY <1>3, <1>5, <2>2, <2>3, <3>1 DEF Told
  <2>4. CASE j # inner
    <3>1. ~(j[2] = inner[2] /\ b \in Ids(Def(inner)))
      BY <1>2, <1>7, <2>4, SameKey
    <3>2. QED
      BY <1>1, <1>5, <2>2, <2>4, <3>1
  <2>5. QED
    BY <2>3, <2>4
<1>8. ASSUME DistinctIds PROVE OutputsFit(ls, data)
  BY <1>1, <1>4, <1>8 DEF Fit, OutputsFit, Caught
<1>9. QED
  BY <1>6, <1>7, <1>8 DEF Fit, ls, st

(* Outputs of an action that has no outcome yet. *)
LEMMA RecordFit ==
    ASSUME IInv, NEW E, NEW ls, NEW d, NEW st, Fit(ls, E, d, st),
           DOMAIN ls = DOMAIN levels, DOMAIN d = DOMAIN data,
           NEW k \in DOMAIN levels, NEW a \in Ids(Def(k)), ls[k].outcomes[a] = "none",
           NEW error \in BOOLEAN, Caught(ls, k, a) => error
    PROVE  /\ Fit(ls, E, RecordOutputs(d, k, a, error), st)
           /\ Recorded(RecordOutputs(d, k, a, error), k, a)
           /\ error => ErrorHeld(RecordOutputs(d, k, a, error), k, a)
           /\ DOMAIN RecordOutputs(d, k, a, error) = DOMAIN data
<1> DEFINE r == RecordOutputs(d, k, a, error)
           entry == [by |-> k[2], error |-> error]
           new == Put(d[k[2]], a, entry)
<1>1. \A j \in DOMAIN levels : j \in Key /\ Given(j) /\ j[2] \in DOMAIN data
  BY LevelFacts DEF IInv, TreeSound
<1>2. DOMAIN r = DOMAIN d /\ \A s \in DOMAIN d : r[s] = IF s = k[2] THEN new ELSE d[s]
  BY DEF RecordOutputs
<1>3. entry.by = k[2] /\ (error => entry.error)
  OBVIOUS
<1> HIDE DEF entry
<1>4. DOMAIN new = {a} \cup DOMAIN d[k[2]] /\ \A b \in DOMAIN new : new[b] = IF b = a THEN entry ELSE d[k[2]][b]
  BY DEF Put
<1> HIDE DEF r, new
<1>5. r[k[2]] = new
  BY <1>1, <1>2
<1>6. Recorded(r, k, a) /\ (error => ErrorHeld(r, k, a))
  BY <1>3, <1>4, <1>5 DEF Recorded, ErrorHeld
<1>7. ASSUME NEW j \in DOMAIN levels, NEW b, ~(j[2] = k[2] /\ b = a)
      PROVE  /\ Recorded(d, j, b) => Recorded(r, j, b)
             /\ ErrorHeld(d, j, b) => ErrorHeld(r, j, b)
  <2>1. j[2] \in DOMAIN d
    BY <1>1
  <2>2. CASE j[2] = k[2]
    BY <1>4, <1>5, <1>7, <2>2 DEF Recorded, ErrorHeld
  <2>3. CASE j[2] # k[2]
    BY <1>2, <2>1, <2>3 DEF Recorded, ErrorHeld
  <2>4. QED
    BY <2>2, <2>3
<1>8. ASSUME DistinctIds PROVE OutputsFit(ls, r)
  <2>1. SUFFICES ASSUME NEW j \in DOMAIN levels, NEW b \in Ids(Def(j))
                 PROVE  /\ ls[j].outcomes[b] = "Succeeded" => Recorded(r, j, b)
                        /\ Caught(ls, j, b) => ErrorHeld(r, j, b)
    BY DEF OutputsFit
  <2>2. /\ ls[j].outcomes[b] = "Succeeded" => Recorded(d, j, b)
        /\ Caught(ls, j, b) => ErrorHeld(d, j, b)
    BY <1>8 DEF Fit, OutputsFit
  <2>3. CASE j = k /\ b = a
    BY <1>6, <2>3
  <2>4. CASE ~(j = k /\ b = a)
    <3>1. ~(j[2] = k[2] /\ b = a)
      BY <1>1, <1>8, <2>4, SameKey
    <3>2. QED
      BY <1>7, <2>2, <3>1
  <2>5. QED
    BY <2>3, <2>4
<1>9. Fit(ls, E, r, st)
  BY <1>8 DEF Fit
<1>10. QED
  BY <1>2, <1>6, <1>9 DEF r

(* The levels where they were, or fewer of them. *)
LEMMA FewerFit ==
    ASSUME NEW E, NEW ls, NEW ms, NEW d, NEW st, Fit(ls, E, d, st),
           DOMAIN ms \subseteq DOMAIN ls, \A j \in DOMAIN ms : ms[j] = ls[j]
    PROVE  Fit(ms, E, d, st)
<1>1. \A j \in DOMAIN ms : \A b : Caught(ms, j, b) => Caught(ls, j, b)
  BY DEF Caught
<1>2. DistinctIds => StatusFits(ms, E, st) /\ OutputsFit(ms, d)
  BY <1>1 DEF Fit, StatusFits, OutputsFit
<1>3. QED
  BY <1>2 DEF Fit

(* What an executor has in hand when it goes on. *)
InHand(k, a, ls, d, st) ==
    GoesOn(ls, k, a) /\ DOMAIN d = DOMAIN data /\ Fit(ls, DOMAIN exec, d, st)

LEMMA InHandFacts ==
    ASSUME IInv, NEW k, NEW a, <<k, a>> \in DOMAIN exec, NEW ls, NEW d, NEW st, InHand(k, a, ls, d, st)
    PROVE  /\ DOMAIN ls = DOMAIN levels /\ DOMAIN d = DOMAIN data
           /\ k \in DOMAIN levels /\ k \in Key /\ a \in Names /\ a \in Ids(Def(k))
           /\ ls[k] = levels[k] /\ levels[k].phase = "wait" /\ levels[k].outcomes[a] = "none"
           /\ a \in levels[k].running
           /\ Fit(ls, DOMAIN exec, d, st)
<1>1. /\ k \in DOMAIN levels /\ k \in Key /\ a \in Names /\ a \in Ids(Def(k))
      /\ levels[k].outcomes[a] = "none" /\ a \in levels[k].running
  BY ExecFacts DEF IInv, TreeSound
<1>2. /\ DOMAIN ls = DOMAIN levels /\ ls[k] = levels[k]
      /\ \/ Quiet
         \/ AwakeExec(<<k, a>>)
         \/ \E inner \in DOMAIN levels :
               /\ inner # k /\ Member(inner, k, a) /\ levels[inner].phase = "done"
               /\ ls[inner] = Close(levels[inner])
  BY GoesOnFacts DEF IInv, InHand
<1>3. Awaited(k, a)
  BY <1>2 DEF Awaited
<1>4. QED
  BY <1>1, <1>2, <1>3, AwaitingWaits DEF InHand

(* The end of an action: a Try whose catch ran has the error recorded. *)
LEMMA FinishFit ==
    ASSUME IInv, NEW k, NEW a, <<k, a>> \in DOMAIN exec, NEW ls, NEW d, NEW st, InHand(k, a, ls, d, st),
           NEW outcome \in {"Succeeded", "Failed"}, NEW error \in BOOLEAN,
           Finish(k, a, outcome, error, ls, d, st),
           outcome = "Succeeded" /\ Kind(k, a) = "Try" /\ Inner(k, a, "other") \in DOMAIN levels => error
    PROVE  Fit(levels', DOMAIN exec', data', status')
<1>1. /\ DOMAIN ls = DOMAIN levels /\ DOMAIN d = DOMAIN data
      /\ k \in DOMAIN levels /\ k \in Key /\ a \in Names /\ a \in Ids(Def(k))
      /\ ls[k] = levels[k] /\ levels[k].phase = "wait" /\ levels[k].outcomes[a] = "none"
      /\ a \in levels[k].running
      /\ Fit(ls, DOMAIN exec, d, st)
  BY InHandFacts
<1>2. \A j \in DOMAIN levels : j \in Key /\ Given(j) /\ LevelSound(Def(j), levels[j])
  BY LevelFacts DEF IInv, TreeSound
<1>3. /\ DOMAIN levels' = DOMAIN levels
      /\ levels'[k] = Resolve(levels[k], a, outcome)
      /\ \A j \in DOMAIN levels \ {k} : levels'[j] = ls[j]
      /\ DOMAIN exec' = DOMAIN exec \ {<<k, a>>}
      /\ data' = IF outcome = "Succeeded" THEN RecordOutputs(d, k, a, error) ELSE d
      /\ status' = Report(st, k, a, outcome)
  BY <1>1 DEF Finish
<1>4. /\ levels'[k].phase = "pass" /\ levels'[k].stuck = levels[k].stuck
      /\ levels'[k].outcomes = [levels[k].outcomes EXCEPT ![a] = outcome]
      /\ levels[k].outcomes \in [Ids(Def(k)) -> RunOutcome \cup {"none"}]
  BY <1>1, <1>2, <1>3 DEF Resolve, LevelSound, LevelType
<1>5. ASSUME NEW j \in DOMAIN levels' PROVE LevelTidy(Def(j), levels'[j])
  BY <1>1, <1>2, <1>3, ResolveTidy DEF Fit
<1>6. ASSUME DistinctIds PROVE StatusFits(levels', DOMAIN exec', status')
  <2>1. SUFFICES ASSUME NEW j \in DOMAIN levels, NEW b \in Ids(Def(j))
                 PROVE  Told(levels'[j], b, Seen(status', j, b), <<j, b>> \in DOMAIN exec')
    BY <1>3 DEF StatusFits
  <2>2. Told(ls[j], b, Seen(st, j, b), <<j, b>> \in DOMAIN exec)
    BY <1>1, <1>6 DEF Fit, StatusFits
  <2>3. Seen(status', j, b) = IF j[2] = k[2] /\ b = a THEN outcome ELSE Seen(st, j, b)
    BY <1>3, SeenReport
  <2>4. CASE j = k /\ b = a
    BY <1>3, <1>4, <2>3, <2>4 DEF Told
  <2>5. CASE j = k /\ b # a
    <3>1. <<j, b>> \in DOMAIN exec' <=> <<j, b>> \in DOMAIN exec
      BY <1>3, <2>5
    <3>2. levels'[j].outcomes[b] = ls[j].outcomes[b] /\ levels'[j].stuck = ls[j].stuck
          /\ levels'[j].phase # "closed"
      BY <1>1, <1>4, <2>5
    <3>3. QED
      BY <2>2, <2>3, <2>5, <3>1, <3>2 DEF Told
  <2>6. CASE j # k
    <3>1. ~(j[2] = k[2] /\ b = a)
      BY <1>1, <1>2, <1>6, <2>6, SameKey
    <3>2. <<j, b>> \in DOMAIN exec' <=> <<j, b>> \in DOMAIN exec
      BY <1>3, <2>6
    <3>3. QED
      BY <1>3, <2>2, <2>3, <2>6, <3>1, <3>2
  <2>7. QED
    BY <2>4, <2>5, <2>6
<1>7. ASSUME DistinctIds PROVE OutputsFit(levels', data')
  <2>1. SUFFICES ASSUME NEW j \in DOMAIN levels, NEW b \in Ids(Def(j))
                 PROVE  /\ levels'[j].outcomes[b] = "Succeeded" => Recorded(data', j, b)
                        /\ Caught(levels', j, b) => ErrorHeld(data', j, b)
    BY <1>3 DEF OutputsFit
  <2>2. CASE outcome = "Failed"
    <3>1. OutputsFit(ls, data')
      BY <1>1, <1>3, <1>7, <2>2 DEF Fit
    <3>2. CASE j = k /\ b = a
      BY <1>4, <2>2, <3>2 DEF Caught
    <3>3. CASE ~(j = k /\ b = a)
      <4>1. levels'[j].outcomes[b] = ls[j].outcomes[b]
        BY <1>1, <1>3, <1>4, <3>3
      <4>2. Caught(levels', j, b) => Caught(ls, j, b)
        BY <1>1, <1>3, <4>1 DEF Caught
      <4>3. QED
        BY <1>1, <3>1, <4>1, <4>2 DEF OutputsFit
    <3>4. QED
      BY <3>2, <3>3
  <2>3. CASE outcome = "Succeeded"
    <3> DEFINE r == RecordOutputs(d, k, a, error)
    <3>1. data' = r /\ (Caught(ls, k, a) => error) /\ ls[k].outcomes[a] = "none"
      BY <1>1, <1>3, <2>3 DEF Caught
    <3>2. /\ Fit(ls, DOMAIN exec, r, st) /\ Recorded(r, k, a) /\ (error => ErrorHeld(r, k, a))
      BY <1>1, <3>1, RecordFit
    <3> HIDE DEF r
    <3>3. OutputsFit(ls, r)
      BY <1>7, <3>2 DEF Fit
    <3>4. CASE j = k /\ b = a
      BY <1>1, <1>3, <2>3, <3>1, <3>2, <3>4 DEF Caught
    <3>5. CASE ~(j = k /\ b = a)
      <4>1. levels'[j].outcomes[b] = ls[j].outcomes[b]
        BY <1>1, <1>3, <1>4, <3>5
      <4>2. Caught(levels', j, b) => Caught(ls, j, b)
        BY <1>1, <1>3, <4>1 DEF Caught
      <4>3. QED
        BY <1>1, <3>1, <3>3, <4>1, <4>2 DEF OutputsFit
    <3>6. QED
      BY <3>4, <3>5
  <2>4. QED
    BY <2>2, <2>3
<1>8. QED
  BY <1>5, <1>6, <1>7 DEF Fit

(* A level of the container is opened; when it is the catch of a Try, the  *)
(* error is recorded.                                                      *)
LEMMA OpenFit ==
    ASSUME IInv, NEW k, NEW a, <<k, a>> \in DOMAIN exec, NEW ls, NEW d, NEW st, InHand(k, a, ls, d, st),
           NEW j, Member(j, k, a), ~IsOpen(j),
           j \in DOMAIN levels => \A c \in Ids(Def(j)) : Childless(j, c),
           Given(j), Kind(k, a) = "Try" /\ j = Inner(k, a, "other") => ErrorHeld(d, k, a)
    PROVE  Fit(Put(ls, j, NewLevel(Def(j))), DOMAIN exec, d, st)
<1> DEFINE ms == Put(ls, j, NewLevel(Def(j)))
<1>1. /\ DOMAIN ls = DOMAIN levels /\ DOMAIN d = DOMAIN data
      /\ k \in DOMAIN levels /\ k \in Key /\ a \in Names /\ a \in Ids(Def(k))
      /\ ls[k] = levels[k]
      /\ Fit(ls, DOMAIN exec, d, st)
  BY InHandFacts
<1>2. /\ DOMAIN ms = DOMAIN ls \cup {j}
      /\ ms[j] = NewLevel(Def(j))
      /\ \A h \in DOMAIN ls \ {j} : ms[h] = ls[h]
  BY DEF Put
<1> HIDE DEF ms
<1>3. j \in Key
  BY <1>1, MemberKey
<1>4. Ids(Def(j)) \subseteq Names
  BY <1>3 DEF Given, Def, IInv, TreeSound, ResultSound, Names
<1>5. \A b \in Ids(Def(j)) : <<j, b>> \notin DOMAIN exec
  BY ExecFacts DEF IInv, TreeSound, IsOpen
<1>6. \A b \in Ids(Def(j)) : ms[j].outcomes[b] = "none"
  BY <1>2, NewLevelSound
<1>7. ASSUME NEW h \in DOMAIN ms PROVE LevelTidy(Def(h), ms[h])
  BY <1>1, <1>2, NewLevelTidy DEF Fit
<1>8. ASSUME DistinctIds PROVE StatusFits(ms, DOMAIN exec, st)
  <2>1. SUFFICES ASSUME NEW h \in DOMAIN ms, NEW b \in Ids(Def(h))
                 PROVE  Told(ms[h], b, Seen(st, h, b), <<h, b>> \in DOMAIN exec)
    BY DEF StatusFits
  <2>2. CASE h = j
    BY <1>5, <1>6, <2>2 DEF Told
  <2>3. CASE h # j
    BY <1>1, <1>2, <1>8, <2>3 DEF Fit, StatusFits
  <2>4. QED
    BY <2>2, <2>3
<1>9. ASSUME DistinctIds PROVE OutputsFit(ms, d)
  <2>1. SUFFICES ASSUME NEW h \in DOMAIN ms, NEW b \in Ids(Def(h))
                 PROVE  /\ ms[h].outcomes[b] = "Succeeded" => Recorded(d, h, b)
                        /\ Caught(ms, h, b) => ErrorHeld(d, h, b)
    BY DEF OutputsFit
  <2> DEFINE o == Inner(h, b, "other")
  <2>2. Kind(h, b) = "Try" => Member(o, h, b)
    BY DEF Member, Branch
  <2>3. Caught(ms, h, b) <=> Kind(h, b) = "Try" /\ o \in DOMAIN ms /\ ms[h].outcomes[b] # "Failed"
    BY DEF Caught
  <2>4. Caught(ls, h, b) <=> Kind(h, b) = "Try" /\ o \in DOMAIN ls /\ ls[h].outcomes[b] # "Failed"
    BY DEF Caught
  <2>5. o = Inner(h, b, "other")
    OBVIOUS
  <2> HIDE DEF o
  <2>6. CASE h = j
    <3>1. b \in Names
      BY <1>4, <2>1, <2>6
    <3>2. ASSUME Kind(h, b) = "Try", o \in DOMAIN ms PROVE FALSE
      <4>1. o # j
        BY <1>3, <2>2, <2>6, <3>1, <3>2, MemberLonger
      <4>2. o \in DOMAIN levels /\ Member(o, j, b)
        BY <1>1, <1>2, <2>2, <2>6, <3>2, <4>1
      <4>3. j \in DOMAIN levels
        BY <1>3, <3>1, <4>2, ParentFacts DEF IInv, TreeSound
      <4>4. QED
        BY <2>1, <2>6, <4>2, <4>3 DEF Childless
    <3>3. QED
      BY <1>6, <2>1, <2>3, <2>6, <3>2
  <2>7. CASE h # j
    <3>1. h \in DOMAIN levels /\ h \in DOMAIN ls /\ ms[h] = ls[h]
      BY <1>1, <1>2, <2>1, <2>7
    <3>2. /\ ls[h].outcomes[b] = "Succeeded" => Recorded(d, h, b)
          /\ Caught(ls, h, b) => ErrorHeld(d, h, b)
      BY <1>1, <1>9, <3>1 DEF Fit, OutputsFit
    <3>3. ASSUME Kind(h, b) = "Try", o = j PROVE ErrorHeld(d, h, b)
      <4>1. h \in Key /\ b \in Names
        BY <3>1, LevelFacts DEF IInv, TreeSound
      <4>2. h = k /\ b = a
        BY <1>1, <2>2, <3>3, <4>1, MemberUnique
      <4>3. QED
        BY <2>5, <3>3, <4>2
    <3>4. QED
      BY <1>2, <2>3, <2>4, <3>1, <3>2, <3>3
  <2>8. QED
    BY <2>6, <2>7
<1>10. QED
  BY <1>7, <1>8, <1>9 DEF Fit, ms

(* The iterations of a loop that starts have no levels yet, so that their  *)
(* contexts are in nobody's hands: the outermost level of an iteration     *)
(* would be a level of this container.                                     *)
LEMMA LeastNumber ==
    ASSUME NEW T, T \subseteq Nat, T # {}
    PROVE  \E x \in T : \A y \in T : x <= y
<1>1. PICK t \in T : TRUE
  OBVIOUS
<1> DEFINE S == 0 .. t
           Below == {s \in SUBSET S : \E k \in T : k <= t /\ s = 0 .. k}
<1>2. t \in Nat /\ IsFiniteSet(S)
  BY FS_Interval
<1>3. Below \subseteq SUBSET S /\ 0 .. t \in Below
  BY <1>2
<1> HIDE DEF Below, S
<1>4. PICK s \in Below : \A u \in Below : ~(<<u, s>> \in StrictSubsetOrdering(S))
  BY <1>2, <1>3, FS_StrictSubsetOrderingWellFounded, FS_FiniteSubsetsOfFinite, WFMin
<1>5. PICK x \in T : x <= t /\ s = 0 .. x
  BY <1>4 DEF Below
<1>6. ASSUME NEW y \in T, y < x PROVE FALSE
  <2>1. y \in Nat /\ x \in Nat /\ 0 .. y \subseteq 0 .. x /\ 0 .. y # 0 .. x
    BY <1>6
  <2>2. 0 .. y \in Below
    BY <1>2, <1>5, <1>6, <2>1 DEF Below, S
  <2>3. <<0 .. y, s>> \in StrictSubsetOrdering(S)
    BY <1>3, <1>5, <2>1, <2>2 DEF StrictSubsetOrdering
  <2>4. QED
    BY <1>4, <2>2, <2>3
<1>7. QED
  BY <1>6

LEMMA NoLevelIn ==
    ASSUME IInv, DistinctIds, NEW k \in DOMAIN levels, NEW a \in Ids(Def(k)),
           Kind(k, a) = "Foreach", Childless(k, a), NEW index \in Nat, NEW j \in DOMAIN levels
    PROVE  j[2] # IterationScope(k, a, index)
<1> DEFINE s == IterationScope(k, a, index)
           In == {h \in DOMAIN levels : h[2] = s}
           T == {n \in Nat : \E h \in In : n = Len(h[1])}
<1>1. \A h \in DOMAIN levels : h \in Key /\ Given(h) /\ h[1] \in Path /\ Len(h[1]) \in Nat
                               /\ Ids(Def(h)) \subseteq Names
  BY LevelFacts, KeyParts DEF IInv, TreeSound, Path
<1>2. s = Append(k[2], <<a, index>>)
  BY <1>1, IterationKey
<1>3. s # <<>>
  <2> DEFINE y == <<a, index>>
  <2>1. y \in Names \X Nat /\ k[2] \in Seq(Names \X Nat)
    BY <1>1, KeyParts DEF Scope
  <2> HIDE DEF y
  <2>2. QED
    BY <1>2, <2>1, FrontAndLast DEF y
<1>4. In # {} => T # {}
  BY <1>1
<1> HIDE DEF s
<1>5. ASSUME In # {} PROVE FALSE
  <2>1. PICK n \in T : \A y \in T : n <= y
    BY <1>4, <1>5, LeastNumber
  <2>2. PICK h \in In : n = Len(h[1])
    BY <2>1
  <2>3. h \in DOMAIN levels /\ h[2] = s /\ h # RootKey
    BY <1>3, <2>2, RootIsKey
  <2>4. PICK m \in DOMAIN levels : \E c \in Ids(Def(m)) : Member(h, m, c)
    BY <2>3 DEF IInv, TreeSound, NoOrphans
  <2>5. PICK c \in Ids(Def(m)) : Member(h, m, c)
    BY <2>4
  <2>6. m \in Key /\ c \in Names /\ Len(m[1]) \in Nat
    BY <1>1, <2>4, <2>5
  <2>7. CASE Kind(m, c) # "Foreach"
    <3>1. m[2] = s
      BY <2>3, <2>5, <2>6, <2>7, MemberKey
    <3>2. Len(m[1]) \in T
      BY <2>4, <2>6, <3>1
    <3>3. n = Len(m[1]) + 1
      BY <2>2, <2>5, <2>6, MemberLonger
    <3>4. QED
      BY <2>1, <2>6, <3>2, <3>3
  <2>8. CASE Kind(m, c) = "Foreach"
    <3>1. PICK i \in Nat : h[2] = Append(m[2], <<c, i>>)
      BY <2>5, <2>6, <2>8, MemberKey
    <3>2. m[2] = k[2] /\ c = a
      <4> DEFINE x == <<c, i>>
                 y == <<a, index>>
                 S == Names \X Nat
                 u == m[2]
                 v == k[2]
      <4>1. x \in S /\ y \in S
        BY <1>1, <2>6
      <4>2. u \in Seq(S) /\ v \in Seq(S)
        BY <1>1, <2>6, KeyParts DEF Scope
      <4>3. Append(u, x) = Append(v, y)
        BY <1>2, <2>3, <3>1
      <4> HIDE DEF x, y, S, u, v
      <4>4. u = v /\ x = y
        BY <4>1, <4>2, <4>3, AppendSplits
      <4>5. QED
        BY <4>4 DEF x, y, u, v
    <3>3. m = k
      BY <1>1, <2>4, <2>5, <3>2, SameKey
    <3>4. QED
      BY <2>3, <2>5, <3>2, <3>3 DEF Childless
  <2>9. QED
    BY <2>7, <2>8
<1>6. QED
  BY <1>5 DEF s

LEMMA ChildrenFit ==
    ASSUME IInv, NEW k, NEW a, <<k, a>> \in DOMAIN exec, Fit(levels, DOMAIN exec, data, status),
           Kind(k, a) = "Foreach", Childless(k, a), NEW total \in Nat
    PROVE  Fit(levels, DOMAIN exec, Extend(data, Children(k, a, total)), status)
<1> DEFINE d == Extend(data, Children(k, a, total))
           new == {IterationScope(k, a, index) : index \in 1 .. total}
<1>1. k \in DOMAIN levels /\ a \in Ids(Def(k))
  BY ExecFacts DEF IInv, TreeSound
<1>2. \A s \in DOMAIN data : s \notin new => d[s] = data[s]
  BY DEF Extend, Children
<1>3. \A j \in DOMAIN levels : j[2] \in DOMAIN data
  BY LevelFacts DEF IInv, TreeSound
<1>4. ASSUME DistinctIds, NEW j \in DOMAIN levels PROVE d[j[2]] = data[j[2]]
  <2>1. \A index \in 1 .. total : j[2] # IterationScope(k, a, index)
    BY <1>1, <1>4, NoLevelIn
  <2>2. j[2] \notin new
    BY <2>1
  <2> HIDE DEF d, new
  <2>3. QED
    BY <1>2, <1>3, <2>2
<1> HIDE DEF d
<1>5. DistinctIds => OutputsFit(levels, d)
  BY <1>4 DEF Fit, OutputsFit, Recorded, ErrorHeld
<1>6. QED
  BY <1>5 DEF Fit, d

-----------------------------------------------------------------------------
(* The steps of a level and of the run.                                    *)

LEMMA FitPrime ==
    ASSUME flow' = flow, Fit(levels', DOMAIN exec', data', status')
    PROVE  Fit(levels, DOMAIN exec, data, status)'
<1>1. /\ \A k : Def(k)' = Def(k)
      /\ \A k, a : Kind(k, a)' = Kind(k, a)
      /\ DistinctIds' <=> DistinctIds
  BY DEF Def, Kind, DistinctIds
<1>2. \A k, a : Caught(levels, k, a)' <=> Caught(levels', k, a)
  BY <1>1 DEF Caught
<1>3. DistinctIds => StatusFits(levels, DOMAIN exec, status)' /\ OutputsFit(levels, data)'
  BY <1>1, <1>2 DEF Fit, StatusFits, OutputsFit
<1>4. \A k \in DOMAIN levels' : LevelTidy(Def(k), levels[k])'
  BY <1>1 DEF Fit
<1>5. QED
  BY <1>1, <1>3, <1>4 DEF Fit

LEMMA FitKept ==
    ASSUME RecordsSound, flow' = flow,
           result' \notin {"new", "rejected"} => result \notin {"new", "rejected"},
           Fit(levels', DOMAIN exec', data', status')
    PROVE  RecordsSound'
<1>1. Fit(levels, DOMAIN exec, data, status)'
  BY FitPrime
<1>2. DepsKnown'
  BY DEF RecordsSound, DepsKnown
<1>3. QED
  BY <1>1, <1>2 DEF RecordsSound

(* run_level goes on: an action is skipped or found stuck. *)
LEMMA LevelFit ==
    ASSUME IInv, Fit(levels, DOMAIN exec, data, status), NEW k \in DOMAIN levels, NEW l,
           levels' = [levels EXCEPT ![k] = l],
           levels[k].phase = "pass", l.phase # "closed", LevelTidy(Def(k), l),
           \A b \in Ids(Def(k)) :
               \/ l.outcomes[b] = levels[k].outcomes[b]
               \/ /\ levels[k].outcomes[b] = "none"
                  /\ l.outcomes[b] = "Skipped" \/ (l.outcomes[b] = "Failed" /\ b \in l.stuck)
    PROVE  Fit(levels', DOMAIN exec, data, status)
<1>1. /\ DOMAIN levels' = DOMAIN levels /\ levels'[k] = l
      /\ \A j \in DOMAIN levels \ {k} : levels'[j] = levels[j]
      /\ levels[k].stuck = {}
  BY DEF Fit, LevelTidy
<1>2. ASSUME NEW j \in DOMAIN levels' PROVE LevelTidy(Def(j), levels'[j])
  BY <1>1 DEF Fit
<1>3. ASSUME DistinctIds PROVE StatusFits(levels', DOMAIN exec, status)
  <2>1. SUFFICES ASSUME NEW j \in DOMAIN levels, NEW b \in Ids(Def(j))
                 PROVE  Told(levels'[j], b, Seen(status, j, b), <<j, b>> \in DOMAIN exec)
    BY <1>1 DEF StatusFits
  <2>2. Told(levels[j], b, Seen(status, j, b), <<j, b>> \in DOMAIN exec)
    BY <1>3 DEF Fit, StatusFits
  <2>3. CASE j = k
    BY <1>1, <2>1, <2>2, <2>3 DEF Told
  <2>4. CASE j # k
    BY <1>1, <2>2, <2>4
  <2>5. QED
    BY <2>3, <2>4
<1>4. ASSUME DistinctIds PROVE OutputsFit(levels', data)
  <2>1. SUFFICES ASSUME NEW j \in DOMAIN levels, NEW b \in Ids(Def(j))
                 PROVE  /\ levels'[j].outcomes[b] = "Succeeded" => Recorded(data, j, b)
                        /\ Caught(levels', j, b) => ErrorHeld(data, j, b)
    BY <1>1 DEF OutputsFit
  <2>2. /\ levels[j].outcomes[b] = "Succeeded" => Recorded(data, j, b)
        /\ Caught(levels, j, b) => ErrorHeld(data, j, b)
    BY <1>4 DEF Fit, OutputsFit
  <2>3. levels'[j].outcomes[b] = "Succeeded" => levels[j].outcomes[b] = "Succeeded"
    BY <1>1, <2>1
  <2>4. levels'[j].outcomes[b] # "Failed" => levels[j].outcomes[b] # "Failed"
    BY <1>1, <2>1
  <2>5. Caught(levels', j, b) => Caught(levels, j, b)
    BY <1>1, <2>4 DEF Caught
  <2>6. QED
    BY <2>2, <2>3, <2>5
<1>5. QED
  BY <1>2, <1>3, <1>4 DEF Fit

LEMMA DecideFrontFit ==
    ASSUME IInv, Fit(levels, DOMAIN exec, data, status), NEW k \in DOMAIN levels, DecideFront(k)
    PROVE  Fit(levels', DOMAIN exec', data', status')
<1>1. PICK a \in levels[k].pending :
        IsFront(Def(k), levels[k], a) /\ levels' = [levels EXCEPT ![k] = Decide(Def(k), @, a)]
  BY DEF DecideFront
<1>2. LevelSound(Def(k), levels[k]) /\ levels[k].phase = "pass" /\ LevelTidy(Def(k), levels[k])
  BY LevelFacts DEF IInv, TreeSound, DecideFront, Fit
<1> DEFINE l == Decide(Def(k), levels[k], a)
<1>3. LevelTidy(Def(k), l) /\ l.phase # "closed"
  BY <1>1, <1>2, DecideTidy, DecideSound
<1>4. /\ a \in Ids(Def(k)) /\ levels[k].outcomes[a] = "none"
      /\ levels[k].outcomes \in [Ids(Def(k)) -> RunOutcome \cup {"none"}]
  BY <1>1, <1>2 DEF LevelSound, LevelType
<1>5. l.outcomes = levels[k].outcomes \/ l.outcomes = [levels[k].outcomes EXCEPT ![a] = "Skipped"]
  BY <1>2 DEF Decide, LevelSound, LevelType
<1>6. levels' = [levels EXCEPT ![k] = l]
  BY <1>1
<1> HIDE DEF l
<1>7. \A b \in Ids(Def(k)) :
               \/ l.outcomes[b] = levels[k].outcomes[b]
               \/ /\ levels[k].outcomes[b] = "none"
                  /\ l.outcomes[b] = "Skipped" \/ (l.outcomes[b] = "Failed" /\ b \in l.stuck)
  <2>1. CASE l.outcomes = levels[k].outcomes
    BY <2>1
  <2>2. CASE l.outcomes = [levels[k].outcomes EXCEPT ![a] = "Skipped"]
    <3>1. l.outcomes[a] = "Skipped" /\ \A b \in Ids(Def(k)) \ {a} : l.outcomes[b] = levels[k].outcomes[b]
      BY <1>4, <2>2
    <3>2. QED
      BY <1>4, <3>1
  <2>3. QED
    BY <1>5, <2>1, <2>2
<1>8. Fit(levels', DOMAIN exec, data, status)
  BY <1>2, <1>3, <1>6, <1>7, LevelFit
<1>9. QED
  BY <1>8 DEF DecideFront

LEMMA PassEndsFit ==
    ASSUME IInv, Fit(levels, DOMAIN exec, data, status), NEW k \in DOMAIN levels, PassEnds(k)
    PROVE  Fit(levels', DOMAIN exec', data', status')
<1>1. /\ LevelSound(Def(k), levels[k]) /\ levels[k].phase = "pass" /\ levels[k].pending = {}
      /\ LevelTidy(Def(k), levels[k])
  BY LevelFacts DEF IInv, TreeSound, PassEnds, Fit
<1> DEFINE l == EndPass(levels[k])
<1>2. LevelTidy(Def(k), l) /\ l.phase # "closed"
  BY <1>1, EndPassTidy, EndPassSound
<1>3. /\ \A b \in Ids(Def(k)) : b \in levels[k].still_pending => levels[k].outcomes[b] = "none"
      /\ levels[k].outcomes \in [Ids(Def(k)) -> RunOutcome \cup {"none"}]
  BY <1>1 DEF LevelSound, LevelType
<1>4. \/ l.outcomes = levels[k].outcomes
      \/ /\ l.stuck = levels[k].still_pending
         /\ l.outcomes = [b \in Ids(Def(k)) |-> IF b \in levels[k].still_pending THEN "Failed"
                                                ELSE levels[k].outcomes[b]]
  BY <1>1, <1>3 DEF EndPass, LevelSound, LevelType
<1>5. levels' = [levels EXCEPT ![k] = l]
  BY DEF PassEnds
<1> HIDE DEF l
<1>6. \A b \in Ids(Def(k)) :
               \/ l.outcomes[b] = levels[k].outcomes[b]
               \/ /\ levels[k].outcomes[b] = "none"
                  /\ l.outcomes[b] = "Skipped" \/ (l.outcomes[b] = "Failed" /\ b \in l.stuck)
  BY <1>3, <1>4
<1>7. Fit(levels', DOMAIN exec, data, status)
  BY <1>1, <1>2, <1>5, <1>6, LevelFit
<1>8. QED
  BY <1>7 DEF PassEnds

(* The future of an action is polled for the first time. *)
LEMMA StartActionFit ==
    ASSUME IInv, Fit(levels, DOMAIN exec, data, status), NEW k \in DOMAIN levels, StartAction(k)
    PROVE  Fit(levels', DOMAIN exec', data', status')
<1>1. PICK a \in levels[k].running :
        /\ exec' = Put(exec, <<k, a>>, Progress(IF Kind(k, a) = "leaf" THEN "leaf" ELSE "start"))
        /\ status' = Report(status, k, a, "Running")
  BY DEF StartAction
<1>2. DOMAIN exec' = DOMAIN exec \cup {<<k, a>>} /\ levels' = levels /\ data' = data
  BY <1>1 DEF StartAction, Put
<1>3. \A j \in DOMAIN levels : j \in Key /\ Given(j) /\ LevelSound(Def(j), levels[j])
  BY LevelFacts DEF IInv, TreeSound
<1>4. a \in Ids(Def(k)) /\ levels[k].outcomes[a] = "none"
  BY <1>1, <1>3, RunningIsOpen
<1>5. \A j, b : Seen(status', j, b) = IF j[2] = k[2] /\ b = a THEN "Running" ELSE Seen(status, j, b)
  BY <1>1, SeenReport
<1>6. ASSUME DistinctIds PROVE StatusFits(levels, DOMAIN exec', status')
  <2>1. SUFFICES ASSUME NEW j \in DOMAIN levels, NEW b \in Ids(Def(j))
                 PROVE  Told(levels[j], b, Seen(status', j, b), <<j, b>> \in DOMAIN exec')
    BY DEF StatusFits
  <2>2. Told(levels[j], b, Seen(status, j, b), <<j, b>> \in DOMAIN exec)
    BY <1>6 DEF Fit, StatusFits
  <2>3. CASE j = k /\ b = a
    BY <1>4, <1>5, <2>3 DEF Told
  <2>4. CASE ~(j = k /\ b = a)
    <3>1. ~(j[2] = k[2] /\ b = a)
      BY <1>3, <1>4, <1>6, <2>4, SameKey
    <3>2. <<j, b>> \in DOMAIN exec' <=> <<j, b>> \in DOMAIN exec
      BY <1>2, <2>4
    <3>3. QED
      BY <1>5, <2>2, <3>1, <3>2
  <2>5. QED
    BY <2>3, <2>4
<1>7. QED
  BY <1>2, <1>6 DEF Fit

LEMMA RunReturnsFit ==
    ASSUME IInv, Fit(levels, DOMAIN exec, data, status), RunReturns
    PROVE  Fit(levels', DOMAIN exec', data', status')
<1>1. /\ exec' = exec /\ data' = data /\ result = "running" /\ status' = ReportSkipped(RootKey)
      /\ levels[RootKey].phase = "done" /\ levels' = Closed(RootKey)
  BY DEF RunReturns
<1>2. RootKey \in DOMAIN levels
  BY <1>1 DEF IInv, TreeSound, ResultSound
<1>3. Fit(Closed(RootKey), DOMAIN exec, data, ReportSkipped(RootKey))
  BY <1>1, <1>2, CloseFit
<1>4. QED
  BY <1>1, <1>3

LEMMA RunWorkflowRecords ==
    ASSUME IInv, RecordsSound, RunWorkflow
    PROVE  RecordsSound'
<1>1. /\ flow \in Flows /\ result = "new" /\ flow' = flow /\ exec' = exec
      /\ DOMAIN levels = {} /\ DOMAIN exec = {}
  BY DEF IInv, TreeSound, ResultSound, RunWorkflow
<1>2. \A k : Def(k)' = Def(k)
  BY <1>1 DEF Def
<1>3. CASE result' = "rejected" /\ UNCHANGED <<levels, data>>
  <2>1. DOMAIN levels' = {}
    BY <1>1, <1>3
  <2>2. DepsKnown'
    BY <1>3 DEF DepsKnown
  <2>3. Fit(levels, DOMAIN exec, data, status)'
    BY <2>1 DEF Fit, StatusFits, OutputsFit
  <2>4. QED
    BY <2>2, <2>3 DEF RecordsSound
<1>4. CASE /\ result' = "running"
           /\ \A path \in DOMAIN flow : Validate(flow[path])
           /\ levels' = [k \in {RootKey} |-> NewLevel(flow[<<>>])]
  <2>1. /\ RootKey \in Key /\ RootKey[1] = <<>> /\ <<>> \in DOMAIN flow
        /\ Ids(Def(RootKey)) \subseteq Names
    BY <1>1, RootIsKey, WorkflowAssumption DEF Def, Names
  <2> DEFINE l == NewLevel(Def(RootKey))
  <2>2. DOMAIN levels' = {RootKey} /\ levels'[RootKey] = l /\ DOMAIN exec' = {}
    BY <1>1, <1>4, <2>1 DEF Def
  <2>3. /\ LevelTidy(Def(RootKey), l)
        /\ \A a \in Ids(Def(RootKey)) : l.outcomes[a] = "none"
    BY NewLevelTidy, NewLevelSound
  <2> HIDE DEF l
  <2>4. StatusFits(levels', DOMAIN exec', status')
    BY <2>2, <2>3 DEF StatusFits, Told
  <2>5. ASSUME NEW a \in Ids(Def(RootKey)) PROVE ~Caught(levels', RootKey, a)
    <3>1. Kind(RootKey, a) = "Try" => Member(Inner(RootKey, a, "other"), RootKey, a)
      BY DEF Member, Branch
    <3>2. Kind(RootKey, a) = "Try" => Inner(RootKey, a, "other") # RootKey
      BY <2>1, <3>1, MemberLonger
    <3>3. QED
      BY <2>2, <3>2 DEF Caught
  <2>6. OutputsFit(levels', data')
    BY <2>2, <2>3, <2>5 DEF OutputsFit
  <2>7. Fit(levels', DOMAIN exec', data', status')
    BY <2>2, <2>3, <2>4, <2>6 DEF Fit
  <2>8. Fit(levels, DOMAIN exec, data, status)'
    BY <1>1, <2>7, FitPrime
  <2>9. DepsKnown'
    BY <1>1, <1>4 DEF DepsKnown, Validate
  <2>10. QED
    BY <2>8, <2>9 DEF RecordsSound
<1>5. QED
  BY <1>3, <1>4 DEF RunWorkflow

-----------------------------------------------------------------------------
(* The steps of the executors.                                             *)

LEMMA ReturnInHand ==
    ASSUME IInv, Fit(levels, DOMAIN exec, data, status), NEW k, NEW a,
           NEW inner \in DOMAIN levels, Member(inner, k, a), levels[inner].phase = "done"
    PROVE  InHand(k, a, Closed(inner), data, ReportSkipped(inner))
BY CloseFit DEF InHand, GoesOn

(* It ends before it had a level, or with the head of its loop. *)
LEMMA EndFit ==
    ASSUME IInv, Fit(levels, DOMAIN exec, data, status), NEW k, NEW a, <<k, a>> \in DOMAIN exec,
           Quiet \/ AwakeExec(<<k, a>>), NEW outcome \in {"Succeeded", "Failed"}, End(k, a, outcome),
           outcome = "Failed" \/ Childless(k, a)
    PROVE  Fit(levels', DOMAIN exec', data', status')
<1> DEFINE no == FALSE
           ls == levels
           d == data
           st == status
<1>1. Finish(k, a, outcome, no, ls, d, st) /\ no \in BOOLEAN
  BY DEF End
<1>2. InHand(k, a, ls, d, st)
  BY DEF InHand, GoesOn
<1>3. ~(outcome = "Succeeded" /\ Kind(k, a) = "Try" /\ Inner(k, a, "other") \in DOMAIN levels)
  BY DEF Childless, Member, Branch
<1> HIDE DEF no, ls, d, st
<1>4. QED
  BY <1>1, <1>2, <1>3, FinishFit

(* A level is opened at the start of an executor. *)
LEMMA OpenLevelFit ==
    ASSUME IInv, NEW k, NEW a, <<k, a>> \in DOMAIN exec, Kind(k, a) # "Foreach",
           NEW branch \in Branch, NEW round, NEW ls, NEW d, NEW st, InHand(k, a, ls, d, st),
           Given(Inner(k, a, branch)), ~IsOpen(Inner(k, a, branch)),
           Inner(k, a, branch) \in DOMAIN levels =>
              \A c \in Ids(Def(Inner(k, a, branch))) : Childless(Inner(k, a, branch), c),
           Kind(k, a) = "Try" /\ branch = "other" => ErrorHeld(d, k, a),
           OpenLevel(k, a, branch, branch, round, ls), data' = d, status' = st
    PROVE  Fit(levels', DOMAIN exec', data', status')
<1> DEFINE j == Inner(k, a, branch)
<1>1. Member(j, k, a)
  BY DEF Member
<1>2. Kind(k, a) = "Try" /\ j = Inner(k, a, "other") => ErrorHeld(d, k, a)
  <2>1. CASE branch = "other"
    BY <2>1
  <2>2. CASE branch # "other"
    <3> DEFINE x == <<a, branch>>
               y == <<a, "other">>
               S == Names \X Branch
               s == k[1]
               other == Inner(k, a, "other")
    <3>1. k \in Key /\ a \in Names
      BY ExecFacts DEF IInv, TreeSound
    <3>2. x \in S /\ y \in S /\ x # y /\ s \in Seq(S)
      BY <2>2, <3>1, KeyParts DEF Branch, Path
    <3>3. j[1] = Append(s, x) /\ other[1] = Append(s, y)
      BY <3>1, InnerKey DEF Branch
    <3> HIDE DEF x, y, S, s, j, other
    <3>4. j # other
      BY <3>2, <3>3, AppendSplits
    <3>5. QED
      BY <3>4 DEF other
  <2>3. QED
    BY <2>1, <2>2
<1>3. levels' = Put(ls, j, NewLevel(Def(j))) /\ DOMAIN exec' = DOMAIN exec
  BY DEF OpenLevel
<1>4. /\ ~IsOpen(j) /\ Given(j)
      /\ j \in DOMAIN levels => \A c \in Ids(Def(j)) : Childless(j, c)
  OBVIOUS
<1> HIDE DEF j
<1>5. Fit(Put(ls, j, NewLevel(Def(j))), DOMAIN exec, d, st)
  BY <1>1, <1>2, <1>4, OpenFit
<1>6. QED
  BY <1>3, <1>5

(* The steps with which an executor starts. *)
LEMMA StartFit ==
    ASSUME IInv, Fit(levels, DOMAIN exec, data, status), NEW k, NEW a, <<k, a>> \in DOMAIN exec,
           \/ LeafEnds(k, a) \/ ContainerErrs(k, a)
           \/ StartIf(k, a) \/ StartTry(k, a)
           \/ StartUntil(k, a) \/ StartForeach(k, a)
    PROVE  Fit(levels', DOMAIN exec', data', status')
<1> DEFINE failed == "Failed"
           succeeded == "Succeeded"
           body == "body"
           zero == 0
           ls == levels
           d == data
           st == status
<1>1. /\ failed \in {"Succeeded", "Failed"} /\ succeeded \in {"Succeeded", "Failed"}
      /\ body \in Branch /\ body # "other" /\ failed = "Failed"
  BY DEF Branch
<1>2. exec[<<k, a>>].stage \in {"leaf", "start"}
  BY DEF LeafEnds, ContainerErrs, StartIf, StartTry, StartUntil, StartForeach
<1>3. Childless(k, a)
  BY <1>2, BeforeLevels DEF IInv
<1>4. exec[<<k, a>>].stage = "start" => AwakeExec(<<k, a>>)
  BY DEF AwakeExec
<1>5. AwakeExec(<<k, a>>) => InHand(k, a, ls, d, st)
  BY DEF InHand, GoesOn
<1>6. ASSUME NEW branch \in Branch, Kind(k, a) # "Foreach"
      PROVE  Inner(k, a, branch) \notin DOMAIN levels /\ ~IsOpen(Inner(k, a, branch))
  BY <1>3, <1>6 DEF Childless, Member, IsOpen
<1>7. CASE LeafEnds(k, a)
  <2>1. PICK outcome \in {"Succeeded", "Failed"} : End(k, a, outcome)
    BY <1>7 DEF LeafEnds
  <2>2. QED
    BY <1>3, <1>7, <2>1, EndFit DEF LeafEnds
<1>8. CASE ContainerErrs(k, a)
  <2>1. End(k, a, failed) /\ exec[<<k, a>>].stage = "start"
    BY <1>8 DEF ContainerErrs
  <2> HIDE DEF failed
  <2>2. QED
    BY <1>1, <1>3, <1>4, <2>1, EndFit
<1>9. CASE StartIf(k, a)
  <2>1. PICK branch \in Branch :
          IF Given(Inner(k, a, branch))
          THEN OpenLevel(k, a, branch, branch, zero, ls) /\ data' = d /\ status' = st
          ELSE End(k, a, succeeded)
    BY <1>9 DEF StartIf, Branch
  <2>2. exec[<<k, a>>].stage = "start" /\ Kind(k, a) # "Foreach" /\ Kind(k, a) # "Try"
    BY <1>9 DEF StartIf
  <2> HIDE DEF zero, succeeded, ls, d, st
  <2>3. CASE Given(Inner(k, a, branch))
    BY <1>4, <1>5, <1>6, <2>1, <2>2, <2>3, OpenLevelFit
  <2>4. CASE ~Given(Inner(k, a, branch))
    BY <1>1, <1>3, <1>4, <2>1, <2>2, <2>4, EndFit
  <2>5. QED
    BY <2>3, <2>4
<1>10. CASE StartTry(k, a)
  <2>1. /\ OpenLevel(k, a, body, body, zero, ls) /\ data' = d /\ status' = st
        /\ Given(Inner(k, a, body))
        /\ exec[<<k, a>>].stage = "start" /\ Kind(k, a) # "Foreach"
    BY <1>10 DEF StartTry
  <2> HIDE DEF zero, body, ls, d, st
  <2>2. QED
    BY <1>1, <1>4, <1>5, <1>6, <2>1, OpenLevelFit
<1>11. CASE StartUntil(k, a)
  BY <1>11 DEF StartUntil
<1>12. CASE StartForeach(k, a)
  <2>1. PICK total \in 0..MaxItems :
        \/ End(k, a, succeeded)
        \/ /\ exec' = [exec EXCEPT ![<<k, a>>].stage = "iterations",
                                   ![<<k, a>>].queued = 1 .. total]
           /\ data' = Extend(data, Children(k, a, total))
           /\ levels' = levels /\ status' = status
    BY <1>12 DEF StartForeach
  <2>2. total \in Nat
    OBVIOUS
  <2>3. exec[<<k, a>>].stage = "start" /\ Kind(k, a) = "Foreach"
    BY <1>12 DEF StartForeach
  <2>4. CASE End(k, a, succeeded)
    <3> HIDE DEF succeeded
    <3>1. QED
      BY <1>1, <1>3, <1>4, <2>3, <2>4, EndFit
  <2>5. CASE /\ exec' = [exec EXCEPT ![<<k, a>>].stage = "iterations",
                                     ![<<k, a>>].queued = 1 .. total]
             /\ data' = Extend(data, Children(k, a, total))
             /\ levels' = levels /\ status' = status
    <3>1. Fit(levels, DOMAIN exec, Extend(data, Children(k, a, total)), status)
      BY <1>3, <2>2, <2>3, ChildrenFit
    <3>2. DOMAIN exec' = DOMAIN exec
      BY <2>5
    <3>3. QED
      BY <2>5, <3>1, <3>2
  <2>6. QED
    BY <2>1, <2>4, <2>5
<1>13. QED
  BY <1>7, <1>8, <1>9, <1>10, <1>11, <1>12

LEMMA UntilHeadFit ==
    ASSUME IInv, Fit(levels, DOMAIN exec, data, status), NEW k, NEW a, <<k, a>> \in DOMAIN exec,
           UntilHead(k, a)
    PROVE  Fit(levels', DOMAIN exec', data', status')
<1> DEFINE failed == "Failed"
           branch == "body"
           round == exec[<<k, a>>].round
           ls == levels
           d == data
           st == status
<1>1. /\ failed \in {"Succeeded", "Failed"} /\ failed = "Failed"
      /\ branch \in Branch /\ branch # "other"
  BY DEF Branch
<1>2. /\ Kind(k, a) # "Foreach" /\ AwakeExec(<<k, a>>)
      /\ exec[<<k, a>>].stage = "head" /\ Family(k, a)
  BY ExecFacts DEF IInv, TreeSound, UntilHead, AwakeExec, FamiliesSound
<1>3. /\ Given(Inner(k, a, branch)) /\ ~IsOpen(Inner(k, a, branch))
      /\ Inner(k, a, branch) \in DOMAIN levels =>
            \A c \in Ids(Def(Inner(k, a, branch))) : Childless(Inner(k, a, branch), c)
  BY <1>2 DEF Family, FamilyOfBranches, IsOpen
<1>4. InHand(k, a, ls, d, st)
  BY <1>2 DEF InHand, GoesOn
<1>5. \/ End(k, a, failed)
      \/ OpenLevel(k, a, branch, branch, round, ls) /\ data' = d /\ status' = st
  BY DEF UntilHead
<1> HIDE DEF failed, branch, round, ls, d, st
<1>6. CASE End(k, a, failed)
  BY <1>1, <1>2, <1>6, EndFit
<1>7. CASE OpenLevel(k, a, branch, branch, round, ls) /\ data' = d /\ status' = st
  BY <1>1, <1>2, <1>3, <1>4, <1>7, OpenLevelFit
<1>8. QED
  BY <1>5, <1>6, <1>7

(* The steps in which a level of the container came to its end. *)
LEMMA FinishReturnsFit ==
    ASSUME IInv, Fit(levels, DOMAIN exec, data, status), NEW k, NEW a, <<k, a>> \in DOMAIN exec,
           NEW inner \in DOMAIN levels, Member(inner, k, a), levels[inner].phase = "done",
           NEW outcome \in {"Succeeded", "Failed"}, NEW error \in BOOLEAN,
           Finish(k, a, outcome, error, Closed(inner), data, ReportSkipped(inner)),
           outcome = "Succeeded" /\ Kind(k, a) = "Try" /\ Inner(k, a, "other") \in DOMAIN levels => error
    PROVE  Fit(levels', DOMAIN exec', data', status')
<1> DEFINE ls == Closed(inner)
           d == data
           st == ReportSkipped(inner)
<1>1. InHand(k, a, ls, d, st)
  BY ReturnInHand
<1>2. Finish(k, a, outcome, error, ls, d, st)
  OBVIOUS
<1> HIDE DEF ls, d, st
<1>3. QED
  BY <1>1, <1>2, FinishFit

LEMMA IfReturnsFit ==
    ASSUME IInv, Fit(levels, DOMAIN exec, data, status), NEW k, NEW a, <<k, a>> \in DOMAIN exec,
           IfReturns(k, a)
    PROVE  Fit(levels', DOMAIN exec', data', status')
<1> DEFINE no == FALSE
<1>1. PICK branch \in Branch :
        /\ Kind(k, a) = "If"
        /\ Returns(k, a, branch)
        /\ Finish(k, a, OutcomeOf(Inner(k, a, branch)), no, Closed(Inner(k, a, branch)), data,
                  ReportSkipped(Inner(k, a, branch)))
  BY DEF IfReturns, Branch
<1> DEFINE inner == Inner(k, a, branch)
           outcome == OutcomeOf(inner)
<1>2. outcome \in {"Succeeded", "Failed"} /\ no \in BOOLEAN
  BY OutcomeFacts
<1>3. inner \in DOMAIN levels /\ Member(inner, k, a) /\ levels[inner].phase = "done"
  BY <1>1, ReturnsFacts
<1>4. Finish(k, a, outcome, no, Closed(inner), data, ReportSkipped(inner)) /\ Kind(k, a) # "Try"
  BY <1>1
<1> HIDE DEF no, inner, outcome
<1>5. QED
  BY <1>2, <1>3, <1>4, FinishReturnsFit

LEMMA TryCatchReturnsFit ==
    ASSUME IInv, Fit(levels, DOMAIN exec, data, status), NEW k, NEW a, <<k, a>> \in DOMAIN exec,
           TryCatchReturns(k, a)
    PROVE  Fit(levels', DOMAIN exec', data', status')
<1> DEFINE error == TRUE
           branch == "other"
           inner == Inner(k, a, branch)
           outcome == OutcomeOf(inner)
<1>1. /\ branch \in Branch /\ error \in BOOLEAN /\ error
      /\ Returns(k, a, branch)
      /\ Finish(k, a, outcome, error, Closed(inner), data, ReportSkipped(inner))
  BY DEF TryCatchReturns, Branch
<1>2. outcome \in {"Succeeded", "Failed"}
  BY OutcomeFacts
<1> HIDE DEF branch
<1>3. inner \in DOMAIN levels /\ Member(inner, k, a) /\ levels[inner].phase = "done"
  BY <1>1, ReturnsFacts
<1> HIDE DEF error, inner, outcome
<1>4. QED
  BY <1>1, <1>2, <1>3, FinishReturnsFit

LEMMA TryBodyReturnsFit ==
    ASSUME IInv, Fit(levels, DOMAIN exec, data, status), NEW k, NEW a, <<k, a>> \in DOMAIN exec,
           TryBodyReturns(k, a)
    PROVE  Fit(levels', DOMAIN exec', data', status')
<1> DEFINE no == FALSE
           yes == TRUE
           failed == "Failed"
           succeeded == "Succeeded"
           body == "body"
           catch == "other"
           zero == 0
           inner == Inner(k, a, body)
           ls == Closed(inner)
           st == ReportSkipped(inner)
           recorded == RecordOutputs(data, k, a, yes)
<1>1. /\ failed \in {"Succeeded", "Failed"} /\ succeeded \in {"Succeeded", "Failed"}
      /\ failed # "Succeeded" /\ body \in Branch /\ body = "body" /\ catch \in Branch /\ catch = "other"
      /\ no \in BOOLEAN /\ yes \in BOOLEAN /\ yes
  BY DEF Branch
<1>2. Returns(k, a, body) /\ Kind(k, a) = "Try"
  BY DEF TryBodyReturns
<1>3. \/ Finish(k, a, succeeded, no, Closed(inner), data, ReportSkipped(inner))
      \/ Finish(k, a, failed, no, ls, recorded, st)
      \/ /\ OpenLevel(k, a, catch, catch, zero, ls) /\ data' = recorded /\ status' = st
         /\ Given(Inner(k, a, catch))
  BY DEF TryBodyReturns
<1> HIDE DEF no, yes, failed, succeeded, body, catch, zero
<1>4. /\ inner \in DOMAIN levels /\ Member(inner, k, a) /\ levels[inner].phase = "done"
      /\ Inner(k, a, catch) \notin DOMAIN levels
  BY <1>1, <1>2, ReturnsFacts
<1>5. InHand(k, a, ls, data, st)
  BY <1>4, ReturnInHand
<1>6. InHand(k, a, ls, recorded, st) /\ ErrorHeld(recorded, k, a)
  <2> DEFINE d == data
  <2>1. InHand(k, a, ls, d, st) /\ DOMAIN d = DOMAIN data /\ recorded = RecordOutputs(d, k, a, yes)
    BY <1>5
  <2> HIDE DEF ls, st, d, recorded
  <2>2. /\ DOMAIN ls = DOMAIN levels /\ k \in DOMAIN levels /\ a \in Ids(Def(k))
        /\ ls[k].outcomes[a] = "none" /\ Fit(ls, DOMAIN exec, d, st)
    BY <2>1, InHandFacts
  <2>3. (Caught(ls, k, a) => yes) /\ yes \in BOOLEAN
    BY <1>1
  <2>4. /\ Fit(ls, DOMAIN exec, RecordOutputs(d, k, a, yes), st)
        /\ Recorded(RecordOutputs(d, k, a, yes), k, a)
        /\ yes => ErrorHeld(RecordOutputs(d, k, a, yes), k, a)
        /\ DOMAIN RecordOutputs(d, k, a, yes) = DOMAIN data
    <3> DEFINE E == DOMAIN exec
    <3>1. Fit(ls, E, d, st)
      BY <2>2
    <3> HIDE DEF E
    <3>2. /\ Fit(ls, E, RecordOutputs(d, k, a, yes), st)
          /\ Recorded(RecordOutputs(d, k, a, yes), k, a)
          /\ yes => ErrorHeld(RecordOutputs(d, k, a, yes), k, a)
          /\ DOMAIN RecordOutputs(d, k, a, yes) = DOMAIN data
      BY <2>1, <2>2, <2>3, <3>1, RecordFit
    <3>3. QED
      BY <3>2 DEF E
  <2>5. QED
    BY <1>1, <2>1, <2>4 DEF InHand
<1>7. CASE Finish(k, a, succeeded, no, Closed(inner), data, ReportSkipped(inner))
  <2> HIDE DEF inner, ls, st, recorded
  <2>1. QED
    BY <1>1, <1>4, <1>7, FinishReturnsFit
<1> HIDE DEF inner, ls, st, recorded
<1>8. CASE Finish(k, a, failed, no, ls, recorded, st)
  BY <1>1, <1>6, <1>8, FinishFit
<1>9. CASE /\ OpenLevel(k, a, catch, catch, zero, ls) /\ data' = recorded /\ status' = st
           /\ Given(Inner(k, a, catch))
  <2>1. ~IsOpen(Inner(k, a, catch)) /\ Kind(k, a) # "Foreach"
    BY <1>2, <1>4 DEF IsOpen
  <2>2. QED
    BY <1>1, <1>4, <1>6, <1>9, <2>1, OpenLevelFit
<1>10. QED
  BY <1>3, <1>7, <1>8, <1>9

LEMMA UntilReturnsFit ==
    ASSUME IInv, Fit(levels, DOMAIN exec, data, status), NEW k, NEW a, <<k, a>> \in DOMAIN exec,
           UntilReturns(k, a)
    PROVE  Fit(levels', DOMAIN exec', data', status')
<1> DEFINE no == FALSE
           failed == "Failed"
           succeeded == "Succeeded"
           body == "body"
           inner == Inner(k, a, body)
<1>1. /\ failed \in {"Succeeded", "Failed"} /\ succeeded \in {"Succeeded", "Failed"}
      /\ body \in Branch /\ no \in BOOLEAN
  BY DEF Branch
<1>2. Returns(k, a, body) /\ Kind(k, a) = "Until"
  BY DEF UntilReturns
<1>3. \/ Finish(k, a, failed, no, Closed(inner), data, ReportSkipped(inner))
      \/ Finish(k, a, succeeded, no, Closed(inner), data, ReportSkipped(inner))
      \/ /\ DOMAIN exec' = DOMAIN exec
         /\ levels' = WithoutInside(inner)
         /\ status' = ReportSkipped(inner) /\ data' = data
  BY DEF UntilReturns
<1> HIDE DEF no, failed, succeeded, body
<1>4. inner \in DOMAIN levels /\ Member(inner, k, a) /\ levels[inner].phase = "done"
  BY <1>1, <1>2, ReturnsFacts
<1> HIDE DEF inner
<1>5. CASE Finish(k, a, failed, no, Closed(inner), data, ReportSkipped(inner))
  BY <1>1, <1>2, <1>4, <1>5, FinishReturnsFit
<1>6. CASE Finish(k, a, succeeded, no, Closed(inner), data, ReportSkipped(inner))
  BY <1>1, <1>2, <1>4, <1>6, FinishReturnsFit
<1>7. CASE /\ DOMAIN exec' = DOMAIN exec
           /\ levels' = WithoutInside(inner)
           /\ status' = ReportSkipped(inner) /\ data' = data
  <2> DEFINE ls == Closed(inner)
             ms == WithoutInside(inner)
             st == ReportSkipped(inner)
  <2>1. DOMAIN ms \subseteq DOMAIN ls /\ \A j \in DOMAIN ms : ms[j] = ls[j]
    BY <1>4, ClosedLevels DEF WithoutInside
  <2>2. Fit(ls, DOMAIN exec, data, st)
    BY <1>4, CloseFit
  <2> HIDE DEF ls, ms, st
  <2>3. Fit(ms, DOMAIN exec, data, st)
    BY <2>1, <2>2, FewerFit
  <2>4. QED
    BY <1>7, <2>3 DEF ms, st
<1>8. QED
  BY <1>3, <1>5, <1>6, <1>7

LEMMA IterationStartsFit ==
    ASSUME IInv, Fit(levels, DOMAIN exec, data, status), NEW k, NEW a, <<k, a>> \in DOMAIN exec,
           IterationStarts(k, a)
    PROVE  Fit(levels', DOMAIN exec', data', status')
<1>1. PICK index \in exec[<<k, a>>].queued :
        /\ levels' = Put(levels, Iteration(k, a, index), NewLevel(Def(Iteration(k, a, index))))
        /\ DOMAIN exec' = DOMAIN exec /\ data' = data /\ status' = status /\ Quiet
  BY DEF IterationStarts
<1> DEFINE j == Iteration(k, a, index)
           ls == levels
           d == data
           st == status
<1>2. /\ Kind(k, a) = "Foreach" /\ index \in Nat
      /\ exec[<<k, a>>].stage = "iterations"
      /\ FamilyOfIterations(k, a, exec[<<k, a>>])
  BY <1>1, IterationFacts
<1>3. Member(j, k, a) /\ j \notin DOMAIN levels /\ Given(j)
  BY <1>1, <1>2 DEF FamilyOfIterations, Member
<1>4. InHand(k, a, ls, d, st)
  BY <1>1 DEF InHand, GoesOn
<1>5. ~IsOpen(j) /\ Kind(k, a) # "Try"
  BY <1>2, <1>3 DEF IsOpen
<1>6. levels' = Put(ls, j, NewLevel(Def(j)))
  BY <1>1
<1> HIDE DEF j, ls, d, st
<1>7. Fit(Put(ls, j, NewLevel(Def(j))), DOMAIN exec, d, st)
  BY <1>3, <1>4, <1>5, OpenFit
<1>8. QED
  BY <1>1, <1>6, <1>7 DEF d, st

LEMMA IterationReturnsFit ==
    ASSUME IInv, Fit(levels, DOMAIN exec, data, status), NEW k, NEW a, <<k, a>> \in DOMAIN exec,
           IterationReturns(k, a)
    PROVE  Fit(levels', DOMAIN exec', data', status')
<1> DEFINE no == FALSE
<1>1. PICK index \in exec[<<k, a>>].open :
        /\ levels[Iteration(k, a, index)].phase = "done"
        /\ \/ \E outcome \in {"Succeeded", "Failed"} :
                 Finish(k, a, outcome, no, Closed(Iteration(k, a, index)), data,
                        ReportSkipped(Iteration(k, a, index)))
           \/ /\ DOMAIN exec' = DOMAIN exec /\ data' = data
              /\ levels' = Closed(Iteration(k, a, index))
              /\ status' = ReportSkipped(Iteration(k, a, index))
  BY DEF IterationReturns
<1> DEFINE inner == Iteration(k, a, index)
<1>2. Kind(k, a) = "Foreach" /\ index \in Nat /\ FamilyOfIterations(k, a, exec[<<k, a>>])
      /\ exec[<<k, a>>].stage = "iterations"
  BY <1>1, IterationFacts
<1>3. inner \in DOMAIN levels /\ Member(inner, k, a) /\ levels[inner].phase = "done" /\ no \in BOOLEAN
  BY <1>1, <1>2 DEF FamilyOfIterations, IsOpen, Member
<1>4. \/ \E outcome \in {"Succeeded", "Failed"} :
            Finish(k, a, outcome, no, Closed(inner), data, ReportSkipped(inner))
      \/ /\ DOMAIN exec' = DOMAIN exec /\ data' = data
         /\ levels' = Closed(inner)
         /\ status' = ReportSkipped(inner)
  BY <1>1
<1> HIDE DEF inner, no
<1>5. CASE \E outcome \in {"Succeeded", "Failed"} :
              Finish(k, a, outcome, no, Closed(inner), data, ReportSkipped(inner))
  BY <1>2, <1>3, <1>5, FinishReturnsFit
<1>6. CASE /\ DOMAIN exec' = DOMAIN exec /\ data' = data
           /\ levels' = Closed(inner)
           /\ status' = ReportSkipped(inner)
  BY <1>3, <1>6, CloseFit
<1>7. QED
  BY <1>4, <1>5, <1>6

LEMMA RecordsInit == Init => RecordsSound
<1> DEFINE none == <<>>
<1>1. SUFFICES ASSUME Init PROVE RecordsSound
  OBVIOUS
<1>2. levels = none /\ DOMAIN none = {} /\ result = "new"
  BY <1>1 DEF Init
<1> HIDE DEF none
<1>3. DepsKnown /\ Fit(levels, DOMAIN exec, data, status)
  BY <1>2 DEF DepsKnown, Fit, StatusFits, OutputsFit
<1>4. QED
  BY <1>3 DEF RecordsSound

LEMMA RecordsKept == IInv /\ RecordsSound /\ [Next]_vars => RecordsSound'
<1>1. SUFFICES ASSUME IInv, RecordsSound, [Next]_vars PROVE RecordsSound'
  OBVIOUS
<1>2. Fit(levels, DOMAIN exec, data, status)
  BY <1>1 DEF RecordsSound
<1>3. ASSUME flow' = flow, result' = result, Fit(levels', DOMAIN exec', data', status') PROVE RecordsSound'
  BY <1>1, <1>3, FitKept
<1>4. CASE RunWorkflow
  BY <1>1, <1>4, RunWorkflowRecords
<1>5. CASE RunReturns
  <2>1. flow' = flow /\ result \notin {"new", "rejected"}
    BY <1>5 DEF RunReturns
  <2>2. QED
    BY <1>1, <1>2, <1>5, <2>1, RunReturnsFit, FitKept
<1>6. ASSUME NEW k \in DOMAIN levels, DecideFront(k) \/ PassEnds(k) \/ StartAction(k) PROVE RecordsSound'
  <2>1. flow' = flow /\ result' = result
    BY <1>6 DEF DecideFront, PassEnds, StartAction
  <2>2. QED
    BY <1>1, <1>2, <1>3, <1>6, <2>1, DecideFrontFit, PassEndsFit, StartActionFit
<1>7. ASSUME NEW i \in DOMAIN exec PROVE i = <<i[1], i[2]>>
  BY <1>1, <1>7 DEF IInv, TreeSound, ExecSound
<1>8. ASSUME NEW i \in DOMAIN exec,
             \/ LeafEnds(i[1], i[2]) \/ ContainerErrs(i[1], i[2])
             \/ StartIf(i[1], i[2]) \/ StartTry(i[1], i[2])
             \/ StartUntil(i[1], i[2]) \/ StartForeach(i[1], i[2])
             \/ UntilHead(i[1], i[2])
      PROVE  RecordsSound'
  <2> DEFINE k == i[1]
             a == i[2]
  <2>1. <<k, a>> \in DOMAIN exec
    BY <1>7, <1>8
  <2> HIDE DEF k, a
  <2>2. \/ LeafEnds(k, a) \/ ContainerErrs(k, a)
        \/ StartIf(k, a) \/ StartTry(k, a)
        \/ StartUntil(k, a) \/ StartForeach(k, a)
        \/ UntilHead(k, a)
    BY <1>8 DEF k, a
  <2>3. flow' = flow /\ result' = result
    BY <2>2 DEF LeafEnds, ContainerErrs, StartIf, StartTry, StartUntil, StartForeach, UntilHead, End, Finish
  <2>4. QED
    BY <1>1, <1>2, <1>3, <2>1, <2>2, <2>3, StartFit, UntilHeadFit
<1>9. ASSUME NEW i \in DOMAIN exec,
             \/ IfReturns(i[1], i[2]) \/ TryBodyReturns(i[1], i[2])
             \/ TryCatchReturns(i[1], i[2]) \/ UntilReturns(i[1], i[2])
             \/ IterationStarts(i[1], i[2]) \/ IterationReturns(i[1], i[2])
      PROVE  RecordsSound'
  <2> DEFINE k == i[1]
             a == i[2]
  <2>1. <<k, a>> \in DOMAIN exec
    BY <1>7, <1>9
  <2> HIDE DEF k, a
  <2>2. \/ IfReturns(k, a) \/ TryBodyReturns(k, a)
        \/ TryCatchReturns(k, a) \/ UntilReturns(k, a)
        \/ IterationStarts(k, a) \/ IterationReturns(k, a)
    BY <1>9 DEF k, a
  <2>3. flow' = flow /\ result' = result
    BY <2>2 DEF IfReturns, TryBodyReturns, TryCatchReturns, UntilReturns, IterationStarts, IterationReturns,
                Finish
  <2>4. QED
    BY <1>1, <1>2, <1>3, <2>1, <2>2, <2>3, IfReturnsFit, TryBodyReturnsFit, TryCatchReturnsFit,
       UntilReturnsFit, IterationStartsFit, IterationReturnsFit
<1>10. CASE UNCHANGED vars
  <2>1. /\ flow' = flow /\ result' = result /\ levels' = levels /\ exec' = exec /\ data' = data
        /\ status' = status
    BY <1>10 DEF vars
  <2>2. QED
    BY <1>2, <1>3, <2>1
<1>11. QED
  BY <1>1, <1>4, <1>5, <1>6, <1>8, <1>9, <1>10 DEF Next

(* What is on record fits what became of every action of every level, in   *)
(* all flows: Scheduler's queues, the reports of execute_action and        *)
(* report_skipped, the outputs that record_outputs and execute_try wrote.  *)
THEOREM RecordsInvariance == Spec => []RecordsSound
<1>1. Init => RecordsSound
  BY RecordsInit
<1>2. IInv /\ RecordsSound /\ [Next]_vars => RecordsSound'
  BY RecordsKept
<1>3. QED
  BY <1>1, <1>2, Invariance, PTL DEF Spec

(* What a viewer saw last of an action is what became of it, in every flow *)
(* written in file order whose ids are distinct: report in execute_action, *)
(* report_skipped, and the iterations of a loop kept apart by the sink.    *)
THEOREM StatusMatchesOutcomeTheorem ==
    Spec => [](DistinctIds /\ InFileOrder => StatusMatchesOutcome)
<1>1. IInv /\ RecordsSound => (DistinctIds /\ InFileOrder => StatusMatchesOutcome)
  <2>1. SUFFICES ASSUME IInv, RecordsSound, DistinctIds, InFileOrder,
                        NEW k \in DOMAIN levels, NEW a \in Ids(Def(k))
                 PROVE  /\ levels[k].outcomes[a] \in {"Succeeded", "Failed"} =>
                              Reported(k, a) = levels[k].outcomes[a]
                        /\ levels[k].outcomes[a] = "Skipped" /\ levels[k].phase = "closed" =>
                              Reported(k, a) = "Skipped"
                        /\ <<k, a>> \in DOMAIN exec => Reported(k, a) = "Running"
    BY DEF StatusMatchesOutcome
  <2>2. Told(levels[k], a, Seen(status, k, a), <<k, a>> \in DOMAIN exec)
    BY <2>1 DEF RecordsSound, Fit, StatusFits
  <2>3. OrderedLevel(Def(k))
    BY <2>1, LevelFacts DEF IInv, TreeSound, InFileOrder, Given, Def
  <2>4. levels[k].stuck = {}
    BY <2>1, <2>3 DEF RecordsSound, Fit, LevelTidy
  <2>5. Seen(status, k, a) = Reported(k, a)
    BY DEF Seen, Reported
  <2>6. QED
    BY <2>2, <2>4, <2>5 DEF Told
<1>2. QED
  BY <1>1, Invariance, RecordsInvariance, PTL

(* What an action may read when it runs is there, in every flow whose ids  *)
(* are distinct: the outputs of its dependencies that succeeded, recorded  *)
(* in its own context, and the error that its catch or a later action      *)
(* handles (RunContext::record_outputs, execute_try).                      *)
THEOREM InputsReadableTheorem == Spec => [](DistinctIds => InputsReadable)
<1>1. IInv /\ RecordsSound /\ DistinctIds => DependenciesReadable
  <2>1. SUFFICES ASSUME IInv, RecordsSound, DistinctIds, NEW i \in DOMAIN exec, NEW d \in Deps(Def(i[1]), i[2]),
                        levels[i[1]].outcomes[d] = "Succeeded"
                 PROVE  d \in DOMAIN data[i[1][2]] /\ data[i[1][2]][d].by = i[1][2]
    BY DEF DependenciesReadable
  <2> DEFINE k == i[1]
             a == i[2]
  <2>2. <<k, a>> \in DOMAIN exec
    BY <2>1 DEF IInv, TreeSound, ExecSound
  <2> HIDE DEF k, a
  <2>3. k \in DOMAIN levels /\ a \in Ids(Def(k)) /\ Given(k)
    BY <2>1, <2>2, ExecFacts, LevelFacts DEF IInv, TreeSound
  <2>4. result \notin {"new", "rejected"}
    BY <2>1, <2>3 DEF IInv, TreeSound, ResultSound
  <2>5. d \in Ids(Def(k))
    BY <2>1, <2>3, <2>4 DEF RecordsSound, DepsKnown, Given, Def, k, a
  <2>6. Recorded(data, k, d)
    BY <2>1, <2>3, <2>5 DEF RecordsSound, Fit, OutputsFit, k
  <2>7. QED
    BY <2>6 DEF Recorded, k
<1>2. IInv /\ RecordsSound /\ DistinctIds => CaughtErrorReadable
  <2>1. SUFFICES ASSUME IInv, RecordsSound, DistinctIds, NEW k \in DOMAIN levels, Len(k[1]) > 0,
                        Last(k[1])[2] = "other", Kind(Owner(k)[1], Owner(k)[2]) = "Try",
                        levels[Owner(k)[1]].outcomes[Owner(k)[2]] # "Failed"
                 PROVE  Owner(k)[2] \in DOMAIN data[k[2]] /\ data[k[2]][Owner(k)[2]].error
    BY DEF CaughtErrorReadable
  <2> DEFINE m == Owner(k)[1]
             c == Owner(k)[2]
  <2>2. k # RootKey
    BY <2>1, RootIsKey
  <2>3. m \in DOMAIN levels /\ c \in Ids(Def(m)) /\ Member(k, m, c)
    BY <2>1, <2>2, OwnerFacts
  <2>4. m \in Key /\ c \in Names
    <3> HIDE DEF m, c
    <3>1. QED
      BY <2>1, <2>3, LevelFacts DEF IInv, TreeSound
  <2>5. Kind(m, c) = "Try" /\ levels[m].outcomes[c] # "Failed"
    BY <2>1
  <2>6. m = Owner(k)[1] /\ c = Owner(k)[2]
    OBVIOUS
  <2> HIDE DEF m, c
  <2>7. PICK branch \in Branch : k = Inner(m, c, branch)
    BY <2>3, <2>5 DEF Member
  <2>8. branch = "other"
    <3> DEFINE x == <<c, branch>>
               S == Names \X Branch
               s == m[1]
    <3>1. x \in S /\ s \in Seq(S) /\ x[2] = branch
      BY <2>4, KeyParts DEF Path
    <3>2. k[1] = Append(s, x)
      BY <2>4, <2>7, InnerKey
    <3> HIDE DEF x, S, s
    <3>3. Last(k[1]) = x
      BY <3>1, <3>2, AppendElements DEF Last
    <3>4. QED
      BY <2>1, <3>1, <3>3
  <2>9. Caught(levels, m, c)
    BY <2>1, <2>5, <2>7, <2>8 DEF Caught
  <2>10. ErrorHeld(data, m, c)
    BY <2>1, <2>3, <2>9 DEF RecordsSound, Fit, OutputsFit
  <2>11. k[2] = m[2]
    BY <2>4, <2>7, InnerKey
  <2>12. QED
    BY <2>6, <2>10, <2>11 DEF ErrorHeld
<1>3. IInv /\ RecordsSound => (DistinctIds => InputsReadable)
  BY <1>1, <1>2 DEF InputsReadable
<1>4. QED
  BY <1>3, Invariance, RecordsInvariance, PTL
=============================================================================
