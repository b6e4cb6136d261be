--------------------------- MODULE SchedulerProofs ---------------------------
(***************************************************************************)
(* Scheduler for every set of actions and every flow: the type invariant,  *)
(* the OR-join, and, for flows in the order of their dependencies, that    *)
(* run_level never gives up as stuck and never waits with an action it     *)
(* could have started.                                                     *)
(*                                                                         *)
(* The argument for the last two: while the queue is walked, an action put *)
(* back has a dependency without outcome; in an ordered flow that          *)
(* dependency was met earlier in the same walk or already ran, so it runs  *)
(* or was put back itself (WaitsOnSomething).  The first action put back   *)
(* can only wait for a running one, so something runs (PutBackRuns).       *)
(***************************************************************************)
EXTENDS Scheduler, FiniteSetTheorems, WellFoundedInduction, TLAPS

Going == level.phase \in {"pass", "wait", "done"}

(* Every action is in exactly one place until it resolves. *)
Placed ==
    /\ \A a \in Actions :
        \/ level.outcomes[a] # "none"
        \/ a \in level.pending \/ a \in level.still_pending \/ a \in level.running
    /\ \A a \in level.pending \cup level.still_pending \cup level.running : level.outcomes[a] = "none"
    /\ level.pending \cap level.still_pending = {}
    /\ level.running \cap (level.pending \cup level.still_pending) = {}
    /\ level.phase = "done" => level.pending = {} /\ level.running = {}
    /\ level.phase \in {"new", "rejected"} =>
        level.pending = Actions /\ level.running = {} /\ level.stuck = {}
    /\ level.phase # "done" => level.stuck = {}

(* Only a validated definition is run. *)
Scoped == Going => \A a \in Actions : Deps(def, a) \subseteq Actions

(* An action put back has a dependency that runs or was put back too. *)
WaitsOnSomething ==
    InOrder =>
        /\ \A a \in level.still_pending :
            \E d \in Deps(def, a) : d \in level.running \cup level.still_pending
        /\ level.phase = "wait" =>
            \A a \in level.pending : \E d \in Deps(def, a) : d \in level.running \cup level.pending

PutBackRuns == InOrder /\ level.still_pending # {} => level.running # {}

IInv ==
    /\ def \in Flows
    /\ TypeOK
    /\ Placed
    /\ Scoped
    /\ JoinRespected
    /\ WaitsOnSomething
    /\ PutBackRuns
    /\ OrderedNeverStuck

-----------------------------------------------------------------------------
(* Validation.  Induction over numbers goes by the least counterexample.   *)

LEMMA LeastNumber ==
    ASSUME NEW T, T \subseteq Nat, T # {}
    PROVE  \E x \in T : \A y \in T : x <= y
<1>1. PICK t \in T : TRUE
  OBVIOUS
<1> DEFINE S == 0 .. t
           Below == {s \in SUBSET S : \E k \in T : k <= t /\ s = 0 .. k}
<1>2. t \in Nat /\ IsFiniteSet(S)
  BY FS_Interval
<1>3. Below \subseteq SUBSET S /\ 0 .. t \in Below
  BY <1>2
<1> HIDE DEF Below, S
<1>4. PICK s \in Below : \A u \in Below : ~(<<u, s>> \in StrictSubsetOrdering(S))
  BY <1>2, <1>3, FS_StrictSubsetOrderingWellFounded, FS_FiniteSubsetsOfFinite, WFMin
<1>5. PICK x \in T : x <= t /\ s = 0 .. x
  BY <1>4 DEF Below
<1>6. ASSUME NEW y \in T, y < x PROVE FALSE
  <2>1. y \in Nat /\ x \in Nat /\ 0 .. y \subseteq 0 .. x /\ 0 .. y # 0 .. x
    BY <1>6
  <2>2. 0 .. y \in Below
    BY <1>2, <1>5, <1>6, <2>1 DEF Below, S
  <2>3. <<0 .. y, s>> \in StrictSubsetOrdering(S)
    BY <1>3, <1>5, <2>1, <2>2 DEF StrictSubsetOrdering
  <2>4. QED
    BY <1>4, <2>2, <2>3
<1>7. QED
  BY <1>6

(* The rounds of the counting exist: the recursion is over the number of   *)
(* the round.                                                              *)
LEMMA RoundsExist ==
    ASSUME NEW flow, NEW N \in Nat
    PROVE  \E round : round = [n \in 0 .. N |-> IF n = 0 THEN FirstFrontier(flow)
                                                ELSE NextFrontier(flow, round[n - 1])]
<1> DEFINE Good(f, k) == f = [n \in 0 .. k |-> IF n = 0 THEN FirstFrontier(flow)
                                               ELSE NextFrontier(flow, f[n - 1])]
           Bad == {k \in Nat : \A f : ~Good(f, k)}
<1>1. CASE Bad = {}
  BY <1>1
<1>2. CASE Bad # {}
  <2>1. PICK k \in Bad : \A m \in Bad : k <= m
    <3> HIDE DEF Bad
    <3>1. Bad \subseteq Nat
      BY DEF Bad
    <3>2. QED
      BY <1>2, <3>1, LeastNumber
  <2>2. k # 0
    <3> DEFINE f == [n \in 0 .. 0 |-> FirstFrontier(flow)]
    <3>1. Good(f, 0)
      OBVIOUS
    <3>2. QED
      BY <2>1, <3>1
  <2>3. k \in Nat /\ k - 1 \in Nat /\ k - 1 \notin Bad
    <3>1. Bad \subseteq Nat
      OBVIOUS
    <3> HIDE DEF Bad
    <3>2. QED
      BY <2>1, <2>2, <3>1
  <2>4. PICK f : Good(f, k - 1)
    BY <2>3
  <2> DEFINE g == [n \in 0 .. k |-> IF n = k THEN NextFrontier(flow, f[k - 1]) ELSE f[n]]
  <2>5. \A n \in 0 .. k - 1 : g[n] = f[n]
    BY <2>3
  <2>6. \A n \in 0 .. k : g[n] = IF n = 0 THEN FirstFrontier(flow)
                                 ELSE NextFrontier(flow, g[n - 1])
    <3> SUFFICES ASSUME NEW n \in 0 .. k
                 PROVE  g[n] = IF n = 0 THEN FirstFrontier(flow)
                               ELSE NextFrontier(flow, g[n - 1])
      OBVIOUS
    <3>1. CASE n = k
      <4>1. g[n] = NextFrontier(flow, f[k - 1]) /\ g[n - 1] = f[k - 1]
        BY <2>3, <2>5, <3>1
      <4>2. QED
        BY <2>2, <3>1, <4>1
    <3>2. CASE n # k
      <4>1. g[n] = f[n] /\ n \in 0 .. k - 1 /\ (n # 0 => g[n - 1] = f[n - 1])
        BY <2>3, <2>5, <3>2
      <4>2. f[n] = IF n = 0 THEN FirstFrontier(flow) ELSE NextFrontier(flow, f[n - 1])
        BY <2>4, <4>1
      <4>3. QED
        BY <4>1, <4>2
    <3>3. QED
      BY <3>1, <3>2
  <2>7. g = [n \in 0 .. k |-> g[n]]
    OBVIOUS
  <2> HIDE DEF g
  <2>8. Good(g, k)
    BY <2>6, <2>7
  <2>9. QED
    BY <2>1, <2>8
<1>3. QED
  BY <1>1, <1>2

LEMMA FrontiersFollow ==
    ASSUME NEW flow, Cardinality(Ids(flow)) \in Nat
    PROVE  \E round :
              /\ round[0] = FirstFrontier(flow)
              /\ \A n \in 1 .. Cardinality(Ids(flow)) :
                    round[n] = NextFrontier(flow, round[n - 1])
              /\ Frontiers(flow) = [n \in 0 .. Cardinality(Ids(flow)) |-> round[n].current]
<1> DEFINE N == Cardinality(Ids(flow))
           Good(f) == f = [n \in 0 .. N |-> IF n = 0 THEN FirstFrontier(flow)
                                            ELSE NextFrontier(flow, f[n - 1])]
           round == CHOOSE f : Good(f)
<1>1. Good(round)
  BY RoundsExist
<1>2. Frontiers(flow) = [n \in DOMAIN round |-> round[n].current]
  BY DEF Frontiers
<1> HIDE DEF round
<1>3. DOMAIN round = 0 .. N /\ round[0] = FirstFrontier(flow)
      /\ \A n \in 1 .. N : round[n] = NextFrontier(flow, round[n - 1])
  BY <1>1
<1>4. QED
  BY <1>2, <1>3

(* What was taken out before round n. *)
Earlier(C, n) == UNION {C[i] : i \in {j \in DOMAIN C : j < n}}

(* A frontier holds what depends on earlier ones only, and on the last     *)
(* one; so nothing is in two of them.                                      *)
FrontierIs(flow, C, n) ==
    /\ C[n] = {a \in Ids(flow) : /\ Deps(flow, a) \subseteq Earlier(C, n)
                                 /\ n > 0 => Deps(flow, a) \cap C[n - 1] # {}}
    /\ \A i \in DOMAIN C : i < n => C[i] \cap C[n] = {}

LEMMA EarlierSplits ==
    ASSUME NEW N \in Nat, NEW C, DOMAIN C = 0 .. N
    PROVE  /\ Earlier(C, 0) = {}
           /\ \A n \in 0 .. N : Earlier(C, n + 1) = Earlier(C, n) \cup C[n]
<1>1. Earlier(C, 0) = {}
  BY DEF Earlier
<1>2. ASSUME NEW n \in 0 .. N PROVE Earlier(C, n + 1) = Earlier(C, n) \cup C[n]
  <2>1. \A j \in DOMAIN C : j < n + 1 <=> j < n \/ j = n
    BY <1>2
  <2>2. QED
    BY <1>2, <2>1 DEF Earlier
<1>3. QED
  BY <1>1, <1>2

(* The in-degrees count what is left. *)
LEMMA InDegreeFalls ==
    ASSUME NEW D, NEW U, NEW F, IsFiniteSet(D), U \cap F = {}
    PROVE  /\ Cardinality(D \ U) \in Nat
           /\ Cardinality(D \cap F) \in Nat
           /\ Cardinality(D \ (U \cup F)) = Cardinality(D \ U) - Cardinality(D \cap F)
           /\ Cardinality(D \cap F) > 0 <=> D \cap F # {}
           /\ Cardinality(D \ U) = Cardinality(D \cap F) <=> D \subseteq U \cup F
<1>1. /\ IsFiniteSet(D \ U) /\ IsFiniteSet(D \cap F) /\ IsFiniteSet(D \ (U \cup F))
      /\ Cardinality(D \ U) \in Nat /\ Cardinality(D \cap F) \in Nat
      /\ Cardinality(D \ (U \cup F)) \in Nat
  BY FS_Difference, FS_Intersection, FS_CardinalityType
<1>2. (D \ U) \ F = D \ (U \cup F) /\ (D \ U) \cap F = D \cap F
  OBVIOUS
<1>3. Cardinality(D \ (U \cup F)) = Cardinality(D \ U) - Cardinality(D \cap F)
  BY <1>1, <1>2, FS_Difference
<1>4. /\ Cardinality(D \cap F) = 0 <=> D \cap F = {}
      /\ Cardinality(D \ (U \cup F)) = 0 <=> D \ (U \cup F) = {}
  BY <1>1, FS_EmptySet
<1>5. QED
  BY <1>1, <1>3, <1>4

LEMMA FrontierFollows ==
    ASSUME NEW flow, NEW N \in Nat, NEW C, DOMAIN C = 0 .. N,
           \A a \in Ids(flow) : IsFiniteSet(Deps(flow, a)),
           NEW n \in 1 .. N, NEW prev, NEW next,
           next = NextFrontier(flow, prev), prev.current = C[n - 1], next.current = C[n],
           \A i \in 0 .. n - 1 : FrontierIs(flow, C, i),
           \A a \in Ids(flow) :
               prev.in_degree[a] = Cardinality(Deps(flow, a) \ Earlier(C, n - 1))
    PROVE  /\ FrontierIs(flow, C, n)
           /\ \A a \in Ids(flow) :
                  next.in_degree[a] = Cardinality(Deps(flow, a) \ Earlier(C, n))
<1> DEFINE U == Earlier(C, n - 1)
           F == C[n - 1]
           D(a) == Deps(flow, a)
<1>1. n - 1 \in 0 .. N /\ Earlier(C, n) = U \cup F /\ FrontierIs(flow, C, n - 1)
  <2>1. n - 1 \in 0 .. N /\ n - 1 \in 0 .. n - 1 /\ (n - 1) + 1 = n
    OBVIOUS
  <2>2. QED
    BY <2>1, EarlierSplits
<1>2. U \cap F = {}
  <2>1. \A i \in DOMAIN C : i < n - 1 => C[i] \cap F = {}
    BY <1>1 DEF FrontierIs
  <2> HIDE DEF F
  <2>2. QED
    BY <2>1 DEF Earlier
<1>3. \A a \in Ids(flow) :
         /\ Cardinality(D(a) \ (U \cup F)) = Cardinality(D(a) \ U) - Cardinality(D(a) \cap F)
         /\ Cardinality(D(a) \cap F) > 0 <=> D(a) \cap F # {}
         /\ Cardinality(D(a) \ U) = Cardinality(D(a) \cap F) <=> D(a) \subseteq U \cup F
  <2> HIDE DEF U, F, D
  <2>1. \A a \in Ids(flow) : IsFiniteSet(D(a))
    BY DEF D
  <2>2. QED
    BY <1>2, <2>1, InDegreeFalls
<1>4. /\ next.in_degree = [a \in Ids(flow) |-> prev.in_degree[a] - Cardinality(D(a) \cap F)]
      /\ next.current = {a \in Ids(flow) : /\ Cardinality(D(a) \cap F) > 0
                                           /\ prev.in_degree[a] = Cardinality(D(a) \cap F)}
  BY DEF NextFrontier
<1>5. C[n] = {a \in Ids(flow) : D(a) \subseteq U \cup F /\ D(a) \cap F # {}}
  <2> HIDE DEF F
  <2>1. \A a \in Ids(flow) : prev.in_degree[a] = Cardinality(D(a) \ U)
    OBVIOUS
  <2> HIDE DEF U, D
  <2>2. \A a \in Ids(flow) :
            /\ Cardinality(D(a) \cap F) > 0 /\ prev.in_degree[a] = Cardinality(D(a) \cap F)
            <=> D(a) \subseteq U \cup F /\ D(a) \cap F # {}
    BY <1>3, <2>1
  <2>3. C[n] = {a \in Ids(flow) : /\ Cardinality(D(a) \cap F) > 0
                                  /\ prev.in_degree[a] = Cardinality(D(a) \cap F)}
    BY <1>4
  <2>4. QED
    BY ONLY <2>2, <2>3
<1>6. ASSUME NEW i \in DOMAIN C, i < n, NEW a \in C[i], a \in C[n] PROVE FALSE
  <2>1. i \in 0 .. n - 1
    BY <1>6
  <2>2. a \in Ids(flow) /\ D(a) \subseteq Earlier(C, i)
    BY <1>6, <2>1 DEF FrontierIs
  <2>3. PICK d \in D(a) : d \in C[n - 1]
    BY <1>5, <1>6
  <2>4. PICK j \in DOMAIN C : j < i /\ d \in C[j]
    BY <2>2, <2>3 DEF Earlier
  <2>5. j < n - 1
    BY <2>1, <2>4
  <2>6. QED
    BY <1>1, <2>3, <2>4, <2>5 DEF FrontierIs
<1>7. FrontierIs(flow, C, n)
  <2> HIDE DEF U
  <2>1. \A i \in DOMAIN C : i < n => C[i] \cap C[n] = {}
    BY ONLY <1>6
  <2>2. \A a \in Ids(flow) :
            D(a) \subseteq U \cup F /\ D(a) \cap F # {}
            <=> D(a) \subseteq Earlier(C, n) /\ (n > 0 => D(a) \cap F # {})
    BY <1>1
  <2>3. C[n] = {a \in Ids(flow) : /\ D(a) \subseteq Earlier(C, n)
                                  /\ n > 0 => D(a) \cap F # {}}
    BY ONLY <1>5, <2>2
  <2>4. QED
    BY ONLY <2>1, <2>3 DEF FrontierIs, D, F
<1>8. \A a \in Ids(flow) : next.in_degree[a] = Cardinality(D(a) \ Earlier(C, n))
  <2> SUFFICES ASSUME NEW a \in Ids(flow)
               PROVE  next.in_degree[a] = Cardinality(D(a) \ Earlier(C, n))
    BY Zenon
  <2>1. prev.in_degree[a] = Cardinality(D(a) \ U)
    BY Zenon
  <2> HIDE DEF U, F, D
  <2>3. next.in_degree[a] = prev.in_degree[a] - Cardinality(D(a) \cap F)
    BY <1>4
  <2>4. D(a) \ Earlier(C, n) = D(a) \ (U \cup F)
    BY <1>1
  <2>5. QED
    BY <1>3, <2>1, <2>3, <2>4
<1>9. QED
  BY <1>7, <1>8

(* Every frontier is what it should be. *)
LEMMA FrontiersRight ==
    ASSUME NEW flow, IsFiniteSet(Ids(flow)),
           \A a \in Ids(flow) : Deps(flow, a) \subseteq Ids(flow)
    PROVE  LET C == Frontiers(flow)
               N == Cardinality(Ids(flow))
           IN  N \in Nat /\ DOMAIN C = 0 .. N /\ \A n \in 0 .. N : FrontierIs(flow, C, n)
<1> DEFINE C == Frontiers(flow)
           N == Cardinality(Ids(flow))
<1>1. N \in Nat
  BY FS_CardinalityType
<1>2. PICK round :
        /\ round[0] = FirstFrontier(flow)
        /\ \A n \in 1 .. N : round[n] = NextFrontier(flow, round[n - 1])
        /\ C = [n \in 0 .. N |-> round[n].current]
  BY <1>1, FrontiersFollow
<1>3. \A a \in Ids(flow) : IsFiniteSet(Deps(flow, a))
  BY FS_Subset
<1> DEFINE Good(n) ==
              /\ FrontierIs(flow, C, n)
              /\ \A a \in Ids(flow) :
                    round[n].in_degree[a] = Cardinality(Deps(flow, a) \ Earlier(C, n))
           Bad == {n \in 0 .. N : ~Good(n)}
<1> HIDE DEF C, N
<1>4. DOMAIN C = 0 .. N /\ \A n \in 0 .. N : C[n] = round[n].current
  BY <1>2
<1>5. Good(0)
  <2>1. Earlier(C, 0) = {}
    BY <1>1, <1>4, EarlierSplits
  <2>2. C[0] = {a \in Ids(flow) : Deps(flow, a) = {}}
    BY <1>1, <1>2, <1>4 DEF FirstFrontier
  <2>3. FrontierIs(flow, C, 0)
    BY <1>4, <2>1, <2>2 DEF FrontierIs
  <2>4. ASSUME NEW a \in Ids(flow)
        PROVE  round[0].in_degree[a] = Cardinality(Deps(flow, a) \ Earlier(C, 0))
    <3>1. round[0].in_degree[a] = Cardinality(Deps(flow, a))
      BY <1>2 DEF FirstFrontier
    <3>2. Deps(flow, a) \ Earlier(C, 0) = Deps(flow, a)
      BY <2>1
    <3>3. QED
      BY <3>1, <3>2
  <2>5. QED
    BY <2>3, <2>4
<1>6. ASSUME NEW n \in 1 .. N, \A i \in 0 .. n - 1 : Good(i) PROVE Good(n)
  <2>1. n - 1 \in 0 .. n - 1 /\ n \in 0 .. N /\ n - 1 \in 0 .. N
    BY <1>1, <1>6
  <2>2. \A i \in 0 .. n - 1 : FrontierIs(flow, C, i)
    BY <1>6
  <2>3. Good(n - 1)
    BY <1>6, <2>1
  <2>4. /\ round[n] = NextFrontier(flow, round[n - 1])
        /\ round[n - 1].current = C[n - 1] /\ round[n].current = C[n]
    BY <1>2, <1>4, <2>1
  <2>5. QED
    BY <1>1, <1>3, <1>4, <2>2, <2>3, <2>4, FrontierFollows
<1> HIDE DEF Good
<1>7. ASSUME Bad # {} PROVE FALSE
  <2>1. Bad \subseteq Nat
    BY <1>1
  <2>2. PICK n \in Bad : \A m \in Bad : n <= m
    <3> HIDE DEF Bad
    <3>1. QED
      BY <1>7, <2>1, LeastNumber
  <2>3. n \in 0 .. N /\ n # 0
    BY <1>5, <2>2
  <2>4. \A i \in 0 .. n - 1 : Good(i)
    BY <1>1, <2>2, <2>3
  <2>5. QED
    BY <1>1, <1>6, <2>2, <2>3, <2>4
<1>8. \A n \in 0 .. N : Good(n)
  BY <1>7
<1>9. QED
  BY <1>1, <1>4, <1>8 DEF Good, C, N

(* What FrontiersRight says of all frontiers. *)
Counted(flow, C, N) ==
    /\ N = Cardinality(Ids(flow))
    /\ N \in Nat
    /\ DOMAIN C = 0 .. N
    /\ \A n \in 0 .. N : FrontierIs(flow, C, n)

(* One action in each frontier is enough to run out of actions. *)
LEMMA LastFrontierEmpty ==
    ASSUME NEW flow, IsFiniteSet(Ids(flow)), NEW C, NEW N, Counted(flow, C, N)
    PROVE  C[N] = {}
<1> USE DEF Counted
<1>1. \A n \in 0 .. N : C[n] \subseteq Ids(flow)
  BY DEF FrontierIs
<1>2. \A n \in 0 .. N : /\ Earlier(C, n) \subseteq Ids(flow) /\ IsFiniteSet(Earlier(C, n))
                        /\ IsFiniteSet(C[n])
                        /\ Cardinality(Earlier(C, n)) \in Nat /\ Cardinality(C[n]) \in Nat
                        /\ Earlier(C, n) \cap C[n] = {}
  <2> SUFFICES ASSUME NEW n \in 0 .. N
               PROVE  /\ Earlier(C, n) \subseteq Ids(flow) /\ IsFiniteSet(Earlier(C, n))
                      /\ IsFiniteSet(C[n])
                      /\ Cardinality(Earlier(C, n)) \in Nat /\ Cardinality(C[n]) \in Nat
                      /\ Earlier(C, n) \cap C[n] = {}
    OBVIOUS
  <2>1. Earlier(C, n) \subseteq Ids(flow)
    BY <1>1 DEF Earlier
  <2>2. Earlier(C, n) \cap C[n] = {}
    <3>1. \A i \in DOMAIN C : i < n => C[i] \cap C[n] = {}
      BY DEF FrontierIs
    <3>2. QED
      BY <3>1 DEF Earlier
  <2>3. QED
    BY <1>1, <2>1, <2>2, FS_Subset, FS_CardinalityType
<1> DEFINE Good(n) == C[n] # {} => Cardinality(Earlier(C, n)) >= n
           Bad == {n \in 0 .. N : ~Good(n)}
<1>3. ASSUME Bad # {} PROVE FALSE
  <2>1. Bad \subseteq Nat
    OBVIOUS
  <2>2. PICK n \in Bad : \A m \in Bad : n <= m
    <3> HIDE DEF Bad
    <3>1. QED
      BY <1>3, <2>1, LeastNumber
  <2>3. n \in 0 .. N /\ C[n] # {} /\ ~(Cardinality(Earlier(C, n)) >= n)
    BY <2>2
  <2>4. n > 0
    BY <1>2, <2>3
  <2>5. n - 1 \in 0 .. N /\ (n - 1) + 1 = n
    BY <2>3, <2>4
  <2>6. C[n - 1] # {}
    BY <2>3, <2>4 DEF FrontierIs
  <2>7. Good(n - 1)
    <3> HIDE DEF Good
    <3>1. n - 1 \notin Bad
      BY <2>1, <2>2, <2>3
    <3>2. QED
      BY <2>5, <3>1
  <2>8. Earlier(C, n) = Earlier(C, n - 1) \cup C[n - 1]
    BY <2>5, EarlierSplits
  <2>9. Cardinality(Earlier(C, n)) = Cardinality(Earlier(C, n - 1)) + Cardinality(C[n - 1])
    <3>1. Cardinality(Earlier(C, n)) = Cardinality(Earlier(C, n - 1)) + Cardinality(C[n - 1])
              - Cardinality(Earlier(C, n - 1) \cap C[n - 1])
      BY <1>2, <2>5, <2>8, FS_Union
    <3>2. Cardinality(Earlier(C, n - 1) \cap C[n - 1]) = 0
      BY <1>2, <2>5, FS_EmptySet
    <3>3. QED
      BY <1>2, <2>5, <3>1, <3>2
  <2>10. Cardinality(C[n - 1]) # 0
    BY <1>2, <2>5, <2>6, FS_EmptySet
  <2>11. QED
    BY <1>2, <2>3, <2>5, <2>6, <2>7, <2>9, <2>10
<1>4. ASSUME C[N] # {} PROVE FALSE
  <2>1. N \in 0 .. N
    OBVIOUS
  <2>2. Cardinality(Earlier(C, N)) >= N
    BY <1>3, <1>4, <2>1
  <2>3. Earlier(C, N) = Ids(flow)
    BY <1>2, <2>1, <2>2, FS_Subset
  <2>4. QED
    BY <1>1, <1>2, <1>4, <2>1, <2>3
<1>5. QED
  BY <1>4

(* The frontier of an action, if it is in one. *)
LEMMA OneColumn ==
    ASSUME NEW flow, NEW C, NEW N, Counted(flow, C, N),
           NEW n \in 0 .. N, NEW a \in C[n]
    PROVE  /\ (CHOOSE m \in DOMAIN C : a \in C[m]) = n
           /\ \A d \in Deps(flow, a) : \E m \in DOMAIN C : m < n /\ d \in C[m]
           /\ n > 0 => \E d \in Deps(flow, a) : d \in C[n - 1]
<1> USE DEF Counted
<1>1. \A m \in DOMAIN C : a \in C[m] => m = n
  <2> SUFFICES ASSUME NEW m \in DOMAIN C, a \in C[m], m # n PROVE FALSE
    OBVIOUS
  <2>1. m < n \/ n < m
    OBVIOUS
  <2>2. QED
    BY <2>1 DEF FrontierIs
<1>2. QED
  BY <1>1 DEF FrontierIs, Earlier

WellScoped(flow) == \A a \in Ids(flow) : Deps(flow, a) \subseteq Ids(flow)

NoCycle(flow) == \A S \in (SUBSET Ids(flow)) \ {{}} : \E a \in S : Deps(flow, a) \cap S = {}

(* If the counting gets to every action there is no cycle: of the actions  *)
(* of one, take the one counted first.                                     *)
LEMMA AllCountedNoCycle ==
    ASSUME NEW flow, NEW C, NEW N, Counted(flow, C, N),
           UNION {C[n] : n \in DOMAIN C} = Ids(flow)
    PROVE  NoCycle(flow)
<1> SUFFICES ASSUME NEW S \in SUBSET Ids(flow), S # {}
             PROVE  \E a \in S : Deps(flow, a) \cap S = {}
  BY DEF NoCycle
<1> DEFINE Columns == {n \in 0 .. N : C[n] \cap S # {}}
<1>1. Columns # {} /\ Columns \subseteq Nat
  BY DEF Counted
<1>2. PICK n \in Columns : \A m \in Columns : n <= m
  <2> HIDE DEF Columns
  <2>1. QED
    BY <1>1, LeastNumber
<1>3. PICK a \in S : a \in C[n]
  BY <1>2
<1>4. n \in 0 .. N
  BY <1>2
<1>5. \A m \in DOMAIN C : m < n => C[m] \cap S = {}
  <2> SUFFICES ASSUME NEW m \in DOMAIN C, m < n, C[m] \cap S # {} PROVE FALSE
    OBVIOUS
  <2>1. m \in Columns /\ m \in Nat /\ n \in Nat
    BY DEF Counted
  <2> HIDE DEF Columns
  <2>2. QED
    BY <1>2, <2>1
<1> HIDE DEF Columns
<1>6. Deps(flow, a) \cap S = {}
  <2> SUFFICES ASSUME NEW d \in Deps(flow, a), d \in S PROVE FALSE
    OBVIOUS
  <2>1. PICK m \in DOMAIN C : m < n /\ d \in C[m]
    BY <1>3, <1>4, OneColumn
  <2>2. QED
    BY <1>5, <2>1
<1>7. QED
  BY <1>6

(* Without a cycle it gets to every action: of those it missed, one has    *)
(* all its dependencies counted, the last of them in some frontier.        *)
LEMMA NoCycleAllCounted ==
    ASSUME NEW flow, IsFiniteSet(Ids(flow)), WellScoped(flow), NoCycle(flow),
           NEW C, NEW N, Counted(flow, C, N)
    PROVE  UNION {C[n] : n \in DOMAIN C} = Ids(flow)
<1> USE DEF Counted
<1> DEFINE All == UNION {C[n] : n \in DOMAIN C}
<1>1. All \subseteq Ids(flow)
  BY DEF FrontierIs
<1>2. ASSUME All # Ids(flow) PROVE FALSE
  <2>1. PICK a \in Ids(flow) \ All : Deps(flow, a) \cap (Ids(flow) \ All) = {}
    <3>1. Ids(flow) \ All \in (SUBSET Ids(flow)) \ {{}}
      BY <1>1, <1>2
    <3>2. QED
      BY <3>1 DEF NoCycle
  <2>2. Deps(flow, a) \subseteq All
    BY <2>1 DEF WellScoped
  <2> DEFINE Ends == {n \in 0 .. N + 1 : Deps(flow, a) \subseteq Earlier(C, n)}
  <2>3. N + 1 \in Ends
    BY <2>2 DEF Earlier
  <2>4. PICK n \in Ends : \A m \in Ends : n <= m
    <3>1. Ends \subseteq Nat
      OBVIOUS
    <3> HIDE DEF Ends
    <3>2. QED
      BY <2>3, <3>1, LeastNumber
  <2>5. n \in 0 .. N + 1 /\ Deps(flow, a) \subseteq Earlier(C, n)
    BY <2>4
  <2>6. n > 0 => Deps(flow, a) \cap C[n - 1] # {}
    <3> SUFFICES ASSUME n > 0 PROVE Deps(flow, a) \cap C[n - 1] # {}
      OBVIOUS
    <3>1. n - 1 \in 0 .. N /\ (n - 1) + 1 = n /\ n - 1 < n
      BY <2>5
    <3>2. n - 1 \notin Ends
      <4> HIDE DEF Ends
      <4>1. QED
        BY <2>4, <2>5, <3>1
    <3>3. ~(Deps(flow, a) \subseteq Earlier(C, n - 1))
      BY <3>1, <3>2
    <3>4. Earlier(C, n) = Earlier(C, n - 1) \cup C[n - 1]
      BY <3>1, EarlierSplits
    <3>5. QED
      BY <2>5, <3>3, <3>4
  <2>7. n # N + 1
    BY <2>5, <2>6, LastFrontierEmpty
  <2>8. a \in C[n]
    BY <2>1, <2>5, <2>6, <2>7 DEF FrontierIs
  <2>9. QED
    BY <2>1, <2>5, <2>7, <2>8
<1>3. QED
  BY <1>2

(* topo_order accepts exactly the definitions without dangling             *)
(* dependencies and cycles, and compute_levels draws those as it should.   *)
LEMMA ValidateExact ==
    ASSUME NEW flow, IsFiniteSet(Ids(flow))
    PROVE  /\ Validate(flow) <=> WellScoped(flow) /\ NoCycle(flow)
           /\ Validate(flow) =>
                 LET column == ComputeLevels(flow)
                 IN  \A a \in Ids(flow) :
                        /\ \A d \in Deps(flow, a) : column[d] < column[a]
                        /\ column[a] > 0 => \E d \in Deps(flow, a) : column[d] = column[a] - 1
<1> DEFINE C == Frontiers(flow)
           N == Cardinality(Ids(flow))
           column == ComputeLevels(flow)
<1>1. Validate(flow) <=> WellScoped(flow) /\ UNION {C[n] : n \in DOMAIN C} = Ids(flow)
  BY DEF Validate, WellScoped
<1>2. ASSUME WellScoped(flow) PROVE Counted(flow, C, N)
  <2>1. \A a \in Ids(flow) : Deps(flow, a) \subseteq Ids(flow)
    BY <1>2 DEF WellScoped
  <2>2. QED
    BY <2>1, FrontiersRight DEF Counted
<1>3. \A a \in Ids(flow) : column[a] = CHOOSE n \in DOMAIN C : a \in C[n]
  BY DEF ComputeLevels
<1> HIDE DEF C, N, column
<1>4. Validate(flow) <=> WellScoped(flow) /\ NoCycle(flow)
  BY <1>1, <1>2, AllCountedNoCycle, NoCycleAllCounted
<1>5. ASSUME Validate(flow), NEW a \in Ids(flow)
      PROVE  /\ \A d \in Deps(flow, a) : column[d] < column[a]
             /\ column[a] > 0 => \E d \in Deps(flow, a) : column[d] = column[a] - 1
  <2>1. Counted(flow, C, N) /\ WellScoped(flow) /\ UNION {C[n] : n \in DOMAIN C} = Ids(flow)
    BY <1>1, <1>2, <1>5
  <2>2. PICK n \in DOMAIN C : a \in C[n]
    BY <2>1
  <2>3. \A m \in DOMAIN C : m \in 0 .. N
    BY <2>1 DEF Counted
  <2>4. \A m \in DOMAIN C : \A b \in Ids(flow) : b \in C[m] => column[b] = m
    <3> SUFFICES ASSUME NEW m \in DOMAIN C, NEW b \in Ids(flow), b \in C[m]
                 PROVE  column[b] = m
      OBVIOUS
    <3>1. (CHOOSE k \in DOMAIN C : b \in C[k]) = m
      BY <2>1, <2>3, OneColumn
    <3>2. QED
      BY <1>3, <3>1
  <2>5. column[a] = n
    BY <2>2, <2>4
  <2>6. \A d \in Deps(flow, a) : d \in Ids(flow)
    BY <2>1 DEF WellScoped
  <2>7. ASSUME NEW d \in Deps(flow, a) PROVE column[d] < column[a]
    <3>1. PICK m \in DOMAIN C : m < n /\ d \in C[m]
      BY <2>1, <2>2, <2>3, OneColumn
    <3>2. QED
      BY <2>4, <2>5, <2>6, <3>1
  <2>8. ASSUME n > 0 PROVE \E d \in Deps(flow, a) : column[d] = n - 1
    <3>1. PICK d \in Deps(flow, a) : d \in C[n - 1]
      BY <2>1, <2>2, <2>3, <2>8, OneColumn
    <3>2. n - 1 \in DOMAIN C
      BY <2>1, <2>3, <2>8 DEF Counted
    <3>3. QED
      BY <2>4, <2>6, <3>1, <3>2
  <2>9. QED
    BY <2>5, <2>7, <2>8
<1>6. QED
  BY <1>4, <1>5 DEF column

-----------------------------------------------------------------------------
LEMMA InitIInv == Init => IInv
<1> SUFFICES ASSUME Init PROVE IInv
  OBVIOUS
<1>1. /\ def \in Flows
      /\ def.pos \in [Actions -> Nat] /\ DOMAIN def.runAfter = Actions
      /\ Ids(def) = Actions
  BY SchedulerAssumption DEF Init, Ids
<1>2. level = [phase |-> "new", pending |-> Actions, still_pending |-> {}, running |-> {},
               outcomes |-> [a \in Actions |-> "none"], stuck |-> {}]
  BY <1>1 DEF Init, NewLevel
<1>3. TypeOK
  BY <1>1, <1>2 DEF TypeOK
<1>4. Placed /\ Scoped
  BY <1>2 DEF Placed, Scoped, Going
<1>5. JoinRespected
  BY <1>2 DEF JoinRespected
<1>6. WaitsOnSomething /\ PutBackRuns /\ OrderedNeverStuck
  BY <1>2 DEF WaitsOnSomething, PutBackRuns, OrderedNeverStuck
<1> QED
  BY <1>1, <1>3, <1>4, <1>5, <1>6 DEF IInv

(* A new level has every action pending. *)
LEMMA NewLevelFields ==
    ASSUME IInv
    PROVE  NewLevel(def) = [phase |-> "pass", pending |-> Actions, still_pending |-> {},
                            running |-> {}, outcomes |-> [a \in Actions |-> "none"], stuck |-> {}]
  BY DEF IInv, TypeOK, NewLevel, Ids

LEMMA RunWorkflowIInv == IInv /\ RunWorkflow => IInv'
<1> SUFFICES ASSUME IInv, RunWorkflow PROVE IInv'
  OBVIOUS
<1>1. def' = def
  BY DEF RunWorkflow
<1>2. CASE Validate(def)
  <2>1. level' = [phase |-> "pass", pending |-> Actions, still_pending |-> {}, running |-> {},
                  outcomes |-> [a \in Actions |-> "none"], stuck |-> {}]
    BY <1>2, NewLevelFields DEF RunWorkflow
  <2>2. TypeOK'
    BY <1>1, <2>1 DEF IInv, TypeOK
  <2>3. \A a \in Actions : Deps(def, a) \subseteq Actions
    BY <1>2 DEF Validate, IInv, TypeOK, Ids
  <2>4. Placed' /\ Scoped'
    BY <1>1, <2>1, <2>3 DEF Placed, Scoped
  <2>5. JoinRespected'
    BY <1>1, <2>1 DEF JoinRespected
  <2>6. (WaitsOnSomething /\ PutBackRuns /\ OrderedNeverStuck)'
    BY <1>1, <2>1 DEF WaitsOnSomething, PutBackRuns, OrderedNeverStuck
  <2> QED
    BY <1>1, <2>2, <2>4, <2>5, <2>6 DEF IInv
<1>3. CASE ~Validate(def)
  <2>1. level' = [level EXCEPT !.phase = "rejected"] /\ level.phase = "new"
    BY <1>3 DEF RunWorkflow
  <2>2. /\ level'.phase = "rejected"
        /\ level'.pending = level.pending /\ level'.still_pending = level.still_pending
        /\ level'.running = level.running /\ level'.outcomes = level.outcomes
        /\ level'.stuck = level.stuck
    BY <2>1 DEF IInv, TypeOK
  <2>3. TypeOK'
    BY <1>1, <2>1 DEF IInv, TypeOK
  <2>4. Placed' /\ Scoped'
    BY <1>1, <2>1, <2>2 DEF IInv, Placed, Scoped, Going
  <2>5. JoinRespected'
    BY <1>1, <2>2 DEF IInv, JoinRespected, DepsResolved, ShouldRun
  <2>6. (WaitsOnSomething /\ PutBackRuns /\ OrderedNeverStuck)'
    BY <1>1, <2>2 DEF IInv, WaitsOnSomething, PutBackRuns, OrderedNeverStuck, InOrder
  <2> QED
    BY <1>1, <2>3, <2>4, <2>5, <2>6 DEF IInv
<1> QED
  BY <1>2, <1>3

(* An unresolved dependency of the action at the front, in an ordered      *)
(* flow, stands before it: it runs or was put back.                        *)
LEMMA EarlierDependency ==
    ASSUME IInv, InOrder, NEW a \in Actions, IsFront(def, level, a),
           NEW d \in Deps(def, a), level.outcomes[d] = "none"
    PROVE  d \in level.running \cup level.still_pending
<1>1. d \in Actions /\ def.pos[d] < def.pos[a]
  BY DEF InOrder
<1>2. def.pos[d] \in Nat /\ def.pos[a] \in Nat
  BY <1>1 DEF IInv, TypeOK
<1>3. d \notin level.pending
  BY <1>1, <1>2 DEF IsFront
<1> QED
  BY <1>1, <1>3 DEF IInv, Placed

LEMMA DecideFrontIInv ==
    ASSUME IInv, NEW a \in Actions, DecideFront(a)
    PROVE  IInv'
<1>1. /\ def' = def /\ level.phase = "pass" /\ a \in level.pending
      /\ IsFront(def, level, a) /\ level' = Decide(def, level, a)
  BY DEF DecideFront, IsFront
<1>2. /\ level.outcomes[a] = "none" /\ a \notin level.running /\ a \notin level.still_pending
      /\ \A b \in Actions : Deps(def, b) \subseteq Actions
  BY <1>1 DEF IInv, Placed, Scoped, Going
<1>3. CASE ~DepsResolved(def, level, a)
  <2>1. level' = [level EXCEPT !.pending = level.pending \ {a},
                               !.still_pending = level.still_pending \cup {a}]
    BY <1>1, <1>3 DEF Decide
  <2>2. /\ level'.phase = "pass" /\ level'.pending = level.pending \ {a}
        /\ level'.still_pending = level.still_pending \cup {a}
        /\ level'.running = level.running /\ level'.outcomes = level.outcomes
        /\ level'.stuck = level.stuck
    BY <1>1, <2>1 DEF IInv, TypeOK
  <2>3. TypeOK'
    BY <1>1, <2>1, <2>2 DEF IInv, TypeOK
  <2>4. Placed' /\ Scoped'
    BY <1>1, <1>2, <2>2 DEF IInv, Placed, Scoped, Going
  <2>5. JoinRespected'
    BY <1>1, <2>2 DEF IInv, JoinRespected, DepsResolved, ShouldRun
  <2>6. ASSUME InOrder PROVE \E d \in Deps(def, a) : d \in level.running \cup level.still_pending
    BY <1>1, <1>3, <2>6, EarlierDependency DEF DepsResolved
  <2>7. WaitsOnSomething' /\ PutBackRuns' /\ OrderedNeverStuck'
    <3>1. InOrder' <=> InOrder
      BY <1>1 DEF InOrder
    <3>2. WaitsOnSomething'
      BY <1>1, <2>2, <2>6, <3>1 DEF IInv, WaitsOnSomething
    <3>3. PutBackRuns'
      BY <1>1, <2>2, <2>6, <3>1 DEF IInv, PutBackRuns
    <3> QED
      BY <2>2, <3>1, <3>2, <3>3 DEF IInv, OrderedNeverStuck
  <2> QED
    BY <1>1, <2>3, <2>4, <2>5, <2>7 DEF IInv
<1>4. CASE DepsResolved(def, level, a) /\ ShouldRun(def, level, a)
  <2>1. level' = [level EXCEPT !.pending = level.pending \ {a},
                               !.running = level.running \cup {a}]
    BY <1>1, <1>4 DEF Decide
  <2>2. /\ level'.phase = "pass" /\ level'.pending = level.pending \ {a}
        /\ level'.running = level.running \cup {a}
        /\ level'.still_pending = level.still_pending /\ level'.outcomes = level.outcomes
        /\ level'.stuck = level.stuck
    BY <1>1, <2>1 DEF IInv, TypeOK
  <2>3. TypeOK'
    BY <1>1, <2>1, <2>2 DEF IInv, TypeOK
  <2>4. Placed' /\ Scoped'
    BY <1>1, <1>2, <2>2 DEF IInv, Placed, Scoped, Going
  <2>5. JoinRespected'
    BY <1>1, <1>4, <2>2 DEF IInv, JoinRespected, DepsResolved, ShouldRun
  <2>6. WaitsOnSomething' /\ PutBackRuns' /\ OrderedNeverStuck'
    BY <1>1, <2>2 DEF IInv, WaitsOnSomething, PutBackRuns, OrderedNeverStuck, InOrder
  <2> QED
    BY <1>1, <2>3, <2>4, <2>5, <2>6 DEF IInv
<1>5. CASE DepsResolved(def, level, a) /\ ~ShouldRun(def, level, a)
  <2>1. level' = [level EXCEPT !.pending = level.pending \ {a},
                               !.outcomes[a] = "Skipped"]
    BY <1>1, <1>5 DEF Decide
  <2>2. /\ level'.phase = "pass" /\ level'.pending = level.pending \ {a}
        /\ level'.running = level.running
        /\ level'.still_pending = level.still_pending
        /\ level'.outcomes = [level.outcomes EXCEPT ![a] = "Skipped"]
        /\ level'.stuck = level.stuck
    BY <1>1, <2>1 DEF IInv, TypeOK
  <2>3. TypeOK'
    <3>1. [level.outcomes EXCEPT ![a] = "Skipped"] \in [Actions -> RunOutcome \cup {"none"}]
      BY DEF IInv, TypeOK, RunOutcome
    <3>2. level' = [level EXCEPT !.pending = level.pending \ {a},
                                 !.outcomes = [level.outcomes EXCEPT ![a] = "Skipped"]]
      BY <2>1
    <3> QED
      BY <1>1, <2>2, <3>1, <3>2 DEF IInv, TypeOK
  <2>4. /\ level'.outcomes[a] = "Skipped"
        /\ \A b \in Actions \ {a} : level'.outcomes[b] = level.outcomes[b]
    BY <2>2 DEF IInv, TypeOK
  <2>5. Placed' /\ Scoped'
    BY <1>1, <1>2, <2>2, <2>4, <2>3 DEF IInv, TypeOK, Placed, Scoped, Going
  <2>6. JoinRespected'
    BY <1>1, <1>2, <1>5, <2>2, <2>4 DEF IInv, JoinRespected, DepsResolved, ShouldRun
  <2>7. WaitsOnSomething' /\ PutBackRuns' /\ OrderedNeverStuck'
    BY <1>1, <2>2 DEF IInv, WaitsOnSomething, PutBackRuns, OrderedNeverStuck, InOrder
  <2> QED
    BY <1>1, <2>3, <2>5, <2>6, <2>7 DEF IInv
<1> QED
  BY <1>3, <1>4, <1>5

LEMMA PassEndsIInv == IInv /\ PassEnds => IInv'
<1> SUFFICES ASSUME IInv, PassEnds PROVE IInv'
  OBVIOUS
<1>1. def' = def /\ level.phase = "pass" /\ level.pending = {} /\ level' = EndPass(level)
  BY DEF PassEnds
<1>2. CASE level.running # {}
  <2>1. level' = [level EXCEPT !.phase = "wait", !.pending = level.still_pending,
                               !.still_pending = {}]
    BY <1>1, <1>2 DEF EndPass
  <2>2. /\ level'.phase = "wait" /\ level'.pending = level.still_pending
        /\ level'.still_pending = {} /\ level'.running = level.running
        /\ level'.outcomes = level.outcomes /\ level'.stuck = level.stuck
    BY <2>1 DEF IInv, TypeOK
  <2>3. TypeOK'
    BY <1>1, <2>1 DEF IInv, TypeOK
  <2>4. Placed' /\ Scoped'
    BY <1>1, <2>2 DEF IInv, Placed, Scoped, Going
  <2>5. JoinRespected'
    BY <1>1, <2>2 DEF IInv, JoinRespected, DepsResolved, ShouldRun
  <2>6. WaitsOnSomething' /\ PutBackRuns' /\ OrderedNeverStuck'
    BY <1>1, <2>2 DEF IInv, WaitsOnSomething, PutBackRuns, OrderedNeverStuck, InOrder
  <2> QED
    BY <1>1, <2>3, <2>4, <2>5, <2>6 DEF IInv
<1>3. CASE level.running = {}
  <2> DEFINE failed == [a \in Actions |-> IF a \in level.still_pending THEN "Failed"
                                          ELSE level.outcomes[a]]
  <2>1. level' = [level EXCEPT !.phase = "done", !.still_pending = {},
                               !.stuck = level.still_pending, !.outcomes = failed]
    BY <1>1, <1>3 DEF EndPass, IInv, TypeOK
  <2>2. /\ level'.phase = "done" /\ level'.pending = {}
        /\ level'.still_pending = {} /\ level'.running = {}
        /\ level'.outcomes = failed /\ level'.stuck = level.still_pending
    BY <1>1, <1>3, <2>1 DEF IInv, TypeOK
  <2>3. failed \in [Actions -> RunOutcome \cup {"none"}]
    BY DEF IInv, TypeOK, RunOutcome
  <2>4. TypeOK'
    BY <1>1, <2>1, <2>3 DEF IInv, TypeOK
  <2>5. Placed' /\ Scoped'
    BY <1>1, <1>3, <2>2 DEF IInv, Placed, Scoped, Going
  <2>6. \A a \in Actions \ level.still_pending : level'.outcomes[a] = level.outcomes[a]
    BY <2>2
  <2>7. \A a \in level.still_pending : level.outcomes[a] = "none"
    BY DEF IInv, Placed
  <2>8. \A a \in Actions : Deps(def, a) \subseteq Actions
    BY <1>1 DEF IInv, Scoped, Going
  <2>9. JoinRespected'
    BY <1>1, <1>3, <2>2, <2>6, <2>7, <2>8 DEF IInv, Placed, JoinRespected, DepsResolved, ShouldRun
  <2>10. InOrder => level.still_pending = {}
    BY <1>3 DEF IInv, PutBackRuns
  <2>11. WaitsOnSomething' /\ PutBackRuns' /\ OrderedNeverStuck'
    BY <1>1, <2>2, <2>10 DEF WaitsOnSomething, PutBackRuns, OrderedNeverStuck, InOrder
  <2> QED
    BY <1>1, <2>4, <2>5, <2>9, <2>11 DEF IInv
<1> QED
  BY <1>2, <1>3

LEMMA ActionResolvesIInv ==
    ASSUME IInv, NEW a \in Actions, NEW outcome \in {"Succeeded", "Failed"},
           ActionResolves(a, outcome)
    PROVE  IInv'
<1>1. /\ def' = def /\ level.phase = "wait" /\ a \in level.running
      /\ level' = [level EXCEPT !.phase = "pass", !.running = level.running \ {a},
                                !.outcomes[a] = outcome]
  BY DEF ActionResolves, Resolve
<1>2. /\ level'.phase = "pass" /\ level'.pending = level.pending
      /\ level'.still_pending = level.still_pending
      /\ level'.running = level.running \ {a}
      /\ level'.outcomes = [level.outcomes EXCEPT ![a] = outcome]
      /\ level'.stuck = level.stuck
  BY <1>1 DEF IInv, TypeOK
<1>3. TypeOK'
  BY <1>1 DEF IInv, TypeOK, RunOutcome
<1>4. /\ level'.outcomes[a] = outcome /\ outcome # "none" /\ outcome # "Skipped"
      /\ \A b \in Actions \ {a} : level'.outcomes[b] = level.outcomes[b]
  BY <1>2 DEF IInv, TypeOK
<1>5. /\ level.outcomes[a] = "none" /\ a \notin level.pending
      /\ level.still_pending = {}
      /\ \A b \in Actions : Deps(def, b) \subseteq Actions
  BY <1>1 DEF IInv, TypeOK, Placed, Scoped, Going
<1>6. Placed' /\ Scoped'
  BY <1>1, <1>2, <1>3, <1>4, <1>5 DEF IInv, TypeOK, Placed, Scoped, Going
<1>7. JoinRespected'
  BY <1>1, <1>2, <1>4, <1>5 DEF IInv, JoinRespected, DepsResolved, ShouldRun
<1>8. WaitsOnSomething' /\ PutBackRuns' /\ OrderedNeverStuck'
  BY <1>1, <1>2, <1>5 DEF IInv, WaitsOnSomething, PutBackRuns, OrderedNeverStuck, InOrder
<1> QED
  BY <1>1, <1>3, <1>6, <1>7, <1>8 DEF IInv

LEMMA NextIInv == IInv /\ [Next]_vars => IInv'
<1> SUFFICES ASSUME IInv, [Next]_vars PROVE IInv'
  OBVIOUS
<1>1. CASE RunWorkflow
  BY <1>1, RunWorkflowIInv
<1>2. CASE \E a \in Actions : DecideFront(a)
  BY <1>2, DecideFrontIInv
<1>3. CASE PassEnds
  BY <1>3, PassEndsIInv
<1>4. CASE \E a \in Actions, outcome \in {"Succeeded", "Failed"} : ActionResolves(a, outcome)
  BY <1>4, ActionResolvesIInv
<1>5. CASE UNCHANGED vars
  BY <1>5 DEF vars, IInv, TypeOK, Placed, Scoped, Going, JoinRespected, DepsResolved, ShouldRun,
              WaitsOnSomething, PutBackRuns, OrderedNeverStuck, InOrder
<1> QED
  BY <1>1, <1>2, <1>3, <1>4, <1>5 DEF Next

LEMMA Invariance == Spec => []IInv
  BY InitIInv, NextIInv, PTL DEF Spec

(* The local variables of run_level keep their types, whatever the flow.   *)
THEOREM TypeCorrect == Spec => []TypeOK
  BY Invariance, PTL DEF IInv

(* The OR-join of run_level, for every flow: what ran and what was skipped *)
(* follows from the final outcomes of the dependencies alone.              *)
THEOREM JoinRespectedTheorem == Spec => []JoinRespected
  BY Invariance, PTL DEF IInv

(* For every flow in the order of its dependencies run_level never fails   *)
(* an action as stuck.                                                     *)
THEOREM OrderedNeverStuckTheorem == Spec => []OrderedNeverStuck
  BY Invariance, PTL DEF IInv

(* For every such flow run_level never waits while an action it could      *)
(* decide is pending.                                                      *)
THEOREM NothingEligibleWaitsTheorem == Spec => []NothingEligibleWaits
<1>1. IInv => NothingEligibleWaits
  <2> SUFFICES ASSUME IInv, InOrder, level.phase = "wait", NEW a \in level.pending
               PROVE  ~DepsResolved(def, level, a)
    BY DEF NothingEligibleWaits
  <2>1. PICK d \in Deps(def, a) : d \in level.running \cup level.pending
    BY DEF IInv, WaitsOnSomething
  <2>2. level.outcomes[d] = "none"
    BY <2>1 DEF IInv, Placed
  <2> QED
    BY <2>1, <2>2 DEF DepsResolved
<1> QED
  BY <1>1, Invariance, PTL

(* A flow is refused if and only if it has a dangling dependency or a      *)
(* cycle, and compute_levels draws one that is not in columns that follow  *)
(* its dependencies, for every finite set of actions (topo_order,          *)
(* compute_levels).                                                        *)
THEOREM ValidationExactTheorem == Spec => []ValidationExact
<1> DEFINE Verdict == /\ level.phase = "rejected" => ~Validate(def)
                      /\ level.phase \notin {"new", "rejected"} => Validate(def)
<1>1. Init => Verdict
  BY DEF Init, NewLevel
<1>2. IInv /\ Verdict /\ [Next]_vars => Verdict'
  <2> SUFFICES ASSUME IInv, Verdict, [Next]_vars PROVE Verdict'
    OBVIOUS
  <2>1. CASE RunWorkflow
    <3>1. def' = def /\ level.phase = "new"
      BY <2>1 DEF RunWorkflow
    <3>2. CASE Validate(def)
      <4>1. level'.phase = "pass"
        BY <2>1, <3>2 DEF RunWorkflow, NewLevel
      <4>2. QED
        BY <3>1, <3>2, <4>1
    <3>3. CASE ~Validate(def)
      <4>1. level'.phase = "rejected"
        BY <2>1, <3>3 DEF RunWorkflow, IInv, TypeOK
      <4>2. QED
        BY <3>1, <3>3, <4>1
    <3>4. QED
      BY <3>2, <3>3
  <2>2. ASSUME NEW a \in Actions, DecideFront(a) PROVE Verdict'
    <3>1. def' = def /\ level.phase = "pass" /\ level'.phase = "pass"
      BY <2>2 DEF DecideFront, Decide, IInv, TypeOK
    <3>2. QED
      BY <3>1
  <2>3. CASE PassEnds
    <3>1. def' = def /\ level.phase = "pass" /\ level'.phase \in {"wait", "done"}
      BY <2>3 DEF PassEnds, EndPass, IInv, TypeOK
    <3>2. QED
      BY <3>1
  <2>4. CASE UNCHANGED vars
    BY <2>4 DEF vars
  <2>5. ASSUME NEW a \in Actions, NEW outcome \in {"Succeeded", "Failed"},
               ActionResolves(a, outcome)
        PROVE  Verdict'
    <3>1. def' = def /\ level.phase = "wait" /\ level'.phase = "pass"
      BY <2>5 DEF ActionResolves, Resolve, IInv, TypeOK
    <3>2. QED
      BY <3>1
  <2>6. QED
    BY <2>1, <2>2, <2>3, <2>4, <2>5 DEF Next
<1>3. IInv /\ Verdict => ValidationExact
  <2> SUFFICES ASSUME IInv, Verdict PROVE ValidationExact
    OBVIOUS
  <2>1. Ids(def) = Actions /\ IsFiniteSet(Ids(def))
    BY SchedulerAssumption DEF IInv, TypeOK, Ids
  <2>2. (\A a \in Actions : Deps(def, a) \subseteq Actions) /\ Acyclic
            <=> WellScoped(def) /\ NoCycle(def)
    BY <2>1 DEF WellScoped, NoCycle, Acyclic
  <2>3. Validate(def) => GoodLayout
    <3>1. Validate(def) =>
             \A a \in Ids(def) :
                /\ \A d \in Deps(def, a) : ComputeLevels(def)[d] < ComputeLevels(def)[a]
                /\ ComputeLevels(def)[a] > 0 =>
                     \E d \in Deps(def, a) : ComputeLevels(def)[d] = ComputeLevels(def)[a] - 1
      BY <2>1, ValidateExact
    <3>2. QED
      BY <2>1, <3>1 DEF GoodLayout
  <2>4. Validate(def) <=> WellScoped(def) /\ NoCycle(def)
    BY <2>1, ValidateExact
  <2>5. QED
    BY <2>2, <2>3, <2>4 DEF ValidationExact
<1>4. QED
  BY <1>1, <1>2, <1>3, InitIInv, NextIInv, PTL DEF Spec
=============================================================================
