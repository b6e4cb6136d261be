------------------------------ MODULE RunLevel ------------------------------
(***************************************************************************)
(* The scheduler of one nesting level of a workflow                        *)
(* (workflow_engine/src/scheduler.rs), as operators on a level's           *)
(* definition and on the local variables of run_level.                     *)
(*                                                                         *)
(* A definition (ActionMap) is a record: pos gives every action its place  *)
(* in the IndexMap, which keeps the order of the file; runAfter gives      *)
(* every action its dependencies, each with the outcomes it accepts.       *)
(*                                                                         *)
(* pending and still_pending are queues in the code.  Both always hold     *)
(* their actions in the order of the file, because run_level moves         *)
(* actions from one to the other front first; so they are sets here and    *)
(* the front is the action of least pos.                                   *)
(***************************************************************************)
EXTENDS Naturals, FiniteSets

RunOutcome == {"Succeeded", "Failed", "Skipped"}

Ids(def) == DOMAIN def.pos

Deps(def, a) == DOMAIN def.runAfter[a]

-----------------------------------------------------------------------------
(* Validation *)

(* A slip in the counting: an edge is forgotten. *)
FrontiersForgetful(def) ==
    LET round[n \in 0 .. Cardinality(Ids(def))] ==
            IF n = 0
            THEN {a \in Ids(def) : Cardinality(Deps(def, a)) <= 1}
            ELSE {a \in Ids(def) : Deps(def, a) \cap round[n - 1] # {}}
    IN  round

(* Kahn's algorithm, one frontier at a time: the actions of in-degree zero *)
(* are taken out, ...                                                      *)
FirstFrontier(def) ==
    [in_degree |-> [a \in Ids(def) |-> Cardinality(Deps(def, a))],
     current |-> {a \in Ids(def) : Deps(def, a) = {}}]

(* ... the in-degree of their dependents falls, and those it brings to     *)
(* zero are the next frontier.                                             *)
NextFrontier(def, prev) ==
    LET taken(a) == Cardinality(Deps(def, a) \cap prev.current)
    IN  [in_degree |-> [a \in Ids(def) |-> prev.in_degree[a] - taken(a)],
         current |-> {a \in Ids(def) : taken(a) > 0 /\ prev.in_degree[a] = taken(a)}]

(* A frontier is never empty before the end, so as many frontiers as       *)
(* actions are enough.                                                     *)
Frontiers(def) ==
    LET round[n \in 0 .. Cardinality(Ids(def))] ==
            IF n = 0 THEN FirstFrontier(def) ELSE NextFrontier(def, round[n - 1])
    IN  [n \in DOMAIN round |-> round[n].current]

(* topo_order, as a verdict: dependencies exist in the same scope, and all *)
(* actions get into the order.                                             *)
Validate(def) ==
    /\ \A a \in Ids(def) : Deps(def, a) \subseteq Ids(def)
    /\ LET frontier == Frontiers(def)
       IN  UNION {frontier[n] : n \in DOMAIN frontier} = Ids(def)

(* compute_levels: the column each action of a valid definition is drawn   *)
(* in.                                                                     *)
ComputeLevels(def) ==
    LET frontier == Frontiers(def)
    IN  [a \in Ids(def) |-> CHOOSE n \in DOMAIN frontier : a \in frontier[n]]

-----------------------------------------------------------------------------
(* run_level *)

NewLevel(def) ==
    [phase |-> "pass",
     pending |-> Ids(def),
     still_pending |-> {},
     running |-> {},
     outcomes |-> [a \in Ids(def) |-> "none"],
     stuck |-> {}]

(* A slip: pop_back. *)
IsBack(def, level, a) ==
    a \in level.pending /\ \A b \in level.pending : def.pos[a] >= def.pos[b]

IsFront(def, level, a) ==
    a \in level.pending /\ \A b \in level.pending : def.pos[a] <= def.pos[b]

DepsResolved(def, level, a) == \A d \in Deps(def, a) : level.outcomes[d] # "none"

(* An OR-join: one dependency that ended as wished is enough. *)
ShouldRun(def, level, a) ==
    Deps(def, a) = {} \/ \E d \in Deps(def, a) : level.outcomes[d] \in def.runAfter[a][d]

(* One turn of the inner loop over pending. *)
Decide(def, level, a) ==
    IF ~DepsResolved(def, level, a)
    THEN [level EXCEPT !.pending = @ \ {a}, !.still_pending = @ \cup {a}]
    ELSE IF ShouldRun(def, level, a)
         THEN [level EXCEPT !.pending = @ \ {a}, !.running = @ \cup {a}]
         ELSE [level EXCEPT !.pending = @ \ {a}, !.outcomes[a] = "Skipped"]

(* The end of the inner loop: wait for a running action, or leave.  With   *)
(* nothing running whatever is still pending is failed as stuck.           *)
EndPass(level) ==
    IF level.running # {}
    THEN [level EXCEPT !.phase = "wait", !.pending = level.still_pending, !.still_pending = {}]
    ELSE [level EXCEPT !.phase = "done", !.still_pending = {},
                       !.stuck = level.still_pending,
                       !.outcomes = [a \in DOMAIN @ |->
                                        IF a \in level.still_pending THEN "Failed" ELSE @[a]]]

(* running.next() yields action a with its result. *)
Resolve(level, a, outcome) ==
    [level EXCEPT !.phase = "pass", !.running = @ \ {a}, !.outcomes[a] = outcome]

AllOk(level) == \A a \in DOMAIN level.outcomes : level.outcomes[a] # "Failed"
=============================================================================
