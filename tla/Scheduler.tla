----------------------------- MODULE Scheduler -----------------------------
(***************************************************************************)
(* One level of a workflow run by run_workflow (workflow_engine/src/       *)
(* runner.rs) and run_level (scheduler.rs): the definition is validated,   *)
(* then actions are dispatched as their dependencies resolve.              *)
(*                                                                         *)
(* The futures of the actions are polled by run_level itself, and only     *)
(* when it awaits running.next(): no action resolves while the queue is    *)
(* being walked.  What an action does is left open; it ends Succeeded or   *)
(* Failed.                                                                 *)
(***************************************************************************)
EXTENDS RunLevel

CONSTANTS
    Actions,    \* the ids of the level
    Flows       \* the definitions the level may have

ASSUME SchedulerAssumption ==
    /\ IsFiniteSet(Actions)
    /\ \A def \in Flows :
        /\ def.pos \in [Actions -> Nat]
        /\ \A a, b \in Actions : def.pos[a] = def.pos[b] => a = b
        /\ DOMAIN def.runAfter = Actions

VARIABLES
    def,    \* the definition being run
    level   \* the local variables of run_level

vars == <<def, level>>

-----------------------------------------------------------------------------
Init ==
    /\ def \in Flows
    /\ level = [NewLevel(def) EXCEPT !.phase = "new"]

(* run_workflow refuses a bad definition before anything runs. *)
RunWorkflow ==
    /\ level.phase = "new"
    /\ level' = IF Validate(def) THEN NewLevel(def) ELSE [level EXCEPT !.phase = "rejected"]
    /\ UNCHANGED def

(* Dispatching without a look at the dependencies' outcomes. *)
DecideFrontAlways(a) ==
    /\ level.phase = "pass"
    /\ IsFront(def, level, a)
    /\ level' = [level EXCEPT !.pending = @ \ {a}, !.running = @ \cup {a}]
    /\ UNCHANGED def

DecideFront(a) ==
    /\ level.phase = "pass"
    /\ IsFront(def, level, a)
    /\ level' = Decide(def, level, a)
    /\ UNCHANGED def

PassEnds ==
    /\ level.phase = "pass"
    /\ level.pending = {}
    /\ level' = EndPass(level)
    /\ UNCHANGED def

(* The next wait starts without a walk over the pending actions. *)
ActionResolvesUnseen(a, outcome) ==
    /\ level.phase = "wait"
    /\ a \in level.running
    /\ level' = IF level.running = {a} THEN Resolve(level, a, outcome)
                ELSE [Resolve(level, a, outcome) EXCEPT !.phase = "wait"]
    /\ UNCHANGED def

ActionResolves(a, outcome) ==
    /\ level.phase = "wait"
    /\ a \in level.running
    /\ level' = Resolve(level, a, outcome)
    /\ UNCHANGED def

Next ==
    \/ RunWorkflow
    \/ \E a \in Actions : DecideFront(a)
    \/ PassEnds
    \/ \E a \in Actions, outcome \in {"Succeeded", "Failed"} : ActionResolves(a, outcome)

Spec == Init /\ [][Next]_vars

-----------------------------------------------------------------------------
TypeOK ==
    /\ def.pos \in [Actions -> Nat] /\ DOMAIN def.runAfter = Actions
    /\ level \in [phase : {"new", "rejected", "pass", "wait", "done"},
                  pending : SUBSET Actions,
                  still_pending : SUBSET Actions,
                  running : SUBSET Actions,
                  outcomes : [Actions -> RunOutcome \cup {"none"}],
                  stuck : SUBSET Actions]
    /\ level.phase # "pass" => level.still_pending = {}

(* A definition is refused exactly when a dependency is missing or some    *)
(* actions all wait for one another: Kahn's counting in topo_order against *)
(* the absence of a set of actions each with a dependency in the set.  The *)
(* columns compute_levels draws a good definition in follow from the same  *)
(* counting: an action stands right of all its dependencies and directly   *)
(* right of one of them.                                                   *)
Acyclic ==
    \A S \in (SUBSET Actions) \ {{}} : \E a \in S : Deps(def, a) \cap S = {}

GoodLayout ==
    LET column == ComputeLevels(def)
    IN  \A a \in Actions :
            /\ \A d \in Deps(def, a) : column[d] < column[a]
            /\ column[a] > 0 => \E d \in Deps(def, a) : column[d] = column[a] - 1

ValidationExact ==
    LET good == (\A a \in Actions : Deps(def, a) \subseteq Actions) /\ Acyclic
    IN  /\ level.phase = "rejected" => ~good
        /\ level.phase \notin {"new", "rejected"} => good /\ GoodLayout

(* Every outcome follows from the dependencies' final outcomes, whatever   *)
(* the order in which actions ended: what ran, or runs, had all its        *)
(* dependencies resolved and one of them as wished; what was skipped had   *)
(* all resolved and none as wished (run_level, doc comment).               *)
JoinRespected ==
    \A a \in Actions \ level.stuck :
        LET decided == DepsResolved(def, level, a)
        IN  /\ a \in level.running \/ level.outcomes[a] \in {"Succeeded", "Failed"} =>
                    decided /\ ShouldRun(def, level, a)
            /\ level.outcomes[a] = "Skipped" => decided /\ ~ShouldRun(def, level, a)

(* In the file every action stands after its dependencies. *)
InOrder == \A a \in Actions : \A d \in Deps(def, a) : d \in Actions /\ def.pos[d] < def.pos[a]

(* For a flow written in the order of its dependencies, the branch of      *)
(* run_level that fails the pending actions as stuck is never taken.       *)
OrderedNeverStuck == InOrder => level.stuck = {}

(* The same, of every validated flow: "Should be unreachable after         *)
(* validate() rejects cycles up front".                                    *)
NeverStuck == level.stuck = {}

(* "executing everything currently eligible concurrently": when run_level  *)
(* waits, for a flow in the order of its dependencies, no pending action   *)
(* could have been decided.                                                *)
NothingEligibleWaits ==
    InOrder /\ level.phase = "wait" =>
        \A a \in level.pending : ~DepsResolved(def, level, a)

=============================================================================
