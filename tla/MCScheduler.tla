---------------------------- MODULE MCScheduler ----------------------------
(***************************************************************************)
(* Instances of Scheduler.  MCFlows holds all graphs of three actions,     *)
(* cyclic ones included, whose dependencies accept success or accept the   *)
(* rest; all graphs in the order of the file with every set of accepted    *)
(* outcomes; and flows that name an action that is not there.  The file    *)
(* order is fixed: renaming the actions gives the other orders.            *)
(***************************************************************************)
EXTENDS Scheduler

MCActions == 1 .. 3

Place == [a \in MCActions |-> a]

(* What an action may say of the actions in S. *)
Dependencies(S, accepts) == UNION {[deps -> accepts] : deps \in SUBSET S}

Level(runAfter) == [pos |-> Place, runAfter |-> runAfter]

AnyGraph ==
    {Level(r) : r \in [MCActions -> Dependencies(MCActions, {{"Succeeded"}, {"Failed", "Skipped"}})]}

OrderedGraph ==
    {Level(r) : r \in {f \in [MCActions -> Dependencies(MCActions \ {3}, SUBSET RunOutcome)] :
                        \A a \in MCActions : \A d \in DOMAIN f[a] : d < a}}

Dangling ==
    {Level([a \in MCActions |-> IF a = 2 THEN [d \in {1, 4} |-> {"Succeeded"}] ELSE <<>>])}

MCFlows == AnyGraph \cup OrderedGraph \cup Dangling
=============================================================================
