---------------------------- MODULE WorkflowRun ----------------------------
(***************************************************************************)
(* A whole workflow run (workflow_engine/src: runner.rs, container.rs,     *)
(* scheduler.rs, the outputs of engine.rs and the reports of status.rs):   *)
(* levels of actions nested in If, Foreach, Until and Try, iterations of a *)
(* Foreach running side by side, outputs recorded in the context of the    *)
(* iteration, and the status reports a viewer sees.                        *)
(*                                                                         *)
(* The run is one task.  run_level and execute_foreach poll their futures  *)
(* themselves (FuturesUnordered) and nothing is spawned, so between two    *)
(* awaits nothing else of the run happens: Quiet holds in the states where *)
(* the task is waiting and may be woken, and only there may an action of   *)
(* a level start, a leaf end or an iteration be polled first.  Which of    *)
(* the waiting futures comes next is left open.                            *)
(*                                                                         *)
(* What expressions evaluate to and what leaves do is left open too: a     *)
(* condition is truthy, falsy or an error, a list has up to MaxItems       *)
(* items, a leaf ends Succeeded or Failed.                                 *)
(***************************************************************************)
EXTENDS RunLevel, Sequences, SequencesExt

CONSTANTS
    RootIds,    \* the ids of the top level, the same in all flows
    Flows,      \* the flows that may be run
    MaxItems    \* bound on the length of a Foreach list

(* A flow gives a level for every path: the empty path is the top level,   *)
(* the path of a container's level ends in the container's id and "body"   *)
(* (actions) or "other" (else, catch).  A level is an ActionMap as in      *)
(* RunLevel, with the kind of each action and the limit.count of an Until. *)
ASSUME WorkflowAssumption ==
    \A f \in Flows : <<>> \in DOMAIN f /\ Ids(f[<<>>]) = RootIds

VARIABLES
    flow,    \* the definition
    result,  \* of run_workflow
    levels,  \* <<path, scope>> -> local variables of the run_level there
    exec,    \* <<level, id>> -> progress of the execute_action there
    data,    \* scope -> the outputs recorded in its RunContext, by id
    status   \* <<scope, id>> -> the status reported last

vars == <<flow, result, levels, exec, data, status>>

(* insert and extend of a map. *)
Put(map, x, value) == [y \in DOMAIN map \cup {x} |-> IF y = x THEN value ELSE map[y]]

Extend(map, new) ==
    [x \in DOMAIN map \cup DOMAIN new |-> IF x \in DOMAIN new THEN new[x] ELSE map[x]]

(* A scope is the sequence of Foreach iterations around an action. *)
RootKey == <<<<>>, <<>>>>

Def(k) == flow[k[1]]

Kind(k, a) == Def(k).kind[a]

(* The level of a container, absent for a branch that is not given. *)
Inner(k, a, branch) == <<Append(k[1], <<a, branch>>), k[2]>>

Given(k) == k[1] \in DOMAIN flow

IterationScope(k, a, index) == Append(k[2], <<a, index>>)

Iteration(k, a, index) == <<Append(k[1], <<a, "body">>), IterationScope(k, a, index)>>

(* The container action a level belongs to. *)
Owner(k) ==
    LET c == Last(k[1])[1]
        parent == Front(k[1])
    IN  <<<<parent, IF flow[parent].kind[c] = "Foreach" THEN Front(k[2]) ELSE k[2]>>, c>>

-----------------------------------------------------------------------------
Init ==
    /\ flow \in Flows
    /\ result = "new"
    /\ levels = <<>> /\ exec = <<>> /\ data = <<>> /\ status = <<>>

(* validate goes through all levels, then the top level starts. *)
RunWorkflow ==
    /\ result = "new"
    /\ IF \A path \in DOMAIN flow : Validate(flow[path])
       THEN /\ result' = "running"
            /\ levels' = [k \in {RootKey} |-> NewLevel(flow[<<>>])]
            /\ data' = [s \in {<<>>} |-> <<>>]
       ELSE /\ result' = "rejected"
            /\ UNCHANGED <<levels, data>>
    /\ UNCHANGED <<flow, exec, status>>

(* The task waits: every level for a future, no executor between awaits. *)
Quiet ==
    /\ result = "running"
    /\ \A k \in DOMAIN levels : levels[k].phase \in {"wait", "closed"}
    /\ \A i \in DOMAIN exec : exec[i].stage \notin {"start", "head"}

-----------------------------------------------------------------------------
(* run_level *)

(* A slip: the actions of a level are taken in any order. *)
DecideFrontUnordered(k) ==
    /\ levels[k].phase = "pass"
    /\ \E a \in levels[k].pending : levels' = [levels EXCEPT ![k] = Decide(Def(k), @, a)]
    /\ UNCHANGED <<flow, result, exec, data, status>>

DecideFront(k) ==
    /\ levels[k].phase = "pass"
    /\ \E a \in levels[k].pending :
        /\ IsFront(Def(k), levels[k], a)
        /\ levels' = [levels EXCEPT ![k] = Decide(Def(k), @, a)]
    /\ UNCHANGED <<flow, result, exec, data, status>>

PassEnds(k) ==
    /\ levels[k].phase = "pass"
    /\ levels[k].pending = {}
    /\ levels' = [levels EXCEPT ![k] = EndPass(@)]
    /\ UNCHANGED <<flow, result, exec, data, status>>

(* A slip: an iteration records into the contexts around it as well. *)
RecordOutputsLeaking(d, k, a, error) ==
    [s \in DOMAIN d |-> IF IsPrefix(s, k[2])
                        THEN Put(d[s], a, [by |-> k[2], error |-> error]) ELSE d[s]]

(* StatusSink::report; the sink knows its iteration. *)
Report(st, k, a, new) == Put(st, <<k[2], a>>, new)

(* record_outputs, into the context of the iteration.  Only the error that *)
(* a Try records is told apart from other outputs.                         *)
RecordOutputs(d, k, a, error) ==
    [d EXCEPT ![k[2]] = Put(@, a, [by |-> k[2], error |-> error])]

(* execute_action returns: the end is reported, the level takes the result *)
(* and, of a success, the outputs.  ls, d and st are the levels, the data  *)
(* and the reports as the executor leaves them.                            *)
Finish(k, a, outcome, error, ls, d, st) ==
    /\ levels' = [ls EXCEPT ![k] = Resolve(@, a, outcome)]
    /\ exec' = [i \in DOMAIN exec \ {<<k, a>>} |-> exec[i]]
    /\ data' = IF outcome = "Succeeded" THEN RecordOutputs(d, k, a, error) ELSE d
    /\ status' = Report(st, k, a, outcome)
    /\ UNCHANGED <<flow, result>>

End(k, a, outcome) == Finish(k, a, outcome, FALSE, levels, data, status)

-----------------------------------------------------------------------------
(* execute_action *)

Progress(stage) == [stage |-> stage, round |-> 0, queued |-> {}, open |-> {}, failed |-> FALSE]

(* The future of an action is polled for the first time. *)
StartAction(k) ==
    /\ Quiet
    /\ \E a \in levels[k].running :
        /\ <<k, a>> \notin DOMAIN exec
        /\ exec' = Put(exec, <<k, a>>, Progress(IF Kind(k, a) = "leaf" THEN "leaf" ELSE "start"))
        /\ status' = Report(status, k, a, "Running")
    /\ UNCHANGED <<flow, result, levels, data>>

LeafEnds(k, a) ==
    /\ Quiet
    /\ exec[<<k, a>>].stage = "leaf"
    /\ \E outcome \in {"Succeeded", "Failed"} : End(k, a, outcome)

(* A field is missing or its expression fails (a Try has no expression). *)
ContainerErrs(k, a) ==
    /\ exec[<<k, a>>].stage = "start"
    /\ Kind(k, a) = "Try" => ~Given(Inner(k, a, "body"))
    /\ End(k, a, "Failed")

(* The executor runs a level and awaits it. *)
OpenLevel(k, a, branch, stage, round, ls) ==
    /\ levels' = Put(ls, Inner(k, a, branch), NewLevel(Def(Inner(k, a, branch))))
    /\ exec' = [exec EXCEPT ![<<k, a>>].stage = stage, ![<<k, a>>].round = round]

(* execute_if: body if the expression is truthy, other if not. *)
StartIf(k, a) ==
    /\ exec[<<k, a>>].stage = "start" /\ Kind(k, a) = "If"
    /\ \E branch \in {"body", "other"} :
        IF Given(Inner(k, a, branch))
        THEN /\ OpenLevel(k, a, branch, branch, 0, levels)
             /\ UNCHANGED <<flow, result, data, status>>
        ELSE End(k, a, "Succeeded")

StartTry(k, a) ==
    /\ exec[<<k, a>>].stage = "start" /\ Kind(k, a) = "Try"
    /\ Given(Inner(k, a, "body"))
    /\ OpenLevel(k, a, "body", "body", 0, levels)
    /\ UNCHANGED <<flow, result, data, status>>

StartUntil(k, a) ==
    /\ exec[<<k, a>>].stage = "start" /\ Kind(k, a) = "Until"
    /\ Given(Inner(k, a, "body"))
    /\ exec' = [exec EXCEPT ![<<k, a>>].stage = "head"]
    /\ UNCHANGED <<flow, result, levels, data, status>>

(* RunContext::child: a copy of the outputs for every iteration. *)
Children(k, a, total) ==
    [s \in {IterationScope(k, a, index) : index \in 1 .. total} |-> data[k[2]]]

(* execute_foreach: all items get their context at once. *)
StartForeach(k, a) ==
    /\ exec[<<k, a>>].stage = "start" /\ Kind(k, a) = "Foreach"
    /\ \E total \in 0 .. MaxItems :
        IF total = 0 \/ ~Given(Inner(k, a, "body"))
        THEN End(k, a, "Succeeded")
        ELSE /\ exec' = [exec EXCEPT ![<<k, a>>].stage = "iterations",
                                     ![<<k, a>>].queued = 1 .. total]
             /\ data' = Extend(data, Children(k, a, total))
             /\ UNCHANGED <<flow, result, levels, status>>

-----------------------------------------------------------------------------
(* Containers *)

(* The level is left. *)
Closed(k) == [levels EXCEPT ![k].phase = "closed"]

(* A slip: the skipped actions of a level are forgotten. *)
ReportNothing(k) == status

(* report_skipped reports what a finished level skipped. *)
ReportSkipped(k) ==
    LET skipped == {a \in Ids(Def(k)) : levels[k].outcomes[a] = "Skipped"}
    IN  Extend(status, [i \in {<<k[2], a>> : a \in skipped} |-> "Skipped"])

OutcomeOf(k) == IF AllOk(levels[k]) THEN "Succeeded" ELSE "Failed"

(* The level of container a of k came to its end and its executor goes on. *)
Returns(k, a, branch) ==
    /\ exec[<<k, a>>].stage = branch
    /\ levels[Inner(k, a, branch)].phase = "done"

IfReturns(k, a) ==
    \E branch \in {"body", "other"} :
        LET inner == Inner(k, a, branch)
        IN  /\ Kind(k, a) = "If"
            /\ Returns(k, a, branch)
            /\ Finish(k, a, OutcomeOf(inner), FALSE, Closed(inner), data, ReportSkipped(inner))

(* The levels inside this one belong to an earlier round of a loop. *)
WithoutInside(k) ==
    [j \in {j \in DOMAIN levels : ~(IsStrictPrefix(k[1], j[1]) /\ IsPrefix(k[2], j[2]))} |->
        Closed(k)[j]]

(* A body that failed has its error recorded before catch runs. *)
TryBodyReturns(k, a) ==
    LET inner == Inner(k, a, "body")
        recorded == RecordOutputs(data, k, a, TRUE)
    IN  /\ Kind(k, a) = "Try"
        /\ Returns(k, a, "body")
        /\ IF AllOk(levels[inner])
           THEN Finish(k, a, "Succeeded", FALSE, Closed(inner), data, ReportSkipped(inner))
           ELSE IF Given(Inner(k, a, "other"))
                THEN /\ OpenLevel(k, a, "other", "other", 0, Closed(inner))
                     /\ data' = recorded
                     /\ status' = ReportSkipped(inner)
                     /\ UNCHANGED <<flow, result>>
                ELSE Finish(k, a, "Failed", FALSE, Closed(inner), recorded, ReportSkipped(inner))

(* A slip: the outputs of a Try that recovered are empty. *)
TryCatchReturnsEmpty(k, a) ==
    LET inner == Inner(k, a, "other")
    IN  /\ Kind(k, a) = "Try"
        /\ Returns(k, a, "other")
        /\ Finish(k, a, OutcomeOf(inner), FALSE, Closed(inner), data, ReportSkipped(inner))

(* A slip: catch handles the failure whatever becomes of it. *)
TryCatchReturnsAlways(k, a) ==
    LET inner == Inner(k, a, "other")
    IN  /\ Kind(k, a) = "Try"
        /\ Returns(k, a, "other")
        /\ Finish(k, a, "Succeeded", TRUE, Closed(inner), data, ReportSkipped(inner))

TryCatchReturns(k, a) ==
    LET inner == Inner(k, a, "other")
    IN  /\ Kind(k, a) = "Try"
        /\ Returns(k, a, "other")
        /\ Finish(k, a, OutcomeOf(inner), TRUE, Closed(inner), data, ReportSkipped(inner))

(* The head of the loop of execute_until: out of rounds, past the deadline *)
(* (when there is one), or another round.                                  *)
UntilHead(k, a) ==
    LET round == exec[<<k, a>>].round
    IN  /\ exec[<<k, a>>].stage = "head"
        /\ \/ End(k, a, "Failed")
           \/ /\ round < Def(k).count[a]
              /\ OpenLevel(k, a, "body", "body", round, levels)
              /\ UNCHANGED <<flow, result, data, status>>

(* A slip: a round that came to nothing is not counted. *)
UntilReturnsUncounted(k, a) ==
    LET inner == Inner(k, a, "body")
    IN  /\ Kind(k, a) = "Until"
        /\ Returns(k, a, "body")
        /\ \/ Finish(k, a, OutcomeOf(inner), FALSE, Closed(inner), data, ReportSkipped(inner))
           \/ /\ AllOk(levels[inner])
              /\ exec' = [exec EXCEPT ![<<k, a>>].stage = "head"]
              /\ levels' = WithoutInside(inner)
              /\ status' = ReportSkipped(inner)
              /\ UNCHANGED <<flow, result, data>>

(* After a round: a failure ends the loop, so does an error in the         *)
(* condition or its being truthy; otherwise back to the head.              *)
UntilReturns(k, a) ==
    LET inner == Inner(k, a, "body")
    IN  /\ Kind(k, a) = "Until"
        /\ Returns(k, a, "body")
        /\ \/ Finish(k, a, "Failed", FALSE, Closed(inner), data, ReportSkipped(inner))
           \/ /\ AllOk(levels[inner])
              /\ Finish(k, a, "Succeeded", FALSE, Closed(inner), data, ReportSkipped(inner))
           \/ /\ AllOk(levels[inner])
              /\ exec' = [exec EXCEPT ![<<k, a>>].stage = "head", ![<<k, a>>].round = @ + 1]
              /\ levels' = WithoutInside(inner)
              /\ status' = ReportSkipped(inner)
              /\ UNCHANGED <<flow, result, data>>

(* The future of an iteration is polled for the first time. *)
IterationStarts(k, a) ==
    /\ Quiet
    /\ \E index \in exec[<<k, a>>].queued :
        LET inner == Iteration(k, a, index)
        IN  /\ levels' = Put(levels, inner, NewLevel(Def(inner)))
            /\ exec' = [exec EXCEPT ![<<k, a>>].queued = @ \ {index},
                                    ![<<k, a>>].open = @ \cup {index}]
    /\ UNCHANGED <<flow, result, data, status>>

(* A slip: the first failure ends the loop. *)
IterationReturnsFast(k, a) ==
    \E index \in exec[<<k, a>>].open :
        LET inner == Iteration(k, a, index)
        IN  /\ levels[inner].phase = "done"
            /\ IF AllOk(levels[inner]) /\ (exec[<<k, a>>].open # {index} \/ exec[<<k, a>>].queued # {})
               THEN /\ exec' = [exec EXCEPT ![<<k, a>>].open = @ \ {index}]
                    /\ levels' = Closed(inner)
                    /\ status' = ReportSkipped(inner)
                    /\ UNCHANGED <<flow, result, data>>
               ELSE Finish(k, a, OutcomeOf(inner), FALSE, Closed(inner), data, ReportSkipped(inner))

(* One iteration came to its end; the loop ends with the last one, and is  *)
(* Failed if any was.                                                      *)
IterationReturns(k, a) ==
    \E index \in exec[<<k, a>>].open :
        LET inner == Iteration(k, a, index)
            failed == exec[<<k, a>>].failed \/ ~AllOk(levels[inner])
        IN  /\ levels[inner].phase = "done"
            /\ IF exec[<<k, a>>].open = {index} /\ exec[<<k, a>>].queued = {}
               THEN Finish(k, a, IF failed THEN "Failed" ELSE "Succeeded", FALSE,
                           Closed(inner), data, ReportSkipped(inner))
               ELSE /\ exec' = [exec EXCEPT ![<<k, a>>].open = @ \ {index},
                                            ![<<k, a>>].failed = failed]
                    /\ levels' = Closed(inner)
                    /\ status' = ReportSkipped(inner)
                    /\ UNCHANGED <<flow, result, data>>

(* run_workflow has its result. *)
RunReturns ==
    /\ result = "running"
    /\ levels[RootKey].phase = "done"
    /\ result' = IF AllOk(levels[RootKey]) THEN "Ok" ELSE "Err"
    /\ levels' = Closed(RootKey)
    /\ status' = ReportSkipped(RootKey)
    /\ UNCHANGED <<flow, exec, data>>

-----------------------------------------------------------------------------
Next ==
    \/ RunWorkflow
    \/ RunReturns
    \/ \E k \in DOMAIN levels :
        \/ DecideFront(k)
        \/ PassEnds(k)
        \/ StartAction(k)
    \/ \E i \in DOMAIN exec :
        \/ LeafEnds(i[1], i[2])
        \/ ContainerErrs(i[1], i[2])
        \/ StartIf(i[1], i[2])
        \/ StartTry(i[1], i[2])
        \/ StartUntil(i[1], i[2])
        \/ StartForeach(i[1], i[2])
        \/ IfReturns(i[1], i[2])
        \/ TryBodyReturns(i[1], i[2])
        \/ TryCatchReturns(i[1], i[2])
        \/ UntilHead(i[1], i[2])
        \/ UntilReturns(i[1], i[2])
        \/ IterationStarts(i[1], i[2])
        \/ IterationReturns(i[1], i[2])

Spec == Init /\ [][Next]_vars

(* The task is polled whenever it can go on, and every leaf ends. *)
FairSpec == Spec /\ WF_vars(Next)

-----------------------------------------------------------------------------
(* A failure is not swallowed: an action that failed made the container    *)
(* around it fail, unless that is a Try and it was in the body, whose      *)
(* catch then succeeded; and so on outwards to the result of the run.      *)
Recovered(k, o) ==
    /\ Kind(o[1], o[2]) = "Try" /\ k = Inner(o[1], o[2], "body")
    /\ Inner(o[1], o[2], "other") \in DOMAIN levels
    /\ AllOk(levels[Inner(o[1], o[2], "other")])

FailureNotSwallowed ==
    \A k \in DOMAIN levels :
        levels[k].phase = "closed" /\ ~AllOk(levels[k]) =>
            IF k = RootKey THEN result = "Err"
            ELSE LET o == Owner(k)
                     outcome == levels[o[1]].outcomes[o[2]]
                 IN  \/ outcome = "Failed"
                     \/ outcome = "none" /\ o \in DOMAIN exec
                     \/ Recovered(k, o)

(* The status a viewer saw last. *)
Reported(k, a) == IF <<k[2], a>> \in DOMAIN status THEN status[<<k[2], a>>] ELSE "none"

(* What the viewer saw last of an action is what became of it: the reports *)
(* of execute_action and report_skipped against the outcomes of the        *)
(* levels, the iterations of a loop kept apart.                            *)
StatusMatchesOutcome ==
    \A k \in DOMAIN levels : \A a \in Ids(Def(k)) :
        LET outcome == levels[k].outcomes[a]
        IN  /\ outcome \in {"Succeeded", "Failed"} => Reported(k, a) = outcome
            /\ outcome = "Skipped" /\ levels[k].phase = "closed" =>
                    Reported(k, a) = "Skipped"
            /\ <<k, a>> \in DOMAIN exec => Reported(k, a) = "Running"

(* Nothing outlives its container: an open level belongs to an executor    *)
(* that awaits it, so when a container has resolved, or the run has its    *)
(* result, nothing inside still runs ("All iterations run to completion    *)
(* regardless of any single iteration's failure").                         *)
NothingOutlivesItsContainer ==
    \A k \in DOMAIN levels :
        levels[k].phase # "closed" =>
            IF k = RootKey THEN result = "running" ELSE Owner(k) \in DOMAIN exec

(* Iterations do not see one another's outputs, and nothing outside sees   *)
(* theirs: what a context holds was written in it or in one around it      *)
(* (RunContext::child).                                                    *)
IterationsIsolated ==
    \A s \in DOMAIN data : \A a \in DOMAIN data[s] : IsPrefix(data[s][a].by, s)

(* An action that runs can read the outputs of the dependencies that       *)
(* succeeded: they were recorded before it was dispatched, and in the      *)
(* context it reads.                                                       *)
DependenciesReadable ==
    \A i \in DOMAIN exec : \A d \in Deps(Def(i[1]), i[2]) :
        levels[i[1]].outcomes[d] = "Succeeded" =>
            /\ d \in DOMAIN data[i[1][2]]
            /\ data[i[1][2]][d].by = i[1][2]

(* The error of a Try can be read by its catch and, once it recovered, by  *)
(* what runs after it ("or it would be silently erased").                  *)
CaughtErrorReadable ==
    \A k \in DOMAIN levels :
        Len(k[1]) > 0 /\ Last(k[1])[2] = "other" =>
            LET o == Owner(k)
            IN  Kind(o[1], o[2]) = "Try" /\ levels[o[1]].outcomes[o[2]] # "Failed" =>
                    o[2] \in DOMAIN data[k[2]] /\ data[k[2]][o[2]].error

(* What an action may read when it runs is there: the outputs of its       *)
(* dependencies, and the error that its catch or a later action handles    *)
(* (RunContext::record_outputs, execute_try).                              *)
InputsReadable == DependenciesReadable /\ CaughtErrorReadable

(* Every run ends: loops are bounded, and no level waits for ever. *)
RunEnds == <>(result \in {"rejected", "Ok", "Err"})

(* Seen from the top level, a container is an action like any other: the   *)
(* run implements the scheduler of one level.  A flow refused for a level  *)
(* further in is no step of the top level.                                 *)
Root ==
    INSTANCE Scheduler WITH
        Actions <- RootIds,
        Flows <- {f[<<>>] : f \in Flows},
        def <- flow[<<>>],
        level <- IF RootKey \in DOMAIN levels
                 THEN [levels[RootKey] EXCEPT !.phase = IF @ = "closed" THEN "done" ELSE @]
                 ELSE [NewLevel(flow[<<>>]) EXCEPT
                        !.phase = IF result = "rejected" /\ ~Validate(flow[<<>>])
                                  THEN "rejected" ELSE "new"]

RootIsScheduled == Root!Spec
=============================================================================
