--------------------------- MODULE MCWorkflowRun ---------------------------
(***************************************************************************)
(* Flows for WorkflowRun, each in the order of its dependencies.           *)
(***************************************************************************)
EXTENDS WorkflowRun, TLC

MCRootIds == {"a", "b"}

(* A level from its ids in file order, the dependencies and kinds that are *)
(* not the default, and the count of its loops.                            *)
Map(ids, after, kinds) ==
    LET names == {ids[n] : n \in DOMAIN ids}
    IN  [pos |-> [x \in names |-> CHOOSE n \in DOMAIN ids : ids[n] = x],
         runAfter |-> [x \in names |-> IF x \in DOMAIN after THEN after[x] ELSE <<>>],
         kind |-> [x \in names |-> IF x \in DOMAIN kinds THEN kinds[x] ELSE "leaf"],
         count |-> [x \in names |-> 2]]

Ok == {"Succeeded"}
Either == {"Succeeded", "Failed"}

Path1(x, branch) == <<<<x, branch>>>>
Path2(x, b1, y, b2) == <<<<x, b1>>, <<y, b2>>>>

(* A loop whose items are tried: the body of an item is a Try with two     *)
(* chained leaves, its catch a leaf; b follows the loop either way.        *)
TryInForeach ==
    <<>> :> Map(<<"a", "b">>, "b" :> ("a" :> Either), "a" :> "Foreach")
    @@ Path1("a", "body") :> Map(<<"t">>, <<>>, "t" :> "Try")
    @@ Path2("a", "body", "t", "body") :> Map(<<"x", "y">>, "y" :> ("x" :> Ok), <<>>)
    @@ Path2("a", "body", "t", "other") :> Map(<<"z">>, <<>>, <<>>)

(* A loop over items next to a leaf, inside a Try without catch. *)
ForeachInTry ==
    <<>> :> Map(<<"a", "b">>, "b" :> ("a" :> {"Failed"}), "a" :> "Try")
    @@ Path1("a", "body") :> Map(<<"l", "f">>, <<>>, "f" :> "Foreach")
    @@ Path2("a", "body", "f", "body") :> Map(<<"x", "y">>, "y" :> ("x" :> {"Failed"}), <<>>)

(* A retry loop with a Try inside, a condition beside it. *)
TryInUntil ==
    <<>> :> Map(<<"a", "b">>, <<>>, "a" :> "Until" @@ "b" :> "If")
    @@ Path1("a", "body") :> Map(<<"t", "u">>, "u" :> ("t" :> Ok), "t" :> "Try")
    @@ Path2("a", "body", "t", "body") :> Map(<<"x">>, <<>>, <<>>)
    @@ Path2("a", "body", "t", "other") :> Map(<<"z">>, <<>>, <<>>)
    @@ Path1("b", "body") :> Map(<<"v">>, <<>>, <<>>)

(* A loop in a loop, with a condition that has both branches. *)
ForeachInForeach ==
    <<>> :> Map(<<"a", "b">>, "b" :> ("a" :> Ok), "a" :> "Foreach" @@ "b" :> "If")
    @@ Path1("a", "body") :> Map(<<"f">>, <<>>, "f" :> "Foreach")
    @@ Path2("a", "body", "f", "body") :> Map(<<"x">>, <<>>, <<>>)
    @@ Path1("b", "body") :> Map(<<"v">>, <<>>, <<>>)
    @@ Path1("b", "other") :> Map(<<"w">>, <<>>, <<>>)

(* Containers without their levels. *)
Bare == <<>> :> Map(<<"a", "b">>, "b" :> ("a" :> Either), "a" :> "Try" @@ "b" :> "Foreach")

(* A cycle inside a branch, and one at the top. *)
InnerCycle ==
    <<>> :> Map(<<"a", "b">>, <<>>, "a" :> "If")
    @@ Path1("a", "other") :> Map(<<"x", "y">>, "x" :> ("y" :> Ok) @@ "y" :> ("x" :> Ok), <<>>)

RootCycle == <<>> :> Map(<<"a", "b">>, "a" :> ("b" :> Ok) @@ "b" :> ("a" :> Ok), <<>>)

MCFlows == {TryInForeach, ForeachInTry, TryInUntil, ForeachInForeach, Bare, InnerCycle, RootCycle}
=============================================================================
