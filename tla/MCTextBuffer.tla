---------------------------- MODULE MCTextBuffer ----------------------------
(* Model-checking instances of TextBuffer. *)
EXTENDS TextBuffer

(* Three replicas that edit at once, operations arriving one by one. *)
ThreeReplicas ==
    [replicas |-> 3, base_len |-> 1, insert |-> 1, edits |-> 3, undos |-> 0,
     group |-> 0, batch |-> 1, pushes |-> 0, waits |-> 0]

(* Two replicas that also undo, redo and undo each other's edits,          *)
(* operations arriving in batches.                                         *)
TwoReplicasUndo ==
    [replicas |-> 2, base_len |-> 0, insert |-> 1, edits |-> 2, undos |-> 3,
     group |-> 1, batch |-> 2, pushes |-> 1, waits |-> 0]

(* Two replicas that wait for each other's edits and versions. *)
TwoReplicasWait ==
    [replicas |-> 2, base_len |-> 0, insert |-> 1, edits |-> 3, undos |-> 1,
     group |-> 0, batch |-> 2, pushes |-> 0, waits |-> 1]

MCScopes == {ThreeReplicas, TwoReplicasUndo, TwoReplicasWait}
=============================================================================
