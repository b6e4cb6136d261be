----------------------------- MODULE TextBuffer -----------------------------
(***************************************************************************)
(* The replicated text buffer, src/crates/text/src/text.rs, with the       *)
(* clocks of src/crates/clock, the undo map and the queue of deferred      *)
(* operations: local edits, undo and redo, and the application of the      *)
(* other replicas' operations in any order and any number of times.        *)
(*                                                                         *)
(* A fragment of n characters is n fragments of one character here, so     *)
(* that splitting fragments and their locators is left out: a fragment's   *)
(* place is its index.  An edit replaces one range.                        *)
(***************************************************************************)
EXTENDS Naturals, FiniteSets, FiniteSetsExt, Sequences, SequencesExt

CONSTANT
    Scopes      \* the instances examined, see Scope

(* The bounds of an instance. *)
Scope ==
    [replicas : Nat \ {0}, \* the replicas are 0 .. replicas - 1; 0 is ReplicaId::LOCAL
     base_len : Nat,       \* the length of the base text
     insert   : Nat,       \* bound on the text of an edit
     edits    : Nat,       \* bound on all edits
     undos    : Nat,       \* bound on all undos and redos
     group    : Nat,       \* bound on the transactions grouped at once
     batch    : Nat,       \* bound on the operations of one apply_ops
     pushes   : Nat,       \* bound on transactions taken over from another replica
     waits    : Nat]       \* bound on waits for edits or versions

ASSUME TextBufferAssumption == Scopes \subseteq Scope

VARIABLES
    scope,          \* the instance, chosen once
    buffer,         \* Buffer, of every replica
    undo_stack,     \* its History::undo_stack, transactions as sets of edit ids
    redo_stack,     \* its History::redo_stack
    operations,     \* every operation that was broadcast
    pushes,         \* the number of transactions taken over
    waits           \* the number of waits

vars == <<scope, buffer, undo_stack, redo_stack, operations, pushes, waits>>

Replicas == 0 .. scope.replicas - 1

-----------------------------------------------------------------------------
(* Clocks: a Lamport timestamp is <<value, replica_id>>, a Global version  *)
(* a function of the replicas.                                             *)

Before(s, t) == s[1] < t[1] \/ (s[1] = t[1] /\ s[2] < t[2])

Observed(version, t) == version[t[2]] >= t[1]

ObservedAll(version, other) == \A r \in Replicas : version[r] >= other[r]

Observe(version, t) == [version EXCEPT ![t[2]] = Max({@, t[1]})]

-----------------------------------------------------------------------------
(* Undo: an edit is undone if its highest count is odd.                    *)

UndoCount(undo_map, edit) == Max({0} \cup {u.count : u \in {w \in undo_map : w.edit = edit}})

IsUndone(undo_map, edit) == UndoCount(undo_map, edit) % 2 = 1

InsertUndo(undo_map, undo) ==
    undo_map \cup {[edit |-> e, undo |-> undo.timestamp, count |-> undo.counts[e]] :
                        e \in DOMAIN undo.counts}

WasUndone(undo_map, edit, version) ==
    IsUndone({u \in undo_map : Observed(version, u.undo)}, edit)

IsVisible(f, undo_map) ==
    /\ ~IsUndone(undo_map, f.timestamp)
    /\ \A d \in f.deletions : IsUndone(undo_map, d)

WasVisible(f, version, undo_map) ==
    /\ Observed(version, f.timestamp)
    /\ ~WasUndone(undo_map, f.timestamp, version)
    /\ \A d \in f.deletions :
          Observed(version, d) => WasUndone(undo_map, d, version)

-----------------------------------------------------------------------------
(* Fragments.                                                              *)

NewFragments(timestamp, len) ==
    [k \in 1 .. len |-> [timestamp |-> timestamp, offset |-> k - 1,
                         deletions |-> {}, visible |-> TRUE]]

Delete(f, timestamp) == [f EXCEPT !.deletions = @ \cup {timestamp}, !.visible = FALSE]

(* How many of the first i fragments satisfy P. *)
CountUpTo(fragments, i, P(_)) == Cardinality({j \in 1 .. i : P(fragments[j])})

VisibleUpTo(fragments, i) == CountUpTo(fragments, i, LAMBDA f : f.visible)

VisibleLen(fragments) == VisibleUpTo(fragments, Len(fragments))

ObservedUpTo(fragments, version, i) ==
    CountUpTo(fragments, i, LAMBDA f : Observed(version, f.timestamp))

(* apply_edit_internal: the visible range start .. end in full offsets.    *)
(* The start is sought with Bias::Right, behind the deleted fragments; the *)
(* end is right behind the last fragment deleted.                          *)
FullRange(fragments, start, end) ==
    LET at(k) == {i \in 0 .. Len(fragments) : VisibleUpTo(fragments, i) = k}
        from  == Max(at(start))
    IN  [start |-> from, end |-> IF end = start THEN from ELSE Min(at(end))]

(* Splice the text of an edit in at index p and mark what it deletes. *)
Splice(fragments, p, timestamp, len, Deleted(_)) ==
    LET marked == [i \in DOMAIN fragments |->
                      IF Deleted(i) THEN Delete(fragments[i], timestamp) ELSE fragments[i]]
    IN  SubSeq(marked, 1, p) \o NewFragments(timestamp, len)
            \o SubSeq(marked, p + 1, Len(marked))

ApplyLocalEdit(fragments, edit) ==
    Splice(fragments, edit.start, edit.timestamp, edit.len,
           LAMBDA i : i \in edit.start + 1 .. edit.end /\ fragments[i].visible)

(* Behind the start of the range in the edit's version, and behind         *)
(* concurrent insertions with a higher timestamp.                          *)
InsertionPoint(fragments, edit) ==
    LET from == Min({i \in 0 .. Len(fragments) :
                        \/ ObservedUpTo(fragments, edit.version, i) >= edit.start
                        \/ i = Len(fragments)})
    IN  Max({p \in from .. Len(fragments) :
                \A i \in from + 1 .. p : Before(edit.timestamp, fragments[i].timestamp)})

(* Mutant of ApplyRemoteEdit: what is visible here and now is deleted. *)
ApplyRemoteEditNow(fragments, undo_map, edit) ==
    Splice(fragments, InsertionPoint(fragments, edit), edit.timestamp, edit.len,
           LAMBDA i : /\ Observed(edit.version, fragments[i].timestamp)
                      /\ ObservedUpTo(fragments, edit.version, i) \in edit.start + 1 .. edit.end
                      /\ fragments[i].visible)

(* What was visible in the edit's version is deleted; text inserted        *)
(* concurrently stays.                                                     *)
ApplyRemoteEdit(fragments, undo_map, edit) ==
    Splice(fragments, InsertionPoint(fragments, edit), edit.timestamp, edit.len,
           LAMBDA i : /\ Observed(edit.version, fragments[i].timestamp)
                      /\ ObservedUpTo(fragments, edit.version, i) \in edit.start + 1 .. edit.end
                      /\ WasVisible(fragments[i], edit.version, undo_map))

(* fragment_ids_for_edits: what the edits inserted or deleted. *)
Touches(f, edits) == f.timestamp \in edits \/ f.deletions \cap edits # {}

(* Mutant of ApplyUndo: a touched fragment is simply toggled. *)
ApplyUndoToggles(b, undo) ==
    LET undo_map == InsertUndo(b.undo_map, undo)
        Updated(f) == IF Touches(f, DOMAIN undo.counts)
                      THEN [f EXCEPT !.visible = ~@] ELSE f
    IN  [b EXCEPT !.undo_map = undo_map,
                  !.fragments = [i \in DOMAIN @ |-> Updated(@[i])]]

ApplyUndo(b, undo) ==
    LET undo_map == InsertUndo(b.undo_map, undo)
        Updated(f) == IF Touches(f, DOMAIN undo.counts)
                      THEN [f EXCEPT !.visible = IsVisible(f, undo_map)] ELSE f
    IN  [b EXCEPT !.undo_map = undo_map,
                  !.fragments = [i \in DOMAIN @ |-> Updated(@[i])]]

-----------------------------------------------------------------------------
(* The operations of other replicas.                                       *)

ObserveOp(b, op) ==
    [b EXCEPT !.version = Observe(@, op.timestamp),
              !.lamport_clock = Max({@, op.timestamp[1]}) + 1]

ApplyNew(b, op) ==
    IF op.kind = "edit"
    THEN [ObserveOp(b, op) EXCEPT
             !.fragments = ApplyRemoteEdit(@, b.undo_map, op),
             !.edit_id_resolvers = @ \ {op.timestamp}]
    ELSE ObserveOp(ApplyUndo(b, op), op)

(* Mutant of NotifyVersions: a waiter is told only of the exact version. *)
NotifyVersionsExactly(b) ==
    [b EXCEPT !.wait_for_version_txs = {v \in @ : v # b.version}]

NotifyVersions(b) ==
    [b EXCEPT !.wait_for_version_txs = {v \in @ : ~ObservedAll(b.version, v)}]

ApplyOp(b, op) ==
    NotifyVersions(IF Observed(b.version, op.timestamp) THEN b ELSE ApplyNew(b, op))

(* Mutant of CanApplyOp: only the operations of the same replica count. *)
CanApplyOpFifo(b, op) ==
    /\ op.timestamp[2] \notin b.deferred_replicas
    /\ b.version[op.timestamp[2]] >= op.version[op.timestamp[2]]

CanApplyOp(b, op) ==
    /\ op.timestamp[2] \notin b.deferred_replicas
    /\ ObservedAll(b.version, op.version)

ApplyOrDefer(b, op) ==
    IF CanApplyOp(b, op) THEN ApplyOp(b, op)
    ELSE [b EXCEPT !.deferred_replicas = @ \cup {op.timestamp[2]},
                   !.deferred_ops = @ \cup {op}]

(* The operation that OperationQueue yields last, or first. *)
Latest(ops) == CHOOSE o \in ops : \A p \in ops : ~Before(o.timestamp, p.timestamp)

Earliest(ops) == CHOOSE o \in ops : \A p \in ops : ~Before(p.timestamp, o.timestamp)

(* A fold over a set of operations; the one chosen first comes last. *)
ApplyEach(b, ops, Choice(_)) ==
    MapThenFoldSet(LAMBDA op, c : ApplyOrDefer(c, op), b, LAMBDA op : op, Choice, ops)

(* One pass over the deferred operations in the order of their timestamps. *)
FlushDeferredOps(b) ==
    ApplyEach([b EXCEPT !.deferred_replicas = {}, !.deferred_ops = {}],
              b.deferred_ops, Latest)

(* Mutant of ApplyAll: the queue is flushed before the new operations. *)
ApplyAllFlushFirst(b, ops) == FoldLeft(ApplyOrDefer, FlushDeferredOps(b), ops)

ApplyAll(b, ops) == FlushDeferredOps(FoldLeft(ApplyOrDefer, b, ops))

-----------------------------------------------------------------------------
(* The base text is an insertion of ReplicaId::LOCAL that every replica    *)
(* starts with.                                                            *)
Init ==
    /\ scope \in Scopes
    /\ buffer = [r \in Replicas |->
          [version |-> [q \in Replicas |-> IF q = 0 /\ scope.base_len > 0 THEN 1 ELSE 0],
           lamport_clock |-> IF scope.base_len > 0 THEN 2 ELSE 1,
           fragments |-> NewFragments(<<1, 0>>, scope.base_len),
           undo_map |-> {},
           deferred_ops |-> {},
           deferred_replicas |-> {},
           edit_id_resolvers |-> {},
           wait_for_version_txs |-> {}]]
    /\ undo_stack = [r \in Replicas |-> <<>>]
    /\ redo_stack = [r \in Replicas |-> <<>>]
    /\ operations = {}
    /\ pushes = 0
    /\ waits = 0

OpsOf(kind) == {op \in operations : op.kind = kind}

(* History::group: the last n transactions join the one before them,       *)
(* depending on the time between them.                                     *)
GroupTrailing(stack, n) ==
    LET keep == Len(stack) - n
    IN  Append(SubSeq(stack, 1, keep - 1), UNION {stack[i] : i \in keep .. Len(stack)})

(* end_transaction: the transaction is kept, redo starts anew. *)
EndTransaction(r, stack) ==
    /\ \E n \in 0 .. Min({scope.group, Len(stack) - 1}) :
           undo_stack' = [undo_stack EXCEPT ![r] = GroupTrailing(stack, n)]
    /\ redo_stack' = [redo_stack EXCEPT ![r] = <<>>]

(* edit: the transaction takes one tick of the clock (start_transaction),  *)
(* the operation the next.                                                 *)
Edit(r, start, end, len) ==
    LET b     == buffer[r]
        range == FullRange(b.fragments, start, end)
        op    == [kind |-> "edit", timestamp |-> <<b.lamport_clock + 1, r>>,
                  version |-> b.version, start |-> range.start, end |-> range.end,
                  len |-> len]
    IN  /\ Cardinality(OpsOf("edit")) < scope.edits
        /\ start < end \/ len > 0
        /\ buffer' = [buffer EXCEPT ![r] =
               [b EXCEPT !.fragments = ApplyLocalEdit(@, op),
                         !.version = Observe(@, op.timestamp),
                         !.lamport_clock = @ + 2]]
        /\ EndTransaction(r, Append(undo_stack[r], {op.timestamp}))
        /\ operations' = operations \cup {op}
        /\ UNCHANGED <<pushes, waits>>

(* Mutant of UndoOrRedo: the version is read after the operation was       *)
(* observed.                                                               *)
UndoOrRedoLate(r, transaction) ==
    LET b  == buffer[r]
        t  == <<b.lamport_clock, r>>
        op == [kind |-> "undo", timestamp |-> t, version |-> Observe(b.version, t),
               counts |-> [e \in transaction |-> UndoCount(b.undo_map, e) + 1]]
    IN  /\ Cardinality(OpsOf("undo")) < scope.undos
        /\ buffer' = [buffer EXCEPT ![r] =
               [ApplyUndo(b, op) EXCEPT !.version = op.version, !.lamport_clock = @ + 1]]
        /\ operations' = operations \cup {op}

(* undo_or_redo, undo_operations *)
UndoOrRedo(r, transaction) ==
    LET b  == buffer[r]
        t  == <<b.lamport_clock, r>>
        op == [kind |-> "undo", timestamp |-> t, version |-> b.version,
               counts |-> [e \in transaction |-> UndoCount(b.undo_map, e) + 1]]
    IN  /\ Cardinality(OpsOf("undo")) < scope.undos
        /\ buffer' = [buffer EXCEPT ![r] =
               [ApplyUndo(b, op) EXCEPT !.version = Observe(@, t), !.lamport_clock = @ + 1]]
        /\ operations' = operations \cup {op}

(* remove_from_undo, and pop_undo of the last one *)
RemoveFromUndo(r, i) ==
    /\ undo_stack' = [undo_stack EXCEPT ![r] = RemoveAt(@, i)]
    /\ redo_stack' = [redo_stack EXCEPT ![r] = Append(@, undo_stack[r][i])]

(* undo, or undo_transaction of a transaction further down the stack. *)
Undo(r, i) ==
    /\ UndoOrRedo(r, undo_stack[r][i])
    /\ RemoveFromUndo(r, i)
    /\ UNCHANGED <<pushes, waits>>

PopRedo(r) ==
    /\ redo_stack' = [redo_stack EXCEPT ![r] = Front(@)]
    /\ undo_stack' = [undo_stack EXCEPT ![r] = Append(@, Last(redo_stack[r]))]

Redo(r) ==
    /\ redo_stack[r] # <<>>
    /\ UndoOrRedo(r, Last(redo_stack[r]))
    /\ PopRedo(r)
    /\ UNCHANGED <<pushes, waits>>

(* push_transaction: a transaction of another replica whose edits have     *)
(* arrived (the project waits for them) can be undone here.                *)
PushTransaction(r, edit) ==
    /\ pushes < scope.pushes
    /\ edit.timestamp[2] # r
    /\ Observed(buffer[r].version, edit.timestamp)
    /\ undo_stack' = [undo_stack EXCEPT ![r] = Append(@, {edit.timestamp})]
    /\ pushes' = pushes + 1
    /\ UNCHANGED <<buffer, redo_stack, operations, waits>>

(* apply_ops; operations may arrive late, out of order and again. *)
ApplyOps(r, ops) ==
    /\ buffer' = [buffer EXCEPT ![r] = ApplyAll(@, ops)]
    /\ UNCHANGED <<undo_stack, redo_stack, operations, pushes, waits>>

WaitForEdits(r, edit) ==
    /\ waits < scope.waits
    /\ waits' = waits + 1
    /\ ~Observed(buffer[r].version, edit.timestamp)
    /\ buffer' = [buffer EXCEPT ![r].edit_id_resolvers = @ \cup {edit.timestamp}]
    /\ UNCHANGED <<undo_stack, redo_stack, operations, pushes>>

(* The version is that of another replica at some time. *)
WaitForVersion(r, version) ==
    /\ waits < scope.waits
    /\ waits' = waits + 1
    /\ ~ObservedAll(buffer[r].version, version)
    /\ buffer' = [buffer EXCEPT ![r].wait_for_version_txs = @ \cup {version}]
    /\ UNCHANGED <<undo_stack, redo_stack, operations, pushes>>

GiveUpWaiting(r) ==
    /\ buffer' = [buffer EXCEPT ![r].edit_id_resolvers = {},
                                ![r].wait_for_version_txs = {}]
    /\ UNCHANGED <<undo_stack, redo_stack, operations, pushes, waits>>

Next ==
    /\ UNCHANGED scope
    /\ \E r \in Replicas :
        \/ \E end \in 0 .. VisibleLen(buffer[r].fragments) : \E start \in 0 .. end :
              \E len \in 0 .. scope.insert : Edit(r, start, end, len)
        \/ \E i \in DOMAIN undo_stack[r] : Undo(r, i)
        \/ Redo(r)
        \/ \E edit \in OpsOf("edit") : PushTransaction(r, edit)
        \/ \E ops \in SeqOf(operations, scope.batch) \ {<<>>} : ApplyOps(r, ops)
        \/ \E edit \in OpsOf("edit") : WaitForEdits(r, edit)
        \/ \E q \in Replicas : WaitForVersion(r, buffer[q].version)
        \/ GiveUpWaiting(r)

Spec == Init /\ [][Next]_vars

-----------------------------------------------------------------------------
(* Properties.                                                             *)

(* Replicas that have observed the same operations hold the same text, in  *)
(* whatever order the operations arrived (text.rs:957-1150, 1221-1274).    *)
Convergence ==
    \A r, q \in Replicas :
        buffer[r].version = buffer[q].version =>
            /\ buffer[r].fragments = buffer[q].fragments
            /\ buffer[r].undo_map = buffer[q].undo_map

(* The cached visibility of a fragment is what its deletions and the undo  *)
(* map say, although edits and undos update it piecemeal.                  *)
VisibilityCached ==
    \A r \in Replicas : \A i \in DOMAIN buffer[r].fragments :
        buffer[r].fragments[i].visible <=>
            IsVisible(buffer[r].fragments[i], buffer[r].undo_map)

(* A version vector means what it says: a replica that has observed an     *)
(* operation has observed all that operation depends on.                   *)
CausallyClosed ==
    \A r \in Replicas : \A op \in operations :
        Observed(buffer[r].version, op.timestamp)
            => ObservedAll(buffer[r].version, op.version)

(* No operation stays deferred when everything it depends on has arrived:  *)
(* one pass of flush_deferred_ops is enough, and leaves deferred_replicas  *)
(* in step with it.                                                        *)
DeferredOnlyIfBlocked ==
    \A r \in Replicas :
        /\ \A op \in buffer[r].deferred_ops : ~ObservedAll(buffer[r].version, op.version)
        /\ buffer[r].deferred_replicas = {op.timestamp[2] : op \in buffer[r].deferred_ops}

(* Nobody is left waiting for an edit or a version that has arrived        *)
(* (text.rs:940, 947-954).                                                 *)
NobodyWaitsInVain ==
    \A r \in Replicas :
        /\ \A t \in buffer[r].edit_id_resolvers : ~Observed(buffer[r].version, t)
        /\ \A v \in buffer[r].wait_for_version_txs : ~ObservedAll(buffer[r].version, v)

(* A replica that gets all operations at last, latest first, has observed  *)
(* every one and defers none: nothing is stuck for ever.                   *)
CatchesUp ==
    \A r \in Replicas :
        LET b == FlushDeferredOps(ApplyEach(buffer[r], operations, Earliest))
        IN  /\ b.deferred_ops = {}
            /\ \A op \in operations : Observed(b.version, op.timestamp)
=============================================================================
