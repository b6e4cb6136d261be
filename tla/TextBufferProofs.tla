-------------------------- MODULE TextBufferProofs --------------------------
(***************************************************************************)
(* Proofs about TextBuffer, for any number of replicas and operations,     *)
(* whatever order operations arrive in and however often.                  *)
(*                                                                         *)
(* Everything about deferral rests on what the clocks say of the           *)
(* operations (OpsOrdered): an operation's version lies below its          *)
(* timestamp, is made of timestamps of operations, and covers all earlier  *)
(* ones of its replica.  So observing an operation whose version was       *)
(* observed makes no other operation appear observed, and none deferred    *)
(* before it applicable.                                                   *)
(*                                                                         *)
(* That replicas converge rests on an order that no buffer holds whole:    *)
(* one of all characters ever inserted, and with it the set of what was    *)
(* deleted by which edit.  Both are fixed when an edit is made (World),    *)
(* and every buffer holds the characters it has observed in that order     *)
(* and marks them as deleted by the edits it has observed (Placed).  A     *)
(* remote edit puts its characters in their places because later ones      *)
(* come first: an earlier one that stands before them was observed by      *)
(* their author, or stands before something that was (Shielded).  And for  *)
(* an edit made here there is a place in the order that fits all of this   *)
(* (InsertedOrdered, NewShielded).                                         *)
(***************************************************************************)
EXTENDS TextBuffer, FiniteSetTheorems, SequenceTheorems, WellFoundedInduction, TLAPS

Stamps == Nat \X Replicas

Versions == [Replicas -> Nat]

(* What every version holds from the start: the base text. *)
Base(q) == IF q = 0 /\ scope.base_len > 0 THEN 1 ELSE 0

(* A version is made of timestamps of operations. *)
MadeOfStamps(version) ==
    \A q \in Replicas :
        /\ version[q] >= Base(q)
        /\ version[q] # Base(q) => \E op \in operations : op.timestamp = <<version[q], q>>

Closed(version) ==
    \A op \in operations : Observed(version, op.timestamp) => ObservedAll(version, op.version)

-----------------------------------------------------------------------------
(* The operations.                                                         *)

OpShape(op) ==
    /\ op.kind \in {"edit", "undo"}
    /\ op.timestamp \in Stamps
    /\ op.version \in Versions
    /\ \A q \in Replicas : op.version[q] < op.timestamp[1]
    /\ MadeOfStamps(op.version)
    /\ op.kind = "edit" => op.len \in Nat
    /\ op.kind = "undo" => \A e \in DOMAIN op.counts : e \in Stamps /\ Observed(op.version, e)

(* The operations of one replica are ordered by their timestamps, and      *)
(* each depends on the ones before it.                                     *)
OpsOrdered ==
    \A o, p \in operations :
        o.timestamp[2] = p.timestamp[2] =>
            /\ o.timestamp[1] = p.timestamp[1] => o = p
            /\ o.timestamp[1] < p.timestamp[1] => p.version[o.timestamp[2]] >= o.timestamp[1]

OpsOK ==
    /\ scope \in Scope
    /\ IsFiniteSet(operations)
    /\ \A op \in operations : OpShape(op)
    /\ OpsOrdered

-----------------------------------------------------------------------------
(* A buffer.                                                               *)

Fields == {"version", "lamport_clock", "fragments", "undo_map", "deferred_ops",
           "deferred_replicas", "edit_id_resolvers", "wait_for_version_txs"}

(* The waits of a buffer are for what it has not observed. *)
WaitsForMore(b) ==
    /\ \A t \in b.edit_id_resolvers :
          /\ ~Observed(b.version, t)
          /\ \E op \in OpsOf("edit") : op.timestamp = t
    /\ \A v \in b.wait_for_version_txs :
          v \in Versions /\ MadeOfStamps(v) /\ ~ObservedAll(b.version, v)

(* The undo map holds the undos observed. *)
UndoMapOf(version) ==
    UNION {InsertUndo({}, op) : op \in {o \in OpsOf("undo") : Observed(version, o.timestamp)}}

Fragment == [timestamp : Stamps, offset : Nat, deletions : SUBSET Stamps, visible : BOOLEAN]

(* The fragments whose cached visibility is right. *)
Cached(undo_map) == {f \in Fragment : f.visible <=> IsVisible(f, undo_map)}

Shown(b) ==
    /\ b.undo_map = UndoMapOf(b.version)
    /\ b.fragments \in Seq(Cached(b.undo_map))

Sound(b) ==
    /\ DOMAIN b = Fields
    /\ b.version \in Versions
    /\ MadeOfStamps(b.version)
    /\ Closed(b.version)
    /\ b.lamport_clock \in Nat
    /\ \A q \in Replicas : b.version[q] < b.lamport_clock
    /\ b.deferred_ops \subseteq operations
    /\ b.deferred_replicas = {op.timestamp[2] : op \in b.deferred_ops}
    /\ WaitsForMore(b)

(* No deferred operation could be applied. *)
Blocked(b) == \A op \in b.deferred_ops : ~ObservedAll(b.version, op.version)

-----------------------------------------------------------------------------
(* The order of the text.                                                  *)
(*                                                                         *)
(* Characters have one place each in an order of all characters ever       *)
(* inserted, whoever has observed them, and an edit deletes the same ones  *)
(* wherever it is applied.  The order is no part of a buffer: it is fixed  *)
(* when an edit is made (World), and every buffer holds the characters it  *)
(* has observed in that order (Placed).                                    *)

(* A character is the timestamp of its insertion and its offset in it.     *)
Id(f) == <<f.timestamp, f.offset>>

CharsOf(op) == {<<op.timestamp, k>> : k \in 0 .. op.len - 1}

BaseChars == {<<<<1, 0>>, k>> : k \in 0 .. scope.base_len - 1}

AllChars == BaseChars \cup UNION {CharsOf(op) : op \in OpsOf("edit")}

SeenChars(chars, version) == {c \in chars : Observed(version, c[1])}

(* A total order of the characters, those of one insertion by offset.      *)
Ordered(chars, order) ==
    /\ order \subseteq chars \X chars
    /\ \A c \in chars : <<c, c>> \notin order
    /\ \A c, d, e \in chars : <<c, d>> \in order /\ <<d, e>> \in order => <<c, e>> \in order
    /\ \A c, d \in chars : c = d \/ <<c, d>> \in order \/ <<d, c>> \in order
    /\ \A c, d \in chars : c[1] = d[1] => (<<c, d>> \in order <=> c[2] < d[2])

(* The full offset behind a character, in a version. *)
Rank(chars, order, version, c) ==
    Cardinality({x \in SeenChars(chars, version) : x = c \/ <<x, c>> \in order})

(* What deleted a character, as far as a version tells; gone is the set of *)
(* all pairs of an edit's timestamp and a character that it deleted.       *)
Deletions(gone, version, c) ==
    {t \in {g[1] : g \in gone} : <<t, c>> \in gone /\ Observed(version, t)}

(* A buffer's fragments are the characters it has observed, in order. *)
Placed(chars, order, gone, fragments, version) ==
    /\ {Id(fragments[i]) : i \in DOMAIN fragments} = SeenChars(chars, version)
    /\ \A i, j \in DOMAIN fragments :
          <<Id(fragments[i]), Id(fragments[j])>> \in order <=> i < j
    /\ \A i \in DOMAIN fragments :
          fragments[i].deletions = Deletions(gone, version, Id(fragments[i]))

(* Between a and c is a character that a version holds and that is not     *)
(* later than a; or a itself is.                                           *)
Shield(chars, order, version, a, c) ==
    \E z \in SeenChars(chars, version) :
        (z = a \/ <<a, z>> \in order) /\ <<z, c>> \in order /\ ~Before(a[1], z[1])

(* What stands before a later character was observed by its author, or     *)
(* stands before something that was.                                       *)
Shielded(chars, order, version, inserted) ==
    \A c \in inserted, a \in chars :
        <<a, c>> \in order /\ Before(a[1], c[1]) => Shield(chars, order, version, a, c)

(* The text of an edit is behind the start of its range in its version.    *)
Anchored(chars, order, op) ==
    /\ op.start \in Nat
    /\ op.start = 0 \/ \E x \in SeenChars(chars, op.version) :
                          Rank(chars, order, op.version, x) = op.start
    /\ \A c \in CharsOf(op), x \in SeenChars(chars, op.version) :
          <<x, c>> \in order <=> Rank(chars, order, op.version, x) <= op.start
    /\ Shielded(chars, order, op.version, CharsOf(op))

(* What an edit deletes. *)
EditsIn(ops) == {op \in ops : op.kind = "edit"}

UndoMapIn(ops, version) ==
    UNION {InsertUndo({}, op) :
              op \in {o \in ops : o.kind = "undo" /\ Observed(version, o.timestamp)}}

VisibleIn(ops, gone, version, c) ==
    /\ ~IsUndone(UndoMapIn(ops, version), c[1])
    /\ \A d \in Deletions(gone, version, c) : IsUndone(UndoMapIn(ops, version), d)

(* It deletes what was visible in its range, in its version. *)
Deletes(ops, chars, order, gone, op) ==
    \A c \in chars :
        <<op.timestamp, c>> \in gone <=>
            /\ c \in SeenChars(chars, op.version)
            /\ Rank(chars, order, op.version, c) \in op.start + 1 .. op.end
            /\ VisibleIn(ops, gone, op.version, c)

(* The order of all characters and what was deleted by whom agree with all *)
(* operations made.                                                        *)
World(ops, chars, order, gone) ==
    /\ Ordered(chars, order)
    /\ gone \subseteq {op.timestamp : op \in EditsIn(ops)} \X chars
    /\ \A op \in EditsIn(ops) :
          Anchored(chars, order, op) /\ Deletes(ops, chars, order, gone, op)

Agrees(order, gone) ==
    /\ World(operations, AllChars, order, gone)
    /\ \A r \in Replicas :
          Placed(AllChars, order, gone, buffer[r].fragments, buffer[r].version)

(* There is one order of all characters that every buffer follows. *)
Agreement == \E order, gone : Agrees(order, gone)

-----------------------------------------------------------------------------
(* All buffers.                                                            *)

(* A replica has observed its own operations. *)
OwnObserved ==
    \A op \in operations : Observed(buffer[op.timestamp[2]].version, op.timestamp)

Seen(version) == {t \in Stamps : Observed(version, t)}

(* What can be undone or redone was observed. *)
StacksObserved ==
    \A r \in Replicas :
        /\ undo_stack[r] \in Seq(SUBSET Seen(buffer[r].version))
        /\ redo_stack[r] \in Seq(SUBSET Seen(buffer[r].version))

IInv ==
    /\ OpsOK
    /\ DOMAIN buffer = Replicas /\ DOMAIN undo_stack = Replicas /\ DOMAIN redo_stack = Replicas
    /\ OwnObserved
    /\ StacksObserved
    /\ \A r \in Replicas : Sound(buffer[r]) /\ Blocked(buffer[r]) /\ Shown(buffer[r])
    /\ Agreement

-----------------------------------------------------------------------------
(* Induction goes by the least counterexample.                             *)

LEMMA SmallestSubset ==
    ASSUME NEW S, IsFiniteSet(S), NEW Bad, Bad \subseteq SUBSET S, Bad # {}
    PROVE  \E s \in Bad : \A t \in SUBSET s : t # s => t \notin Bad
<1>1. PICK s \in Bad : \A u \in Bad : ~(<<u, s>> \in StrictSubsetOrdering(S))
  BY FS_StrictSubsetOrderingWellFounded, FS_FiniteSubsetsOfFinite, WFMin
<1>2. ASSUME NEW t \in SUBSET s, t # s, t \in Bad PROVE FALSE
  BY <1>1, <1>2 DEF StrictSubsetOrdering
<1>3. QED
  BY <1>2

-----------------------------------------------------------------------------
(* Clocks.                                                                 *)

LEMMA MaxOfTwo ==
    ASSUME NEW i \in Nat, NEW j \in Nat
    PROVE  Max({i, j}) = IF i >= j THEN i ELSE j
<1>1. \A x \in {i, j} : (\A y \in {i, j} : x >= y) <=> x = IF i >= j THEN i ELSE j
  OBVIOUS
<1>2. QED
  BY <1>1 DEF Max

LEMMA ReplicasAre ==
    ASSUME scope \in Scope
    PROVE  Replicas \subseteq Nat /\ 0 \in Replicas /\ scope.base_len \in Nat
           /\ \A q : Base(q) \in Nat
BY DEF Scope, Replicas, Base

LEMMA ObserveIs ==
    ASSUME NEW version \in Versions, NEW t \in Stamps
    PROVE  /\ Observe(version, t) \in Versions
           /\ \A q \in Replicas :
                 Observe(version, t)[q] =
                     IF q = t[2] /\ t[1] > version[q] THEN t[1] ELSE version[q]
<1>1. t[1] \in Nat /\ t[2] \in Replicas /\ version[t[2]] \in Nat
  BY DEF Stamps, Versions
<1>2. Max({version[t[2]], t[1]}) = IF version[t[2]] >= t[1] THEN version[t[2]] ELSE t[1]
  BY <1>1, MaxOfTwo
<1>3. QED
  BY <1>1, <1>2 DEF Observe, Versions

(* Observing an operation whose version was observed makes just this one   *)
(* appear observed.                                                        *)
LEMMA OnlyItself ==
    ASSUME OpsOK, NEW version \in Versions, NEW op \in operations,
           ObservedAll(version, op.version), NEW p \in operations
    PROVE  Observed(Observe(version, op.timestamp), p.timestamp)
              <=> Observed(version, p.timestamp) \/ p = op
<1> DEFINE after == Observe(version, op.timestamp)
           q == p.timestamp[2]
<1>1. /\ op.timestamp \in Stamps /\ p.timestamp \in Stamps /\ q \in Replicas
      /\ op.version \in Versions /\ p.timestamp[1] \in Nat /\ op.timestamp[1] \in Nat
  BY DEF OpsOK, OpShape, Stamps
<1>2. after[q] = IF q = op.timestamp[2] /\ op.timestamp[1] > version[q]
                 THEN op.timestamp[1] ELSE version[q]
  BY <1>1, ObserveIs
<1>3. version[q] \in Nat /\ op.version[q] \in Nat /\ version[q] >= op.version[q]
  BY <1>1 DEF Versions, ObservedAll
<1>4. ASSUME Observed(after, p.timestamp), ~Observed(version, p.timestamp) PROVE p = op
  <2>1. q = op.timestamp[2] /\ p.timestamp[1] <= op.timestamp[1] /\ version[q] < p.timestamp[1]
    BY <1>1, <1>2, <1>3, <1>4 DEF Observed
  <2>2. ~(p.timestamp[1] < op.timestamp[1])
    BY <1>1, <1>3, <2>1 DEF OpsOK, OpsOrdered
  <2>3. QED
    BY <1>1, <2>1, <2>2 DEF OpsOK, OpsOrdered
<1>5. Observed(version, p.timestamp) => Observed(after, p.timestamp)
  BY <1>1, <1>2, <1>3 DEF Observed
<1>6. p = op => Observed(after, p.timestamp)
  BY <1>1, <1>2, <1>3 DEF Observed
<1>7. QED
  BY <1>4, <1>5, <1>6

LEMMA ObserveKeeps ==
    ASSUME OpsOK, NEW version \in Versions, NEW op \in operations,
           ObservedAll(version, op.version), MadeOfStamps(version), Closed(version)
    PROVE  LET after == Observe(version, op.timestamp)
           IN  /\ after \in Versions /\ MadeOfStamps(after) /\ Closed(after)
               /\ ObservedAll(after, version)
<1> DEFINE after == Observe(version, op.timestamp)
<1>1. op.timestamp \in Stamps /\ op.timestamp[1] \in Nat /\ op.timestamp[2] \in Replicas
      /\ op.timestamp = <<op.timestamp[1], op.timestamp[2]>> /\ op.version \in Versions
  BY DEF OpsOK, OpShape, Stamps
<1>2. after \in Versions
      /\ \A q \in Replicas : after[q] =
            IF q = op.timestamp[2] /\ op.timestamp[1] > version[q]
            THEN op.timestamp[1] ELSE version[q]
  BY <1>1, ObserveIs
<1> HIDE DEF after
<1>3. \A q \in Replicas : version[q] \in Nat /\ Base(q) \in Nat /\ after[q] >= version[q]
  BY <1>1, <1>2, ReplicasAre DEF OpsOK, Versions
<1>4. ObservedAll(after, version)
  BY <1>3 DEF ObservedAll
<1>5. MadeOfStamps(after)
  <2>1. SUFFICES ASSUME NEW q \in Replicas
                 PROVE  /\ after[q] >= Base(q)
                        /\ after[q] # Base(q) =>
                              \E o \in operations : o.timestamp = <<after[q], q>>
    BY DEF MadeOfStamps
  <2>2. /\ version[q] >= Base(q)
        /\ version[q] # Base(q) => \E o \in operations : o.timestamp = <<version[q], q>>
    BY DEF MadeOfStamps
  <2>3. CASE q = op.timestamp[2] /\ op.timestamp[1] > version[q]
    <3>1. after[q] = op.timestamp[1] /\ op.timestamp = <<after[q], q>>
      BY <1>1, <1>2, <2>3
    <3>2. after[q] >= Base(q)
      BY <1>1, <1>3, <2>2, <3>1
    <3>3. QED
      BY <3>1, <3>2
  <2>4. CASE ~(q = op.timestamp[2] /\ op.timestamp[1] > version[q])
    BY <1>2, <2>2, <2>4
  <2>5. QED
    BY <2>3, <2>4
<1>6. Closed(after)
  <2>1. SUFFICES ASSUME NEW p \in operations, Observed(after, p.timestamp)
                 PROVE  ObservedAll(after, p.version)
    BY DEF Closed
  <2>2. Observed(version, p.timestamp) \/ p = op
    BY <2>1, OnlyItself DEF after
  <2>3. ObservedAll(version, p.version) /\ p.version \in Versions
    BY <2>2 DEF Closed, OpsOK, OpShape
  <2>4. QED
    BY <1>2, <1>3, <2>3 DEF ObservedAll, Versions
<1>7. QED
  BY <1>2, <1>4, <1>5, <1>6 DEF after

-----------------------------------------------------------------------------
(* Clocks and deferral: one operation of another replica.                  *)

(* What of a buffer deferral and waiting depend on. *)
LEMMA ApplyNewFields ==
    ASSUME NEW b, DOMAIN b = Fields, NEW op
    PROVE  LET c == ApplyNew(b, op)
           IN  /\ DOMAIN c = Fields
               /\ c.version = Observe(b.version, op.timestamp)
               /\ c.lamport_clock = Max({b.lamport_clock, op.timestamp[1]}) + 1
               /\ c.deferred_ops = b.deferred_ops
               /\ c.deferred_replicas = b.deferred_replicas
               /\ c.wait_for_version_txs = b.wait_for_version_txs
               /\ c.edit_id_resolvers = IF op.kind = "edit"
                                        THEN b.edit_id_resolvers \ {op.timestamp}
                                        ELSE b.edit_id_resolvers
               /\ c.undo_map = IF op.kind = "edit" THEN b.undo_map ELSE InsertUndo(b.undo_map, op)
               /\ c.fragments = IF op.kind = "edit"
                                THEN ApplyRemoteEdit(b.fragments, b.undo_map, op)
                                ELSE ApplyUndo(b, op).fragments
<1>1. CASE op.kind = "edit"
  BY <1>1 DEF ApplyNew, ObserveOp, Fields
<1>2. CASE op.kind # "edit"
  <2> DEFINE u == ApplyUndo(b, op)
  <2>1. /\ DOMAIN u = Fields
        /\ u.version = b.version
        /\ u.lamport_clock = b.lamport_clock
        /\ u.deferred_ops = b.deferred_ops
        /\ u.deferred_replicas = b.deferred_replicas
        /\ u.wait_for_version_txs = b.wait_for_version_txs
        /\ u.edit_id_resolvers = b.edit_id_resolvers
        /\ u.undo_map = InsertUndo(b.undo_map, op)
    BY DEF ApplyUndo, Fields
  <2>2. ApplyNew(b, op) = ObserveOp(u, op)
    BY <1>2 DEF ApplyNew
  <2> HIDE DEF u
  <2>3. /\ DOMAIN ObserveOp(u, op) = Fields
        /\ ObserveOp(u, op).version = Observe(b.version, op.timestamp)
        /\ ObserveOp(u, op).lamport_clock = Max({b.lamport_clock, op.timestamp[1]}) + 1
        /\ ObserveOp(u, op).deferred_ops = b.deferred_ops
        /\ ObserveOp(u, op).deferred_replicas = b.deferred_replicas
        /\ ObserveOp(u, op).wait_for_version_txs = b.wait_for_version_txs
        /\ ObserveOp(u, op).edit_id_resolvers = b.edit_id_resolvers
        /\ ObserveOp(u, op).undo_map = u.undo_map
        /\ ObserveOp(u, op).fragments = u.fragments
    BY <2>1 DEF ObserveOp, Fields
  <2>4. QED
    BY <1>2, <2>1, <2>2, <2>3 DEF u
<1>3. QED
  BY <1>1, <1>2

LEMMA NotifyFields ==
    ASSUME NEW b, DOMAIN b = Fields
    PROVE  LET c == NotifyVersions(b)
           IN  /\ DOMAIN c = Fields
               /\ c.wait_for_version_txs =
                      {v \in b.wait_for_version_txs : ~ObservedAll(b.version, v)}
               /\ \A field \in Fields \ {"wait_for_version_txs"} : c[field] = b[field]
BY DEF NotifyVersions, Fields

(* An operation whose version was observed. *)
LEMMA ApplyOpSound ==
    ASSUME OpsOK, NEW b, Sound(b), NEW op \in operations, ObservedAll(b.version, op.version)
    PROVE  LET c == ApplyOp(b, op)
           IN  /\ Sound(c)
               /\ c.version = Observe(b.version, op.timestamp)
               /\ c.deferred_ops = b.deferred_ops
<1> DEFINE a == IF Observed(b.version, op.timestamp) THEN b ELSE ApplyNew(b, op)
           c == NotifyVersions(a)
<1>1. /\ DOMAIN b = Fields /\ b.version \in Versions /\ op.timestamp \in Stamps
      /\ op.timestamp[1] \in Nat /\ op.timestamp[2] \in Replicas
      /\ op.kind \in {"edit", "undo"} /\ b.lamport_clock \in Nat
  BY DEF Sound, OpsOK, OpShape, Stamps
<1>2. /\ a.version = Observe(b.version, op.timestamp)
      /\ DOMAIN a = Fields
      /\ a.deferred_ops = b.deferred_ops
      /\ a.deferred_replicas = b.deferred_replicas
      /\ a.wait_for_version_txs = b.wait_for_version_txs
      /\ \A t \in a.edit_id_resolvers :
            t \in b.edit_id_resolvers /\ (op.kind = "edit" => t # op.timestamp
                                          \/ Observed(b.version, op.timestamp))
  <2>1. CASE Observed(b.version, op.timestamp)
    <3>1. \A q \in Replicas : Observe(b.version, op.timestamp)[q] = b.version[q]
      BY <1>1, <2>1, ObserveIs DEF Observed, Versions
    <3>2. Observe(b.version, op.timestamp) = b.version
      BY <1>1, <3>1, ObserveIs DEF Versions
    <3>3. QED
      BY <1>1, <2>1, <3>2
  <2>2. CASE ~Observed(b.version, op.timestamp)
    <3>1. a = ApplyNew(b, op)
      BY <2>2
    <3> HIDE DEF a
    <3>2. /\ a.version = Observe(b.version, op.timestamp)
          /\ DOMAIN a = Fields
          /\ a.deferred_ops = b.deferred_ops
          /\ a.deferred_replicas = b.deferred_replicas
          /\ a.wait_for_version_txs = b.wait_for_version_txs
          /\ a.edit_id_resolvers = IF op.kind = "edit"
                                   THEN b.edit_id_resolvers \ {op.timestamp}
                                   ELSE b.edit_id_resolvers
      BY <1>1, <3>1, ApplyNewFields
    <3>3. QED
      BY <3>2
  <2>3. QED
    BY <2>1, <2>2
<1>3. a.lamport_clock \in Nat /\ \A q \in Replicas : a.version[q] < a.lamport_clock
  <2>1. CASE Observed(b.version, op.timestamp)
    BY <1>1, <2>1 DEF Sound
  <2>2. CASE ~Observed(b.version, op.timestamp)
    <3>1. a.lamport_clock = (IF b.lamport_clock >= op.timestamp[1] THEN b.lamport_clock
                             ELSE op.timestamp[1]) + 1
      <4>1. a.lamport_clock = Max({b.lamport_clock, op.timestamp[1]}) + 1
        <5>1. a = ApplyNew(b, op)
          BY <2>2
        <5> HIDE DEF a
        <5>2. QED
          BY <1>1, <5>1, ApplyNewFields
      <4>2. QED
        BY <1>1, <4>1, MaxOfTwo
    <3>2. \A q \in Replicas : /\ a.version[q] = b.version[q] \/ a.version[q] = op.timestamp[1]
                              /\ b.version[q] < b.lamport_clock /\ b.version[q] \in Nat
      BY <1>1, <1>2, ObserveIs DEF Sound, Versions
    <3> HIDE DEF a
    <3>3. QED
      BY <1>1, <3>1, <3>2
  <2>3. QED
    BY <2>1, <2>2
<1> HIDE DEF a
<1>4. /\ DOMAIN c = Fields
      /\ c.version = a.version /\ c.lamport_clock = a.lamport_clock
      /\ c.deferred_ops = b.deferred_ops /\ c.deferred_replicas = b.deferred_replicas
      /\ c.edit_id_resolvers = a.edit_id_resolvers
      /\ c.wait_for_version_txs = {v \in b.wait_for_version_txs : ~ObservedAll(a.version, v)}
  <2>1. Fields \ {"wait_for_version_txs"} =
            {"version", "lamport_clock", "fragments", "undo_map", "deferred_ops",
             "deferred_replicas", "edit_id_resolvers"}
    BY DEF Fields
  <2>2. QED
    BY <1>2, <2>1, NotifyFields
<1> HIDE DEF c
<1>5. c.version \in Versions /\ MadeOfStamps(c.version) /\ Closed(c.version)
  BY <1>1, <1>2, <1>4, ObserveKeeps DEF Sound
<1>6. WaitsForMore(c)
  <2>1. ASSUME NEW t \in c.edit_id_resolvers
        PROVE  ~Observed(c.version, t) /\ \E o \in OpsOf("edit") : o.timestamp = t
    <3>1. PICK o \in OpsOf("edit") : o.timestamp = t
      BY <1>2, <1>4, <2>1 DEF Sound, WaitsForMore
    <3>2. ~Observed(b.version, t) /\ o \in operations /\ o.kind = "edit"
      BY <1>2, <1>4, <2>1, <3>1 DEF Sound, WaitsForMore, OpsOf
    <3>3. o # op
      BY <1>2, <1>4, <2>1, <3>1, <3>2
    <3>4. ~Observed(c.version, t)
      BY <1>1, <1>2, <1>4, <3>1, <3>2, <3>3, OnlyItself
    <3>5. QED
      BY <3>1, <3>4
  <2>2. \A v \in c.wait_for_version_txs :
           v \in Versions /\ MadeOfStamps(v) /\ ~ObservedAll(c.version, v)
    BY <1>4 DEF Sound, WaitsForMore
  <2>3. QED
    BY <2>1, <2>2 DEF WaitsForMore
<1>7. Sound(c)
  BY <1>2, <1>3, <1>4, <1>5, <1>6 DEF Sound
<1>8. QED
  BY <1>2, <1>4, <1>7 DEF ApplyOp, a, c

LEMMA DeferFields ==
    ASSUME NEW b, DOMAIN b = Fields, NEW op
    PROVE  LET c == [b EXCEPT !.deferred_replicas = @ \cup {op.timestamp[2]},
                              !.deferred_ops = @ \cup {op}]
           IN  /\ DOMAIN c = Fields
               /\ c.version = b.version /\ c.lamport_clock = b.lamport_clock
               /\ c.deferred_ops = b.deferred_ops \cup {op}
               /\ c.deferred_replicas = b.deferred_replicas \cup {op.timestamp[2]}
               /\ c.edit_id_resolvers = b.edit_id_resolvers
               /\ c.wait_for_version_txs = b.wait_for_version_txs
               /\ c.undo_map = b.undo_map /\ c.fragments = b.fragments
BY DEF Fields

(* Applied or deferred. *)
LEMMA StepSound ==
    ASSUME OpsOK, NEW b, Sound(b), NEW op \in operations
    PROVE  LET c == ApplyOrDefer(b, op)
           IN  /\ Sound(c)
               /\ \/ /\ CanApplyOp(b, op)
                     /\ c = ApplyOp(b, op)
                     /\ c.version = Observe(b.version, op.timestamp)
                     /\ c.deferred_ops = b.deferred_ops
                  \/ /\ ~CanApplyOp(b, op)
                     /\ c.version = b.version
                     /\ c.deferred_ops = b.deferred_ops \cup {op}
                     /\ c.undo_map = b.undo_map /\ c.fragments = b.fragments
<1> DEFINE c == ApplyOrDefer(b, op)
<1>1. CASE CanApplyOp(b, op)
  <2>1. ObservedAll(b.version, op.version) /\ c = ApplyOp(b, op)
    BY <1>1 DEF CanApplyOp, ApplyOrDefer
  <2>2. QED
    BY <1>1, <2>1, ApplyOpSound
<1>2. CASE ~CanApplyOp(b, op)
  <2>1. c = [b EXCEPT !.deferred_replicas = @ \cup {op.timestamp[2]},
                      !.deferred_ops = @ \cup {op}]
    BY <1>2 DEF ApplyOrDefer
  <2>2. /\ DOMAIN c = Fields
        /\ c.version = b.version /\ c.lamport_clock = b.lamport_clock
        /\ c.deferred_ops = b.deferred_ops \cup {op}
        /\ c.deferred_replicas = b.deferred_replicas \cup {op.timestamp[2]}
        /\ c.edit_id_resolvers = b.edit_id_resolvers
        /\ c.wait_for_version_txs = b.wait_for_version_txs
        /\ c.undo_map = b.undo_map /\ c.fragments = b.fragments
    <3>1. DOMAIN b = Fields
      BY DEF Sound
    <3> HIDE DEF c
    <3>2. QED
      BY <2>1, <3>1, DeferFields
  <2> HIDE DEF c
  <2>3. WaitsForMore(c)
    BY <2>2 DEF Sound, WaitsForMore
  <2>4. /\ c.deferred_ops \subseteq operations
        /\ c.deferred_replicas = {o.timestamp[2] : o \in c.deferred_ops}
    BY <2>2 DEF Sound
  <2>5. Sound(c)
    BY <2>2, <2>3, <2>4 DEF Sound
  <2>6. QED
    BY <1>2, <2>2, <2>5 DEF c
<1>3. QED
  BY <1>1, <1>2

(* Versions only grow. *)
LEMMA StepGrows ==
    ASSUME OpsOK, NEW b, Sound(b), NEW op \in operations
    PROVE  LET c == ApplyOrDefer(b, op)
           IN  ObservedAll(c.version, b.version) /\ b.deferred_ops \subseteq c.deferred_ops
<1> DEFINE c == ApplyOrDefer(b, op)
<1>1. ObservedAll(b.version, b.version)
  BY DEF ObservedAll, Sound, Versions
<1>2. CASE CanApplyOp(b, op)
  BY <1>2, StepSound, ObserveKeeps DEF CanApplyOp, Sound
<1>3. QED
  BY <1>1, <1>2, StepSound

(* Applied in the order of their timestamps, operations block each other   *)
(* for good: none applies later that one before it waits for.              *)
LEMMA StepBlocked ==
    ASSUME OpsOK, NEW b, Sound(b), Blocked(b), NEW op \in operations,
           \A o \in b.deferred_ops : Before(o.timestamp, op.timestamp)
    PROVE  Blocked(ApplyOrDefer(b, op))
<1> DEFINE c == ApplyOrDefer(b, op)
           v == b.version
<1>1. /\ v \in Versions /\ MadeOfStamps(v) /\ Closed(v) /\ b.deferred_ops \subseteq operations
      /\ b.deferred_replicas = {o.timestamp[2] : o \in b.deferred_ops}
  BY DEF Sound
<1>2. /\ \A o \in operations : /\ o.timestamp \in Stamps /\ o.timestamp[1] \in Nat
                               /\ o.timestamp[2] \in Replicas /\ o.version \in Versions
                               /\ \A q \in Replicas : o.version[q] \in Nat /\ v[q] \in Nat
  BY <1>1 DEF OpsOK, OpShape, Stamps, Versions
<1>3. CASE CanApplyOp(b, op)
  <2>1. c.version = Observe(v, op.timestamp) /\ c.deferred_ops = b.deferred_ops
    BY <1>3, StepSound
  <2>2. ObservedAll(v, op.version)
    BY <1>3 DEF CanApplyOp
  <2>3. SUFFICES ASSUME NEW o \in b.deferred_ops PROVE ~ObservedAll(c.version, o.version)
    BY <2>1 DEF Blocked
  <2>4. PICK q \in Replicas : v[q] < o.version[q]
    BY <1>1, <1>2 DEF Blocked, ObservedAll
  <2>5. SUFFICES ASSUME q = op.timestamp[2], op.timestamp[1] >= o.version[q] PROVE FALSE
    BY <1>1, <1>2, <2>1, <2>4, ObserveIs DEF ObservedAll
  <2>6. PICK p \in operations : p.timestamp = <<o.version[q], q>>
    <3>1. MadeOfStamps(o.version)
      BY <1>1 DEF OpsOK, OpShape
    <3>2. v[q] >= Base(q) /\ Base(q) \in Nat
      BY <1>1, ReplicasAre DEF MadeOfStamps, OpsOK
    <3>3. o.version[q] # Base(q)
      BY <1>1, <1>2, <2>4, <3>2
    <3>4. QED
      BY <3>1, <3>3 DEF MadeOfStamps
  <2>7. o.version[q] < op.timestamp[1]
    <3>1. o.version[q] < o.timestamp[1]
      BY <1>1 DEF OpsOK, OpShape
    <3>2. o.timestamp[1] <= op.timestamp[1]
      BY <1>1, <1>2 DEF Before
    <3>3. QED
      BY <1>1, <1>2, <3>1, <3>2
  <2>8. op.version[q] >= o.version[q]
    BY <2>5, <2>6, <2>7 DEF OpsOK, OpsOrdered
  <2>9. QED
    BY <1>1, <1>2, <2>2, <2>4, <2>8 DEF ObservedAll
<1>4. CASE ~CanApplyOp(b, op)
  <2>1. c.version = v /\ c.deferred_ops = b.deferred_ops \cup {op}
    BY <1>4, StepSound
  <2>2. ASSUME ObservedAll(v, op.version) PROVE FALSE
    <3>1. PICK o \in b.deferred_ops : o.timestamp[2] = op.timestamp[2]
      BY <1>1, <1>4, <2>2 DEF CanApplyOp
    <3>2. ~Observed(v, o.timestamp)
      BY <1>1 DEF Closed, Blocked
    <3>3. o.timestamp[1] < op.timestamp[1]
      BY <1>1, <1>2, <3>1, ReplicasAre DEF Before, OpsOK
    <3>4. op.version[op.timestamp[2]] >= o.timestamp[1]
      BY <1>1, <3>1, <3>3 DEF OpsOK, OpsOrdered
    <3>5. QED
      BY <1>1, <1>2, <2>2, <3>1, <3>2, <3>4 DEF ObservedAll, Observed
  <2>3. QED
    BY <2>1, <2>2 DEF Blocked
<1>5. QED
  BY <1>3, <1>4

-----------------------------------------------------------------------------
(* The undo map.                                                           *)

LEMMA InsertUndoIs ==
    ASSUME NEW undo_map, NEW op
    PROVE  /\ InsertUndo(undo_map, op) = undo_map \cup InsertUndo({}, op)
           /\ \A u \in InsertUndo({}, op) : u.edit \in DOMAIN op.counts
BY DEF InsertUndo

(* An observed operation adds its entries. *)
LEMMA UndoMapGrows ==
    ASSUME OpsOK, NEW version \in Versions, NEW op \in operations,
           ObservedAll(version, op.version)
    PROVE  UndoMapOf(Observe(version, op.timestamp)) =
               IF op.kind = "undo" THEN InsertUndo(UndoMapOf(version), op) ELSE UndoMapOf(version)
<1> DEFINE Undos(v) == {o \in OpsOf("undo") : Observed(v, o.timestamp)}
           after == Observe(version, op.timestamp)
<1>1. \A o \in operations : Observed(after, o.timestamp) <=> Observed(version, o.timestamp) \/ o = op
  BY OnlyItself
<1> HIDE DEF after
<1>2. Undos(after) = IF op.kind = "undo" THEN Undos(version) \cup {op} ELSE Undos(version)
  BY <1>1 DEF OpsOf
<1>3. UndoMapOf(after) = UNION {InsertUndo({}, o) : o \in Undos(after)}
      /\ UndoMapOf(version) = UNION {InsertUndo({}, o) : o \in Undos(version)}
  BY DEF UndoMapOf
<1> HIDE DEF Undos
<1>4. CASE op.kind = "undo"
  <2>1. UndoMapOf(after) = UndoMapOf(version) \cup InsertUndo({}, op)
    BY <1>2, <1>3, <1>4
  <2>2. QED
    BY <1>4, <2>1, InsertUndoIs DEF after
<1>5. CASE op.kind # "undo"
  BY <1>2, <1>3, <1>5 DEF after
<1>6. QED
  BY <1>4, <1>5

(* What is undone was observed. *)
LEMMA UndoneObserved ==
    ASSUME OpsOK, NEW version \in Versions, Closed(version)
    PROVE  \A u \in UndoMapOf(version) : Observed(version, u.edit)
<1>1. SUFFICES ASSUME NEW op \in OpsOf("undo"), Observed(version, op.timestamp),
                      NEW u \in InsertUndo({}, op)
               PROVE  Observed(version, u.edit)
  BY DEF UndoMapOf
<1>2. op \in operations /\ op.kind = "undo" /\ u.edit \in DOMAIN op.counts
  BY InsertUndoIs DEF OpsOf
<1>3. u.edit \in Stamps /\ Observed(op.version, u.edit) /\ op.version \in Versions
  BY <1>2 DEF OpsOK, OpShape
<1>4. ObservedAll(version, op.version)
  BY <1>1, <1>2 DEF Closed
<1>5. QED
  BY <1>3, <1>4 DEF Observed, ObservedAll, Stamps, Versions

(* The count of an edit depends on its own entries only. *)
LEMMA CountOfEntries ==
    ASSUME NEW undo_map, NEW other, NEW edit,
           \A u : u.edit = edit => (u \in undo_map <=> u \in other)
    PROVE  IsUndone(undo_map, edit) = IsUndone(other, edit)
<1>1. {w \in undo_map : w.edit = edit} = {w \in other : w.edit = edit}
  OBVIOUS
<1>2. UndoCount(undo_map, edit) = UndoCount(other, edit)
  BY <1>1 DEF UndoCount
<1>3. QED
  BY <1>2 DEF IsUndone

LEMMA NewNotUndone ==
    ASSUME NEW undo_map, NEW edit, \A u \in undo_map : u.edit # edit
    PROVE  ~IsUndone(undo_map, edit)
<1>1. {u.count : u \in {w \in undo_map : w.edit = edit}} = {}
  OBVIOUS
<1>2. UndoCount(undo_map, edit) = Max({0, 0})
  BY <1>1 DEF UndoCount
<1>3. UndoCount(undo_map, edit) = 0
  BY <1>2, MaxOfTwo
<1>4. QED
  BY <1>3 DEF IsUndone

-----------------------------------------------------------------------------
(* Fragments.                                                              *)

LEMMA DeletedIsCached ==
    ASSUME NEW undo_map, NEW f \in Cached(undo_map), NEW t \in Stamps, ~IsUndone(undo_map, t)
    PROVE  Delete(f, t) \in Cached(undo_map)
<1> DEFINE d == Delete(f, t)
<1>1. f \in Fragment
  BY DEF Cached
<1>2. d \in Fragment /\ d.timestamp = f.timestamp /\ d.deletions = f.deletions \cup {t}
      /\ d.visible = FALSE
  BY <1>1 DEF Delete, Fragment
<1> HIDE DEF d
<1>3. ~IsVisible(d, undo_map)
  BY <1>2 DEF IsVisible
<1>4. QED
  BY <1>2, <1>3 DEF Cached, d

LEMMA NewAreCached ==
    ASSUME NEW undo_map, NEW t \in Stamps, NEW len \in Nat, ~IsUndone(undo_map, t)
    PROVE  NewFragments(t, len) \in Seq(Cached(undo_map))
<1>1. SUFFICES ASSUME NEW k \in 1 .. len
               PROVE  [timestamp |-> t, offset |-> k - 1, deletions |-> {}, visible |-> TRUE]
                          \in Cached(undo_map)
  BY DEF NewFragments
<1> DEFINE f == [timestamp |-> t, offset |-> k - 1, deletions |-> {}, visible |-> TRUE]
<1>2. f \in Fragment /\ f.timestamp = t /\ f.deletions = {} /\ f.visible = TRUE
  BY DEF Fragment
<1> HIDE DEF f
<1>3. IsVisible(f, undo_map)
  BY <1>2 DEF IsVisible
<1>4. QED
  BY <1>2, <1>3 DEF Cached, f

(* The splice of an edit, what it deletes given as a set of indices. *)
Marked(fragments, deleted, t) ==
    [i \in DOMAIN fragments |->
        IF i \in deleted THEN Delete(fragments[i], t) ELSE fragments[i]]

Spliced(fragments, p, t, len, deleted) ==
    LET marked == Marked(fragments, deleted, t)
    IN  SubSeq(marked, 1, p) \o NewFragments(t, len) \o SubSeq(marked, p + 1, Len(marked))

RemotelyDeleted(fragments, undo_map, edit) ==
    {i \in DOMAIN fragments :
        /\ Observed(edit.version, fragments[i].timestamp)
        /\ ObservedUpTo(fragments, edit.version, i) \in edit.start + 1 .. edit.end
        /\ WasVisible(fragments[i], edit.version, undo_map)}

LocallyDeleted(fragments, edit) ==
    {i \in DOMAIN fragments : i \in edit.start + 1 .. edit.end /\ fragments[i].visible}

LEMMA RemoteEditIs ==
    ASSUME NEW fragments, NEW undo_map, NEW edit
    PROVE  ApplyRemoteEdit(fragments, undo_map, edit) =
               Spliced(fragments, InsertionPoint(fragments, edit), edit.timestamp, edit.len,
                       RemotelyDeleted(fragments, undo_map, edit))
<1> DEFINE D(i) == /\ Observed(edit.version, fragments[i].timestamp)
                   /\ ObservedUpTo(fragments, edit.version, i) \in edit.start + 1 .. edit.end
                   /\ WasVisible(fragments[i], edit.version, undo_map)
           deleted == {i \in DOMAIN fragments : D(i)}
           marked == Marked(fragments, deleted, edit.timestamp)
<1>1. marked = [i \in DOMAIN fragments |->
                   IF D(i) THEN Delete(fragments[i], edit.timestamp) ELSE fragments[i]]
  <2> HIDE DEF D
  <2>1. QED
    BY DEF Marked
<1> HIDE DEF marked
<1>2. QED
  BY <1>1 DEF ApplyRemoteEdit, Splice, Spliced, RemotelyDeleted, marked

LEMMA LocalEditIs ==
    ASSUME NEW fragments, NEW edit
    PROVE  ApplyLocalEdit(fragments, edit) =
               Spliced(fragments, edit.start, edit.timestamp, edit.len,
                       LocallyDeleted(fragments, edit))
<1> DEFINE D(i) == i \in edit.start + 1 .. edit.end /\ fragments[i].visible
           deleted == {i \in DOMAIN fragments : D(i)}
           marked == Marked(fragments, deleted, edit.timestamp)
<1>1. marked = [i \in DOMAIN fragments |->
                   IF D(i) THEN Delete(fragments[i], edit.timestamp) ELSE fragments[i]]
  <2> HIDE DEF D
  <2>1. QED
    BY DEF Marked
<1> HIDE DEF marked
<1>2. QED
  BY <1>1 DEF ApplyLocalEdit, Splice, Spliced, LocallyDeleted, marked

(* What Splice puts together. *)
LEMMA SpliceIsCached ==
    ASSUME NEW undo_map, NEW t \in Stamps, NEW len \in Nat, ~IsUndone(undo_map, t),
           NEW fragments \in Seq(Cached(undo_map)), NEW p \in 0 .. Len(fragments), NEW deleted
    PROVE  Spliced(fragments, p, t, len, deleted) \in Seq(Cached(undo_map))
<1> DEFINE marked == Marked(fragments, deleted, t)
           C == Cached(undo_map)
<1>1. \A i \in DOMAIN fragments : marked[i] \in C
  <2>1. \A i \in DOMAIN fragments : fragments[i] \in C
    BY ElementOfSeq
  <2>2. \A i \in DOMAIN fragments : Delete(fragments[i], t) \in C
    BY <2>1, DeletedIsCached
  <2> HIDE DEF C
  <2>3. QED
    BY <2>1, <2>2 DEF Marked
<1>2. NewFragments(t, len) \in Seq(C)
  BY NewAreCached
<1>3. DOMAIN fragments = 1 .. Len(fragments) /\ Len(fragments) \in Nat
      /\ DOMAIN marked = 1 .. Len(fragments)
  BY LenProperties DEF Marked
<1>4. marked = [i \in 1 .. Len(fragments) |-> marked[i]]
  BY <1>3 DEF Marked
<1> HIDE DEF C, marked
<1>5. marked \in Seq(C) /\ Len(marked) = Len(fragments)
  BY <1>1, <1>3, <1>4
<1>6. SubSeq(marked, 1, p) \in Seq(C) /\ SubSeq(marked, p + 1, Len(marked)) \in Seq(C)
  BY <1>3, <1>5
<1>7. QED
  BY <1>2, <1>6 DEF C, marked, Spliced

LEMMA HighestAndLowest ==
    ASSUME NEW n \in Nat, NEW S, S \subseteq 0 .. n, S # {}
    PROVE  /\ Max(S) \in S /\ \A i \in S : i <= Max(S)
           /\ Min(S) \in S /\ \A i \in S : i >= Min(S)
<1> DEFINE Bad == {t \in SUBSET S : /\ t # {}
                                    /\ \/ \A i \in t : \E j \in t : i < j
                                       \/ \A i \in t : \E j \in t : j < i}
<1>1. ASSUME Bad # {} PROVE FALSE
  <2>1. IsFiniteSet(S) /\ Bad \subseteq SUBSET S
    <3>1. IsFiniteSet(0 .. n)
      BY FS_Interval
    <3>2. QED
      BY <3>1, FS_Subset
  <2>2. PICK t \in Bad : \A u \in SUBSET t : u # t => u \notin Bad
    <3> HIDE DEF Bad
    <3>1. QED
      BY <1>1, <2>1, SmallestSubset
  <2>3. PICK x \in t : TRUE
    OBVIOUS
  <2> DEFINE u == t \ {x}
  <2>4. u \in SUBSET S /\ u \notin Bad /\ t = u \cup {x} /\ x \in Nat /\ u \subseteq Nat
    <3>1. u \in SUBSET t /\ u # t
      BY <2>3
    <3>2. u \notin Bad
      <4> HIDE DEF u
      <4>1. QED
        BY <2>2, <3>1
    <3>3. QED
      BY <2>3, <3>1, <3>2
  <2>5. CASE u = {}
    BY <2>4, <2>5
  <2>6. CASE u # {}
    <3>1. PICK i \in u : \A j \in u : ~(i < j)
      BY <2>4, <2>6
    <3>2. PICK k \in u : \A j \in u : ~(j < k)
      BY <2>4, <2>6
    <3>3. \E m \in t : \A j \in t : ~(m < j)
      <4>1. CASE i < x
        BY <2>4, <3>1, <4>1
      <4>2. CASE ~(i < x)
        BY <2>4, <3>1, <4>2
      <4>3. QED
        BY <4>1, <4>2
    <3>4. \E m \in t : \A j \in t : ~(j < m)
      <4>1. CASE x < k
        BY <2>4, <3>2, <4>1
      <4>2. CASE ~(x < k)
        BY <2>4, <3>2, <4>2
      <4>3. QED
        BY <4>1, <4>2
    <3>5. QED
      BY <3>3, <3>4
  <2>7. QED
    BY <2>5, <2>6
<1>2. \A i \in S : i \in Nat
  OBVIOUS
<1>3. (\E i \in S : \A j \in S : i >= j) /\ (\E i \in S : \A j \in S : i =< j)
  BY <1>1, <1>2
<1>4. QED
  BY <1>2, <1>3 DEF Max, Min

LEMMA InsertionPointIn ==
    ASSUME NEW fragments, Len(fragments) \in Nat, NEW edit
    PROVE  InsertionPoint(fragments, edit) \in 0 .. Len(fragments)
<1> DEFINE n == Len(fragments)
           Starts == {i \in 0 .. n : \/ ObservedUpTo(fragments, edit.version, i) >= edit.start
                                     \/ i = n}
           from == Min(Starts)
           Ends == {p \in from .. n :
                       \A i \in from + 1 .. p : Before(edit.timestamp, fragments[i].timestamp)}
<1>1. from \in 0 .. n
  <2>1. Starts \subseteq 0 .. n /\ n \in Starts
    OBVIOUS
  <2> HIDE DEF Starts
  <2>2. QED
    BY <2>1, HighestAndLowest
<1>2. InsertionPoint(fragments, edit) = Max(Ends)
  BY DEF InsertionPoint
<1> HIDE DEF from
<1>3. from \in Ends /\ Ends \subseteq 0 .. n
  BY <1>1
<1> HIDE DEF Ends
<1>4. QED
  BY <1>2, <1>3, HighestAndLowest

(* As far into the fragments as some number of them is visible. *)
LEMMA VisibleReaches ==
    ASSUME NEW fragments, Len(fragments) \in Nat, NEW k \in 0 .. VisibleLen(fragments)
    PROVE  \E i \in 0 .. Len(fragments) : VisibleUpTo(fragments, i) = k
<1> DEFINE n == Len(fragments)
           In(i) == {j \in 1 .. i : fragments[j].visible}
           Enough == {i \in 0 .. n : VisibleUpTo(fragments, i) >= k}
<1>1. \A i \in 0 .. n : /\ VisibleUpTo(fragments, i) = Cardinality(In(i))
                        /\ IsFiniteSet(In(i)) /\ Cardinality(In(i)) \in Nat
  <2>1. ASSUME NEW i \in 0 .. n PROVE IsFiniteSet(In(i)) /\ Cardinality(In(i)) \in Nat
    <3>1. IsFiniteSet(1 .. i) /\ In(i) \subseteq 1 .. i
      BY FS_Interval
    <3> HIDE DEF In
    <3>2. QED
      BY <3>1, FS_Subset, FS_CardinalityType
  <2>2. \A i : VisibleUpTo(fragments, i) = Cardinality(In(i))
    BY DEF VisibleUpTo, CountUpTo
  <2>3. QED
    BY <2>1, <2>2
<1>2. n \in Enough /\ Enough \subseteq 0 .. n
  BY <1>1 DEF VisibleLen
<1> DEFINE i == Min(Enough)
<1>3. i \in 0 .. n /\ VisibleUpTo(fragments, i) >= k /\ \A j \in Enough : j >= i
  <2>1. i \in Enough /\ \A j \in Enough : j >= i
    <3> HIDE DEF Enough
    <3>1. QED
      BY <1>2, HighestAndLowest
  <2>2. QED
    BY <2>1
<1> HIDE DEF i
<1>4. CASE i = 0
  <2>1. In(0) = {}
    OBVIOUS
  <2>2. VisibleUpTo(fragments, 0) = 0
    BY <1>1, <2>1, FS_EmptySet
  <2>3. QED
    BY <1>3, <1>4, <2>2
<1>5. CASE i # 0
  <2>1. i - 1 \in 0 .. n /\ VisibleUpTo(fragments, i - 1) < k
    <3>1. i - 1 \in 0 .. n /\ ~(i - 1 >= i)
      BY <1>3, <1>5
    <3>2. i - 1 \notin Enough
      BY <1>3, <3>1
    <3>3. ~(VisibleUpTo(fragments, i - 1) >= k)
      BY <3>1, <3>2
    <3>4. VisibleUpTo(fragments, i - 1) \in Nat /\ k \in Nat
      <4> HIDE DEF In
      <4>1. QED
        BY <1>1, <3>1
    <3>5. QED
      BY <3>1, <3>3, <3>4
  <2>2. In(i) = In(i - 1) \/ In(i) = In(i - 1) \cup {i}
    BY <1>3, <1>5
  <2>3. Cardinality(In(i)) <= Cardinality(In(i - 1)) + 1
    <3>1. i \notin In(i - 1)
      BY <1>3
    <3> HIDE DEF In
    <3>2. QED
      BY <1>1, <1>3, <2>1, <2>2, <3>1, FS_AddElement
  <2>4. QED
    <3>1. /\ VisibleUpTo(fragments, i) = Cardinality(In(i))
          /\ VisibleUpTo(fragments, i - 1) = Cardinality(In(i - 1))
          /\ Cardinality(In(i)) \in Nat /\ Cardinality(In(i - 1)) \in Nat /\ k \in Nat
      <4>1. k \in Nat
        OBVIOUS
      <4>2. QED
        BY <1>1, <1>3, <2>1, <4>1
    <3> HIDE DEF In
    <3>2. VisibleUpTo(fragments, i) = k
      BY <1>3, <2>1, <2>3, <3>1
    <3>3. QED
      BY <1>3, <3>2
<1>6. QED
  BY <1>4, <1>5

LEMMA FullRangeIn ==
    ASSUME NEW fragments, Len(fragments) \in Nat, NEW start \in 0 .. VisibleLen(fragments), NEW end
    PROVE  FullRange(fragments, start, end).start \in 0 .. Len(fragments)
<1> DEFINE At == {i \in 0 .. Len(fragments) : VisibleUpTo(fragments, i) = start}
<1>1. FullRange(fragments, start, end).start = Max(At)
  BY DEF FullRange
<1>2. At # {} /\ At \subseteq 0 .. Len(fragments)
  BY VisibleReaches
<1> HIDE DEF At
<1>3. QED
  BY <1>1, <1>2, HighestAndLowest

LEMMA RemoteEditCached ==
    ASSUME NEW undo_map, NEW fragments \in Seq(Cached(undo_map)), NEW edit,
           edit.timestamp \in Stamps, edit.len \in Nat, ~IsUndone(undo_map, edit.timestamp)
    PROVE  ApplyRemoteEdit(fragments, undo_map, edit) \in Seq(Cached(undo_map))
<1>1. InsertionPoint(fragments, edit) \in 0 .. Len(fragments)
  BY LenProperties, InsertionPointIn
<1>2. QED
  BY <1>1, RemoteEditIs, SpliceIsCached

LEMMA LocalEditCached ==
    ASSUME NEW undo_map, NEW fragments \in Seq(Cached(undo_map)), NEW edit,
           edit.timestamp \in Stamps, edit.len \in Nat, ~IsUndone(undo_map, edit.timestamp),
           edit.start \in 0 .. Len(fragments)
    PROVE  ApplyLocalEdit(fragments, edit) \in Seq(Cached(undo_map))
BY LocalEditIs, SpliceIsCached

(* Undoing recomputes what the edits touched; nothing else changes. *)
LEMMA UndoCached ==
    ASSUME NEW b, DOMAIN b = Fields, b.fragments \in Seq(Cached(b.undo_map)), NEW undo
    PROVE  ApplyUndo(b, undo).fragments \in Seq(Cached(InsertUndo(b.undo_map, undo)))
<1> DEFINE m == InsertUndo(b.undo_map, undo)
           Updated(f) == IF Touches(f, DOMAIN undo.counts)
                         THEN [f EXCEPT !.visible = IsVisible(f, m)] ELSE f
<1>1. ASSUME NEW f \in Cached(b.undo_map) PROVE Updated(f) \in Cached(m)
  <2>1. f \in Fragment /\ (f.visible <=> IsVisible(f, b.undo_map))
    BY DEF Cached
  <2>2. CASE Touches(f, DOMAIN undo.counts)
    <3> DEFINE g == [f EXCEPT !.visible = IsVisible(f, m)]
    <3>1. IsVisible(f, m) \in BOOLEAN
      BY DEF IsVisible
    <3>2. g \in Fragment /\ g.timestamp = f.timestamp /\ g.deletions = f.deletions
          /\ g.visible = IsVisible(f, m)
      <4> HIDE DEF m
      <4>1. QED
        BY <2>1, <3>1 DEF Fragment
    <3> HIDE DEF g, m
    <3>3. IsVisible(g, m) = IsVisible(f, m)
      BY <3>2 DEF IsVisible
    <3>4. g \in Cached(m)
      BY <3>2, <3>3 DEF Cached
    <3>5. QED
      BY <2>2, <3>4 DEF g
  <2>3. CASE ~Touches(f, DOMAIN undo.counts)
    <3>1. ASSUME NEW e, e \notin DOMAIN undo.counts
          PROVE  IsUndone(m, e) = IsUndone(b.undo_map, e)
      <4>1. \A u : u.edit = e => (u \in m <=> u \in b.undo_map)
        BY <3>1, InsertUndoIs
      <4> HIDE DEF m
      <4>2. QED
        BY <4>1, CountOfEntries
    <3>2. f.timestamp \notin DOMAIN undo.counts /\ f.deletions \cap DOMAIN undo.counts = {}
      BY <2>3 DEF Touches
    <3> HIDE DEF m
    <3>3. IsVisible(f, m) = IsVisible(f, b.undo_map)
      <4>1. IsUndone(m, f.timestamp) = IsUndone(b.undo_map, f.timestamp)
        BY <3>1, <3>2
      <4>2. \A d \in f.deletions : IsUndone(m, d) = IsUndone(b.undo_map, d)
        BY <3>1, <3>2
      <4>3. QED
        BY <4>1, <4>2 DEF IsVisible
    <3>4. QED
      BY <2>1, <2>3, <3>3 DEF Cached
  <2>4. QED
    BY <2>2, <2>3
<1>2. ApplyUndo(b, undo).fragments = [i \in DOMAIN b.fragments |-> Updated(b.fragments[i])]
  BY DEF ApplyUndo, Fields
<1>3. \A i \in DOMAIN b.fragments : Updated(b.fragments[i]) \in Cached(m)
  <2> HIDE DEF Updated, m
  <2>1. QED
    BY <1>1, ElementOfSeq
<1>4. DOMAIN b.fragments = 1 .. Len(b.fragments) /\ Len(b.fragments) \in Nat
  BY LenProperties
<1> HIDE DEF Updated, m
<1>5. QED
  BY <1>2, <1>3, <1>4 DEF m

(* The cached visibility survives an operation of another replica. *)
LEMMA StepShown ==
    ASSUME OpsOK, NEW b, Sound(b), Shown(b), NEW op \in operations
    PROVE  Shown(ApplyOrDefer(b, op))
<1> DEFINE c == ApplyOrDefer(b, op)
           v == b.version
<1>1. /\ DOMAIN b = Fields /\ v \in Versions /\ Closed(v)
      /\ op.timestamp \in Stamps /\ op.kind \in {"edit", "undo"}
      /\ op.kind = "edit" => op.len \in Nat
  BY DEF Sound, OpsOK, OpShape
<1>2. CASE ~CanApplyOp(b, op)
  BY <1>2, StepSound DEF Shown
<1>3. CASE CanApplyOp(b, op)
  <2>1. ObservedAll(v, op.version) /\ c.version = Observe(v, op.timestamp)
    BY <1>3, StepSound DEF CanApplyOp
  <2>2. UndoMapOf(c.version) =
            IF op.kind = "undo" THEN InsertUndo(b.undo_map, op) ELSE b.undo_map
    BY <1>1, <2>1, UndoMapGrows DEF Shown
  <2> DEFINE a == IF Observed(v, op.timestamp) THEN b ELSE ApplyNew(b, op)
  <2>3. c = NotifyVersions(a)
    BY <1>3 DEF ApplyOrDefer, ApplyOp
  <2>4. DOMAIN a = Fields
    BY <1>1, ApplyNewFields
  <2> HIDE DEF a
  <2>5. c.undo_map = a.undo_map /\ c.fragments = a.fragments
    <3>1. "undo_map" \in Fields \ {"wait_for_version_txs"}
          /\ "fragments" \in Fields \ {"wait_for_version_txs"}
      BY DEF Fields
    <3> HIDE DEF c
    <3>2. QED
      BY <2>3, <2>4, <3>1, NotifyFields
  <2>6. CASE Observed(v, op.timestamp)
    <3>1. a = b
      BY <2>6 DEF a
    <3>2. \A q \in Replicas : c.version[q] = v[q]
      BY <1>1, <2>1, <2>6, ObserveIs DEF Observed, Versions
    <3>3. c.version = v
      BY <1>1, <2>1, <3>2, ObserveIs DEF Versions
    <3>4. QED
      BY <2>5, <3>1, <3>3 DEF Shown
  <2>7. CASE ~Observed(v, op.timestamp)
    <3>1. a = ApplyNew(b, op)
      BY <2>7 DEF a
    <3>2. /\ a.undo_map = IF op.kind = "edit" THEN b.undo_map ELSE InsertUndo(b.undo_map, op)
          /\ a.fragments = IF op.kind = "edit"
                           THEN ApplyRemoteEdit(b.fragments, b.undo_map, op)
                           ELSE ApplyUndo(b, op).fragments
      BY <1>1, <3>1, ApplyNewFields
    <3>3. CASE op.kind = "edit"
      <4>1. \A u \in b.undo_map : u.edit # op.timestamp
        BY <1>1, <2>7, UndoneObserved DEF Shown
      <4>2. ~IsUndone(b.undo_map, op.timestamp)
        BY <4>1, NewNotUndone
      <4>3. a.fragments \in Seq(Cached(b.undo_map))
        BY <1>1, <3>2, <3>3, <4>2, RemoteEditCached DEF Shown
      <4>4. QED
        BY <2>2, <2>5, <3>2, <3>3, <4>3 DEF Shown
    <3>4. CASE op.kind = "undo"
      <4>1. a.fragments \in Seq(Cached(InsertUndo(b.undo_map, op)))
        BY <1>1, <3>2, <3>4, UndoCached DEF Shown
      <4>2. QED
        BY <2>2, <2>5, <3>2, <3>4, <4>1 DEF Shown
    <3>5. QED
      BY <1>1, <3>3, <3>4
  <2>8. QED
    BY <2>6, <2>7
<1>4. QED
  BY <1>2, <1>3

-----------------------------------------------------------------------------
(* Offsets and ranks.                                                      *)

(* Offsets count characters: the full offset behind a fragment in an       *)
(* earlier version is the rank of its character there.                     *)
LEMMA OffsetIsRank ==
    ASSUME NEW chars, NEW order, NEW gone, NEW version, NEW earlier,
           SeenChars(chars, earlier) \subseteq SeenChars(chars, version),
           NEW n \in Nat, NEW fragments, DOMAIN fragments = 1 .. n,
           Placed(chars, order, gone, fragments, version), NEW i \in 1 .. n
    PROVE  /\ ObservedUpTo(fragments, earlier, i) = Rank(chars, order, earlier, Id(fragments[i]))
           /\ ObservedUpTo(fragments, earlier, i) \in Nat
<1> DEFINE c == Id(fragments[i])
           S == {j \in 1 .. i : Observed(earlier, fragments[j].timestamp)}
           T == {x \in SeenChars(chars, earlier) : x = c \/ <<x, c>> \in order}
           g == [j \in S |-> Id(fragments[j])]
<1>1. /\ {Id(fragments[j]) : j \in 1 .. n} = SeenChars(chars, version)
      /\ \A j, k \in 1 .. n : <<Id(fragments[j]), Id(fragments[k])>> \in order <=> j < k
  BY DEF Placed
<1>2. \A j \in 1 .. n : Id(fragments[j])[1] = fragments[j].timestamp
                        /\ Id(fragments[j]) \in chars
  BY <1>1 DEF Id, SeenChars
<1>3. IsFiniteSet(S) /\ S \subseteq 1 .. n
  <2>1. IsFiniteSet(1 .. i) /\ S \subseteq 1 .. i
    BY FS_Interval
  <2>2. 1 .. i \subseteq 1 .. n
    OBVIOUS
  <2> HIDE DEF S
  <2>3. QED
    BY <2>1, <2>2, FS_Subset
<1>4. \A j \in S : g[j] \in T
  <2>1. SUFFICES ASSUME NEW j \in S PROVE Id(fragments[j]) \in T
    OBVIOUS
  <2>2. j \in 1 .. n /\ (j = i \/ j < i) /\ Observed(earlier, fragments[j].timestamp)
    OBVIOUS
  <2>3. Id(fragments[j]) \in SeenChars(chars, earlier)
    BY <1>2, <2>2 DEF SeenChars
  <2>4. Id(fragments[j]) = c \/ <<Id(fragments[j]), c>> \in order
    BY <1>1, <2>2
  <2>5. QED
    BY <2>3, <2>4
<1>5. \A x \in T : \E j \in S : g[j] = x
  <2>1. SUFFICES ASSUME NEW x \in T PROVE \E j \in S : Id(fragments[j]) = x
    OBVIOUS
  <2>2. PICK j \in 1 .. n : Id(fragments[j]) = x
    BY <1>1
  <2>3. Observed(earlier, fragments[j].timestamp)
    BY <1>2, <2>2 DEF SeenChars
  <2>4. j \in 1 .. i
    BY <1>1, <2>2
  <2>5. QED
    BY <2>2, <2>3, <2>4
<1>6. \A j, k \in S : g[j] = g[k] => j = k
  <2>1. SUFFICES ASSUME NEW j \in S, NEW k \in S, Id(fragments[j]) = Id(fragments[k])
                 PROVE  j = k
    OBVIOUS
  <2>2. j \in 1 .. n /\ k \in 1 .. n
    BY <1>3
  <2>3. <<Id(fragments[j]), Id(fragments[k])>> \notin order
        /\ <<Id(fragments[k]), Id(fragments[j])>> \notin order
    <3>1. <<Id(fragments[j]), Id(fragments[j])>> \notin order
      BY <1>1, <2>2
    <3>2. QED
      BY <2>1, <3>1
  <2>4. QED
    BY <1>1, <2>2, <2>3
<1> HIDE DEF S, T
<1>7. g \in Bijection(S, T)
  BY <1>4, <1>5, <1>6 DEF Bijection, Injection, Surjection, IsInjective
<1>8. Cardinality(T) = Cardinality(S) /\ Cardinality(S) \in Nat
  BY <1>3, <1>7, FS_Bijection, FS_CardinalityType DEF ExistsBijection
<1>9. ObservedUpTo(fragments, earlier, i) = Cardinality(S)
  BY DEF ObservedUpTo, CountUpTo, S
<1>10. Rank(chars, order, earlier, Id(fragments[i])) = Cardinality(T)
  BY DEF Rank, T
<1>11. QED
  BY <1>8, <1>9, <1>10

(* Offsets grow with every observed fragment. *)
LEMMA OffsetGrows ==
    ASSUME NEW fragments, NEW version, NEW i \in Nat, NEW j \in Nat, i <= j
    PROVE  /\ ObservedUpTo(fragments, version, i) \in Nat
           /\ ObservedUpTo(fragments, version, i) <= ObservedUpTo(fragments, version, j)
           /\ i < j /\ Observed(version, fragments[j].timestamp) =>
                 ObservedUpTo(fragments, version, i) < ObservedUpTo(fragments, version, j)
<1> DEFINE S(k) == {m \in 1 .. k : Observed(version, fragments[m].timestamp)}
<1>1. \A k \in Nat : IsFiniteSet(S(k))
  <2>1. ASSUME NEW k \in Nat PROVE IsFiniteSet(S(k))
    <3>1. IsFiniteSet(1 .. k) /\ S(k) \subseteq 1 .. k
      BY FS_Interval
    <3> HIDE DEF S
    <3>2. QED
      BY <3>1, FS_Subset
  <2>2. QED
    BY <2>1
<1>2. S(i) \subseteq S(j)
  OBVIOUS
<1>3. i < j /\ Observed(version, fragments[j].timestamp) => j \in S(j) /\ j \notin S(i)
  OBVIOUS
<1>4. \A k : ObservedUpTo(fragments, version, k) = Cardinality(S(k))
  BY DEF ObservedUpTo, CountUpTo
<1> HIDE DEF S
<1>5. /\ Cardinality(S(i)) \in Nat /\ Cardinality(S(j)) \in Nat
      /\ Cardinality(S(i)) <= Cardinality(S(j))
      /\ Cardinality(S(i)) = Cardinality(S(j)) => S(i) = S(j)
  BY <1>1, <1>2, FS_CardinalityType, FS_Subset
<1>6. QED
  BY <1>3, <1>4, <1>5

(* What a splice puts where. *)
IsSplice(s, fragments, n, p, t, len, deleted) ==
    LET marks(i) == IF i \in deleted THEN fragments[i].deletions \cup {t}
                    ELSE fragments[i].deletions
    IN  /\ n \in Nat /\ DOMAIN fragments = 1 .. n /\ DOMAIN s = 1 .. n + len
        /\ \A i \in 1 .. p : /\ i \in 1 .. n
                             /\ Id(s[i]) = Id(fragments[i]) /\ s[i].deletions = marks(i)
        /\ \A k \in 1 .. len : Id(s[p + k]) = <<t, k - 1>> /\ s[p + k].deletions = {}
        /\ \A i \in p + 1 .. n : /\ i \in 1 .. n
                                 /\ Id(s[i + len]) = Id(fragments[i])
                                 /\ s[i + len].deletions = marks(i)

LEMMA SplicedIs ==
    ASSUME NEW fragments \in Seq(Fragment), NEW n, n = Len(fragments), NEW p \in 0 .. n, NEW t,
           NEW len \in Nat, NEW deleted
    PROVE  IsSplice(Spliced(fragments, p, t, len, deleted), fragments, n, p, t, len, deleted)
<1> DEFINE marked == Marked(fragments, deleted, t)
           F == {marked[i] : i \in 1 .. n}
           N(k) == [timestamp |-> t, offset |-> k - 1, deletions |-> {}, visible |-> TRUE]
           new == NewFragments(t, len)
           left == SubSeq(marked, 1, p)
           right == SubSeq(marked, p + 1, n)
<1>1. n \in Nat /\ DOMAIN fragments = 1 .. n
  BY LenProperties
<1>2. marked = [i \in 1 .. n |-> marked[i]]
  BY <1>1 DEF Marked
<1> HIDE DEF marked
<1>3. marked \in Seq(F) /\ Len(marked) = n
  BY <1>1, <1>2
<1>4. new = [k \in 1 .. len |-> N(k)]
  BY DEF NewFragments
<1>5. new \in Seq({N(k) : k \in 1 .. len}) /\ Len(new) = len /\ \A k \in 1 .. len : new[k] = N(k)
  <2> HIDE DEF N, new
  <2>1. QED
    BY <1>4
<1>6. /\ left \in Seq(F) /\ Len(left) = p /\ \A i \in 1 .. p : left[i] = marked[i]
      /\ right \in Seq(F) /\ Len(right) = n - p
      /\ \A i \in 1 .. n - p : right[i] = marked[p + i]
  <2> HIDE DEF F
  <2>1. /\ left \in Seq(F) /\ Len(left) = p /\ \A i \in 1 .. p : left[i] = marked[i]
    BY <1>1, <1>3
  <2>2. /\ right \in Seq(F) /\ Len(right) = n - p
        /\ \A i \in 1 .. n - p : right[i] = marked[p + i]
    BY <1>1, <1>3
  <2>3. QED
    BY <2>1, <2>2
<1>7. Spliced(fragments, p, t, len, deleted) = left \o new \o right
  BY <1>3 DEF Spliced, marked
<1> HIDE DEF left, right, new
<1> DEFINE G == F \cup {N(k) : k \in 1 .. len}
<1>8. left \in Seq(G) /\ new \in Seq(G) /\ right \in Seq(G)
  BY <1>5, <1>6, SeqMonotonic
<1> HIDE DEF F, N, G
<1> DEFINE l == left \o new
           s == l \o right
<1>9. /\ l \in Seq(G) /\ Len(l) = p + len
      /\ \A i \in 1 .. p + len : l[i] = IF i <= p THEN left[i] ELSE new[i - p]
  <2>1. Len(left) = p /\ Len(new) = len
    BY <1>5, <1>6
  <2>2. /\ l \in Seq(G) /\ Len(l) = Len(left) + Len(new)
        /\ \A i \in 1 .. Len(left) + Len(new) :
              l[i] = IF i <= Len(left) THEN left[i] ELSE new[i - Len(left)]
    BY <1>8, ConcatProperties
  <2> HIDE DEF l
  <2>3. QED
    BY <2>1, <2>2
<1> HIDE DEF l
<1>10. /\ s \in Seq(G) /\ Len(s) = n + len
       /\ \A i \in 1 .. n + len : s[i] = IF i <= p + len THEN l[i] ELSE right[i - (p + len)]
  <2>1. Len(l) + Len(right) = n + len
    BY <1>1, <1>5, <1>6, <1>9
  <2>2. /\ s \in Seq(G) /\ Len(s) = Len(l) + Len(right)
        /\ \A i \in 1 .. Len(l) + Len(right) :
              s[i] = IF i <= Len(l) THEN l[i] ELSE right[i - Len(l)]
    BY <1>8, <1>9, ConcatProperties
  <2> HIDE DEF s
  <2>3. QED
    BY <1>9, <2>1, <2>2
<1> HIDE DEF s
<1>11. DOMAIN s = 1 .. n + len
  BY <1>10, LenProperties
<1>12. ASSUME NEW i \in 1 .. p PROVE s[i] = marked[i]
  <2>1. i \in 1 .. n + len /\ i \in 1 .. p + len /\ i <= p /\ i <= p + len
    BY <1>1
  <2>2. QED
    BY <1>6, <1>9, <1>10, <2>1
<1>13. ASSUME NEW k \in 1 .. len PROVE s[p + k] = N(k)
  <2>1. PICK i : i = p + k
    OBVIOUS
  <2>2. /\ i \in 1 .. n + len /\ i \in 1 .. p + len /\ ~(i <= p) /\ i <= p + len /\ i - p = k
    BY <1>1, <2>1
  <2>3. s[i] = l[i] /\ l[i] = new[k]
    BY <1>9, <1>10, <2>2
  <2>4. QED
    BY <1>5, <2>1, <2>3
<1>14. ASSUME NEW i \in p + 1 .. n PROVE s[i + len] = marked[i]
  <2>1. PICK m : m = i + len
    OBVIOUS
  <2>2. PICK k : k = m - (p + len)
    OBVIOUS
  <2>3. m \in 1 .. n + len /\ ~(m <= p + len) /\ k \in 1 .. n - p /\ p + k = i
    BY <1>1, <2>1, <2>2
  <2>4. s[m] = right[k]
    BY <1>10, <2>2, <2>3
  <2>5. right[k] = marked[p + k]
    BY <1>6, <2>3
  <2>6. QED
    BY <2>1, <2>3, <2>4, <2>5
<1> DEFINE marks(i) == IF i \in deleted THEN fragments[i].deletions \cup {t}
                       ELSE fragments[i].deletions
<1>15. \A i \in 1 .. n : Id(marked[i]) = Id(fragments[i]) /\ marked[i].deletions = marks(i)
  <2>1. SUFFICES ASSUME NEW i \in 1 .. n
                 PROVE  Id(marked[i]) = Id(fragments[i]) /\ marked[i].deletions = marks(i)
    OBVIOUS
  <2>2. i \in DOMAIN fragments
    BY <1>1
  <2>3. fragments[i] \in Fragment
    BY <2>2, ElementOfSeq
  <2>4. marked[i] = IF i \in deleted THEN Delete(fragments[i], t) ELSE fragments[i]
    BY <2>2 DEF marked, Marked
  <2>5. QED
    BY <2>3, <2>4 DEF Delete, Fragment, Id
<1>16. \A k : Id(N(k)) = <<t, k - 1>> /\ N(k).deletions = {}
  BY DEF Id, N
<1> HIDE DEF marks
<1>17. \A i \in 1 .. p : /\ i \in 1 .. n
                         /\ Id(s[i]) = Id(fragments[i]) /\ s[i].deletions = marks(i)
  BY <1>1, <1>12, <1>15
<1>18. \A i \in p + 1 .. n : /\ i \in 1 .. n
                             /\ Id(s[i + len]) = Id(fragments[i])
                             /\ s[i + len].deletions = marks(i)
  <2>1. \A i \in p + 1 .. n : i \in 1 .. n
    BY <1>1
  <2>2. QED
    BY <1>14, <1>15, <2>1
<1>19. \A k \in 1 .. len : Id(s[p + k]) = <<t, k - 1>> /\ s[p + k].deletions = {}
  BY <1>13, <1>16
<1>20. IsSplice(s, fragments, n, p, t, len, deleted)
  BY <1>1, <1>11, <1>17, <1>18, <1>19 DEF IsSplice, marks
<1>21. QED
  BY <1>7, <1>20 DEF s, l

(* A splice at the place of the new characters, which deletes what the     *)
(* edit deletes, leaves every character in its place.                      *)
LEMMA SplicePlaced ==
    ASSUME NEW chars, NEW order, NEW gone, NEW version, NEW after, NEW t, NEW len \in Nat,
           NEW fragments \in Seq(Fragment), NEW n, n = Len(fragments), NEW p \in 0 .. n,
           NEW deleted, NEW new, new = {<<t, k>> : k \in 0 .. len - 1}, new \subseteq chars,
           Ordered(chars, order), Placed(chars, order, gone, fragments, version),
           SeenChars(chars, after) = SeenChars(chars, version) \cup new,
           new \cap SeenChars(chars, version) = {},
           \A i \in 1 .. n, c \in new : <<Id(fragments[i]), c>> \in order <=> i <= p,
           \A i \in 1 .. n : i \in deleted <=> <<t, Id(fragments[i])>> \in gone,
           \A c \in SeenChars(chars, version) :
              Deletions(gone, after, c) = IF <<t, c>> \in gone
                                          THEN Deletions(gone, version, c) \cup {t}
                                          ELSE Deletions(gone, version, c),
           \A c \in new : Deletions(gone, after, c) = {}
    PROVE  Placed(chars, order, gone, Spliced(fragments, p, t, len, deleted), after)
<1> DEFINE s == Spliced(fragments, p, t, len, deleted)
           old == SeenChars(chars, version)
           marks(i) == IF i \in deleted THEN fragments[i].deletions \cup {t}
                       ELSE fragments[i].deletions
<1>1. /\ n \in Nat /\ DOMAIN fragments = 1 .. n /\ DOMAIN s = 1 .. n + len
      /\ \A i \in 1 .. p : /\ i \in 1 .. n
                           /\ Id(s[i]) = Id(fragments[i]) /\ s[i].deletions = marks(i)
      /\ \A k \in 1 .. len : Id(s[p + k]) = <<t, k - 1>> /\ s[p + k].deletions = {}
      /\ \A i \in p + 1 .. n : /\ i \in 1 .. n
                               /\ Id(s[i + len]) = Id(fragments[i])
                               /\ s[i + len].deletions = marks(i)
  <2>1. IsSplice(s, fragments, n, p, t, len, deleted)
    BY SplicedIs
  <2> HIDE DEF s
  <2>2. QED
    BY <2>1 DEF IsSplice
<1> HIDE DEF s
<1>3. /\ {Id(fragments[i]) : i \in 1 .. n} = old
      /\ \A i, j \in 1 .. n : <<Id(fragments[i]), Id(fragments[j])>> \in order <=> i < j
      /\ \A i \in 1 .. n : fragments[i].deletions = Deletions(gone, version, Id(fragments[i]))
  BY <1>1 DEF Placed
<1>4. \A i \in 1 .. n : Id(fragments[i]) \in old /\ Id(fragments[i]) \in chars
  BY <1>3 DEF SeenChars
<1>5. \A i \in 1 .. n, c \in new : <<c, Id(fragments[i])>> \in order <=> i > p
  <2>1. SUFFICES ASSUME NEW i \in 1 .. n, NEW c \in new
                 PROVE  <<c, Id(fragments[i])>> \in order <=> ~(i <= p)
    BY <1>1
  <2>2. PICK a : a = Id(fragments[i])
    OBVIOUS
  <2>3. a \in chars /\ c \in chars /\ a # c /\ (<<a, c>> \in order <=> i <= p)
    BY <1>4, <2>2
  <2>4. <<c, a>> \in order <=> <<a, c>> \notin order
    BY <2>3 DEF Ordered
  <2>5. QED
    BY <2>2, <2>3, <2>4
<1> DEFINE N(k) == <<t, k - 1>>
<1>6. \A k \in 1 .. len : N(k) \in new
  <2>1. \A k \in 1 .. len : k - 1 \in 0 .. len - 1
    OBVIOUS
  <2>2. QED
    BY <2>1
<1>7. \A j, k \in 1 .. len : <<N(j), N(k)>> \in order <=> j < k
  <2>1. SUFFICES ASSUME NEW j \in 1 .. len, NEW k \in 1 .. len
                 PROVE  <<N(j), N(k)>> \in order <=> j < k
    OBVIOUS
  <2>2. PICK c : c = N(j)
    OBVIOUS
  <2>3. PICK d : d = N(k)
    OBVIOUS
  <2>4. c \in chars /\ d \in chars /\ c[1] = d[1] /\ c[2] = j - 1 /\ d[2] = k - 1
    BY <1>6, <2>2, <2>3
  <2>5. <<c, d>> \in order <=> c[2] < d[2]
    BY <2>4 DEF Ordered
  <2>6. QED
    BY <2>2, <2>3, <2>4, <2>5
<1>8. \A x \in new : \E k \in 1 .. len : x = N(k)
  <2>1. SUFFICES ASSUME NEW k \in 0 .. len - 1 PROVE \E j \in 1 .. len : <<t, k>> = N(j)
    OBVIOUS
  <2>2. k + 1 \in 1 .. len /\ (k + 1) - 1 = k
    OBVIOUS
  <2>3. QED
    BY <2>2
(* The three parts of the result. *)
<1> DEFINE I(x) == Id(s[x])
<1>9. \A i \in 1 .. n : marks(i) = Deletions(gone, after, Id(fragments[i]))
  BY <1>3, <1>4
<1>10. /\ \A i \in 1 .. p : /\ i \in 1 .. n /\ I(i) = Id(fragments[i])
                            /\ s[i].deletions = Deletions(gone, after, I(i))
       /\ \A i \in p + 1 .. n : /\ i \in 1 .. n /\ I(i + len) = Id(fragments[i])
                                /\ s[i + len].deletions = Deletions(gone, after, I(i + len))
  <2> HIDE DEF marks
  <2>1. QED
    BY <1>1, <1>9
<1>11. \A k \in 1 .. len : /\ I(p + k) = N(k)
                           /\ s[p + k].deletions = Deletions(gone, after, I(p + k))
  BY <1>1, <1>6
<1>12. \A x \in 1 .. n + len : \/ x \in 1 .. p
                               \/ \E k \in 1 .. len : x = p + k
                               \/ \E i \in p + 1 .. n : x = i + len
  <2>1. SUFFICES ASSUME NEW x \in 1 .. n + len, x \notin 1 .. p
                 PROVE  \/ \E k \in 1 .. len : x = p + k
                        \/ \E i \in p + 1 .. n : x = i + len
    OBVIOUS
  <2>2. CASE x <= p + len
    <3>1. x - p \in 1 .. len /\ x = p + (x - p)
      BY <1>1, <2>1, <2>2
    <3>2. QED
      BY <3>1
  <2>3. CASE x > p + len
    <3>1. x - len \in p + 1 .. n /\ x = (x - len) + len
      BY <1>1, <2>1, <2>3
    <3>2. QED
      BY <3>1
  <2>4. QED
    BY <1>1, <2>2, <2>3
<1> HIDE DEF I, N, old
<1>13. \A x \in 1 .. n + len : s[x].deletions = Deletions(gone, after, I(x))
  <2>1. SUFFICES ASSUME NEW x \in 1 .. n + len
                 PROVE  s[x].deletions = Deletions(gone, after, I(x))
    OBVIOUS
  <2>2. CASE x \in 1 .. p
    BY <1>10, <2>2
  <2>3. ASSUME NEW k \in 1 .. len, x = p + k PROVE s[x].deletions = Deletions(gone, after, I(x))
    BY <1>11, <2>3
  <2>4. ASSUME NEW i \in p + 1 .. n, x = i + len
        PROVE  s[x].deletions = Deletions(gone, after, I(x))
    BY <1>10, <2>4
  <2>5. QED
    BY <1>12, <2>2, <2>3, <2>4
<1>14. {I(x) : x \in 1 .. n + len} = old \cup new
  <2>1. ASSUME NEW x \in 1 .. n + len PROVE I(x) \in old \cup new
    <3>1. CASE x \in 1 .. p
      BY <1>4, <1>10, <3>1
    <3>2. ASSUME NEW k \in 1 .. len, x = p + k PROVE I(x) \in old \cup new
      BY <1>6, <1>11, <3>2
    <3>3. ASSUME NEW i \in p + 1 .. n, x = i + len PROVE I(x) \in old \cup new
      BY <1>4, <1>10, <3>3
    <3>4. QED
      BY <1>12, <3>1, <3>2, <3>3
  <2>2. ASSUME NEW a \in old PROVE \E x \in 1 .. n + len : I(x) = a
    <3>1. PICK i \in 1 .. n : Id(fragments[i]) = a
      BY <1>3
    <3>2. CASE i <= p
      <4>1. i \in 1 .. p /\ i \in 1 .. n + len
        BY <1>1, <3>2
      <4>2. QED
        BY <1>10, <3>1, <4>1
    <3>3. CASE i > p
      <4>1. i \in p + 1 .. n /\ i + len \in 1 .. n + len
        BY <1>1, <3>3
      <4>2. QED
        BY <1>10, <3>1, <4>1
    <3>4. QED
      BY <1>1, <3>2, <3>3
  <2>3. ASSUME NEW a \in new PROVE \E x \in 1 .. n + len : I(x) = a
    <3>1. PICK k \in 1 .. len : a = N(k)
      BY <1>8
    <3>2. p + k \in 1 .. n + len
      BY <1>1
    <3>3. QED
      BY <1>11, <3>1, <3>2
  <2>4. QED
    BY <2>1, <2>2, <2>3
<1>15. \A x, y \in 1 .. n + len : <<I(x), I(y)>> \in order <=> x < y
  <2>1. SUFFICES ASSUME NEW x \in 1 .. n + len, NEW y \in 1 .. n + len
                 PROVE  <<I(x), I(y)>> \in order <=> x < y
    OBVIOUS
  <2>2. CASE x \in 1 .. p
    <3>1. x \in 1 .. n /\ I(x) = Id(fragments[x]) /\ x <= p
      BY <1>10, <2>2
    <3>2. CASE y \in 1 .. p
      BY <1>3, <1>10, <2>2, <3>2
    <3>3. CASE \E k \in 1 .. len : y = p + k
      <4>1. PICK k \in 1 .. len : y = p + k
        BY <3>3
      <4>2. <<I(x), I(y)>> \in order
        BY <1>6, <1>11, <3>1, <4>1
      <4>3. x < y
        BY <1>1, <3>1, <4>1
      <4>4. QED
        BY <4>2, <4>3
    <3>4. CASE \E i \in p + 1 .. n : y = i + len
      <4>1. PICK i \in p + 1 .. n : y = i + len
        BY <3>4
      <4>2. <<I(x), I(y)>> \in order <=> x < i
        BY <1>3, <1>10, <3>1, <4>1
      <4>3. x < i /\ x < y
        BY <1>1, <3>1, <4>1
      <4>4. QED
        BY <4>2, <4>3
    <3>5. QED
      BY <1>12, <3>2, <3>3, <3>4
  <2>3. CASE \E k \in 1 .. len : x = p + k
    <3>1. PICK k \in 1 .. len : x = p + k
      BY <2>3
    <3>2. I(x) = N(k) /\ N(k) \in new
      BY <1>6, <1>11, <3>1
    <3>3. CASE y \in 1 .. p
      <4>1. <<I(x), I(y)>> \in order <=> y > p
        BY <1>5, <1>10, <3>2, <3>3
      <4>2. ~(y > p) /\ ~(x < y)
        BY <1>1, <3>1, <3>3
      <4>3. QED
        BY <4>1, <4>2
    <3>4. CASE \E j \in 1 .. len : y = p + j
      <4>1. PICK j \in 1 .. len : y = p + j
        BY <3>4
      <4>2. <<I(x), I(y)>> \in order <=> k < j
        BY <1>7, <1>11, <3>2, <4>1
      <4>3. x < y <=> k < j
        BY <1>1, <3>1, <4>1
      <4>4. QED
        BY <4>2, <4>3
    <3>5. CASE \E i \in p + 1 .. n : y = i + len
      <4>1. PICK i \in p + 1 .. n : y = i + len
        BY <3>5
      <4>2. i > p /\ x < y
        BY <1>1, <3>1, <4>1
      <4>3. <<I(x), I(y)>> \in order <=> i > p
        BY <1>5, <1>10, <3>2, <4>1
      <4>4. QED
        BY <4>2, <4>3
    <3>6. QED
      BY <1>12, <3>3, <3>4, <3>5
  <2>4. CASE \E i \in p + 1 .. n : x = i + len
    <3>1. PICK i \in p + 1 .. n : x = i + len
      BY <2>4
    <3>2. i \in 1 .. n /\ I(x) = Id(fragments[i]) /\ i > p /\ ~(i <= p)
      BY <1>1, <1>10, <3>1
    <3>3. CASE y \in 1 .. p
      <4>1. <<I(x), I(y)>> \in order <=> i < y
        BY <1>3, <1>10, <3>2, <3>3
      <4>2. ~(i < y) /\ ~(x < y)
        BY <1>1, <3>1, <3>2, <3>3
      <4>3. QED
        BY <4>1, <4>2
    <3>4. CASE \E k \in 1 .. len : y = p + k
      <4>1. PICK k \in 1 .. len : y = p + k
        BY <3>4
      <4>2. <<I(x), I(y)>> \in order <=> i <= p
        BY <1>6, <1>11, <3>2, <4>1
      <4>3. ~(x < y)
        BY <1>1, <3>1, <3>2, <4>1
      <4>4. QED
        BY <3>2, <4>2, <4>3
    <3>5. CASE \E j \in p + 1 .. n : y = j + len
      <4>1. PICK j \in p + 1 .. n : y = j + len
        BY <3>5
      <4>2. <<I(x), I(y)>> \in order <=> i < j
        BY <1>3, <1>10, <3>2, <4>1
      <4>3. x < y <=> i < j
        BY <1>1, <3>1, <4>1
      <4>4. QED
        BY <4>2, <4>3
    <3>6. QED
      BY <1>12, <3>3, <3>4, <3>5
  <2>5. QED
    BY <1>12, <2>2, <2>3, <2>4
<1>16. Placed(chars, order, gone, s, after)
  BY <1>1, <1>13, <1>14, <1>15 DEF Placed, I, old
<1>17. QED
  BY <1>16 DEF s

-----------------------------------------------------------------------------
(* Where an edit belongs.                                                  *)

LEMMA BeforeIs ==
    ASSUME NEW s \in Nat \X Nat, NEW t \in Nat \X Nat
    PROVE  /\ ~Before(s, s)
           /\ Before(s, t) \/ s = t \/ Before(t, s)
           /\ ~(Before(s, t) /\ Before(t, s))
           /\ \A u \in Nat \X Nat : Before(s, t) /\ Before(t, u) => Before(s, u)
<1>1. /\ s[1] \in Nat /\ s[2] \in Nat /\ s = <<s[1], s[2]>>
      /\ t[1] \in Nat /\ t[2] \in Nat /\ t = <<t[1], t[2]>>
      /\ \A u \in Nat \X Nat : u[1] \in Nat /\ u[2] \in Nat
  OBVIOUS
<1>2. Before(s, t) \/ s = t \/ Before(t, s)
  <2>1. s[1] = t[1] /\ s[2] = t[2] => s = t
    BY <1>1
  <2>2. QED
    BY <1>1, <2>1 DEF Before
<1>3. QED
  BY <1>1, <1>2 DEF Before

(* What the insertion of another replica's edit looks for: the start of    *)
(* its range, and from there the first earlier character.                  *)
IsPoint(p, from, n, fragments, op) ==
    /\ from \in 0 .. n /\ p \in from .. n
    /\ from = n \/ ObservedUpTo(fragments, op.version, from) >= op.start
    /\ \A i \in 0 .. n : ObservedUpTo(fragments, op.version, i) >= op.start => from <= i
    /\ \A i \in from + 1 .. p : Before(op.timestamp, fragments[i].timestamp)
    /\ p = n \/ ~Before(op.timestamp, fragments[p + 1].timestamp)

LEMMA InsertionPointIs ==
    ASSUME NEW fragments, NEW n \in Nat, n = Len(fragments), NEW op
    PROVE  \E from : IsPoint(InsertionPoint(fragments, op), from, n, fragments, op)
<1> DEFINE Starts == {i \in 0 .. n : \/ ObservedUpTo(fragments, op.version, i) >= op.start
                                     \/ i = n}
           from == Min(Starts)
           Ends == {p \in from .. n :
                       \A i \in from + 1 .. p : Before(op.timestamp, fragments[i].timestamp)}
           p == Max(Ends)
<1>1. from \in Starts /\ \A i \in Starts : from <= i
  <2>1. Starts \subseteq 0 .. n /\ n \in Starts
    OBVIOUS
  <2> HIDE DEF Starts
  <2>2. from \in Starts /\ \A i \in Starts : i >= from
    BY <2>1, HighestAndLowest
  <2>3. QED
    BY <2>1, <2>2
<1>2. InsertionPoint(fragments, op) = p
  BY DEF InsertionPoint
<1> HIDE DEF from
<1>3. /\ from \in 0 .. n
      /\ from = n \/ ObservedUpTo(fragments, op.version, from) >= op.start
      /\ \A i \in 0 .. n : ObservedUpTo(fragments, op.version, i) >= op.start => from <= i
  BY <1>1
<1>4. p \in Ends /\ \A i \in Ends : i <= p
  <2>1. from \in Ends /\ Ends \subseteq 0 .. n
    BY <1>3
  <2> HIDE DEF Ends
  <2>2. QED
    BY <2>1, HighestAndLowest
<1> HIDE DEF p
<1>5. p = n \/ ~Before(op.timestamp, fragments[p + 1].timestamp)
  <2>1. SUFFICES ASSUME p # n, Before(op.timestamp, fragments[p + 1].timestamp) PROVE FALSE
    OBVIOUS
  <2>2. p \in from .. n /\ p + 1 \in from .. n /\ ~(p + 1 <= p)
    BY <1>3, <1>4, <2>1
  <2>3. \A i \in from + 1 .. p + 1 : i \in from + 1 .. p \/ i = p + 1
    BY <1>3, <2>2
  <2>4. p + 1 \in Ends
    BY <1>4, <2>1, <2>2, <2>3
  <2>5. QED
    BY <1>4, <2>2, <2>4
<1>6. IsPoint(p, from, n, fragments, op)
  BY <1>3, <1>4, <1>5 DEF IsPoint
<1>7. QED
  BY <1>2, <1>6

(* That point is the place of the new characters. *)
LEMMA InsertionPlaced ==
    ASSUME NEW chars, \A c \in chars : c[1] \in Nat \X Nat, NEW order, Ordered(chars, order),
           NEW gone, NEW version, NEW op, op.timestamp \in Nat \X Nat,
           ~Observed(version, op.timestamp), CharsOf(op) \subseteq chars,
           Anchored(chars, order, op),
           SeenChars(chars, op.version) \subseteq SeenChars(chars, version),
           Shielded(chars, order, version, SeenChars(chars, version)),
           NEW fragments, NEW n \in Nat, n = Len(fragments), DOMAIN fragments = 1 .. n,
           Placed(chars, order, gone, fragments, version),
           NEW i \in 1 .. n, NEW c \in CharsOf(op)
    PROVE  <<Id(fragments[i]), c>> \in order <=> i <= InsertionPoint(fragments, op)
<1> DEFINE F(k) == Id(fragments[k])
           Offset(k) == ObservedUpTo(fragments, op.version, k)
<1>1. PICK p : p = InsertionPoint(fragments, op)
  OBVIOUS
<1>2. PICK from : IsPoint(p, from, n, fragments, op)
  BY <1>1, InsertionPointIs
<1>3. /\ from \in 0 .. n /\ p \in from .. n
      /\ from = n \/ Offset(from) >= op.start
      /\ \A k \in 0 .. n : Offset(k) >= op.start => from <= k
      /\ \A k \in from + 1 .. p : Before(op.timestamp, fragments[k].timestamp)
      /\ p = n \/ ~Before(op.timestamp, fragments[p + 1].timestamp)
  BY <1>2 DEF IsPoint
<1>4. /\ {F(k) : k \in 1 .. n} = SeenChars(chars, version)
      /\ \A j, k \in 1 .. n : <<F(j), F(k)>> \in order <=> j < k
  BY DEF Placed
<1>5. \A k \in 1 .. n : /\ F(k)[1] = fragments[k].timestamp
                        /\ F(k) \in chars /\ Observed(version, F(k)[1])
                        /\ F(k)[1] \in Nat \X Nat
  BY <1>4 DEF Id, SeenChars
<1>6. c \in chars /\ c[1] = op.timestamp
  BY DEF CharsOf
<1>7. \A k \in 1 .. n : /\ Offset(k) = Rank(chars, order, op.version, F(k))
                        /\ Offset(k) \in Nat
  BY OffsetIsRank
<1> HIDE DEF F, Offset
<1>8. /\ \A a \in chars : <<a, a>> \notin order
      /\ \A a, b \in chars : a = b \/ <<a, b>> \in order \/ <<b, a>> \in order
      /\ \A a, b, d \in chars : <<a, b>> \in order /\ <<b, d>> \in order => <<a, d>> \in order
  BY DEF Ordered
<1>9. \A k \in 1 .. n : F(k) # c /\ (<<F(k), c>> \in order <=> <<c, F(k)>> \notin order)
  <2>1. \A k \in 1 .. n : F(k) # c
    BY <1>5, <1>6
  <2>2. QED
    BY <1>5, <1>6, <1>8, <2>1
<1>10. op.start \in Nat
  BY DEF Anchored
(* Up to the start of the range. *)
<1>11. \A k \in 1 .. from : <<F(k), c>> \in order
  <2>1. CASE op.start = 0
    <3>1. Offset(0) \in Nat
      BY OffsetGrows DEF Offset
    <3>2. from <= 0
      BY <1>3, <2>1, <3>1
    <3>3. QED
      BY <1>3, <3>2
  <2>2. CASE op.start # 0
    <3>1. PICK x \in SeenChars(chars, op.version) :
             Rank(chars, order, op.version, x) = op.start
      BY <2>2 DEF Anchored
    <3>2. PICK m \in 1 .. n : F(m) = x
      BY <1>4, <3>1
    <3>3. Offset(m) = op.start /\ from <= m
      BY <1>3, <1>7, <1>10, <3>1, <3>2
    <3>4. <<F(m), c>> \in order
      BY <1>10, <3>1, <3>2 DEF Anchored
    <3>5. ASSUME NEW k \in 1 .. from PROVE <<F(k), c>> \in order
      <4>1. k \in 1 .. n /\ (k = m \/ k < m)
        BY <1>3, <3>3
      <4>2. k = m \/ <<F(k), F(m)>> \in order
        BY <1>4, <4>1
      <4>3. QED
        BY <1>5, <1>6, <1>8, <3>4, <4>1, <4>2
    <3>6. QED
      BY <3>5
  <2>3. QED
    BY <2>1, <2>2
(* Up to the point of insertion. *)
<1>12. ASSUME NEW k \in from + 1 .. p PROVE <<F(k), c>> \in order
  <2>1. k \in 1 .. n /\ Before(op.timestamp, F(k)[1])
    BY <1>3, <1>5
  <2>2. SUFFICES ASSUME <<c, F(k)>> \in order PROVE FALSE
    BY <1>9, <2>1
  <2>3. F(k) \in SeenChars(chars, version)
    BY <1>4, <2>1
  <2>4. PICK z \in SeenChars(chars, version) :
           (z = c \/ <<c, z>> \in order) /\ <<z, F(k)>> \in order /\ ~Before(c[1], z[1])
    BY <1>6, <2>1, <2>2, <2>3 DEF Shielded, Shield
  <2>5. PICK j \in 1 .. n : F(j) = z
    BY <1>4
  <2>6. <<c, F(j)>> \in order /\ j < k
    BY <1>4, <1>9, <2>1, <2>4, <2>5
  <2>7. ~(j <= from)
    <3>1. j \notin 1 .. from
      BY <1>9, <1>11, <2>5, <2>6
    <3>2. QED
      BY <1>3, <2>5, <3>1
  <2>8. j \in from + 1 .. p
    BY <1>3, <2>5, <2>6, <2>7
  <2>9. Before(c[1], z[1])
    BY <1>3, <1>5, <1>6, <2>5, <2>8
  <2>10. QED
    BY <2>4, <2>9
(* From there on. *)
<1>13. ASSUME p # n PROVE <<c, F(p + 1)>> \in order
  <2>1. p + 1 \in 1 .. n /\ p + 1 > from /\ from # n
    BY <1>3, <1>13
  <2>2. PICK a : a = F(p + 1)
    OBVIOUS
  <2>3. Before(a[1], c[1])
    <3>1. a[1] # op.timestamp /\ a[1] \in Nat \X Nat /\ ~Before(op.timestamp, a[1])
      BY <1>3, <1>5, <1>13, <2>1, <2>2
    <3>2. QED
      BY <1>6, <3>1, BeforeIs
  <2>4. SUFFICES ASSUME <<a, c>> \in order PROVE FALSE
    BY <1>9, <2>1, <2>2
  <2>5. PICK z \in SeenChars(chars, op.version) :
           (z = a \/ <<a, z>> \in order) /\ <<z, c>> \in order
    BY <1>5, <2>1, <2>2, <2>3, <2>4 DEF Anchored, Shielded, Shield
  <2>6. PICK j \in 1 .. n : F(j) = z
    BY <1>4, <2>5
  <2>7. j >= p + 1
    BY <1>4, <2>1, <2>2, <2>5, <2>6
  <2>8. Rank(chars, order, op.version, z) <= op.start
    BY <2>5 DEF Anchored
  <2>9. Offset(j) <= op.start
    BY <1>7, <2>6, <2>8
  <2>10. Offset(from) < Offset(j) /\ Offset(from) \in Nat
    <3>1. Observed(op.version, fragments[j].timestamp)
      BY <1>5, <2>5, <2>6 DEF SeenChars
    <3>2. from \in Nat /\ j \in Nat /\ from < j
      BY <1>3, <2>1, <2>7
    <3>3. QED
      BY <3>1, <3>2, OffsetGrows DEF Offset
  <2>11. Offset(from) >= op.start
    BY <1>3, <2>1
  <2>12. QED
    BY <1>7, <1>10, <2>6, <2>9, <2>10, <2>11
<1>14. CASE i <= p
  <2>1. i \in 1 .. from \/ i \in from + 1 .. p
    BY <1>3, <1>14
  <2>2. QED
    BY <1>1, <1>11, <1>12, <1>14, <2>1 DEF F
<1>15. CASE ~(i <= p)
  <2>1. p # n /\ p + 1 \in 1 .. n /\ (i = p + 1 \/ p + 1 < i)
    BY <1>3, <1>15
  <2>2. i = p + 1 \/ <<F(p + 1), F(i)>> \in order
    BY <1>4, <2>1
  <2>3. <<c, F(i)>> \in order
    BY <1>5, <1>6, <1>8, <1>13, <2>1, <2>2
  <2>4. QED
    BY <1>1, <1>9, <1>15, <2>3 DEF F
<1>16. QED
  BY <1>14, <1>15

-----------------------------------------------------------------------------
(* What an edit deletes.                                                   *)

LEMMA SeenGrows ==
    ASSUME NEW u \in Versions, NEW v \in Versions, ObservedAll(v, u)
    PROVE  Seen(u) \subseteq Seen(v)
BY DEF Seen, Observed, ObservedAll, Versions, Stamps

LEMMA CharsAre ==
    ASSUME OpsOK
    PROVE  /\ \A c \in AllChars : c[1] \in Nat \X Nat /\ c[1] \in Stamps
           /\ \A op \in EditsIn(operations) : CharsOf(op) \subseteq AllChars
           /\ \A op \in operations : op.timestamp \in Nat \X Nat
           /\ \A c \in AllChars :
                 \/ /\ c[1] = <<1, 0>> /\ scope.base_len > 0
                    /\ \A a \in AllChars : ~Before(a[1], c[1])
                 \/ \E op \in EditsIn(operations) : c \in CharsOf(op) /\ c[1] = op.timestamp
<1>1. Replicas \subseteq Nat /\ 0 \in Replicas /\ scope.base_len \in Nat
  BY ReplicasAre DEF OpsOK
<1>2. Stamps \subseteq Nat \X Nat /\ <<1, 0>> \in Stamps
  BY <1>1 DEF Stamps
<1>3. \A op \in operations : op.timestamp \in Stamps /\ op.timestamp[1] >= 1
  <2>1. ASSUME NEW op \in operations PROVE op.timestamp \in Stamps /\ op.timestamp[1] >= 1
    <3>1. /\ op.timestamp \in Stamps /\ op.version[0] < op.timestamp[1] /\ op.version[0] \in Nat
      BY <1>1 DEF OpsOK, OpShape, Versions
    <3>2. op.timestamp[1] \in Nat
      BY <3>1 DEF Stamps
    <3>3. QED
      BY <3>1, <3>2
  <2>2. QED
    BY <2>1
<1>4. \A op \in EditsIn(operations) :
         op \in operations /\ CharsOf(op) \subseteq AllChars
         /\ \A c \in CharsOf(op) : c[1] = op.timestamp
  BY DEF EditsIn, OpsOf, AllChars, CharsOf
<1>5. \A c \in AllChars : \/ c[1] = <<1, 0>> /\ scope.base_len > 0
                          \/ \E op \in EditsIn(operations) : c \in CharsOf(op)
  <2>1. ASSUME NEW c \in BaseChars PROVE c[1] = <<1, 0>> /\ scope.base_len > 0
    <3>1. PICK k \in 0 .. scope.base_len - 1 : c = <<<<1, 0>>, k>>
      BY <2>1 DEF BaseChars
    <3>2. QED
      BY <1>1, <3>1
  <2>2. QED
    BY <2>1 DEF EditsIn, OpsOf, AllChars
<1>6. \A c \in AllChars : c[1] \in Stamps /\ c[1][1] >= 1
  <2>1. \A c \in AllChars : c[1][1] >= 1
    <3>1. <<1, 0>>[1] >= 1
      OBVIOUS
    <3>2. QED
      BY <1>3, <1>4, <1>5, <3>1
  <2>2. \A c \in AllChars : c[1] \in Stamps
    BY <1>2, <1>3, <1>4, <1>5
  <2>3. QED
    BY <2>1, <2>2
<1>7. \A a \in AllChars : ~Before(a[1], <<1, 0>>)
  <2>1. SUFFICES ASSUME NEW a \in AllChars PROVE ~Before(a[1], <<1, 0>>)
    OBVIOUS
  <2>2. a[1][1] \in Nat /\ a[1][2] \in Nat /\ a[1][1] >= 1
    BY <1>2, <1>6
  <2>3. QED
    BY <2>2 DEF Before
<1>8. QED
  BY <1>2, <1>3, <1>4, <1>5, <1>6, <1>7

LEMMA CharsSeenFrom ==
    ASSUME OpsOK, NEW u \in Versions, NEW v \in Versions, ObservedAll(v, u)
    PROVE  SeenChars(AllChars, u) \subseteq SeenChars(AllChars, v)
<1>1. Seen(u) \subseteq Seen(v)
  BY SeenGrows
<1>2. \A c \in AllChars : c[1] \in Stamps
  BY CharsAre
<1>3. QED
  BY <1>1, <1>2 DEF SeenChars, Seen

LEMMA SeenAreShielded ==
    ASSUME OpsOK, NEW order, NEW gone, World(operations, AllChars, order, gone),
           NEW version \in Versions, Closed(version)
    PROVE  Shielded(AllChars, order, version, SeenChars(AllChars, version))
<1>1. SUFFICES ASSUME NEW c \in SeenChars(AllChars, version), NEW a \in AllChars,
                      <<a, c>> \in order, Before(a[1], c[1])
               PROVE  Shield(AllChars, order, version, a, c)
  BY DEF Shielded
<1>2. c \in AllChars /\ Observed(version, c[1])
  BY DEF SeenChars
<1>3. PICK op \in EditsIn(operations) : c \in CharsOf(op) /\ c[1] = op.timestamp
  BY <1>1, <1>2, CharsAre
<1>4. Shield(AllChars, order, op.version, a, c)
  BY <1>1, <1>3 DEF World, Anchored, Shielded
<1>5. op \in operations /\ op.version \in Versions
  BY DEF EditsIn, OpsOK, OpShape
<1>6. ObservedAll(version, op.version)
  BY <1>2, <1>3, <1>5 DEF Closed
<1>7. SeenChars(AllChars, op.version) \subseteq SeenChars(AllChars, version)
  BY <1>5, <1>6, CharsSeenFrom
<1>8. QED
  BY <1>4, <1>7 DEF Shield

(* The undo map of an earlier version is part of the present one. *)
LEMMA UndoneBefore ==
    ASSUME OpsOK, NEW u \in Versions, NEW v \in Versions, ObservedAll(v, u), NEW edit
    PROVE  WasUndone(UndoMapOf(v), edit, u) <=> IsUndone(UndoMapIn(operations, u), edit)
<1>1. \A op : \A w \in InsertUndo({}, op) : w.undo = op.timestamp
  BY DEF InsertUndo
<1>2. \A op \in operations : Observed(u, op.timestamp) => Observed(v, op.timestamp)
  <2>1. Seen(u) \subseteq Seen(v)
    BY SeenGrows
  <2>2. QED
    BY <2>1 DEF OpsOK, OpShape, Seen
<1>3. {w \in UndoMapOf(v) : Observed(u, w.undo)} = UndoMapIn(operations, u)
  <2>1. ASSUME NEW w \in UndoMapOf(v), Observed(u, w.undo) PROVE w \in UndoMapIn(operations, u)
    <3>1. PICK op \in operations : op.kind = "undo" /\ w \in InsertUndo({}, op)
      BY <2>1 DEF UndoMapOf, OpsOf
    <3>2. Observed(u, op.timestamp)
      BY <1>1, <2>1, <3>1
    <3>3. QED
      BY <3>1, <3>2 DEF UndoMapIn
  <2>2. ASSUME NEW w \in UndoMapIn(operations, u)
        PROVE  w \in UndoMapOf(v) /\ Observed(u, w.undo)
    <3>1. PICK op \in operations : /\ op.kind = "undo" /\ Observed(u, op.timestamp)
                                   /\ w \in InsertUndo({}, op)
      BY <2>2 DEF UndoMapIn
    <3>2. Observed(v, op.timestamp) /\ w.undo = op.timestamp
      BY <1>1, <1>2, <3>1
    <3>3. QED
      BY <3>1, <3>2 DEF UndoMapOf, OpsOf
  <2>3. QED
    BY <2>1, <2>2
<1>4. QED
  BY <1>3 DEF WasUndone

(* Applied elsewhere, an edit deletes what it deletes. *)
LEMMA RemoteDeletes ==
    ASSUME OpsOK, NEW order, NEW gone, World(operations, AllChars, order, gone),
           NEW version \in Versions, NEW op \in EditsIn(operations),
           ObservedAll(version, op.version),
           NEW fragments, NEW n \in Nat, DOMAIN fragments = 1 .. n,
           Placed(AllChars, order, gone, fragments, version), NEW i \in 1 .. n
    PROVE  i \in RemotelyDeleted(fragments, UndoMapOf(version), op)
              <=> <<op.timestamp, Id(fragments[i])>> \in gone
<1> DEFINE f == fragments[i]
           u == op.version
<1>1. PICK c : c = Id(f)
  OBVIOUS
<1>2. /\ c \in AllChars /\ c[1] = f.timestamp /\ Observed(version, f.timestamp)
      /\ f.deletions = Deletions(gone, version, c)
  <2>1. Id(f) \in SeenChars(AllChars, version) /\ f.deletions = Deletions(gone, version, Id(f))
    BY DEF Placed
  <2>2. QED
    BY <1>1, <2>1 DEF Id, SeenChars
<1>3. op \in operations /\ u \in Versions
  BY DEF EditsIn, OpsOK, OpShape
<1>4. ObservedUpTo(fragments, u, i) = Rank(AllChars, order, u, c)
  <2>1. SeenChars(AllChars, u) \subseteq SeenChars(AllChars, version)
    BY <1>3, CharsSeenFrom
  <2>2. QED
    BY <1>1, <2>1, OffsetIsRank
<1>5. \A d : WasUndone(UndoMapOf(version), d, u) <=> IsUndone(UndoMapIn(operations, u), d)
  BY <1>3, UndoneBefore
<1>6. \A d : d \in Deletions(gone, u, c) <=>
                d \in Deletions(gone, version, c) /\ Observed(u, d)
  <2>1. \A g \in gone : g[1] \in Stamps
    <3>1. \A g \in gone : g[1] \in {o.timestamp : o \in EditsIn(operations)}
      BY DEF World
    <3>2. QED
      BY <3>1 DEF EditsIn, OpsOK, OpShape
  <2>2. \A d \in Stamps : Observed(u, d) => Observed(version, d)
    BY <1>3, SeenGrows DEF Seen
  <2>3. QED
    BY <2>1, <2>2 DEF Deletions
<1>7. WasVisible(f, u, UndoMapOf(version)) <=>
         Observed(u, c[1]) /\ VisibleIn(operations, gone, u, c)
  BY <1>2, <1>5, <1>6 DEF WasVisible, VisibleIn
<1>8. <<op.timestamp, c>> \in gone <=>
         /\ c \in SeenChars(AllChars, u)
         /\ Rank(AllChars, order, u, c) \in op.start + 1 .. op.end
         /\ VisibleIn(operations, gone, u, c)
  BY <1>2 DEF World, Deletes
<1>9. c \in SeenChars(AllChars, u) <=> Observed(u, f.timestamp)
  BY <1>2 DEF SeenChars
<1>10. i \in RemotelyDeleted(fragments, UndoMapOf(version), op) <=>
          /\ Observed(u, f.timestamp)
          /\ ObservedUpTo(fragments, u, i) \in op.start + 1 .. op.end
          /\ WasVisible(f, u, UndoMapOf(version))
  BY DEF RemotelyDeleted
<1>11. QED
  BY <1>1, <1>2, <1>4, <1>7, <1>8, <1>9, <1>10

-----------------------------------------------------------------------------
(* The text: one operation of another replica.                             *)

LEMMA CharsSeenAfter ==
    ASSUME OpsOK, NEW version \in Versions, MadeOfStamps(version), Closed(version),
           NEW op \in operations, ObservedAll(version, op.version)
    PROVE  SeenChars(AllChars, Observe(version, op.timestamp)) =
               IF op.kind = "edit" THEN SeenChars(AllChars, version) \cup CharsOf(op)
               ELSE SeenChars(AllChars, version)
<1>1. PICK after : after = Observe(version, op.timestamp)
  OBVIOUS
<1>2. MadeOfStamps(after) /\ after \in Versions
  BY <1>1, ObserveKeeps
<1>3. \A c \in AllChars : c[1] = <<1, 0>> /\ scope.base_len > 0 =>
         Observed(version, c[1]) /\ Observed(after, c[1])
  <2>1. scope.base_len > 0 => version[0] >= 1 /\ after[0] >= 1
    BY <1>2, ReplicasAre DEF OpsOK, MadeOfStamps, Base
  <2>2. \A c \in AllChars : c[1] = <<1, 0>> => c[1][1] = 1 /\ c[1][2] = 0
    OBVIOUS
  <2>3. QED
    BY <2>1, <2>2 DEF Observed
<1>4. \A o \in operations : Observed(after, o.timestamp) <=> Observed(version, o.timestamp) \/ o = op
  BY <1>1, OnlyItself
<1>5. /\ \A o \in EditsIn(operations) : CharsOf(o) \subseteq AllChars /\ o \in operations
      /\ \A c \in AllChars :
            \/ c[1] = <<1, 0>> /\ scope.base_len > 0
            \/ \E o \in EditsIn(operations) : c \in CharsOf(o) /\ c[1] = o.timestamp
  BY CharsAre DEF EditsIn
<1>6. \A c \in CharsOf(op) : c[1] = op.timestamp
  BY DEF CharsOf
<1>7. op.kind = "edit" <=> op \in EditsIn(operations)
  BY DEF EditsIn
<1>8. \A c \in AllChars : Observed(after, c[1]) <=>
         Observed(version, c[1]) \/ (op.kind = "edit" /\ c \in CharsOf(op))
  BY <1>3, <1>4, <1>5, <1>6, <1>7
<1>9. QED
  BY <1>1, <1>5, <1>7, <1>8 DEF SeenChars

(* An edit adds itself to what it deleted. *)
AddsDeletions(gone, version, after, op) ==
    /\ \A c : Deletions(gone, after, c) =
                 IF <<op.timestamp, c>> \in gone
                 THEN Deletions(gone, version, c) \cup {op.timestamp}
                 ELSE Deletions(gone, version, c)
    /\ \A c \in CharsOf(op) : Deletions(gone, after, c) = {}

LEMMA DeletionsAfter ==
    ASSUME OpsOK, NEW order, NEW gone, World(operations, AllChars, order, gone),
           NEW version \in Versions, Closed(version),
           NEW op \in operations, ObservedAll(version, op.version),
           ~Observed(version, op.timestamp), NEW after, after = Observe(version, op.timestamp)
    PROVE  /\ op.kind # "edit" =>
                 \A c : Deletions(gone, after, c) = Deletions(gone, version, c)
           /\ op.kind = "edit" => AddsDeletions(gone, version, after, op)
<1>1. \A o \in operations : Observed(after, o.timestamp) <=> Observed(version, o.timestamp) \/ o = op
  BY OnlyItself
<1>2. \A g \in gone : \E o \in EditsIn(operations) : g[1] = o.timestamp /\ o \in operations
  BY DEF World, EditsIn
<1>3. \A g \in gone : g[1] = op.timestamp \/ (Observed(after, g[1]) <=> Observed(version, g[1]))
  BY <1>1, <1>2
<1>4. ASSUME op.kind # "edit" PROVE \A c : Deletions(gone, after, c) = Deletions(gone, version, c)
  <2>1. \A g \in gone : Observed(after, g[1]) <=> Observed(version, g[1])
    BY <1>1, <1>2, <1>4 DEF EditsIn
  <2>2. QED
    BY <2>1 DEF Deletions
<1>5. \A c : Deletions(gone, after, c) =
                IF <<op.timestamp, c>> \in gone
                THEN Deletions(gone, version, c) \cup {op.timestamp}
                ELSE Deletions(gone, version, c)
  <2>1. SUFFICES ASSUME NEW c
                 PROVE  Deletions(gone, after, c) =
                           IF <<op.timestamp, c>> \in gone
                           THEN Deletions(gone, version, c) \cup {op.timestamp}
                           ELSE Deletions(gone, version, c)
    OBVIOUS
  <2>2. Observed(after, op.timestamp)
    BY <1>1
  <2>3. \A t : t \in Deletions(gone, after, c) <=> <<t, c>> \in gone /\ Observed(after, t)
    BY DEF Deletions
  <2>4. \A t : t \in Deletions(gone, version, c) <=> <<t, c>> \in gone /\ Observed(version, t)
    BY DEF Deletions
  <2>5. \A t : <<t, c>> \in gone =>
                  t = op.timestamp \/ (Observed(after, t) <=> Observed(version, t))
    BY <1>3
  <2>6. QED
    BY <2>2, <2>3, <2>4, <2>5
<1>6. ASSUME op.kind = "edit", NEW c \in CharsOf(op) PROVE Deletions(gone, after, c) = {}
  <2>1. SUFFICES ASSUME NEW t, <<t, c>> \in gone, Observed(after, t) PROVE FALSE
    BY DEF Deletions
  <2>2. PICK o \in EditsIn(operations) : t = o.timestamp /\ o \in operations
    BY <1>2, <2>1
  <2>3. c[1] = op.timestamp /\ c \in AllChars
    BY <1>6, CharsAre DEF CharsOf, EditsIn
  <2>4. Observed(o.version, op.timestamp)
    BY <2>1, <2>2, <2>3 DEF World, Deletes, SeenChars
  <2>5. op.timestamp \in Stamps /\ op.version[op.timestamp[2]] < op.timestamp[1]
        /\ op.version \in Versions /\ o.version \in Versions
    BY <2>2 DEF OpsOK, OpShape, Stamps
  <2>6. CASE o = op
    BY <2>4, <2>5, <2>6 DEF Observed, Versions, Stamps
  <2>7. CASE Observed(version, o.timestamp)
    <3>1. ObservedAll(version, o.version)
      BY <2>2, <2>7 DEF Closed
    <3>2. Observed(version, op.timestamp)
      BY <2>4, <2>5, <3>1, SeenGrows DEF Seen
    <3>3. QED
      BY <3>2
  <2>8. QED
    BY <1>1, <2>1, <2>2, <2>6, <2>7
<1>7. QED
  BY <1>4, <1>5, <1>6 DEF AddsDeletions

(* An undo moves and deletes nothing. *)
LEMMA UndoPlaced ==
    ASSUME NEW chars, NEW order, NEW gone, NEW version, NEW after,
           NEW b, DOMAIN b = Fields, b.fragments \in Seq(Fragment), NEW undo,
           Placed(chars, order, gone, b.fragments, version),
           SeenChars(chars, after) = SeenChars(chars, version),
           \A c : Deletions(gone, after, c) = Deletions(gone, version, c)
    PROVE  Placed(chars, order, gone, ApplyUndo(b, undo).fragments, after)
<1> DEFINE m == InsertUndo(b.undo_map, undo)
           Updated(f) == IF Touches(f, DOMAIN undo.counts)
                         THEN [f EXCEPT !.visible = IsVisible(f, m)] ELSE f
<1>1. PICK s : s = ApplyUndo(b, undo).fragments
  OBVIOUS
<1>2. s = [i \in DOMAIN b.fragments |-> Updated(b.fragments[i])]
  BY <1>1 DEF ApplyUndo, Fields
<1>3. \A f \in Fragment : Id(Updated(f)) = Id(f) /\ Updated(f).deletions = f.deletions
  <2> HIDE DEF m
  <2>1. QED
    BY DEF Fragment, Id
<1>4. \A i \in DOMAIN b.fragments : b.fragments[i] \in Fragment
  BY ElementOfSeq
<1> HIDE DEF Updated
<1>5. /\ DOMAIN s = DOMAIN b.fragments
      /\ \A i \in DOMAIN b.fragments :
            Id(s[i]) = Id(b.fragments[i]) /\ s[i].deletions = b.fragments[i].deletions
  BY <1>2, <1>3, <1>4
<1>6. {Id(s[i]) : i \in DOMAIN s} = {Id(b.fragments[i]) : i \in DOMAIN b.fragments}
  BY <1>5
<1>7. Placed(chars, order, gone, s, after)
  BY <1>5, <1>6 DEF Placed
<1>8. QED
  BY <1>1, <1>7

(* Applied, an edit of another replica is in its place. *)
LEMMA RemoteEditPlaced ==
    ASSUME OpsOK, NEW order, NEW gone, World(operations, AllChars, order, gone),
           NEW b, Sound(b), Shown(b), Placed(AllChars, order, gone, b.fragments, b.version),
           NEW op \in operations, op.kind = "edit", ObservedAll(b.version, op.version),
           ~Observed(b.version, op.timestamp)
    PROVE  Placed(AllChars, order, gone, ApplyRemoteEdit(b.fragments, b.undo_map, op),
                  Observe(b.version, op.timestamp))
<1>1. PICK fragments : fragments = b.fragments
  OBVIOUS
<1>2. PICK version : version = b.version
  OBVIOUS
<1>3. PICK n : n = Len(fragments)
  OBVIOUS
<1>4. PICK chars : chars = AllChars
  OBVIOUS
<1>5. PICK after : after = Observe(version, op.timestamp)
  OBVIOUS
<1>6. /\ fragments \in Seq(Fragment) /\ b.undo_map = UndoMapOf(version)
      /\ version \in Versions /\ MadeOfStamps(version) /\ Closed(version)
      /\ op.version \in Versions /\ op.len \in Nat /\ op.timestamp \in Stamps
      /\ op \in EditsIn(operations)
  <2>1. Cached(b.undo_map) \subseteq Fragment
    BY DEF Cached
  <2>2. fragments \in Seq(Fragment)
    BY <1>1, <2>1, SeqMonotonic DEF Shown
  <2>3. QED
    BY <1>1, <1>2, <2>2 DEF Shown, Sound, OpsOK, OpShape, EditsIn
<1>7. n \in Nat /\ DOMAIN fragments = 1 .. n
  BY <1>3, <1>6, LenProperties
<1>8. /\ World(operations, chars, order, gone) /\ Ordered(chars, order)
      /\ Anchored(chars, order, op)
      /\ Placed(chars, order, gone, fragments, version)
  BY <1>1, <1>2, <1>4, <1>6 DEF World
<1>9. PICK p : p = InsertionPoint(fragments, op)
  OBVIOUS
<1>10. p \in 0 .. n
  BY <1>3, <1>7, <1>9, InsertionPointIn
<1>11. PICK deleted : deleted = RemotelyDeleted(fragments, b.undo_map, op)
  OBVIOUS
<1>12. \A i \in 1 .. n : i \in deleted <=> <<op.timestamp, Id(fragments[i])>> \in gone
  BY <1>2, <1>4, <1>6, <1>7, <1>8, <1>11, RemoteDeletes
<1>13. SeenChars(chars, after) = SeenChars(chars, version) \cup CharsOf(op)
       /\ SeenChars(chars, op.version) \subseteq SeenChars(chars, version)
  BY <1>2, <1>4, <1>5, <1>6, CharsSeenAfter, CharsSeenFrom
<1>14. /\ CharsOf(op) \subseteq chars /\ \A c \in chars : c[1] \in Nat \X Nat
       /\ op.timestamp \in Nat \X Nat
  BY <1>4, <1>6, CharsAre
<1>15. CharsOf(op) \cap SeenChars(chars, version) = {}
  BY <1>2 DEF CharsOf, SeenChars
<1>16. Shielded(chars, order, version, SeenChars(chars, version))
  BY <1>4, <1>6, <1>8, SeenAreShielded
<1>17. \A i \in 1 .. n, c \in CharsOf(op) : <<Id(fragments[i]), c>> \in order <=> i <= p
  <2>1. ~Observed(version, op.timestamp)
    BY <1>2
  <2>2. QED
    BY <1>3, <1>7, <1>8, <1>9, <1>13, <1>14, <1>16, <2>1, InsertionPlaced
<1>18. /\ \A c : Deletions(gone, after, c) =
                    IF <<op.timestamp, c>> \in gone
                    THEN Deletions(gone, version, c) \cup {op.timestamp}
                    ELSE Deletions(gone, version, c)
       /\ \A c \in CharsOf(op) : Deletions(gone, after, c) = {}
  <2>1. ~Observed(version, op.timestamp) /\ World(operations, AllChars, order, gone)
        /\ ObservedAll(version, op.version) /\ op.kind = "edit"
    BY <1>2
  <2>2. AddsDeletions(gone, version, after, op)
    BY <1>5, <1>6, <2>1, DeletionsAfter
  <2>3. QED
    BY <2>2 DEF AddsDeletions
<1>19. PICK new : new = CharsOf(op)
  OBVIOUS
<1>20. Placed(chars, order, gone, Spliced(fragments, p, op.timestamp, op.len, deleted), after)
  <2>1. new = {<<op.timestamp, k>> : k \in 0 .. op.len - 1}
    BY <1>19 DEF CharsOf
  <2>2. \A i \in 1 .. n, c \in new : <<Id(fragments[i]), c>> \in order <=> i <= p
    BY <1>17, <1>19
  <2>3. \A c \in SeenChars(chars, version) :
           Deletions(gone, after, c) = IF <<op.timestamp, c>> \in gone
                                       THEN Deletions(gone, version, c) \cup {op.timestamp}
                                       ELSE Deletions(gone, version, c)
    BY <1>18
  <2>4. \A c \in new : Deletions(gone, after, c) = {}
    BY <1>18, <1>19
  <2>5. /\ new \subseteq chars /\ new \cap SeenChars(chars, version) = {}
        /\ SeenChars(chars, after) = SeenChars(chars, version) \cup new
    BY <1>13, <1>14, <1>15, <1>19
  <2>6. op.len \in Nat
    BY <1>6
  <2>7. QED
    BY <1>3, <1>6, <1>8, <1>10, <1>12, <2>1, <2>2, <2>3, <2>4, <2>5, <2>6, SplicePlaced
<1>21. QED
  BY <1>1, <1>2, <1>4, <1>5, <1>9, <1>11, <1>20, RemoteEditIs

(* The characters stay in their places. *)
Kept(b, c) ==
    \A order, gone :
        /\ World(operations, AllChars, order, gone)
        /\ Placed(AllChars, order, gone, b.fragments, b.version)
        => Placed(AllChars, order, gone, c.fragments, c.version)

LEMMA StepPlaced ==
    ASSUME OpsOK, NEW b, Sound(b), Shown(b), NEW op \in operations
    PROVE  Kept(b, ApplyOrDefer(b, op))
<1> DEFINE v == b.version
<1>0. PICK c : c = ApplyOrDefer(b, op)
  OBVIOUS
<1>1. SUFFICES ASSUME NEW order, NEW gone, World(operations, AllChars, order, gone),
                      Placed(AllChars, order, gone, b.fragments, b.version)
               PROVE  Placed(AllChars, order, gone, c.fragments, c.version)
  BY <1>0 DEF Kept
<1>2. /\ DOMAIN b = Fields /\ v \in Versions /\ Closed(v) /\ MadeOfStamps(v)
      /\ op.timestamp \in Stamps /\ op.kind \in {"edit", "undo"}
      /\ b.fragments \in Seq(Fragment)
  <2>1. Cached(b.undo_map) \subseteq Fragment
    BY DEF Cached
  <2>2. b.fragments \in Seq(Fragment)
    BY <2>1, SeqMonotonic DEF Shown
  <2>3. QED
    BY <2>2 DEF Sound, OpsOK, OpShape
<1>3. CASE ~CanApplyOp(b, op)
  <2>1. c.version = b.version /\ c.fragments = b.fragments
    BY <1>0, <1>3, StepSound
  <2>2. QED
    BY <1>1, <2>1
<1>4. CASE CanApplyOp(b, op)
  <2>1. ObservedAll(v, op.version) /\ c.version = Observe(v, op.timestamp)
    BY <1>0, <1>4, StepSound DEF CanApplyOp
  <2> DEFINE a == IF Observed(v, op.timestamp) THEN b ELSE ApplyNew(b, op)
  <2>2. c = NotifyVersions(a)
    BY <1>0, <1>4 DEF ApplyOrDefer, ApplyOp
  <2>3. DOMAIN a = Fields
    BY <1>2, ApplyNewFields
  <2> HIDE DEF a
  <2>4. c.fragments = a.fragments
    <3>1. "fragments" \in Fields \ {"wait_for_version_txs"}
      BY DEF Fields
    <3>2. QED
      BY <2>2, <2>3, <3>1, NotifyFields
  <2>5. CASE Observed(v, op.timestamp)
    <3>1. a = b
      BY <2>5 DEF a
    <3>2. \A q \in Replicas : c.version[q] = v[q]
      <4>1. \A q \in Replicas :
               c.version[q] = IF q = op.timestamp[2] /\ op.timestamp[1] > v[q]
                              THEN op.timestamp[1] ELSE v[q]
        BY <1>2, <2>1, ObserveIs
      <4>2. v[op.timestamp[2]] >= op.timestamp[1] /\ op.timestamp[1] \in Nat
            /\ op.timestamp[2] \in Replicas /\ v[op.timestamp[2]] \in Nat
        BY <1>2, <2>5 DEF Observed, Stamps, Versions
      <4>3. QED
        BY <4>1, <4>2
    <3>3. c.version = v
      BY <1>2, <2>1, <3>2, ObserveIs DEF Versions
    <3>4. QED
      BY <1>1, <2>4, <3>1, <3>3
  <2>6. CASE ~Observed(v, op.timestamp)
    <3>1. a = ApplyNew(b, op)
      BY <2>6 DEF a
    <3>2. a.fragments = IF op.kind = "edit"
                        THEN ApplyRemoteEdit(b.fragments, b.undo_map, op)
                        ELSE ApplyUndo(b, op).fragments
      BY <1>2, <3>1, ApplyNewFields
    <3>3. CASE op.kind = "edit"
      <4>1. Placed(AllChars, order, gone, ApplyRemoteEdit(b.fragments, b.undo_map, op),
                   Observe(b.version, op.timestamp))
        BY <1>1, <2>1, <2>6, <3>3, RemoteEditPlaced
      <4>2. QED
        BY <2>1, <2>4, <3>2, <3>3, <4>1
    <3>4. CASE op.kind # "edit"
      <4>1. SeenChars(AllChars, c.version) = SeenChars(AllChars, v)
        BY <1>2, <2>1, <3>4, CharsSeenAfter
      <4>2. \A x : Deletions(gone, c.version, x) = Deletions(gone, v, x)
        <5>1. PICK after : after = Observe(v, op.timestamp)
          OBVIOUS
        <5>2. QED
          BY <1>1, <1>2, <2>1, <2>6, <3>4, <5>1, DeletionsAfter
      <4>3. PICK chars : chars = AllChars
        OBVIOUS
      <4>4. Placed(chars, order, gone, ApplyUndo(b, op).fragments, c.version)
        <5>1. Placed(chars, order, gone, b.fragments, v)
              /\ SeenChars(chars, c.version) = SeenChars(chars, v)
          BY <1>1, <4>1, <4>3
        <5>2. QED
          BY <1>2, <4>2, <5>1, UndoPlaced
      <4>5. QED
        BY <2>4, <3>2, <3>4, <4>3, <4>4
    <3>5. QED
      BY <3>3, <3>4
  <2>7. QED
    BY <2>5, <2>6
<1>5. QED
  BY <1>0, <1>1, <1>3, <1>4

-----------------------------------------------------------------------------
(* Folds.                                                                  *)

(* f folds the operations val[x] into b, the one picked first last. *)
IsFold(f, S, b, pick, val) ==
    f = [s \in SUBSET S |->
            IF s = {} THEN b ELSE ApplyOrDefer(f[s \ {pick[s]}], val[pick[s]])]

LEMMA FoldExists ==
    ASSUME NEW S, IsFiniteSet(S), NEW b, NEW pick, NEW val,
           \A s \in SUBSET S : s # {} => pick[s] \in s
    PROVE  \E f : IsFold(f, S, b, pick, val)
<1> DEFINE Size == 0 .. Cardinality(S)
           Small(n) == {s \in SUBSET S : Cardinality(s) <= n}
           Rest(s) == s \ {pick[s]}
           Value(f, s) == IF s = {} THEN b ELSE ApplyOrDefer(f[Rest(s)], val[pick[s]])
           Good(f, n) == f = [s \in Small(n) |-> Value(f, s)]
           Bad == {m \in SUBSET Size : \E n \in Size : m = 0 .. n /\ \A f : ~Good(f, n)}
<1>1. /\ Cardinality(S) \in Nat
      /\ \A s \in SUBSET S : IsFiniteSet(s) /\ Cardinality(s) \in Size
      /\ \A s \in SUBSET S : s # {} => /\ Rest(s) \in SUBSET S
                                       /\ Cardinality(Rest(s)) = Cardinality(s) - 1
  <2>1. Cardinality(S) \in Nat
    BY FS_CardinalityType
  <2>2. ASSUME NEW s \in SUBSET S PROVE IsFiniteSet(s) /\ Cardinality(s) \in Size
    BY <2>1, FS_Subset, FS_CardinalityType
  <2>3. ASSUME NEW s \in SUBSET S, s # {} PROVE Cardinality(Rest(s)) = Cardinality(s) - 1
    BY <2>2, <2>3, FS_RemoveElement
  <2>4. QED
    BY <2>1, <2>2, <2>3
<1>2. \A s \in SUBSET S : s = {} <=> Cardinality(s) = 0
  BY <1>1, FS_EmptySet
<1>3. ASSUME Bad # {} PROVE FALSE
  <2>1. IsFiniteSet(Size) /\ Bad \subseteq SUBSET Size
    BY <1>1, FS_Interval
  <2>2. PICK m \in Bad : \A t \in SUBSET m : t # m => t \notin Bad
    <3> HIDE DEF Bad, Size
    <3>1. QED
      BY <1>3, <2>1, SmallestSubset
  <2>3. PICK n \in Size : m = 0 .. n /\ \A f : ~Good(f, n)
    OBVIOUS
  <2>4. n # 0
    <3> SUFFICES ASSUME n = 0 PROVE FALSE
      OBVIOUS
    <3> DEFINE f == [s \in Small(0) |-> b]
    <3>1. \A s \in Small(0) : s = {}
      <4>1. \A s \in Small(0) : s \in SUBSET S /\ Cardinality(s) = 0
        BY <1>1
      <4>2. QED
        BY <1>2, <4>1
    <3>2. Good(f, 0)
      BY <3>1
    <3> HIDE DEF f, Good
    <3>3. QED
      BY <2>3, <3>2
  <2>5. PICK f : Good(f, n - 1)
    <3>1. n - 1 \in Size /\ 0 .. n - 1 \in SUBSET m /\ 0 .. n - 1 # m
      BY <1>1, <2>3, <2>4
    <3>2. 0 .. n - 1 \in SUBSET Size /\ 0 .. n - 1 \notin Bad
      BY <2>2, <2>3, <3>1
    <3> HIDE DEF Good
    <3>3. QED
      BY <3>1, <3>2
  <2> DEFINE g == [s \in Small(n) |-> Value(f, s)]
  <2>6. \A s \in Small(n - 1) : s \in Small(n) /\ g[s] = f[s]
    <3>1. \A s \in Small(n - 1) : s \in Small(n)
      BY <1>1, <2>3
    <3>2. \A s \in Small(n - 1) : f[s] = Value(f, s)
      BY <2>5
    <3> HIDE DEF Value, Small
    <3>3. QED
      BY <3>1, <3>2
  <2>7. \A s \in Small(n) : Value(g, s) = Value(f, s)
    <3>1. ASSUME NEW s \in Small(n), s # {} PROVE g[Rest(s)] = f[Rest(s)]
      <4>1. s \in SUBSET S /\ Cardinality(s) <= n /\ Cardinality(s) \in Nat /\ n \in Nat
        BY <1>1, <2>3
      <4>2. Rest(s) \in SUBSET S /\ Cardinality(Rest(s)) = Cardinality(s) - 1
        BY <1>1, <3>1, <4>1
      <4>3. Rest(s) \in Small(n - 1)
        <5> HIDE DEF Rest
        <5>1. QED
          BY <4>1, <4>2
      <4> HIDE DEF Rest, g, Small
      <4>4. QED
        BY <2>6, <4>3
    <3> HIDE DEF g, Rest, Small
    <3>2. QED
      BY <3>1
  <2>8. Good(g, n)
    <3>1. g = [s \in Small(n) |-> Value(f, s)]
      OBVIOUS
    <3> HIDE DEF g, Value, Small
    <3>2. QED
      BY <2>7, <3>1
  <2> HIDE DEF Good
  <2>9. QED
    BY <2>3, <2>8
<1>4. PICK f : Good(f, Cardinality(S))
  <2>1. Cardinality(S) \in Size /\ 0 .. Cardinality(S) \in SUBSET Size
    BY <1>1
  <2> HIDE DEF Good
  <2>2. QED
    BY <1>3, <2>1
<1>5. Small(Cardinality(S)) = SUBSET S
  BY <1>1
<1>6. QED
  BY <1>4, <1>5 DEF IsFold

(* Timestamps order operations. *)
LEMMA OneIsLast ==
    ASSUME OpsOK, NEW s, s \subseteq operations, s # {}
    PROVE  /\ Latest(s) \in s /\ \A p \in s : p = Latest(s) \/ Before(p.timestamp, Latest(s).timestamp)
           /\ Earliest(s) \in s
<1>1. \A o \in operations : o.timestamp[1] \in Nat /\ o.timestamp[2] \in Nat
  BY ReplicasAre DEF OpsOK, OpShape, Stamps
<1>2. IsFiniteSet(s)
  BY FS_Subset DEF OpsOK
<1> DEFINE Bad == {t \in SUBSET s : /\ t # {}
                                    /\ \/ \A o \in t : \E p \in t : Before(o.timestamp, p.timestamp)
                                       \/ \A o \in t : \E p \in t : Before(p.timestamp, o.timestamp)}
<1>3. ASSUME Bad # {} PROVE FALSE
  <2>1. Bad \subseteq SUBSET s
    OBVIOUS
  <2>2. PICK t \in Bad : \A u \in SUBSET t : u # t => u \notin Bad
    <3> HIDE DEF Bad
    <3>1. QED
      BY <1>2, <1>3, <2>1, SmallestSubset
  <2>3. PICK x \in t : TRUE
    OBVIOUS
  <2> DEFINE u == t \ {x}
  <2>4. u \in SUBSET t /\ u # t /\ u \in SUBSET s /\ u \notin Bad /\ x \in operations
    <3>1. u \in SUBSET t /\ u # t
      BY <2>3
    <3>2. u \notin Bad
      <4> HIDE DEF u
      <4>1. QED
        BY <2>2, <3>1
    <3>3. QED
      BY <3>1, <3>2
  <2>5. CASE u = {}
    <3>1. t = {x}
      BY <2>3, <2>5
    <3>2. ~Before(x.timestamp, x.timestamp)
      BY <1>1, <1>2, <2>4 DEF Before
    <3>3. QED
      BY <3>1, <3>2
  <2>6. CASE u # {}
    <3>1. PICK o \in u : \A p \in u : ~Before(o.timestamp, p.timestamp)
      BY <2>4, <2>6
    <3>2. PICK e \in u : \A p \in u : ~Before(p.timestamp, e.timestamp)
      BY <2>4, <2>6
    <3>3. \A i, j, k \in operations :
              Before(i.timestamp, j.timestamp) /\ Before(j.timestamp, k.timestamp)
                 => Before(i.timestamp, k.timestamp)
      BY <1>1, <1>2 DEF Before
    <3>4. \A i \in operations : ~Before(i.timestamp, i.timestamp)
      BY <1>1, <1>2 DEF Before
    <3>5. o \in operations /\ e \in operations /\ u \subseteq operations /\ t = u \cup {x}
      BY <2>3, <2>4
    <3>6. \E i \in t : \A p \in t : ~Before(i.timestamp, p.timestamp)
      <4>1. CASE Before(o.timestamp, x.timestamp)
        BY <2>4, <3>1, <3>3, <3>4, <3>5, <4>1
      <4>2. CASE ~Before(o.timestamp, x.timestamp)
        BY <2>4, <3>1, <3>5, <4>2
      <4>3. QED
        BY <4>1, <4>2
    <3>7. \E i \in t : \A p \in t : ~Before(p.timestamp, i.timestamp)
      <4>1. CASE Before(x.timestamp, e.timestamp)
        BY <2>4, <3>2, <3>3, <3>4, <3>5, <4>1
      <4>2. CASE ~Before(x.timestamp, e.timestamp)
        BY <2>4, <3>2, <3>5, <4>2
      <4>3. QED
        BY <4>1, <4>2
    <3>8. QED
      BY <3>6, <3>7
  <2>7. QED
    BY <2>5, <2>6
<1>4. /\ \E o \in s : \A p \in s : ~Before(o.timestamp, p.timestamp)
      /\ \E o \in s : \A p \in s : ~Before(p.timestamp, o.timestamp)
  BY <1>3
<1>5. /\ Latest(s) \in s /\ \A p \in s : ~Before(Latest(s).timestamp, p.timestamp)
      /\ Earliest(s) \in s
  BY <1>4 DEF Latest, Earliest
<1>6. \A o, p \in operations :
         o = p \/ Before(o.timestamp, p.timestamp) \/ Before(p.timestamp, o.timestamp)
  BY <1>1, <1>2 DEF Before, OpsOK, OpsOrdered
<1>7. QED
  BY <1>5, <1>6

(* One pass in the order of the timestamps: f[s] is the buffer after the   *)
(* operations s.                                                           *)
IsPass(f, b, S) ==
    /\ ApplyEach(b, S, Latest) = f[S]
    /\ f[{}] = b
    /\ \A s \in SUBSET S : s # {} => f[s] = ApplyOrDefer(f[s \ {Latest(s)}], Latest(s))

LEMMA PassIs ==
    ASSUME OpsOK, NEW b, NEW S, S \subseteq operations
    PROVE  \E f : IsPass(f, b, S)
<1> DEFINE Is(f) == f = [s \in SUBSET S |->
                            IF s = {} THEN b ELSE ApplyOrDefer(f[s \ {Latest(s)}], Latest(s))]
           pick == [s \in SUBSET S |-> Latest(s)]
           val == [x \in S |-> x]
<1>1. \A s \in SUBSET S : s # {} => Latest(s) \in s
  BY OneIsLast
<1>2. \E f : Is(f)
  <2>1. IsFiniteSet(S)
    BY FS_Subset DEF OpsOK
  <2>2. \A s \in SUBSET S : s # {} => pick[s] \in s
    BY <1>1
  <2> HIDE DEF pick, val, Is
  <2>3. PICK f : IsFold(f, S, b, pick, val)
    BY <2>1, <2>2, FoldExists
  <2>4. Is(f)
    BY <1>1, <2>3 DEF IsFold, pick, val, Is
  <2>5. QED
    BY <2>4
<1> DEFINE f == CHOOSE g : Is(g)
<1>3. ApplyEach(b, S, Latest) = f[S]
  BY DEF ApplyEach, MapThenFoldSet
<1>4. Is(f)
  BY <1>2
<1> HIDE DEF f
<1>5. QED
  BY <1>3, <1>4 DEF IsPass

(* The same for the operations of apply_ops, by their place. *)
IsBatch(f, b, n, ops) ==
    /\ FoldLeft(ApplyOrDefer, b, ops) = f[1 .. n]
    /\ f[{}] = b
    /\ \A s \in SUBSET (1 .. n) : s # {} =>
          Max(s) \in s /\ f[s] = ApplyOrDefer(f[s \ {Max(s)}], ops[Max(s)])

LEMMA BatchIs ==
    ASSUME NEW b, NEW n \in Nat, NEW ops, DOMAIN ops = 1 .. n
    PROVE  \E f : IsBatch(f, b, n, ops)
<1> DEFINE S == 1 .. n
           Is(f) == f = [s \in SUBSET S |->
                            IF s = {} THEN b ELSE ApplyOrDefer(f[s \ {Max(s)}], ops[Max(s)])]
           pick == [s \in SUBSET S |-> Max(s)]
<1>1. \A s \in SUBSET S : s # {} => Max(s) \in s
  <2>1. ASSUME NEW s \in SUBSET S, s # {} PROVE Max(s) \in s
    <3>1. s \subseteq 0 .. n
      OBVIOUS
    <3>2. QED
      BY <2>1, <3>1, HighestAndLowest
  <2>2. QED
    BY <2>1
<1>2. \E f : Is(f)
  <2>1. IsFiniteSet(S)
    BY FS_Interval
  <2>2. \A s \in SUBSET S : s # {} => pick[s] \in s
    BY <1>1
  <2> HIDE DEF pick, Is, S
  <2>3. PICK f : IsFold(f, S, b, pick, ops)
    BY <2>1, <2>2, FoldExists
  <2>4. Is(f)
    BY <2>3 DEF IsFold, pick, Is
  <2>5. QED
    BY <2>4
<1> DEFINE f == CHOOSE g : Is(g)
<1>3. FoldLeft(ApplyOrDefer, b, ops) = f[S]
  BY DEF FoldLeft, MapThenFoldSet
<1>4. Is(f)
  BY <1>2
<1> HIDE DEF f
<1>5. QED
  BY <1>1, <1>3, <1>4 DEF IsBatch

-----------------------------------------------------------------------------
(* apply_ops.                                                              *)

LEMMA GrowsFurther ==
    ASSUME NEW u \in Versions, NEW v \in Versions, NEW w \in Versions,
           ObservedAll(v, u), ObservedAll(w, v)
    PROVE  ObservedAll(w, u)
BY DEF ObservedAll, Versions

LEMMA KeptFurther ==
    ASSUME NEW b, NEW c, NEW d, Kept(b, c), Kept(c, d)
    PROVE  Kept(b, d)
BY DEF Kept

LEMMA BatchSound ==
    ASSUME OpsOK, NEW b, Sound(b), Shown(b),
           NEW n \in Nat, NEW ops \in [1 .. n -> operations]
    PROVE  LET c == FoldLeft(ApplyOrDefer, b, ops)
           IN  Sound(c) /\ Shown(c) /\ ObservedAll(c.version, b.version) /\ Kept(b, c)
<1>0. PICK f : IsBatch(f, b, n, ops)
  <2>1. DOMAIN ops = 1 .. n
    OBVIOUS
  <2>2. QED
    BY <2>1, BatchIs
<1>1. /\ FoldLeft(ApplyOrDefer, b, ops) = f[1 .. n]
      /\ f[{}] = b
      /\ \A s \in SUBSET (1 .. n) : s # {} =>
            Max(s) \in s /\ f[s] = ApplyOrDefer(f[s \ {Max(s)}], ops[Max(s)])
  BY <1>0 DEF IsBatch
<1> DEFINE Right(s) == /\ Sound(f[s]) /\ Shown(f[s]) /\ Kept(b, f[s])
                       /\ ObservedAll(f[s].version, b.version)
           Bad == {s \in SUBSET (1 .. n) : ~Right(s)}
<1>2. ASSUME Bad # {} PROVE FALSE
  <2>1. IsFiniteSet(1 .. n) /\ Bad \subseteq SUBSET (1 .. n)
    BY FS_Interval
  <2>2. PICK s \in Bad : \A t \in SUBSET s : t # s => t \notin Bad
    <3> HIDE DEF Bad
    <3>1. QED
      BY <1>2, <2>1, SmallestSubset
  <2>3. CASE s = {}
    <3>1. ObservedAll(b.version, b.version) /\ Kept(b, b)
      BY DEF ObservedAll, Sound, Versions, Kept
    <3>2. QED
      BY <1>1, <2>3, <3>1
  <2>4. CASE s # {}
    <3> DEFINE t == s \ {Max(s)}
               op == ops[Max(s)]
    <3>1. Max(s) \in s /\ op \in operations /\ f[s] = ApplyOrDefer(f[t], op)
      BY <1>1, <2>4
    <3>2. t \in SUBSET s /\ t # s /\ t \in SUBSET (1 .. n)
      BY <3>1
    <3>3. Right(t)
      <4> HIDE DEF t, Right
      <4>1. QED
        BY <2>2, <3>2
    <3> HIDE DEF t, op
    <3>4. Sound(f[s]) /\ Shown(f[s])
      BY <3>1, <3>3, StepSound, StepShown
    <3>5. ObservedAll(f[s].version, b.version)
      <4>1. ObservedAll(f[s].version, f[t].version)
        BY <3>1, <3>3, StepGrows
      <4>2. f[s].version \in Versions /\ f[t].version \in Versions /\ b.version \in Versions
        BY <3>3, <3>4 DEF Sound
      <4>3. QED
        BY <3>3, <4>1, <4>2, GrowsFurther
    <3>6. Kept(b, f[s])
      <4>1. Kept(f[t], f[s])
        BY <3>1, <3>3, StepPlaced
      <4>2. QED
        BY <3>3, <4>1, KeptFurther
    <3>7. QED
      BY <3>4, <3>5, <3>6
  <2>5. QED
    BY <2>3, <2>4
<1>3. Right(1 .. n)
  BY <1>2
<1>4. QED
  BY <1>1, <1>3

(* A buffer whose queue was taken. *)
LEMMA TakenSound ==
    ASSUME NEW b, Sound(b), Shown(b)
    PROVE  LET c == [b EXCEPT !.deferred_replicas = {}, !.deferred_ops = {}]
           IN  /\ Sound(c) /\ Shown(c) /\ Blocked(c) /\ Kept(b, c)
               /\ c.version = b.version /\ c.deferred_ops = {} /\ c.deferred_replicas = {}
<1> DEFINE c == [b EXCEPT !.deferred_replicas = {}, !.deferred_ops = {}]
<1>1. DOMAIN b = Fields
  BY DEF Sound
<1>2. /\ DOMAIN c = Fields
      /\ c.version = b.version /\ c.lamport_clock = b.lamport_clock
      /\ c.deferred_ops = {} /\ c.deferred_replicas = {}
      /\ c.edit_id_resolvers = b.edit_id_resolvers
      /\ c.wait_for_version_txs = b.wait_for_version_txs
      /\ c.undo_map = b.undo_map /\ c.fragments = b.fragments
  BY <1>1 DEF Fields
<1> HIDE DEF c
<1>3. WaitsForMore(c)
  BY <1>2 DEF Sound, WaitsForMore
<1>4. Sound(c) /\ Shown(c) /\ Blocked(c) /\ Kept(b, c)
  BY <1>2, <1>3 DEF Sound, Shown, Blocked, Kept
<1>5. QED
  BY <1>2, <1>4 DEF c

(* One pass leaves no operation deferred that could be applied. *)
LEMMA FlushSound ==
    ASSUME OpsOK, NEW b, Sound(b), Shown(b)
    PROVE  LET c == FlushDeferredOps(b)
           IN  /\ Sound(c) /\ Shown(c) /\ Blocked(c) /\ Kept(b, c)
               /\ ObservedAll(c.version, b.version)
<1> DEFINE taken == [b EXCEPT !.deferred_replicas = {}, !.deferred_ops = {}]
           S == b.deferred_ops
<1>1. S \subseteq operations /\ IsFiniteSet(S)
  BY FS_Subset DEF Sound, OpsOK
<1>2. /\ Sound(taken) /\ Shown(taken) /\ Blocked(taken) /\ Kept(b, taken)
      /\ taken.version = b.version /\ taken.deferred_ops = {}
  BY TakenSound
<1>3. FlushDeferredOps(b) = ApplyEach(taken, S, Latest)
  BY DEF FlushDeferredOps
<1> HIDE DEF taken, S
<1>4. PICK f : IsPass(f, taken, S)
  BY <1>1, PassIs
<1> USE <1>4 DEF IsPass
<1> DEFINE Right(s) == /\ Sound(f[s]) /\ Shown(f[s]) /\ Blocked(f[s]) /\ Kept(b, f[s])
                       /\ f[s].deferred_ops \subseteq s
                       /\ ObservedAll(f[s].version, b.version)
           Bad == {s \in SUBSET S : ~Right(s)}
<1>5. ASSUME Bad # {} PROVE FALSE
  <2>1. PICK s \in Bad : \A t \in SUBSET s : t # s => t \notin Bad
    <3>1. Bad \subseteq SUBSET S
      OBVIOUS
    <3> HIDE DEF Bad
    <3>2. QED
      BY <1>1, <1>5, <3>1, SmallestSubset
  <2>2. CASE s = {}
    <3>1. ObservedAll(b.version, b.version)
      BY DEF ObservedAll, Sound, Versions
    <3>2. QED
      BY <1>2, <1>4, <2>2, <3>1
  <2>3. CASE s # {}
    <3> DEFINE op == Latest(s)
               t == s \ {op}
    <3>1. /\ op \in s /\ op \in operations /\ f[s] = ApplyOrDefer(f[t], op)
          /\ \A p \in s : p = op \/ Before(p.timestamp, op.timestamp)
      BY <1>1, <1>4, <2>3, OneIsLast
    <3>2. t \in SUBSET s /\ t # s /\ t \in SUBSET S
      BY <3>1
    <3>3. Right(t)
      <4> HIDE DEF t, Right
      <4>1. QED
        BY <2>1, <3>2
    <3>4. \A o \in f[t].deferred_ops : Before(o.timestamp, op.timestamp)
      BY <3>1, <3>3
    <3>5. f[t].deferred_ops \subseteq s
      BY <3>3
    <3> HIDE DEF t, op
    <3>6. Sound(f[s]) /\ Shown(f[s]) /\ Blocked(f[s])
      BY <3>1, <3>3, <3>4, StepSound, StepShown, StepBlocked
    <3>7. f[s].deferred_ops \subseteq s
      BY <3>1, <3>3, <3>5, StepSound
    <3>8. ObservedAll(f[s].version, b.version)
      <4>1. ObservedAll(f[s].version, f[t].version)
        BY <3>1, <3>3, StepGrows
      <4>2. f[s].version \in Versions /\ f[t].version \in Versions /\ b.version \in Versions
        BY <3>3, <3>6 DEF Sound
      <4>3. QED
        BY <3>3, <4>1, <4>2, GrowsFurther
    <3>9. Kept(b, f[s])
      <4>1. Kept(f[t], f[s])
        BY <3>1, <3>3, StepPlaced
      <4>2. QED
        BY <3>3, <4>1, KeptFurther
    <3>10. QED
      BY <3>6, <3>7, <3>8, <3>9
  <2>4. QED
    BY <2>2, <2>3
<1>6. Right(S)
  BY <1>5
<1>7. QED
  BY <1>3, <1>4, <1>6

-----------------------------------------------------------------------------
(* An edit or undo made here.                                              *)

(* Nobody knows more of a replica's operations than the replica. *)
LEMMA NobodyKnowsMore ==
    ASSUME IInv, NEW version \in Versions, MadeOfStamps(version), NEW q \in Replicas
    PROVE  version[q] \in Nat /\ buffer[q].version[q] \in Nat /\ version[q] <= buffer[q].version[q]
<1>1. /\ version[q] \in Nat /\ buffer[q].version[q] \in Nat /\ Base(q) \in Nat
      /\ buffer[q].version[q] >= Base(q)
  BY ReplicasAre DEF IInv, OpsOK, Sound, Versions, MadeOfStamps
<1>2. CASE version[q] = Base(q)
  BY <1>1, <1>2
<1>3. CASE version[q] # Base(q)
  <2>1. PICK op \in operations : op.timestamp = <<version[q], q>>
    BY <1>3 DEF MadeOfStamps
  <2>2. QED
    BY <1>1, <2>1 DEF IInv, OwnObserved, Observed
<1>4. QED
  BY <1>2, <1>3

(* What an operation made by replica r is like. *)
Issued(r, op) ==
    /\ op.kind \in {"edit", "undo"}
    /\ op.version = buffer[r].version
    /\ op.timestamp = <<op.timestamp[1], r>>
    /\ op.timestamp[1] \in Nat /\ op.timestamp[1] >= buffer[r].lamport_clock
    /\ op.kind = "edit" => op.len \in Nat
    /\ op.kind = "undo" =>
          \A e \in DOMAIN op.counts : e \in Stamps /\ Observed(buffer[r].version, e)

LEMMA IssueIsNew ==
    ASSUME IInv, NEW r \in Replicas, NEW op, Issued(r, op)
    PROVE  /\ op.timestamp \in Stamps
           /\ \A q \in Replicas : op.version[q] < op.timestamp[1]
           /\ \A o \in operations : o.timestamp[2] = r => o.timestamp[1] < op.timestamp[1]
           /\ \A v \in Versions : MadeOfStamps(v) => ~Observed(v, op.timestamp)
<1> DEFINE b == buffer[r]
<1>1. /\ b.version \in Versions /\ b.lamport_clock \in Nat
      /\ \A q \in Replicas : b.version[q] < b.lamport_clock /\ b.version[q] \in Nat
  BY DEF IInv, Sound, Versions
<1>2. op.timestamp \in Stamps /\ op.timestamp[1] \in Nat /\ op.timestamp[2] = r
  BY DEF Issued, Stamps
<1>3. \A q \in Replicas : op.version[q] < op.timestamp[1]
  BY <1>1, <1>2 DEF Issued
<1>4. ASSUME NEW o \in operations, o.timestamp[2] = r PROVE o.timestamp[1] < op.timestamp[1]
  <2>1. b.version[r] >= o.timestamp[1] /\ o.timestamp[1] \in Nat
    BY <1>4 DEF IInv, OwnObserved, Observed, OpsOK, OpShape, Stamps
  <2>2. QED
    BY <1>1, <1>2, <2>1 DEF Issued
<1>5. ASSUME NEW v \in Versions, MadeOfStamps(v) PROVE ~Observed(v, op.timestamp)
  <2>1. v[r] \in Nat /\ v[r] <= b.version[r]
    BY <1>5, NobodyKnowsMore
  <2>2. QED
    BY <1>1, <1>2, <2>1 DEF Observed, Issued
<1>6. QED
  BY <1>2, <1>3, <1>4, <1>5

LEMMA IssueOps ==
    ASSUME IInv, NEW r \in Replicas, NEW op, Issued(r, op),
           operations' = operations \cup {op}, scope' = scope
    PROVE  /\ OpsOK'
           /\ Replicas' = Replicas /\ Versions' = Versions /\ Stamps' = Stamps
           /\ \A q : Base(q)' = Base(q)
           /\ \A v : MadeOfStamps(v) => MadeOfStamps(v)'
<1>1. Replicas' = Replicas /\ \A q : Base(q)' = Base(q)
  BY DEF Replicas, Base
<1>2. Versions' = Versions /\ Stamps' = Stamps
  BY <1>1 DEF Versions, Stamps
<1>3. ASSUME NEW v, MadeOfStamps(v) PROVE MadeOfStamps(v)'
  BY <1>1, <1>3 DEF MadeOfStamps
<1>4. MadeOfStamps(op.version) /\ op.version \in Versions
  BY DEF IInv, Sound, Issued
<1>5. ASSUME NEW o \in operations' PROVE OpShape(o)'
  <2>1. CASE o \in operations
    <3>1. OpShape(o)
      BY <2>1 DEF IInv, OpsOK
    <3>2. QED
      BY <1>1, <1>2, <1>3, <3>1 DEF OpShape, Observed
  <2>2. CASE o = op
    BY <1>1, <1>2, <1>3, <1>4, <2>2, IssueIsNew DEF OpShape, Issued, Observed
  <2>3. QED
    BY <1>5, <2>1, <2>2
<1>6. OpsOrdered'
  <2>1. SUFFICES ASSUME NEW o \in operations', NEW p \in operations',
                        o.timestamp[2] = p.timestamp[2]
                 PROVE  /\ o.timestamp[1] = p.timestamp[1] => o = p
                        /\ o.timestamp[1] < p.timestamp[1] =>
                              p.version[o.timestamp[2]] >= o.timestamp[1]
    BY DEF OpsOrdered
  <2>2. op.timestamp[1] \in Nat /\ op.timestamp[2] = r
    BY DEF Issued
  <2>3. \A x \in operations : /\ x.timestamp[1] \in Nat
                              /\ x.timestamp[2] = r =>
                                    /\ x.timestamp[1] < op.timestamp[1]
                                    /\ op.version[r] >= x.timestamp[1]
    BY IssueIsNew DEF IInv, OpsOK, OpShape, Stamps, OwnObserved, Observed, Issued
  <2>4. CASE o \in operations /\ p \in operations
    BY <2>1, <2>4 DEF IInv, OpsOK, OpsOrdered
  <2>5. CASE o \in operations /\ p = op
    BY <2>1, <2>2, <2>3, <2>5
  <2>6. CASE o = op /\ p \in operations
    BY <2>1, <2>2, <2>3, <2>6
  <2>7. CASE o = op /\ p = op
    BY <2>2, <2>7
  <2>8. QED
    BY <2>1, <2>4, <2>5, <2>6, <2>7
<1>7. IsFiniteSet(operations') /\ scope' \in Scope
  BY FS_AddElement DEF IInv, OpsOK
<1>8. OpsOK'
  BY <1>5, <1>6, <1>7 DEF OpsOK
<1>9. QED
  BY <1>1, <1>2, <1>3, <1>8

(* The other replicas have not observed it. *)
LEMMA IssueUnseen ==
    ASSUME IInv, NEW r \in Replicas, NEW op, Issued(r, op),
           operations' = operations \cup {op}, scope' = scope,
           NEW v \in Versions, MadeOfStamps(v)
    PROVE  /\ Closed(v) => Closed(v)'
           /\ UndoMapOf(v)' = UndoMapOf(v)
<1>1. ~Observed(v, op.timestamp) /\ Replicas' = Replicas
  BY IssueIsNew, IssueOps
<1>2. Closed(v) => Closed(v)'
  BY <1>1 DEF Closed, Observed, ObservedAll
<1>3. {o \in OpsOf("undo")' : Observed(v, o.timestamp)}
         = {o \in OpsOf("undo") : Observed(v, o.timestamp)}
  BY <1>1 DEF OpsOf
<1>4. QED
  BY <1>2, <1>3 DEF UndoMapOf, InsertUndo, Observed

LEMMA IssueElsewhere ==
    ASSUME IInv, NEW r \in Replicas, NEW op, Issued(r, op),
           operations' = operations \cup {op}, scope' = scope,
           NEW b, Sound(b), Blocked(b), Shown(b)
    PROVE  Sound(b)' /\ Blocked(b)' /\ Shown(b)'
<1>1. /\ Replicas' = Replicas /\ Versions' = Versions /\ Stamps' = Stamps
      /\ \A v : MadeOfStamps(v) => MadeOfStamps(v)'
  BY IssueOps
<1>2. /\ b.version \in Versions /\ MadeOfStamps(b.version)
      /\ Closed(b.version)' /\ UndoMapOf(b.version)' = UndoMapOf(b.version)
  BY IssueUnseen DEF Sound
<1>3. WaitsForMore(b)'
  BY <1>1 DEF Sound, WaitsForMore, OpsOf, Observed, ObservedAll
<1>4. Sound(b)'
  BY <1>1, <1>2, <1>3 DEF Sound
<1>5. Blocked(b)'
  BY <1>1 DEF Blocked, ObservedAll
<1>6. Shown(b)'
  BY <1>1, <1>2 DEF Shown, Cached, Fragment
<1>7. QED
  BY <1>4, <1>5, <1>6

(* The replica that makes it observes it and goes on with its clock. *)
Advanced(b, op, c) ==
    /\ DOMAIN c = Fields
    /\ c.version = Observe(b.version, op.timestamp)
    /\ c.lamport_clock \in Nat /\ c.lamport_clock > op.timestamp[1]
    /\ \A field \in {"deferred_ops", "deferred_replicas", "edit_id_resolvers",
                     "wait_for_version_txs"} : c[field] = b[field]

LEMMA IssueVersion ==
    ASSUME IInv, NEW r \in Replicas, NEW op, Issued(r, op), NEW b, b = buffer[r],
           NEW c, Advanced(b, op, c)
    PROVE  /\ c.version \in Versions
           /\ c.version[r] = op.timestamp[1] /\ op.timestamp[1] > b.version[r]
           /\ \A q \in Replicas \ {r} : c.version[q] = b.version[q]
           /\ ObservedAll(c.version, b.version)
           /\ \A t \in Stamps : t[2] # r => (Observed(c.version, t) <=> Observed(b.version, t))
<1>1. op.timestamp \in Stamps /\ op.timestamp[2] = r /\ b.version \in Versions
      /\ op.version = b.version /\ op.timestamp[1] \in Nat
  BY IssueIsNew DEF IInv, Sound, Issued
<1>2. op.timestamp[1] > b.version[r] /\ b.version[r] \in Nat
  BY <1>1, IssueIsNew DEF Versions
<1>3. c.version \in Versions
      /\ \A q \in Replicas : c.version[q] = IF q = r THEN op.timestamp[1] ELSE b.version[q]
  BY <1>1, <1>2, ObserveIs DEF Advanced
<1>4. ObservedAll(c.version, b.version)
  BY <1>1, <1>2, <1>3 DEF ObservedAll, Versions
<1>5. \A t \in Stamps : t[2] # r => (Observed(c.version, t) <=> Observed(b.version, t))
  BY <1>3 DEF Observed, Stamps
<1>6. QED
  BY <1>2, <1>3, <1>4, <1>5

(* What was not covered still is not: no version but the replica's own     *)
(* tells more of the replica than it had observed of itself.               *)
LEMMA IssueCovers ==
    ASSUME IInv, NEW r \in Replicas, NEW op, Issued(r, op), NEW b, b = buffer[r],
           NEW c, Advanced(b, op, c),
           NEW v \in Versions, MadeOfStamps(v), ~ObservedAll(b.version, v)
    PROVE  ~ObservedAll(c.version, v)
<1>1. PICK q \in Replicas : ~(b.version[q] >= v[q])
  BY DEF ObservedAll
<1>2. v[q] <= buffer[q].version[q] /\ v[q] \in Nat /\ buffer[q].version[q] \in Nat
  BY NobodyKnowsMore
<1>3. q # r
  BY <1>1, <1>2
<1>4. QED
  BY <1>1, <1>3, IssueVersion DEF ObservedAll

LEMMA IssueHere ==
    ASSUME IInv, NEW r \in Replicas, NEW op, Issued(r, op),
           operations' = operations \cup {op}, scope' = scope,
           NEW b, b = buffer[r], NEW c, Advanced(b, op, c)
    PROVE  /\ Sound(c)' /\ Blocked(c)'
           /\ UndoMapOf(c.version)' =
                 IF op.kind = "undo" THEN InsertUndo(UndoMapOf(b.version), op)
                 ELSE UndoMapOf(b.version)
<1>1. /\ Replicas' = Replicas /\ Versions' = Versions /\ Stamps' = Stamps
      /\ \A q : Base(q)' = Base(q)
      /\ \A v : MadeOfStamps(v) => MadeOfStamps(v)'
      /\ OpsOK'
  BY IssueOps
<1>2. Sound(b) /\ Blocked(b) /\ OpsOK
  BY DEF IInv
<1>3. /\ c.version \in Versions
      /\ c.version[r] = op.timestamp[1] /\ op.timestamp[1] > b.version[r]
      /\ \A q \in Replicas \ {r} : c.version[q] = b.version[q]
      /\ ObservedAll(c.version, b.version)
      /\ \A t \in Stamps : t[2] # r => (Observed(c.version, t) <=> Observed(b.version, t))
  BY IssueVersion
<1>4. op.version = b.version /\ op.timestamp = <<op.timestamp[1], r>>
      /\ op.timestamp[1] \in Nat /\ op.timestamp \in Stamps
  BY IssueIsNew DEF Issued
<1>5. \A o \in operations : Observed(b.version, o.timestamp) <=>
                            Observed(c.version, o.timestamp)
  <2>1. ASSUME NEW o \in operations, o.timestamp[2] = r
        PROVE  Observed(b.version, o.timestamp) /\ Observed(c.version, o.timestamp)
    <3>1. Observed(b.version, o.timestamp) /\ o.timestamp[1] \in Nat
      BY <1>2, <2>1 DEF IInv, OwnObserved, OpsOK, OpShape, Stamps
    <3>2. b.version[r] \in Nat
      BY <1>2 DEF Sound, Versions
    <3>3. QED
      BY <1>3, <1>4, <2>1, <3>1, <3>2 DEF Observed
  <2>2. ASSUME NEW o \in operations PROVE o.timestamp \in Stamps
    BY <1>2 DEF OpsOK, OpShape
  <2>3. QED
    BY <1>3, <2>1, <2>2
<1>6. MadeOfStamps(c.version)'
  <2>1. MadeOfStamps(b.version)' /\ Base(r) \in Nat /\ b.version[r] >= Base(r)
        /\ b.version[r] \in Nat
    BY <1>1, <1>2, ReplicasAre DEF Sound, MadeOfStamps, Versions, OpsOK
  <2>2. c.version[r] >= Base(r) /\ op.timestamp = <<c.version[r], r>>
    BY <1>3, <1>4, <2>1
  <2>3. QED
    BY <1>1, <1>3, <2>1, <2>2 DEF MadeOfStamps
<1>7. Closed(c.version)'
  <2>1. \A o \in operations' : Observed(c.version, o.timestamp) =>
                                  ObservedAll(b.version, o.version)
    <3>1. ObservedAll(b.version, b.version)
      BY <1>2 DEF ObservedAll, Sound, Versions
    <3>2. QED
      BY <1>2, <1>4, <1>5, <3>1 DEF Sound, Closed
  <2>2. \A o \in operations' : Observed(c.version, o.timestamp) =>
                                  ObservedAll(c.version, o.version)
    <3>1. \A o \in operations' : o.version \in Versions
      BY <1>1 DEF OpsOK, OpShape
    <3>2. b.version \in Versions
      BY <1>2 DEF Sound
    <3>3. QED
      BY <1>3, <2>1, <3>1, <3>2, GrowsFurther
  <2>3. QED
    BY <1>1, <2>2 DEF Closed, Observed, ObservedAll
<1>8. WaitsForMore(c)'
  <2>1. /\ c.edit_id_resolvers = b.edit_id_resolvers
        /\ c.wait_for_version_txs = b.wait_for_version_txs
    BY DEF Advanced
  <2>2. ASSUME NEW t \in c.edit_id_resolvers
        PROVE  /\ ~Observed(c.version, t)
               /\ \E o \in OpsOf("edit")' : o.timestamp = t
    <3>1. PICK o \in OpsOf("edit") : o.timestamp = t /\ ~Observed(b.version, t)
      BY <1>2, <2>1 DEF Sound, WaitsForMore
    <3>2. QED
      BY <1>5, <3>1 DEF OpsOf
  <2>3. ASSUME NEW v \in c.wait_for_version_txs
        PROVE  v \in Versions' /\ MadeOfStamps(v)' /\ ~ObservedAll(c.version, v)'
    <3>1. v \in Versions /\ MadeOfStamps(v) /\ ~ObservedAll(b.version, v)
      BY <1>2, <2>1 DEF Sound, WaitsForMore
    <3>2. ~ObservedAll(c.version, v)
      BY <3>1, IssueCovers
    <3>3. QED
      BY <1>1, <3>1, <3>2 DEF ObservedAll
  <2>4. QED
    BY <2>2, <2>3 DEF WaitsForMore, Observed
<1>9. Sound(c)'
  <2>1. DOMAIN c = Fields /\ c.deferred_ops = b.deferred_ops
        /\ c.deferred_replicas = b.deferred_replicas
        /\ c.lamport_clock \in Nat /\ c.lamport_clock > op.timestamp[1]
    BY DEF Advanced
  <2>2. \A q \in Replicas : c.version[q] < c.lamport_clock
    <3>1. \A q \in Replicas : b.version[q] < op.timestamp[1] /\ b.version[q] \in Nat
      BY <1>2, <1>4, IssueIsNew DEF Sound, Versions
    <3>2. QED
      BY <1>3, <1>4, <2>1, <3>1
  <2>3. c.deferred_ops \subseteq operations'
        /\ c.deferred_replicas = {o.timestamp[2] : o \in c.deferred_ops}
    BY <1>2, <2>1 DEF Sound
  <2>4. QED
    BY <1>1, <1>3, <1>6, <1>7, <1>8, <2>1, <2>2, <2>3 DEF Sound
<1>10. Blocked(c)'
  <2>1. c.deferred_ops = b.deferred_ops /\ b.deferred_ops \subseteq operations
    BY <1>2 DEF Advanced, Sound
  <2>2. \A o \in c.deferred_ops : o.version \in Versions /\ MadeOfStamps(o.version)
    BY <1>2, <2>1 DEF OpsOK, OpShape
  <2>3. \A o \in c.deferred_ops : ~ObservedAll(c.version, o.version)
    BY <1>2, <2>1, <2>2, IssueCovers DEF Blocked
  <2>4. QED
    BY <1>1, <2>3 DEF Blocked, ObservedAll
<1>11. UndoMapOf(c.version)' =
          IF op.kind = "undo" THEN InsertUndo(UndoMapOf(b.version), op) ELSE UndoMapOf(b.version)
  <2>1. Observed(c.version, op.timestamp)
    BY <1>3, <1>4 DEF Observed
  <2> DEFINE before == {o \in OpsOf("undo") : Observed(b.version, o.timestamp)}
             after == {o \in OpsOf("undo")' : Observed(c.version, o.timestamp)}
  <2>2. after = IF op.kind = "undo" THEN before \cup {op} ELSE before
    BY <1>5, <2>1 DEF OpsOf
  <2>3. UndoMapOf(b.version) = UNION {InsertUndo({}, o) : o \in before}
    BY DEF UndoMapOf
  <2>4. UndoMapOf(c.version)' = UNION {InsertUndo({}, o) : o \in after}
    BY DEF UndoMapOf, InsertUndo, Observed
  <2>5. InsertUndo(UndoMapOf(b.version), op) = UndoMapOf(b.version) \cup InsertUndo({}, op)
    BY InsertUndoIs
  <2> HIDE DEF before, after
  <2>6. QED
    BY <2>2, <2>3, <2>4, <2>5
<1>12. QED
  BY <1>9, <1>10, <1>11

-----------------------------------------------------------------------------
(* The stacks of transactions.                                             *)

LEMMA LargerSeq ==
    ASSUME NEW S, NEW T, S \subseteq T, NEW s \in Seq(SUBSET S)
    PROVE  s \in Seq(SUBSET T)
<1>1. s \in [1 .. Len(s) -> SUBSET T] /\ Len(s) \in Nat
  OBVIOUS
<1>2. QED
  BY <1>1

LEMMA GroupedIn ==
    ASSUME NEW S, NEW stack \in Seq(SUBSET S), NEW n \in Nat, n <= Len(stack) - 1
    PROVE  GroupTrailing(stack, n) \in Seq(SUBSET S)
<1> DEFINE keep == Len(stack) - n
<1>1. keep \in 1 .. Len(stack)
  OBVIOUS
<1>2. SubSeq(stack, 1, keep - 1) \in Seq(SUBSET S)
  <2>1. \A i \in 1 .. keep - 1 : stack[i] \in SUBSET S
    BY <1>1
  <2>2. QED
    BY <1>1, <2>1
<1>3. UNION {stack[i] : i \in keep .. Len(stack)} \in SUBSET S
  BY <1>1
<1>4. QED
  BY <1>2, <1>3 DEF GroupTrailing

LEMMA RemovedIn ==
    ASSUME NEW S, NEW s \in Seq(S), NEW i \in DOMAIN s
    PROVE  RemoveAt(s, i) \in Seq(S)
<1>1. i \in 1 .. Len(s) /\ Len(s) \in Nat
  OBVIOUS
<1>2. SubSeq(s, 1, i - 1) \in Seq(S) /\ SubSeq(s, i + 1, Len(s)) \in Seq(S)
  <2>1. \A k \in 1 .. Len(s) : s[k] \in S
    OBVIOUS
  <2>2. QED
    BY <1>1, <2>1
<1>3. QED
  BY <1>2 DEF RemoveAt

-----------------------------------------------------------------------------
(* The place of the characters of an edit made here.                       *)

(* Of the characters behind all of low, those that no earlier one precedes *)
(* stay before an insertion of timestamp t: concurrent insertions with a   *)
(* higher timestamp come first.                                            *)
LeftOf(chars, order, low, t) ==
    {x \in chars : \A y \in chars :
        (y = x \/ <<y, x>> \in order) /\ (\A l \in low : <<l, y>> \in order) => Before(t, y[1])}

IsLeft(chars, order, low, left) ==
    /\ left \subseteq chars /\ low \subseteq left
    /\ \A x \in left, y \in chars : <<y, x>> \in order => y \in left

(* The order with new characters between left and the others. *)
Inserted(chars, order, left, new) ==
    order \cup (left \X new) \cup (new \X (chars \ left))
          \cup {p \in new \X new : p[1][2] < p[2][2]}

IsInserted(chars, order, left, new, order2) ==
    /\ \A c, d \in chars : <<c, d>> \in order2 <=> <<c, d>> \in order
    /\ \A c \in chars, d \in new : /\ <<c, d>> \in order2 <=> c \in left
                                   /\ <<d, c>> \in order2 <=> c \notin left
    /\ \A c, d \in new : <<c, d>> \in order2 <=> c[2] < d[2]

LEMMA InsertedIs ==
    ASSUME NEW chars, NEW order, order \subseteq chars \X chars, NEW left, left \subseteq chars,
           NEW new, new \cap chars = {}
    PROVE  IsInserted(chars, order, left, new, Inserted(chars, order, left, new))
<1> DEFINE own == {p \in new \X new : p[1][2] < p[2][2]}
           order2 == Inserted(chars, order, left, new)
<1>1. \A c, d \in new : <<c, d>> \in own <=> c[2] < d[2]
  OBVIOUS
<1>2. own \subseteq new \X new
  OBVIOUS
<1>3. order2 = order \cup (left \X new) \cup (new \X (chars \ left)) \cup own
  BY DEF Inserted
<1> HIDE DEF own, order2
<1>4. \A c, d : /\ <<c, d>> \in order => c \in chars /\ d \in chars
                /\ <<c, d>> \in own => c \in new /\ d \in new
                /\ <<c, d>> \in left \X new <=> c \in left /\ d \in new
                /\ <<c, d>> \in new \X (chars \ left) <=> c \in new /\ d \in chars /\ d \notin left
  BY <1>2
<1>5. \A c, d : <<c, d>> \in order2 <=>
         <<c, d>> \in order \/ <<c, d>> \in left \X new
            \/ <<c, d>> \in new \X (chars \ left) \/ <<c, d>> \in own
  BY <1>3
<1>6. \A c, d \in chars : <<c, d>> \in order2 <=> <<c, d>> \in order
  BY <1>4, <1>5
<1>7. \A c \in chars, d \in new : /\ <<c, d>> \in order2 <=> c \in left
                                  /\ <<d, c>> \in order2 <=> c \notin left
  BY <1>4, <1>5
<1>8. \A c, d \in new : <<c, d>> \in order2 <=> c[2] < d[2]
  BY <1>1, <1>4, <1>5
<1>9. QED
  BY <1>6, <1>7, <1>8 DEF IsInserted, order2

LEMMA InsertedOrdered ==
    ASSUME NEW chars, NEW order, Ordered(chars, order), NEW low, NEW left,
           IsLeft(chars, order, low, left),
           NEW t, \A c \in chars : c[1] # t,
           NEW op, t = op.timestamp, op.len \in Nat, NEW new, new = CharsOf(op),
           NEW order2, order2 = Inserted(chars, order, left, new)
    PROVE  /\ Ordered(chars \cup new, order2)
           /\ IsInserted(chars, order, left, new, order2)
<1>0. /\ left \subseteq chars
      /\ \A x \in left, y \in chars : <<y, x>> \in order => y \in left
  BY DEF IsLeft
<1>1. \A c \in new : c[1] = t /\ c[2] \in Nat /\ c = <<c[1], c[2]>>
  BY DEF CharsOf
<1>2. new \cap chars = {}
  BY <1>1
<1>3. /\ order \subseteq chars \X chars
      /\ \A c \in chars : <<c, c>> \notin order
      /\ \A c, d, e \in chars : <<c, d>> \in order /\ <<d, e>> \in order => <<c, e>> \in order
      /\ \A c, d \in chars : c = d \/ <<c, d>> \in order \/ <<d, c>> \in order
      /\ \A c, d \in chars : c[1] = d[1] => (<<c, d>> \in order <=> c[2] < d[2])
  BY DEF Ordered
<1>4. /\ \A c, d \in chars : <<c, d>> \in order2 <=> <<c, d>> \in order
      /\ \A c \in chars, d \in new : /\ <<c, d>> \in order2 <=> c \in left
                                     /\ <<d, c>> \in order2 <=> c \notin left
      /\ \A c, d \in new : <<c, d>> \in order2 <=> c[2] < d[2]
  <2>1. IsInserted(chars, order, left, new, order2)
    BY <1>0, <1>2, <1>3, InsertedIs
  <2>2. QED
    BY <2>1 DEF IsInserted
<1>5. order2 \subseteq (chars \cup new) \X (chars \cup new)
  BY <1>0, <1>3 DEF Inserted
<1>6. \A c \in chars \cup new : <<c, c>> \notin order2
  <2>1. \A c \in new : ~(c[2] < c[2])
    BY <1>1
  <2>2. QED
    BY <1>3, <1>4, <2>1
<1>7. ASSUME NEW c \in chars \cup new, NEW d \in chars \cup new, NEW e \in chars \cup new,
             <<c, d>> \in order2, <<d, e>> \in order2
      PROVE  <<c, e>> \in order2
  <2>1. CASE d \in chars
    <3>1. CASE c \in chars /\ e \in chars
      BY <1>3, <1>4, <1>7, <2>1, <3>1
    <3>2. CASE c \in chars /\ e \in new
      <4>1. d \in left /\ <<c, d>> \in order
        BY <1>4, <1>7, <2>1, <3>2
      <4>2. QED
        BY <1>0, <1>4, <3>2, <4>1
    <3>3. CASE c \in new /\ e \in chars
      <4>1. d \notin left /\ <<d, e>> \in order
        BY <1>4, <1>7, <2>1, <3>3
      <4>2. e \notin left
        BY <1>0, <2>1, <3>3, <4>1
      <4>3. QED
        BY <1>4, <3>3, <4>2
    <3>4. CASE c \in new /\ e \in new
      BY <1>4, <1>7, <2>1, <3>4
    <3>5. QED
      BY <3>1, <3>2, <3>3, <3>4
  <2>2. CASE d \in new
    <3>1. CASE c \in chars /\ e \in chars
      <4>1. c \in left /\ e \notin left
        BY <1>4, <1>7, <2>2, <3>1
      <4>2. c # e /\ <<e, c>> \notin order
        BY <1>0, <3>1, <4>1
      <4>3. QED
        BY <1>3, <1>4, <3>1, <4>2
    <3>2. CASE c \in chars /\ e \in new
      BY <1>4, <1>7, <2>2, <3>2
    <3>3. CASE c \in new /\ e \in chars
      BY <1>4, <1>7, <2>2, <3>3
    <3>4. CASE c \in new /\ e \in new
      BY <1>1, <1>4, <1>7, <2>2, <3>4
    <3>5. QED
      BY <3>1, <3>2, <3>3, <3>4
  <2>3. QED
    BY <2>1, <2>2
<1>8. ASSUME NEW c \in chars \cup new, NEW d \in chars \cup new
      PROVE  c = d \/ <<c, d>> \in order2 \/ <<d, c>> \in order2
  <2>1. CASE c \in chars /\ d \in chars
    BY <1>3, <1>4, <2>1
  <2>2. CASE c \in chars /\ d \in new
    BY <1>4, <2>2
  <2>3. CASE c \in new /\ d \in chars
    BY <1>4, <2>3
  <2>4. CASE c \in new /\ d \in new
    <3>1. c[2] = d[2] \/ c[2] < d[2] \/ d[2] < c[2]
      BY <1>1, <2>4
    <3>2. c[2] = d[2] => c = d
      BY <1>1, <2>4
    <3>3. QED
      BY <1>4, <2>4, <3>1, <3>2
  <2>5. QED
    BY <2>1, <2>2, <2>3, <2>4
<1>9. ASSUME NEW c \in chars \cup new, NEW d \in chars \cup new, c[1] = d[1]
      PROVE  <<c, d>> \in order2 <=> c[2] < d[2]
  <2>1. (c \in chars /\ d \in chars) \/ (c \in new /\ d \in new)
    BY <1>1, <1>9
  <2>2. QED
    BY <1>3, <1>4, <1>9, <2>1
<1>10. Ordered(chars \cup new, order2)
  BY <1>5, <1>6, <1>7, <1>8, <1>9 DEF Ordered
<1>11. QED
  BY <1>4, <1>10 DEF IsInserted

LEMMA LeftIs ==
    ASSUME NEW chars, NEW order, Ordered(chars, order), NEW low, low \subseteq chars, NEW t,
           NEW left, left = LeftOf(chars, order, low, t)
    PROVE  IsLeft(chars, order, low, left)
<1>1. /\ \A c \in chars : <<c, c>> \notin order
      /\ \A c, d, e \in chars : <<c, d>> \in order /\ <<d, e>> \in order => <<c, e>> \in order
  BY DEF Ordered
<1>2. left = {x \in chars : \A y \in chars :
                 (y = x \/ <<y, x>> \in order) /\ (\A l \in low : <<l, y>> \in order)
                     => Before(t, y[1])}
  BY DEF LeftOf
<1>3. ASSUME NEW x \in low PROVE x \in left
  <2>1. ASSUME NEW y \in chars, y = x \/ <<y, x>> \in order, \A l \in low : <<l, y>> \in order
        PROVE  FALSE
    BY <1>1, <1>3, <2>1
  <2>2. QED
    BY <1>2, <1>3, <2>1
<1>4. ASSUME NEW x \in left, NEW y \in chars, <<y, x>> \in order PROVE y \in left
  <2>1. SUFFICES ASSUME NEW z \in chars, z = y \/ <<z, y>> \in order,
                        \A l \in low : <<l, z>> \in order
                 PROVE  Before(t, z[1])
    BY <1>2, <1>4
  <2>2. x \in chars /\ <<z, x>> \in order
    BY <1>1, <1>2, <1>4, <2>1
  <2>3. QED
    BY <1>2, <1>4, <2>1, <2>2
<1>5. QED
  BY <1>2, <1>3, <1>4 DEF IsLeft

(* Versions that do not know the new characters look the same. *)
LooksSame(chars, order, chars2, order2, u) ==
    /\ SeenChars(chars2, u) = SeenChars(chars, u)
    /\ \A c \in chars : Rank(chars2, order2, u, c) = Rank(chars, order, u, c)

LEMMA UnseenSame ==
    ASSUME NEW chars, NEW order, NEW order2, NEW left, NEW new,
           IsInserted(chars, order, left, new, order2),
           NEW t, \A c \in new : c[1] = t, NEW u, ~Observed(u, t)
    PROVE  LooksSame(chars, order, chars \cup new, order2, u)
<1>1. SeenChars(chars \cup new, u) = SeenChars(chars, u)
  BY DEF SeenChars
<1>2. SeenChars(chars, u) \subseteq chars
  BY DEF SeenChars
<1>3. ASSUME NEW c \in chars
      PROVE  Rank(chars \cup new, order2, u, c) = Rank(chars, order, u, c)
  <2>1. {x \in SeenChars(chars \cup new, u) : x = c \/ <<x, c>> \in order2}
           = {x \in SeenChars(chars, u) : x = c \/ <<x, c>> \in order}
    BY <1>1, <1>2 DEF IsInserted
  <2>2. QED
    BY <2>1 DEF Rank
<1>4. QED
  BY <1>1, <1>3 DEF LooksSame

SameDeletions(gone, gone2, u) == \A c : Deletions(gone2, u, c) = Deletions(gone, u, c)

LEMMA PlacedSame ==
    ASSUME NEW chars, NEW order, NEW order2, NEW left, NEW new,
           IsInserted(chars, order, left, new, order2),
           NEW t, \A c \in new : c[1] = t, NEW u, ~Observed(u, t),
           NEW gone, NEW gone2, NEW lost, gone2 = gone \cup ({t} \X lost)
    PROVE  /\ SameDeletions(gone, gone2, u)
           /\ \A fragments : Placed(chars, order, gone, fragments, u)
                                => Placed(chars \cup new, order2, gone2, fragments, u)
<1>1. SeenChars(chars \cup new, u) = SeenChars(chars, u)
  BY DEF SeenChars
<1>2. \A c : Deletions(gone2, u, c) = Deletions(gone, u, c)
  <2>1. \A c, d : d \in Deletions(gone2, u, c) <=> <<d, c>> \in gone2 /\ Observed(u, d)
    BY DEF Deletions
  <2>2. \A c, d : d \in Deletions(gone, u, c) <=> <<d, c>> \in gone /\ Observed(u, d)
    BY DEF Deletions
  <2>3. \A c, d : <<d, c>> \in gone2 <=> <<d, c>> \in gone \/ (d = t /\ c \in lost)
    OBVIOUS
  <2>4. ASSUME NEW c PROVE Deletions(gone2, u, c) = Deletions(gone, u, c)
    <3>1. PICK A : A = Deletions(gone2, u, c)
      OBVIOUS
    <3>2. PICK B : B = Deletions(gone, u, c)
      OBVIOUS
    <3>3. \A d : d \in A <=> d \in B
      BY <2>1, <2>2, <2>3, <3>1, <3>2
    <3>4. A = B
      BY <3>3
    <3>5. QED
      BY <3>1, <3>2, <3>4
  <2>5. QED
    BY <2>4
<1>3. ASSUME NEW fragments, Placed(chars, order, gone, fragments, u)
      PROVE  Placed(chars \cup new, order2, gone2, fragments, u)
  <2>1. /\ {Id(fragments[i]) : i \in DOMAIN fragments} = SeenChars(chars, u)
        /\ \A i, j \in DOMAIN fragments : <<Id(fragments[i]), Id(fragments[j])>> \in order <=> i < j
        /\ \A i \in DOMAIN fragments :
              fragments[i].deletions = Deletions(gone, u, Id(fragments[i]))
    BY <1>3 DEF Placed
  <2>2. \A i \in DOMAIN fragments : Id(fragments[i]) \in chars
    BY <2>1 DEF SeenChars
  <2>3. \A i, j \in DOMAIN fragments :
           <<Id(fragments[i]), Id(fragments[j])>> \in order2 <=> i < j
    BY <2>1, <2>2 DEF IsInserted
  <2>4. QED
    BY <1>1, <1>2, <2>1, <2>3 DEF Placed
<1>4. QED
  BY <1>2, <1>3 DEF SameDeletions

(* Earlier edits do not mind the new characters. *)
LEMMA OldShielded ==
    ASSUME NEW chars, \A c \in chars : c[1] \in Nat \X Nat, NEW order, Ordered(chars, order),
           NEW low, low \subseteq chars,
           NEW t \in Nat \X Nat, \A c \in chars : c[1] # t,
           NEW left, left = LeftOf(chars, order, low, t),
           NEW new, \A c \in new : c[1] = t,
           NEW order2, IsInserted(chars, order, left, new, order2),
           NEW u, ~Observed(u, t), NEW inserted, inserted \subseteq chars,
           Shielded(chars, order, u, inserted)
    PROVE  Shielded(chars \cup new, order2, u, inserted)
<1>1. SUFFICES ASSUME NEW c \in inserted, NEW a \in chars \cup new,
                      <<a, c>> \in order2, Before(a[1], c[1])
               PROVE  Shield(chars \cup new, order2, u, a, c)
  BY DEF Shielded
<1>2. SeenChars(chars \cup new, u) = SeenChars(chars, u) /\ SeenChars(chars, u) \subseteq chars
  BY UnseenSame DEF SeenChars, LooksSame
<1>3. \A b \in chars : <<b, c>> \in order /\ Before(b[1], c[1]) =>
         \E z \in SeenChars(chars, u) :
            (z = b \/ <<b, z>> \in order) /\ <<z, c>> \in order /\ ~Before(b[1], z[1])
  BY DEF Shielded, Shield
<1>4. /\ \A x, y \in chars : <<x, y>> \in order2 <=> <<x, y>> \in order
      /\ \A x \in chars, y \in new : /\ <<x, y>> \in order2 <=> x \in left
                                     /\ <<y, x>> \in order2 <=> x \notin left
  BY DEF IsInserted
<1>5. /\ \A x \in chars : <<x, x>> \notin order
      /\ \A x, y, z \in chars : <<x, y>> \in order /\ <<y, z>> \in order => <<x, z>> \in order
  BY DEF Ordered
<1>6. CASE a \in chars
  <2>1. PICK z \in SeenChars(chars, u) :
           (z = a \/ <<a, z>> \in order) /\ <<z, c>> \in order /\ ~Before(a[1], z[1])
    BY <1>1, <1>3, <1>4, <1>6
  <2>2. QED
    BY <1>2, <1>4, <1>6, <2>1 DEF Shield
<1>7. CASE a \in new
  <2>1. a[1] = t /\ c \in chars /\ c \notin left /\ Before(t, c[1])
    BY <1>1, <1>4, <1>7
  <2>2. PICK y \in chars : /\ y = c \/ <<y, c>> \in order
                           /\ \A l \in low : <<l, y>> \in order
                           /\ ~Before(t, y[1])
    BY <2>1 DEF LeftOf
  <2>3. y # c /\ <<y, c>> \in order
    BY <2>1, <2>2
  <2>4. Before(y[1], t) /\ Before(y[1], c[1])
    <3>1. Before(y[1], t)
      BY <2>2, BeforeIs
    <3>2. QED
      BY <2>1, <3>1, BeforeIs
  <2>5. PICK z \in SeenChars(chars, u) :
           (z = y \/ <<y, z>> \in order) /\ <<z, c>> \in order /\ ~Before(y[1], z[1])
    BY <1>3, <2>3, <2>4
  <2>6. z \in chars
    BY <1>2
  <2>7. ~Before(t, z[1])
    <3>1. z[1] \in Nat \X Nat /\ y[1] \in Nat \X Nat
      BY <2>6
    <3>2. Before(t, z[1]) => Before(y[1], z[1])
      BY <2>4, <3>1, BeforeIs
    <3>3. QED
      BY <2>5, <3>2
  <2>8. z \notin left
    BY <2>2, <2>5, <2>6 DEF LeftOf
  <2>9. <<a, z>> \in order2 /\ <<z, c>> \in order2
    BY <1>4, <1>7, <2>1, <2>5, <2>6, <2>8
  <2>10. QED
    BY <1>2, <2>1, <2>5, <2>7, <2>9 DEF Shield
<1>8. QED
  BY <1>6, <1>7

(* The new ones stand right. *)
LEMMA NewShielded ==
    ASSUME NEW chars, \A c \in chars : c[1] \in Nat \X Nat, NEW order, Ordered(chars, order),
           NEW u, NEW low, low \subseteq SeenChars(chars, u),
           NEW t \in Nat \X Nat, \A c \in chars : c[1] # t,
           NEW left, left = LeftOf(chars, order, low, t),
           NEW new, \A c \in new : c[1] = t,
           NEW order2, IsInserted(chars, order, left, new, order2),
           ~Observed(u, t), Shielded(chars, order, u, SeenChars(chars, u))
    PROVE  Shielded(chars \cup new, order2, u, new)
<1>1. SUFFICES ASSUME NEW c \in new, NEW a \in chars \cup new,
                      <<a, c>> \in order2, Before(a[1], c[1])
               PROVE  Shield(chars \cup new, order2, u, a, c)
  BY DEF Shielded
<1>2. SeenChars(chars \cup new, u) = SeenChars(chars, u) /\ SeenChars(chars, u) \subseteq chars
  BY UnseenSame DEF SeenChars, LooksSame
<1>3. /\ \A x, y \in chars : <<x, y>> \in order2 <=> <<x, y>> \in order
      /\ \A x \in chars, y \in new : /\ <<x, y>> \in order2 <=> x \in left
                                     /\ <<y, x>> \in order2 <=> x \notin left
  BY DEF IsInserted
<1>4. \A x, y \in chars : x = y \/ <<x, y>> \in order \/ <<y, x>> \in order
  BY DEF Ordered
<1>5. c[1] = t /\ ~Before(t, t)
  BY BeforeIs
<1>6. a \in chars /\ a \in left /\ Before(a[1], t)
  BY <1>1, <1>3, <1>5
<1>7. ~Before(t, a[1])
  BY <1>6, BeforeIs
<1>8. PICK l \in low : <<l, a>> \notin order
  BY <1>6, <1>7 DEF LeftOf
<1>9. l \in chars /\ l \in SeenChars(chars, u) /\ l \in left
  BY <1>2, LeftIs DEF IsLeft
<1>10. l = a \/ <<a, l>> \in order
  BY <1>4, <1>6, <1>8, <1>9
<1>11. CASE ~Before(a[1], l[1])
  BY <1>2, <1>3, <1>6, <1>9, <1>10, <1>11 DEF Shield
<1>12. CASE Before(a[1], l[1])
  <2>1. <<a, l>> \in order
    BY <1>6, <1>10, <1>12, BeforeIs
  <2>2. PICK z \in SeenChars(chars, u) :
           (z = a \/ <<a, z>> \in order) /\ <<z, l>> \in order /\ ~Before(a[1], z[1])
    BY <1>6, <1>9, <1>12, <2>1 DEF Shielded, Shield
  <2>3. z \in chars /\ z \in left
    BY <1>2, <1>9, <2>2, LeftIs DEF IsLeft
  <2>4. QED
    BY <1>2, <1>3, <1>6, <2>2, <2>3 DEF Shield
<1>13. QED
  BY <1>11, <1>12

LEMMA UndoMapSame ==
    ASSUME NEW ops, NEW op, NEW u, ~Observed(u, op.timestamp)
    PROVE  UndoMapIn(ops \cup {op}, u) = UndoMapIn(ops, u)
<1>1. {o \in ops \cup {op} : o.kind = "undo" /\ Observed(u, o.timestamp)}
         = {o \in ops : o.kind = "undo" /\ Observed(u, o.timestamp)}
  OBVIOUS
<1>2. QED
  BY <1>1 DEF UndoMapIn

(* What the maker of an edit sees: every character in the order, at its    *)
(* full offset.                                                            *)
LEMMA RankIsPlace ==
    ASSUME NEW chars, NEW order, NEW gone, NEW version, NEW n \in Nat, NEW fragments,
           DOMAIN fragments = 1 .. n, Placed(chars, order, gone, fragments, version),
           NEW i \in 1 .. n
    PROVE  Rank(chars, order, version, Id(fragments[i])) = i
<1>1. \A j \in 1 .. n : Observed(version, fragments[j].timestamp)
  <2>1. \A j \in 1 .. n : Id(fragments[j]) \in SeenChars(chars, version)
    BY DEF Placed
  <2>2. \A j \in 1 .. n : Id(fragments[j])[1] = fragments[j].timestamp
    BY DEF Id
  <2>3. QED
    BY <2>1, <2>2 DEF SeenChars
<1>2. {j \in 1 .. i : Observed(version, fragments[j].timestamp)} = 1 .. i
  BY <1>1
<1>3. ObservedUpTo(fragments, version, i) = Cardinality(1 .. i)
  BY <1>2 DEF ObservedUpTo, CountUpTo
<1>4. Cardinality(1 .. i) = i
  BY FS_Interval
<1>5. ObservedUpTo(fragments, version, i) = Rank(chars, order, version, Id(fragments[i]))
  BY OffsetIsRank
<1>6. QED
  BY <1>3, <1>4, <1>5

(* Old edits are where they were and deleted what they deleted. *)
LEMMA OldStays ==
    ASSUME NEW ops, NEW chars, NEW order, NEW gone, World(ops, chars, order, gone),
           \A c \in chars : c[1] \in Nat \X Nat,
           NEW op, NEW t \in Nat \X Nat, t = op.timestamp, \A c \in chars : c[1] # t,
           NEW low, low \subseteq chars, NEW left, left = LeftOf(chars, order, low, t),
           NEW new, \A c \in new : c[1] = t,
           NEW order2, IsInserted(chars, order, left, new, order2),
           NEW lost, NEW gone2, gone2 = gone \cup ({t} \X lost),
           NEW o \in EditsIn(ops), ~Observed(o.version, t), o.timestamp # t,
           CharsOf(o) \subseteq chars
    PROVE  /\ Anchored(chars \cup new, order2, o)
           /\ Deletes(ops \cup {op}, chars \cup new, order2, gone2, o)
<1> DEFINE u == o.version
           chars2 == chars \cup new
<1>1. /\ SeenChars(chars2, u) = SeenChars(chars, u) /\ SeenChars(chars, u) \subseteq chars
      /\ \A c \in chars : Rank(chars2, order2, u, c) = Rank(chars, order, u, c)
  <2>1. ~Observed(u, t)
    OBVIOUS
  <2>2. QED
    BY <2>1, UnseenSame DEF SeenChars, LooksSame
<1>2. Ordered(chars, order) /\ Anchored(chars, order, o) /\ Deletes(ops, chars, order, gone, o)
      /\ gone \subseteq {e.timestamp : e \in EditsIn(ops)} \X chars
  BY DEF World
<1>3. Shielded(chars2, order2, u, CharsOf(o))
  <2>1. Shielded(chars, order, u, CharsOf(o))
    BY <1>2 DEF Anchored
  <2>2. QED
    BY <1>2, <2>1, OldShielded
<1>4. Anchored(chars2, order2, o)
  <2>1. /\ o.start \in Nat
        /\ o.start = 0 \/ \E x \in SeenChars(chars, u) : Rank(chars, order, u, x) = o.start
        /\ \A c \in CharsOf(o), x \in SeenChars(chars, u) :
              <<x, c>> \in order <=> Rank(chars, order, u, x) <= o.start
    BY <1>2 DEF Anchored
  <2>2. o.start = 0 \/ \E x \in SeenChars(chars2, u) : Rank(chars2, order2, u, x) = o.start
    BY <1>1, <2>1
  <2>3. \A c \in CharsOf(o), x \in SeenChars(chars2, u) :
           <<x, c>> \in order2 <=> Rank(chars2, order2, u, x) <= o.start
    BY <1>1, <2>1 DEF IsInserted
  <2>4. QED
    BY <1>3, <2>1, <2>2, <2>3 DEF Anchored
<1>5. \A c : VisibleIn(ops \cup {op}, gone2, u, c) <=> VisibleIn(ops, gone, u, c)
  <2>1. UndoMapIn(ops \cup {op}, u) = UndoMapIn(ops, u)
    BY UndoMapSame
  <2>2. \A c : Deletions(gone2, u, c) = Deletions(gone, u, c)
    <3>1. ~Observed(u, t)
      OBVIOUS
    <3>2. SameDeletions(gone, gone2, u)
      BY <3>1, PlacedSame
    <3>3. QED
      BY <3>2 DEF SameDeletions
  <2>3. QED
    BY <2>1, <2>2 DEF VisibleIn
<1>6. \A c : <<o.timestamp, c>> \in gone2 <=> <<o.timestamp, c>> \in gone
  OBVIOUS
<1>7. Deletes(ops \cup {op}, chars2, order2, gone2, o)
  <2>1. SUFFICES ASSUME NEW c \in chars2
                 PROVE  <<o.timestamp, c>> \in gone <=>
                           /\ c \in SeenChars(chars, u)
                           /\ Rank(chars2, order2, u, c) \in o.start + 1 .. o.end
                           /\ VisibleIn(ops, gone, u, c)
    BY <1>1, <1>5, <1>6 DEF Deletes
  <2>2. CASE c \in chars
    BY <1>1, <1>2, <2>2 DEF Deletes
  <2>3. CASE c \notin chars
    BY <1>1, <1>2, <2>3
  <2>4. QED
    BY <2>2, <2>3
<1>8. QED
  BY <1>4, <1>7

(* The characters of some fragments. *)
IsPart(part, chars, version, n, fragments, S) ==
    /\ part \subseteq SeenChars(chars, version)
    /\ \A i \in 1 .. n : Id(fragments[i]) \in part <=> i \in S

(* No edit knows a timestamp. *)
UnknownTo(ops, chars, t) ==
    \A o \in EditsIn(ops) :
        ~Observed(o.version, t) /\ o.timestamp # t /\ CharsOf(o) \subseteq chars

(* An edit's place is right behind the start of its range, and what its    *)
(* maker deletes is what it deletes.                                       *)
IsMade(op, n, fragments, order, gone) ==
    /\ \A i \in 1 .. n, c \in CharsOf(op) : <<Id(fragments[i]), c>> \in order <=> i <= op.start
    /\ \A i \in 1 .. n :
          i \in LocallyDeleted(fragments, op) <=> <<op.timestamp, Id(fragments[i])>> \in gone

(* An edit can be made in a version: it is new and the latest there, and   *)
(* the fragments are those of the version.                                 *)
CanMake(ops, chars, order, gone, op, t, v, n, fragments) ==
    /\ World(ops, chars, order, gone)
    /\ op.kind = "edit" /\ op.len \in Nat /\ op.timestamp = t /\ op.version = v
    /\ t \in Nat \X Nat /\ ~Observed(v, t) /\ UnknownTo(ops, chars, t)
    /\ \A c \in chars : c[1] \in Nat \X Nat /\ c[1] # t
    /\ \A x \in SeenChars(chars, v) : ~Before(t, x[1])
    /\ Shielded(chars, order, v, SeenChars(chars, v))
    /\ n \in Nat /\ DOMAIN fragments = 1 .. n /\ op.start \in 0 .. n
    /\ Placed(chars, order, gone, fragments, v)
    /\ \A i \in 1 .. n : fragments[i].visible <=> VisibleIn(ops, gone, v, Id(fragments[i]))

LEMMA WorldGrows ==
    ASSUME NEW ops, NEW chars, NEW order, NEW gone, NEW op, NEW t, NEW v, NEW n, NEW fragments,
           CanMake(ops, chars, order, gone, op, t, v, n, fragments),
           NEW low, IsPart(low, chars, v, n, fragments, 1 .. op.start),
           NEW left, left = LeftOf(chars, order, low, t),
           NEW new, new = CharsOf(op),
           NEW order2, order2 = Inserted(chars, order, left, new),
           NEW lost, IsPart(lost, chars, v, n, fragments, LocallyDeleted(fragments, op)),
           NEW gone2, gone2 = gone \cup ({t} \X lost)
    PROVE  /\ World(ops \cup {op}, chars \cup new, order2, gone2)
           /\ IsInserted(chars, order, left, new, order2)
           /\ IsMade(op, n, fragments, order2, gone2)
<1> USE DEF CanMake
<1> DEFINE F(i) == Id(fragments[i])
           chars2 == chars \cup new
           ops2 == ops \cup {op}
<1>1. Ordered(chars, order) /\ gone \subseteq {o.timestamp : o \in EditsIn(ops)} \X chars
  BY DEF World
<1>2. /\ {F(i) : i \in 1 .. n} = SeenChars(chars, v) /\ SeenChars(chars, v) \subseteq chars
      /\ \A i, j \in 1 .. n : <<F(i), F(j)>> \in order <=> i < j
      /\ \A i \in 1 .. n : F(i) \in chars
  BY DEF Placed, SeenChars
<1>3. /\ low \subseteq SeenChars(chars, v) /\ low \subseteq chars
      /\ lost \subseteq SeenChars(chars, v) /\ lost \subseteq chars
  BY <1>2 DEF IsPart
<1>4. \A i \in 1 .. n : /\ F(i) \in low <=> i <= op.start
                        /\ F(i) \in lost <=> i \in LocallyDeleted(fragments, op)
  BY DEF IsPart
<1>5. IsLeft(chars, order, low, left)
  BY <1>1, <1>3, LeftIs
<1>6. \A c \in new : c[1] = t
  BY DEF CharsOf
<1>7. Ordered(chars2, order2) /\ IsInserted(chars, order, left, new, order2)
  <2>1. op.len \in Nat /\ \A c \in chars : c[1] # t
    OBVIOUS
  <2>2. QED
    BY <1>1, <1>5, <1>6, <2>1, InsertedOrdered
<1> HIDE DEF F
<1>8. \A i \in 1 .. n : F(i) \in left <=> i <= op.start
  <2>1. SUFFICES ASSUME NEW i \in 1 .. n PROVE F(i) \in left <=> i <= op.start
    OBVIOUS
  <2>2. CASE i <= op.start
    <3>1. F(i) \in low
      BY <1>4, <2>2
    <3>2. QED
      BY <1>5, <2>2, <3>1 DEF IsLeft
  <2>3. CASE ~(i <= op.start)
    <3>1. \A l \in low : <<l, F(i)>> \in order
      <4>1. SUFFICES ASSUME NEW l \in low PROVE <<l, F(i)>> \in order
        OBVIOUS
      <4>2. PICK j \in 1 .. n : F(j) = l
        BY <1>2, <1>3
      <4>3. j <= op.start /\ j < i
        BY <1>4, <2>3, <4>2
      <4>4. QED
        BY <1>2, <4>2, <4>3
    <3>2. F(i) \in chars /\ ~Before(t, F(i)[1])
      BY <1>2
    <3>3. QED
      BY <2>3, <3>1, <3>2 DEF LeftOf
  <2>4. QED
    BY <2>2, <2>3
<1>9. \A i \in 1 .. n, c \in new : <<F(i), c>> \in order2 <=> i <= op.start
  BY <1>2, <1>7, <1>8 DEF IsInserted
<1>10. /\ SeenChars(chars2, v) = SeenChars(chars, v)
       /\ \A c \in chars : Rank(chars2, order2, v, c) = Rank(chars, order, v, c)
  <2>1. LooksSame(chars, order, chars2, order2, v)
    BY <1>6, <1>7, UnseenSame
  <2>2. QED
    BY <2>1 DEF LooksSame
<1>11. \A i \in 1 .. n : Rank(chars2, order2, v, F(i)) = i
  <2>1. \A i \in 1 .. n : Rank(chars, order, v, F(i)) = i
    BY RankIsPlace DEF F
  <2>2. QED
    BY <1>2, <1>10, <2>1
<1>12. Anchored(chars2, order2, op)
  <2>1. op.start \in Nat
    OBVIOUS
  <2>2. op.start = 0 \/ \E x \in SeenChars(chars2, v) : Rank(chars2, order2, v, x) = op.start
    <3>1. ASSUME op.start # 0 PROVE op.start \in 1 .. n /\ F(op.start) \in SeenChars(chars2, v)
      <4>1. op.start \in 1 .. n
        BY <3>1
      <4>2. QED
        BY <1>2, <1>10, <4>1
    <3>2. QED
      BY <1>11, <3>1
  <2>3. \A c \in new, x \in SeenChars(chars2, v) :
           <<x, c>> \in order2 <=> Rank(chars2, order2, v, x) <= op.start
    <3>1. SUFFICES ASSUME NEW c \in new, NEW x \in SeenChars(chars2, v)
                   PROVE  <<x, c>> \in order2 <=> Rank(chars2, order2, v, x) <= op.start
      OBVIOUS
    <3>2. PICK i \in 1 .. n : F(i) = x
      BY <1>2, <1>10
    <3>3. Rank(chars2, order2, v, x) = i
      BY <1>11, <3>2
    <3>4. QED
      BY <1>9, <3>2, <3>3
  <2>4. Shielded(chars2, order2, v, new)
    <3>1. ~Observed(v, t) /\ Shielded(chars, order, v, SeenChars(chars, v))
      OBVIOUS
    <3>2. QED
      BY <1>1, <1>3, <1>6, <1>7, <3>1, NewShielded
  <2>5. QED
    BY <2>1, <2>2, <2>3, <2>4 DEF Anchored
<1>13. \A c : <<t, c>> \in gone2 <=> c \in lost
  <2>1. \A c : <<t, c>> \notin gone
    BY <1>1 DEF UnknownTo
  <2>2. QED
    BY <2>1
<1>14. \A i \in 1 .. n : i \in LocallyDeleted(fragments, op) <=> <<t, F(i)>> \in gone2
  BY <1>4, <1>13
<1>15. \A c : VisibleIn(ops2, gone2, v, c) <=> VisibleIn(ops, gone, v, c)
  <2>1. UndoMapIn(ops2, v) = UndoMapIn(ops, v)
    BY UndoMapSame
  <2>2. \A c : Deletions(gone2, v, c) = Deletions(gone, v, c)
    <3>1. SameDeletions(gone, gone2, v)
      BY <1>6, <1>7, PlacedSame
    <3>2. QED
      BY <3>1 DEF SameDeletions
  <2>3. QED
    BY <2>1, <2>2 DEF VisibleIn
<1>16. Deletes(ops2, chars2, order2, gone2, op)
  <2>1. SUFFICES ASSUME NEW c \in chars2
                 PROVE  c \in lost <=>
                           /\ c \in SeenChars(chars2, v)
                           /\ Rank(chars2, order2, v, c) \in op.start + 1 .. op.end
                           /\ VisibleIn(ops2, gone2, v, c)
    BY <1>13 DEF Deletes
  <2>2. CASE c \in SeenChars(chars2, v)
    <3>1. PICK i \in 1 .. n : F(i) = c
      BY <1>2, <1>10, <2>2
    <3>2. i \in LocallyDeleted(fragments, op) <=>
             i \in op.start + 1 .. op.end /\ fragments[i].visible
      BY DEF LocallyDeleted
    <3>3. fragments[i].visible <=> VisibleIn(ops, gone, v, c)
      BY <3>1 DEF F
    <3>4. Rank(chars2, order2, v, c) = i
      BY <1>11, <3>1
    <3>5. QED
      BY <1>4, <1>15, <2>2, <3>1, <3>2, <3>3, <3>4
  <2>3. CASE c \notin SeenChars(chars2, v)
    BY <1>3, <1>10, <2>3
  <2>4. QED
    BY <2>2, <2>3
<1>17. ASSUME NEW o \in EditsIn(ops)
       PROVE  Anchored(chars2, order2, o) /\ Deletes(ops2, chars2, order2, gone2, o)
  <2>1. ~Observed(o.version, t) /\ o.timestamp # t /\ CharsOf(o) \subseteq chars
    BY DEF UnknownTo
  <2>2. QED
    BY <1>3, <1>6, <1>7, <2>1, OldStays
<1>18. EditsIn(ops2) = EditsIn(ops) \cup {op}
  BY DEF EditsIn
<1>19. gone2 \subseteq {o.timestamp : o \in EditsIn(ops2)} \X chars2
  <2>1. chars \subseteq chars2 /\ t \in {o.timestamp : o \in EditsIn(ops2)}
    BY <1>18
  <2>2. {o.timestamp : o \in EditsIn(ops)} \subseteq {o.timestamp : o \in EditsIn(ops2)}
    BY <1>18
  <2>3. {t} \X lost \subseteq {o.timestamp : o \in EditsIn(ops2)} \X chars2
    BY <1>3, <2>1
  <2>4. QED
    BY <1>1, <2>1, <2>2, <2>3
<1>20. World(ops2, chars2, order2, gone2)
  <2>1. \A o \in EditsIn(ops2) :
           Anchored(chars2, order2, o) /\ Deletes(ops2, chars2, order2, gone2, o)
    BY <1>12, <1>16, <1>17, <1>18
  <2>2. QED
    BY <1>7, <1>19, <2>1 DEF World
<1>21. QED
  BY <1>7, <1>9, <1>14, <1>20 DEF F, IsMade

(* Of what others made, the maker of an operation sees what it saw.        *)
LEMMA IssueSees ==
    ASSUME IInv, NEW r \in Replicas, NEW op, Issued(r, op), NEW b, b = buffer[r],
           NEW c, Advanced(b, op, c)
    PROVE  /\ \A o \in operations :
                 Observed(c.version, o.timestamp) <=> Observed(b.version, o.timestamp)
           /\ \A x \in AllChars : Observed(c.version, x[1]) <=> Observed(b.version, x[1])
           /\ Observed(c.version, op.timestamp)
<1>1. /\ c.version \in Versions /\ b.version \in Versions
      /\ c.version[r] = op.timestamp[1]
      /\ ObservedAll(c.version, b.version)
      /\ \A t \in Stamps : t[2] # r => (Observed(c.version, t) <=> Observed(b.version, t))
  BY IssueVersion DEF IInv, Sound
<1>2. \A t \in Stamps : Observed(b.version, t) => Observed(c.version, t)
  BY <1>1, SeenGrows DEF Seen
<1>3. ASSUME NEW o \in operations
      PROVE  Observed(c.version, o.timestamp) <=> Observed(b.version, o.timestamp)
  <2>1. o.timestamp \in Stamps /\ (o.timestamp[2] = r => Observed(b.version, o.timestamp))
    BY DEF IInv, OpsOK, OpShape, OwnObserved
  <2>2. QED
    BY <1>1, <1>2, <2>1
<1>4. ASSUME NEW x \in AllChars
      PROVE  Observed(c.version, x[1]) <=> Observed(b.version, x[1])
  <2>1. CASE x[1] = <<1, 0>> /\ scope.base_len > 0
    <3>1. b.version[0] >= 1
      BY <2>1, ReplicasAre DEF IInv, OpsOK, Sound, MadeOfStamps, Base
    <3>2. Observed(b.version, x[1])
      BY <2>1, <3>1 DEF Observed
    <3>3. x[1] \in Stamps
      BY CharsAre DEF IInv
    <3>4. QED
      BY <1>2, <3>2, <3>3
  <2>2. CASE \E o \in EditsIn(operations) : x \in CharsOf(o) /\ x[1] = o.timestamp
    BY <1>3, <2>2 DEF EditsIn
  <2>3. QED
    BY <2>1, <2>2, CharsAre DEF IInv
<1>5. Observed(c.version, op.timestamp)
  <2>1. op.timestamp[2] = r /\ op.timestamp[1] \in Nat
    BY DEF Issued
  <2>2. QED
    BY <1>1, <2>1 DEF Observed
<1>6. QED
  BY <1>3, <1>4, <1>5

(* An operation made now is later than all its maker has seen, and no      *)
(* other operation knows it.                                               *)
LEMMA IssueIsLast ==
    ASSUME IInv, NEW r \in Replicas, NEW op, Issued(r, op)
    PROVE  /\ op.timestamp \in Nat \X Nat
           /\ ~Observed(op.version, op.timestamp)
           /\ \A x \in AllChars : x[1] # op.timestamp /\ x[1] \in Nat \X Nat
           /\ \A x \in SeenChars(AllChars, op.version) : ~Before(op.timestamp, x[1])
           /\ \A o \in operations : /\ ~Observed(o.version, op.timestamp)
                                    /\ o.timestamp # op.timestamp
           /\ \A q \in Replicas : ~Observed(buffer[q].version, op.timestamp)
<1> DEFINE t == op.timestamp
           v == op.version
<1>1. /\ t \in Stamps /\ t[1] \in Nat /\ t[2] = r
      /\ v \in Versions /\ MadeOfStamps(v) /\ v = buffer[r].version
      /\ \A q \in Replicas : v[q] < t[1] /\ v[q] \in Nat
      /\ \A o \in operations : o.timestamp[2] = r => o.timestamp[1] < t[1]
      /\ \A u \in Versions : MadeOfStamps(u) => ~Observed(u, t)
  BY IssueIsNew DEF Issued, IInv, Sound, Versions
<1>2. Stamps \subseteq Nat \X Nat
  BY ReplicasAre DEF IInv, OpsOK, Stamps
<1>3. /\ \A o \in operations : o.version \in Versions /\ MadeOfStamps(o.version)
                               /\ o.timestamp \in Stamps
      /\ \A q \in Replicas : buffer[q].version \in Versions /\ MadeOfStamps(buffer[q].version)
  BY DEF IInv, OpsOK, OpShape, Sound
<1>4. \A o \in operations : ~Observed(o.version, t) /\ o.timestamp # t
  BY <1>1, <1>3
<1>5. ASSUME NEW x \in AllChars PROVE x[1] # t
  <2>1. CASE x[1] = <<1, 0>> /\ scope.base_len > 0
    <3>1. v[0] >= 1
      BY <1>1, <2>1, ReplicasAre DEF IInv, OpsOK, MadeOfStamps, Base
    <3>2. Observed(v, x[1])
      BY <2>1, <3>1 DEF Observed
    <3>3. QED
      BY <1>1, <3>2
  <2>2. CASE \E o \in EditsIn(operations) : x \in CharsOf(o) /\ x[1] = o.timestamp
    BY <1>4, <2>2 DEF EditsIn
  <2>3. QED
    BY <2>1, <2>2, CharsAre DEF IInv
<1>6. ASSUME NEW x \in SeenChars(AllChars, v) PROVE ~Before(t, x[1])
  <2>1. x[1] \in Stamps /\ Observed(v, x[1])
    BY CharsAre DEF IInv, SeenChars
  <2>2. x[1][1] \in Nat /\ x[1][2] \in Replicas /\ v[x[1][2]] >= x[1][1]
    BY <2>1 DEF Stamps, Observed
  <2>3. x[1][1] < t[1]
    BY <1>1, <2>2
  <2>4. QED
    BY <1>1, <2>2, <2>3 DEF Before
<1>7. \A x \in AllChars : x[1] \in Nat \X Nat
  BY CharsAre DEF IInv
<1>8. QED
  BY <1>1, <1>2, <1>3, <1>4, <1>5, <1>6, <1>7

(* The characters that a range of fragments holds. *)
LEMMA CharsOfRange ==
    ASSUME NEW chars, NEW order, NEW gone, NEW version, NEW n \in Nat, NEW fragments,
           DOMAIN fragments = 1 .. n, Placed(chars, order, gone, fragments, version),
           NEW S, S \subseteq 1 .. n
    PROVE  \E part : IsPart(part, chars, version, n, fragments, S)
<1> DEFINE F(i) == Id(fragments[i])
           T == {F(i) : i \in S}
<1>1. /\ {F(i) : i \in 1 .. n} = SeenChars(chars, version)
      /\ \A i, j \in 1 .. n : <<F(i), F(j)>> \in order <=> i < j
  BY DEF Placed
<1> HIDE DEF F
<1>2. \A i, j \in 1 .. n : F(i) = F(j) => i = j
  <2>1. SUFFICES ASSUME NEW i \in 1 .. n, NEW j \in 1 .. n, F(i) = F(j) PROVE i = j
    OBVIOUS
  <2>2. <<F(i), F(i)>> \notin order
    BY <1>1
  <2>3. QED
    BY <1>1, <2>1, <2>2
<1>3. T \subseteq SeenChars(chars, version)
  BY <1>1
<1>4. \A i \in 1 .. n : F(i) \in T <=> i \in S
  BY <1>2
<1> HIDE DEF T
<1>5. QED
  BY <1>3, <1>4 DEF F, IsPart

LEMMA IssueEditAgrees ==
    ASSUME IInv, Agreement, NEW r \in Replicas, NEW op, Issued(r, op), op.kind = "edit",
           operations' = operations \cup {op}, scope' = scope,
           NEW b, b = buffer[r], NEW c, Advanced(b, op, c),
           op.start \in 0 .. Len(b.fragments),
           c.fragments = ApplyLocalEdit(b.fragments, op),
           buffer' = [buffer EXCEPT ![r] = c]
    PROVE  Agreement'
<1>1. PICK order, gone : Agrees(order, gone)
  BY DEF Agreement
<1>2. PICK fragments, n, v, t, chars :
         /\ fragments = b.fragments /\ n = Len(fragments) /\ v = b.version
         /\ t = op.timestamp /\ chars = AllChars
  OBVIOUS
<1>3. /\ World(operations, chars, order, gone) /\ Ordered(chars, order)
      /\ gone \subseteq {o.timestamp : o \in EditsIn(operations)} \X chars
      /\ \A q \in Replicas : Placed(chars, order, gone, buffer[q].fragments, buffer[q].version)
      /\ Placed(chars, order, gone, fragments, v)
  BY <1>1, <1>2 DEF Agrees, World
<1>4. /\ OpsOK /\ Sound(b) /\ Shown(b) /\ v \in Versions /\ Closed(v)
      /\ fragments \in Seq(Cached(UndoMapOf(v))) /\ DOMAIN buffer = Replicas
      /\ v = op.version /\ op.len \in Nat
  BY <1>2 DEF IInv, Sound, Shown, Issued
<1>5. fragments \in Seq(Fragment) /\ n \in Nat /\ DOMAIN fragments = 1 .. n
  <2>1. Cached(UndoMapOf(v)) \subseteq Fragment
    BY DEF Cached
  <2>2. fragments \in Seq(Fragment)
    BY <1>4, <2>1, SeqMonotonic
  <2>3. QED
    BY <1>2, <2>2, LenProperties
<1>6. /\ t \in Nat \X Nat /\ ~Observed(v, t)
      /\ \A x \in chars : x[1] # t /\ x[1] \in Nat \X Nat
      /\ \A x \in SeenChars(chars, v) : ~Before(t, x[1])
      /\ \A o \in operations : ~Observed(o.version, t) /\ o.timestamp # t
      /\ \A q \in Replicas : ~Observed(buffer[q].version, t)
  BY <1>2, <1>4, IssueIsLast
<1>7. \A i \in 1 .. n : fragments[i].visible <=>
                           VisibleIn(operations, gone, v, Id(fragments[i]))
  <2>1. SUFFICES ASSUME NEW i \in 1 .. n
                 PROVE  fragments[i].visible <=>
                           VisibleIn(operations, gone, v, Id(fragments[i]))
    OBVIOUS
  <2>2. fragments[i].visible <=> IsVisible(fragments[i], UndoMapOf(v))
    BY <1>4, <1>5, ElementOfSeq DEF Cached
  <2>3. fragments[i].deletions = Deletions(gone, v, Id(fragments[i]))
        /\ Id(fragments[i])[1] = fragments[i].timestamp
    BY <1>3, <1>5 DEF Placed, Id
  <2>4. UndoMapOf(v) = UndoMapIn(operations, v)
    <3>1. {o \in OpsOf("undo") : Observed(v, o.timestamp)}
             = {o \in operations : o.kind = "undo" /\ Observed(v, o.timestamp)}
      BY DEF OpsOf
    <3>2. QED
      BY <3>1 DEF UndoMapOf, UndoMapIn
  <2>5. QED
    BY <2>2, <2>3, <2>4 DEF IsVisible, VisibleIn
<1>8. PICK low : IsPart(low, chars, v, n, fragments, 1 .. op.start)
  <2>1. 1 .. op.start \subseteq 1 .. n
    BY <1>2, <1>5
  <2>2. QED
    BY <1>3, <1>5, <2>1, CharsOfRange
<1>9. PICK lost : IsPart(lost, chars, v, n, fragments, LocallyDeleted(fragments, op))
  <2>1. LocallyDeleted(fragments, op) \subseteq 1 .. n
    BY <1>5 DEF LocallyDeleted
  <2>2. QED
    BY <1>3, <1>5, <2>1, CharsOfRange
<1>10. PICK left, new, order2, gone2, chars2 :
          /\ left = LeftOf(chars, order, low, t) /\ new = CharsOf(op)
          /\ order2 = Inserted(chars, order, left, new) /\ gone2 = gone \cup ({t} \X lost)
          /\ chars2 = chars \cup new
  OBVIOUS
<1>11. /\ World(operations \cup {op}, chars2, order2, gone2)
       /\ IsInserted(chars, order, left, new, order2)
       /\ IsMade(op, n, fragments, order2, gone2)
  <2>1. op.start \in 0 .. n
    BY <1>2
  <2>2. UnknownTo(operations, chars, t)
    BY <1>2, <1>4, <1>6, CharsAre DEF EditsIn, UnknownTo
  <2>3. Shielded(chars, order, v, SeenChars(chars, v))
    BY <1>2, <1>3, <1>4, SeenAreShielded
  <2>4. \A x \in chars : x[1] \in Nat \X Nat
    BY <1>6
  <2>5. \A x \in chars : x[1] # t
    BY <1>6
  <2>6. t = op.timestamp /\ op.kind = "edit" /\ v = op.version /\ op.len \in Nat
    BY <1>2, <1>4
  <2>7. t \in Nat \X Nat /\ ~Observed(v, t)
    BY <1>6
  <2>8. \A x \in SeenChars(chars, v) : ~Before(t, x[1])
    BY <1>6
  <2>9. World(operations, chars, order, gone) /\ Placed(chars, order, gone, fragments, v)
    BY <1>3
  <2>10. n \in Nat /\ DOMAIN fragments = 1 .. n
    BY <1>5
  <2>11. CanMake(operations, chars, order, gone, op, t, v, n, fragments)
    BY <1>7, <2>1, <2>2, <2>3, <2>4, <2>5, <2>6, <2>7, <2>8, <2>9, <2>10 DEF CanMake
  <2>12. QED
    BY <1>8, <1>9, <1>10, <2>11, WorldGrows
<1>12. AllChars' = chars2
  <2>1. OpsOf("edit")' = OpsOf("edit") \cup {op}
    BY DEF OpsOf
  <2>2. BaseChars' = BaseChars
    BY DEF BaseChars
  <2>3. UNION {CharsOf(o) : o \in OpsOf("edit") \cup {op}}
           = (UNION {CharsOf(o) : o \in OpsOf("edit")}) \cup CharsOf(op)
    <3>1. PICK S : S = OpsOf("edit")
      OBVIOUS
    <3>2. {CharsOf(o) : o \in S \cup {op}} = {CharsOf(o) : o \in S} \cup {CharsOf(op)}
      OBVIOUS
    <3>3. \A A : UNION (A \cup {CharsOf(op)}) = (UNION A) \cup CharsOf(op)
      OBVIOUS
    <3>4. QED
      BY <3>1, <3>2, <3>3
  <2>4. AllChars' = BaseChars \cup UNION {CharsOf(o) : o \in OpsOf("edit") \cup {op}}
    BY <2>1, <2>2 DEF AllChars, CharsOf
  <2>5. QED
    BY <1>2, <1>10, <2>3, <2>4 DEF AllChars
<1>13. \A x \in new : x[1] = t
  BY <1>2, <1>10 DEF CharsOf
<1>14. \A q \in Replicas :
          Placed(chars2, order2, gone2, buffer[q].fragments, buffer[q].version)
  <2>1. SUFFICES ASSUME NEW q \in Replicas, NEW fs, fs = buffer[q].fragments,
                        NEW u, u = buffer[q].version
                 PROVE  Placed(chars2, order2, gone2, fs, u)
    OBVIOUS
  <2>2. ~Observed(u, t) /\ Placed(chars, order, gone, fs, u)
    BY <1>3, <1>6, <2>1
  <2>3. QED
    BY <1>10, <1>11, <1>13, <2>2, PlacedSame
<1>15. Placed(chars2, order2, gone2, c.fragments, c.version)
  <2>1. PICK after : after = c.version
    OBVIOUS
  <2>2. /\ \A o \in operations : Observed(after, o.timestamp) <=> Observed(v, o.timestamp)
        /\ \A x \in chars : Observed(after, x[1]) <=> Observed(v, x[1])
        /\ Observed(after, t)
    BY <1>2, <2>1, IssueSees
  <2>3. SeenChars(chars2, after) = SeenChars(chars2, v) \cup new
    BY <1>6, <1>10, <1>13, <2>2 DEF SeenChars
  <2>4. new \cap SeenChars(chars2, v) = {} /\ new \subseteq chars2
    BY <1>6, <1>10, <1>13 DEF SeenChars
  <2>5. \A g \in gone2 : g[1] = t \/ (Observed(after, g[1]) <=> Observed(v, g[1]))
    <3>1. \A g \in gone : \E o \in operations : g[1] = o.timestamp
      BY <1>3 DEF EditsIn
    <3>2. \A g \in gone2 : g \in gone \/ g[1] = t
      BY <1>10
    <3>3. QED
      BY <2>2, <3>1, <3>2
  <2>6. \A x : Deletions(gone2, after, x) = IF <<t, x>> \in gone2
                                            THEN Deletions(gone2, v, x) \cup {t}
                                            ELSE Deletions(gone2, v, x)
    <3>1. SUFFICES ASSUME NEW x
                   PROVE  Deletions(gone2, after, x) = IF <<t, x>> \in gone2
                                                       THEN Deletions(gone2, v, x) \cup {t}
                                                       ELSE Deletions(gone2, v, x)
      OBVIOUS
    <3>2. \A d : d \in Deletions(gone2, after, x) <=> <<d, x>> \in gone2 /\ Observed(after, d)
      BY DEF Deletions
    <3>3. \A d : d \in Deletions(gone2, v, x) <=> <<d, x>> \in gone2 /\ Observed(v, d)
      BY DEF Deletions
    <3>4. \A d : <<d, x>> \in gone2 => d = t \/ (Observed(after, d) <=> Observed(v, d))
      BY <2>5
    <3>5. QED
      BY <2>2, <3>2, <3>3, <3>4
  <2>7. \A x \in new : Deletions(gone2, after, x) = {}
    <3>1. \A g \in gone2 : g[2] \in chars
      <4>1. lost \subseteq chars
        BY <1>9 DEF IsPart, SeenChars
      <4>2. QED
        BY <1>3, <1>10, <4>1
    <3>2. \A x \in new : x \notin chars
      BY <1>6, <1>13
    <3>3. QED
      BY <3>1, <3>2 DEF Deletions
  <2>8. PICK p, deleted : p = op.start /\ deleted = LocallyDeleted(fragments, op)
    OBVIOUS
  <2>9. PICK len \in Nat : len = op.len
    BY <1>4
  <2>10. c.fragments = Spliced(fragments, p, t, len, deleted)
    BY <1>2, <2>8, <2>9, LocalEditIs
  <2>11. Placed(chars2, order2, gone2, Spliced(fragments, p, t, len, deleted), after)
    <3>1. p \in 0 .. n /\ new = {<<t, k>> : k \in 0 .. len - 1}
      BY <1>2, <1>10, <2>8, <2>9 DEF CharsOf
    <3>2. Ordered(chars2, order2) /\ Placed(chars2, order2, gone2, fragments, v)
      BY <1>2, <1>11, <1>14 DEF World
    <3>3. \A i \in 1 .. n, x \in new : <<Id(fragments[i]), x>> \in order2 <=> i <= p
      BY <1>10, <1>11, <2>8 DEF IsMade
    <3>4. \A i \in 1 .. n : i \in deleted <=> <<t, Id(fragments[i])>> \in gone2
      BY <1>2, <1>11, <2>8 DEF IsMade
    <3>5. \A x \in SeenChars(chars2, v) :
             Deletions(gone2, after, x) = IF <<t, x>> \in gone2
                                          THEN Deletions(gone2, v, x) \cup {t}
                                          ELSE Deletions(gone2, v, x)
      BY <2>6
    <3>6. n = Len(fragments)
      BY <1>2
    <3>7. QED
      BY <1>5, <2>3, <2>4, <2>7, <3>1, <3>2, <3>3, <3>4, <3>5, <3>6, SplicePlaced
  <2>12. QED
    BY <2>1, <2>10, <2>11
<1>16. Agrees(order2, gone2)'
  <2>1. Replicas' = Replicas
    BY DEF Replicas
  <2>2. \A q \in Replicas :
           Placed(chars2, order2, gone2, buffer'[q].fragments, buffer'[q].version)
    BY <1>4, <1>14, <1>15
  <2>3. World(operations', chars2, order2, gone2)
    BY <1>11
  <2>4. \A q \in Replicas' :
           Placed(AllChars', order2, gone2, buffer'[q].fragments, buffer'[q].version)
    BY <1>12, <2>1, <2>2
  <2>5. World(operations', AllChars', order2, gone2)
    BY <1>12, <2>3
  <2>6. QED
    BY <2>4, <2>5 DEF Agrees
<1>17. QED
  BY <1>16 DEF Agreement

LEMMA IssueUndoAgrees ==
    ASSUME IInv, Agreement, NEW r \in Replicas, NEW op, Issued(r, op), op.kind = "undo",
           operations' = operations \cup {op}, scope' = scope,
           NEW b, b = buffer[r], NEW c, Advanced(b, op, c),
           c.fragments = ApplyUndo(b, op).fragments,
           buffer' = [buffer EXCEPT ![r] = c]
    PROVE  Agreement'
<1>1. PICK order, gone : Agrees(order, gone)
  BY DEF Agreement
<1>2. PICK chars, v, after : chars = AllChars /\ v = b.version /\ after = c.version
  OBVIOUS
<1>3. /\ World(operations, chars, order, gone) /\ Ordered(chars, order)
      /\ gone \subseteq {o.timestamp : o \in EditsIn(operations)} \X chars
      /\ \A q \in Replicas : Placed(chars, order, gone, buffer[q].fragments, buffer[q].version)
  BY <1>1, <1>2 DEF Agrees, World
<1>4. /\ OpsOK /\ Sound(b) /\ Shown(b) /\ DOMAIN b = Fields /\ DOMAIN buffer = Replicas
      /\ b.fragments \in Seq(Fragment)
  <2>1. OpsOK /\ Sound(b) /\ Shown(b) /\ DOMAIN buffer = Replicas
    BY DEF IInv
  <2>2. Cached(b.undo_map) \subseteq Fragment
    BY DEF Cached
  <2>3. b.fragments \in Seq(Fragment)
    BY <2>1, <2>2, SeqMonotonic DEF Shown
  <2>4. QED
    BY <2>1, <2>3 DEF Sound
<1>5. AllChars' = chars /\ EditsIn(operations') = EditsIn(operations)
  <2>1. OpsOf("edit")' = OpsOf("edit") /\ BaseChars' = BaseChars
    BY DEF OpsOf, BaseChars
  <2>2. EditsIn(operations') = EditsIn(operations)
    BY DEF EditsIn
  <2>3. AllChars' = AllChars
    BY <2>1 DEF AllChars, CharsOf
  <2>4. QED
    BY <1>2, <2>2, <2>3
<1>6. World(operations', chars, order, gone)
  <2>1. ASSUME NEW o \in EditsIn(operations)
        PROVE  Deletes(operations \cup {op}, chars, order, gone, o)
    <3>1. ~Observed(o.version, op.timestamp)
      BY IssueIsLast DEF EditsIn
    <3>2. UndoMapIn(operations \cup {op}, o.version) = UndoMapIn(operations, o.version)
      BY <3>1, UndoMapSame
    <3>3. Deletes(operations, chars, order, gone, o)
      BY <1>3 DEF World
    <3>4. QED
      BY <3>2, <3>3 DEF Deletes, VisibleIn
  <2>2. QED
    BY <1>3, <1>5, <2>1 DEF World
<1>7. Placed(chars, order, gone, c.fragments, after)
  <2>1. /\ \A o \in operations : Observed(after, o.timestamp) <=> Observed(v, o.timestamp)
        /\ \A x \in chars : Observed(after, x[1]) <=> Observed(v, x[1])
    BY <1>2, IssueSees
  <2>2. SeenChars(chars, after) = SeenChars(chars, v)
    BY <2>1 DEF SeenChars
  <2>3. \A g \in gone : Observed(after, g[1]) <=> Observed(v, g[1])
    <3>1. \A g \in gone : \E o \in operations : g[1] = o.timestamp
      BY <1>3 DEF EditsIn
    <3>2. QED
      BY <2>1, <3>1
  <2>4. \A x : Deletions(gone, after, x) = Deletions(gone, v, x)
    BY <2>3 DEF Deletions
  <2>5. Placed(chars, order, gone, b.fragments, v)
    BY <1>2, <1>3
  <2>6. QED
    BY <1>4, <2>2, <2>4, <2>5, UndoPlaced
<1>8. Agrees(order, gone)'
  <2>1. Replicas' = Replicas
    BY DEF Replicas
  <2>2. \A q \in Replicas :
           Placed(chars, order, gone, buffer'[q].fragments, buffer'[q].version)
    BY <1>2, <1>3, <1>4, <1>7
  <2>3. QED
    BY <1>5, <1>6, <2>1, <2>2 DEF Agrees
<1>9. QED
  BY <1>8 DEF Agreement

(* The other steps. *)
LEMMA KeptAgrees ==
    ASSUME IInv, Agreement, UNCHANGED <<scope, operations>>, NEW r \in Replicas,
           NEW c, Kept(buffer[r], c),
           buffer'[r] = c, \A q \in Replicas \ {r} : buffer'[q] = buffer[q]
    PROVE  Agreement'
<1>1. PICK order, gone : Agrees(order, gone)
  BY DEF Agreement
<1>2. Replicas' = Replicas /\ AllChars' = AllChars
  BY DEF Replicas, AllChars, BaseChars, OpsOf, CharsOf
<1>3. World(operations, AllChars, order, gone)
      /\ \A q \in Replicas :
            Placed(AllChars, order, gone, buffer[q].fragments, buffer[q].version)
  BY <1>1 DEF Agrees
<1>4. \A q \in Replicas :
         Placed(AllChars, order, gone, buffer'[q].fragments, buffer'[q].version)
  BY <1>3 DEF Kept
<1>5. Agrees(order, gone)'
  BY <1>2, <1>3, <1>4 DEF Agrees
<1>6. QED
  BY <1>5 DEF Agreement

-----------------------------------------------------------------------------
(* A replica that makes an operation.                                      *)

LEMMA IssueKeepsInv ==
    ASSUME IInv, NEW r \in Replicas, NEW op, Issued(r, op),
           operations' = operations \cup {op}, scope' = scope,
           NEW b, b = buffer[r], NEW c, Advanced(b, op, c),
           c.undo_map = IF op.kind = "undo" THEN InsertUndo(b.undo_map, op) ELSE b.undo_map,
           c.fragments \in Seq(Cached(c.undo_map)),
           op.kind = "edit" => /\ op.start \in 0 .. Len(b.fragments)
                               /\ c.fragments = ApplyLocalEdit(b.fragments, op),
           op.kind = "undo" => c.fragments = ApplyUndo(b, op).fragments,
           buffer' = [buffer EXCEPT ![r] = c],
           NEW undos \in Seq(SUBSET Seen(c.version)), NEW redos \in Seq(SUBSET Seen(c.version)),
           undo_stack' = [undo_stack EXCEPT ![r] = undos],
           redo_stack' = [redo_stack EXCEPT ![r] = redos]
    PROVE  IInv'
<1>1. /\ Replicas' = Replicas /\ Versions' = Versions /\ Stamps' = Stamps /\ OpsOK'
  BY IssueOps
<1>2. /\ DOMAIN buffer = Replicas /\ DOMAIN undo_stack = Replicas
      /\ DOMAIN redo_stack = Replicas
      /\ \A q \in Replicas : Sound(buffer[q]) /\ Blocked(buffer[q]) /\ Shown(buffer[q])
  BY DEF IInv
<1>3. /\ DOMAIN buffer' = Replicas' /\ DOMAIN undo_stack' = Replicas'
      /\ DOMAIN redo_stack' = Replicas' /\ buffer'[r] = c
      /\ undo_stack'[r] = undos /\ redo_stack'[r] = redos
      /\ \A q \in Replicas \ {r} : /\ buffer'[q] = buffer[q]
                                   /\ undo_stack'[q] = undo_stack[q]
                                   /\ redo_stack'[q] = redo_stack[q]
  BY <1>1, <1>2
<1>4. Sound(c)' /\ Blocked(c)' /\ Shown(c)'
  <2>1. b.undo_map = UndoMapOf(b.version)
    BY <1>2 DEF Shown
  <2>2. UndoMapOf(c.version)' = c.undo_map
    BY <2>1, IssueHere
  <2>3. Shown(c)'
    BY <1>1, <2>2 DEF Shown, Cached, Fragment
  <2>4. QED
    BY <2>3, IssueHere
<1>5. \A q \in Replicas' : (Sound(buffer[q]) /\ Blocked(buffer[q]) /\ Shown(buffer[q]))'
  <2>1. SUFFICES ASSUME NEW q \in Replicas, NEW d, d = buffer'[q]
                 PROVE  Sound(d)' /\ Blocked(d)' /\ Shown(d)'
    BY <1>1
  <2>2. CASE q = r
    BY <1>3, <1>4, <2>1, <2>2
  <2>3. CASE q # r
    <3>1. d = buffer[q]
      BY <1>3, <2>1, <2>3
    <3>2. Sound(d) /\ Blocked(d) /\ Shown(d)
      BY <1>2, <3>1
    <3>3. QED
      BY <3>2, IssueElsewhere
  <2>4. QED
    BY <2>2, <2>3
<1>6. c.version \in Versions /\ b.version \in Versions /\ ObservedAll(c.version, b.version)
      /\ c.version[r] = op.timestamp[1]
  BY <1>2, IssueVersion DEF Sound
<1>7. OwnObserved'
  <2>1. SUFFICES ASSUME NEW o \in operations'
                 PROVE  Observed(buffer'[o.timestamp[2]].version, o.timestamp)
    BY DEF OwnObserved, Observed
  <2>2. CASE o = op
    BY <1>3, <1>6, <2>2 DEF Issued, Observed
  <2>3. CASE o \in operations
    <3>1. Observed(buffer[o.timestamp[2]].version, o.timestamp) /\ o.timestamp \in Stamps
          /\ o.timestamp[2] \in Replicas
      BY <2>3 DEF IInv, OwnObserved, OpsOK, OpShape, Stamps
    <3>2. CASE o.timestamp[2] = r
      BY <1>3, <1>6, <3>1, <3>2, SeenGrows DEF Seen
    <3>3. CASE o.timestamp[2] # r
      BY <1>3, <3>1, <3>3
    <3>4. QED
      BY <3>2, <3>3
  <2>4. QED
    BY <2>2, <2>3
<1>8. StacksObserved'
  <2>1. \A v : Seen(v)' = Seen(v)
    BY <1>1 DEF Seen, Observed
  <2>2. ASSUME NEW q \in Replicas
        PROVE  /\ undo_stack'[q] \in Seq(SUBSET Seen(buffer'[q].version))
               /\ redo_stack'[q] \in Seq(SUBSET Seen(buffer'[q].version))
    <3>1. CASE q = r
      <4>1. buffer'[q] = c /\ undo_stack'[q] = undos /\ redo_stack'[q] = redos
        BY <1>3, <3>1
      <4>2. QED
        BY <4>1
    <3>2. CASE q # r
      <4>1. /\ buffer'[q] = buffer[q] /\ undo_stack'[q] = undo_stack[q]
            /\ redo_stack'[q] = redo_stack[q]
        BY <1>3, <3>2
      <4>2. /\ undo_stack[q] \in Seq(SUBSET Seen(buffer[q].version))
            /\ redo_stack[q] \in Seq(SUBSET Seen(buffer[q].version))
        BY DEF IInv, StacksObserved
      <4>3. QED
        BY <4>1, <4>2
    <3>3. QED
      BY <3>1, <3>2
  <2>3. QED
    BY <1>1, <2>1, <2>2 DEF StacksObserved
<1>9. Agreement'
  <2>1. Agreement
    BY DEF IInv
  <2>2. CASE op.kind = "edit"
    BY <2>1, <2>2, IssueEditAgrees
  <2>3. CASE op.kind = "undo"
    BY <2>1, <2>3, IssueUndoAgrees
  <2>4. QED
    BY <2>2, <2>3 DEF Issued
<1>10. QED
  BY <1>1, <1>3, <1>5, <1>7, <1>8, <1>9 DEF IInv

LEMMA EditKeepsInv ==
    ASSUME IInv, scope' = scope, NEW r \in Replicas, NEW end \in 0 .. VisibleLen(buffer[r].fragments),
           NEW start \in 0 .. end, NEW len \in 0 .. scope.insert, Edit(r, start, end, len)
    PROVE  IInv'
<1>1. PICK b : b = buffer[r]
  OBVIOUS
<1>2. /\ Sound(b) /\ Shown(b) /\ OpsOK /\ DOMAIN b = Fields
      /\ b.lamport_clock \in Nat /\ b.version \in Versions /\ Closed(b.version)
      /\ b.fragments \in Seq(Cached(b.undo_map)) /\ b.undo_map = UndoMapOf(b.version)
      /\ MadeOfStamps(b.version)
  BY <1>1 DEF IInv, Sound, Shown
<1>3. PICK range : range = FullRange(b.fragments, start, end)
  OBVIOUS
<1>4. PICK op : op = [kind |-> "edit", timestamp |-> <<b.lamport_clock + 1, r>>,
                      version |-> b.version, start |-> range.start, end |-> range.end,
                      len |-> len]
  OBVIOUS
<1>5. PICK c : c = [b EXCEPT !.fragments = ApplyLocalEdit(@, op),
                             !.version = Observe(@, op.timestamp),
                             !.lamport_clock = @ + 2]
  OBVIOUS
<1>6. /\ buffer' = [buffer EXCEPT ![r] = c]
      /\ EndTransaction(r, Append(undo_stack[r], {op.timestamp}))
      /\ operations' = operations \cup {op}
  BY <1>1, <1>3, <1>4, <1>5 DEF Edit
<1>7. len \in Nat
  BY <1>2 DEF OpsOK, Scope
<1>8. Issued(r, op)
  BY <1>1, <1>2, <1>4, <1>7 DEF Issued
<1>9. /\ DOMAIN c = Fields /\ c.version = Observe(b.version, op.timestamp)
      /\ c.lamport_clock = b.lamport_clock + 2
      /\ \A field \in {"deferred_ops", "deferred_replicas", "edit_id_resolvers",
                       "wait_for_version_txs", "undo_map"} : c[field] = b[field]
      /\ c.fragments = ApplyLocalEdit(b.fragments, op)
  BY <1>2, <1>5 DEF Fields
<1>10. Advanced(b, op, c)
  BY <1>2, <1>4, <1>9 DEF Advanced
<1>11. op.start \in 0 .. Len(b.fragments)
  <2>1. Len(b.fragments) \in Nat
    BY <1>2
  <2>2. /\ start \in Nat /\ end \in Nat /\ VisibleLen(b.fragments) \in Nat
        /\ end <= VisibleLen(b.fragments)
    <3>1. IsFiniteSet({j \in 1 .. Len(b.fragments) : b.fragments[j].visible})
      <4>1. IsFiniteSet(1 .. Len(b.fragments))
        BY <2>1, FS_Interval
      <4>2. {j \in 1 .. Len(b.fragments) : b.fragments[j].visible} \subseteq 1 .. Len(b.fragments)
        OBVIOUS
      <4>3. QED
        BY <4>1, <4>2, FS_Subset
    <3>2. VisibleLen(b.fragments) \in Nat
      BY <3>1, FS_CardinalityType DEF VisibleLen, VisibleUpTo, CountUpTo
    <3>3. QED
      BY <1>1, <3>2
  <2>3. start \in 0 .. VisibleLen(b.fragments)
    BY <2>2
  <2>4. QED
    BY <1>3, <1>4, <2>1, <2>3, FullRangeIn
<1>12. c.fragments \in Seq(Cached(c.undo_map))
  <2>1. op.timestamp \in Stamps /\ ~Observed(b.version, op.timestamp)
    BY <1>2, <1>8, IssueIsNew
  <2>2. ~IsUndone(b.undo_map, op.timestamp)
    BY <1>2, <2>1, UndoneObserved, NewNotUndone
  <2>3. op.len \in Nat
    BY <1>4, <1>7
  <2>4. QED
    BY <1>2, <1>9, <1>11, <2>1, <2>2, <2>3, LocalEditCached
<1>13. PICK n \in 0 .. Min({scope.group, Len(Append(undo_stack[r], {op.timestamp})) - 1}) :
          undo_stack' = [undo_stack EXCEPT ![r] =
                            GroupTrailing(Append(undo_stack[r], {op.timestamp}), n)]
  BY <1>6 DEF EndTransaction
<1>14. Append(undo_stack[r], {op.timestamp}) \in Seq(SUBSET Seen(c.version))
  <2>1. op.timestamp \in Seen(c.version) /\ Seen(b.version) \subseteq Seen(c.version)
    <3>1. c.version \in Versions /\ c.version[r] = op.timestamp[1]
          /\ ObservedAll(c.version, b.version) /\ op.timestamp \in Stamps
      BY <1>1, <1>8, <1>10, IssueVersion, IssueIsNew
    <3>2. op.timestamp[2] = r /\ op.timestamp[1] \in Nat
      BY <1>2, <1>4
    <3>3. op.timestamp \in Seen(c.version)
      BY <3>1, <3>2 DEF Seen, Observed
    <3>4. QED
      BY <1>2, <3>1, <3>3, SeenGrows
  <2>2. undo_stack[r] \in Seq(SUBSET Seen(b.version))
    BY <1>1 DEF IInv, StacksObserved
  <2>3. undo_stack[r] \in Seq(SUBSET Seen(c.version))
    BY <2>1, <2>2, LargerSeq
  <2>4. QED
    BY <2>1, <2>3
<1>15. PICK stack : stack = Append(undo_stack[r], {op.timestamp})
  OBVIOUS
<1>16. n \in Nat /\ n <= Len(stack) - 1
  <2>1. Len(stack) \in Nat \ {0} /\ scope.group \in Nat
    BY <1>2, <1>14, <1>15 DEF OpsOK, Scope, IInv, StacksObserved
  <2>2. Min({scope.group, Len(stack) - 1}) \in {scope.group, Len(stack) - 1}
        /\ Min({scope.group, Len(stack) - 1}) <= Len(stack) - 1
    <3>1. {scope.group, Len(stack) - 1} \subseteq 0 .. scope.group + Len(stack)
      BY <2>1
    <3>2. scope.group + Len(stack) \in Nat /\ {scope.group, Len(stack) - 1} # {}
      BY <2>1
    <3>3. QED
      BY <3>1, <3>2, HighestAndLowest
  <2>3. QED
    BY <1>15, <2>1, <2>2
<1>17. GroupTrailing(stack, n) \in Seq(SUBSET Seen(c.version))
  BY <1>14, <1>15, <1>16, GroupedIn
<1>18. PICK undos \in Seq(SUBSET Seen(c.version)) :
          undo_stack' = [undo_stack EXCEPT ![r] = undos]
  BY <1>13, <1>15, <1>17
<1>19. PICK redos \in Seq(SUBSET Seen(c.version)) :
          redo_stack' = [redo_stack EXCEPT ![r] = redos]
  <2>1. << >> \in Seq(SUBSET Seen(c.version))
    OBVIOUS
  <2>2. QED
    BY <1>6, <2>1 DEF EndTransaction
<1>20. op.kind = "edit" /\ c.undo_map = b.undo_map
  BY <1>4, <1>9
<1>21. /\ buffer' = [buffer EXCEPT ![r] = c] /\ operations' = operations \cup {op}
       /\ c.fragments = ApplyLocalEdit(b.fragments, op)
  BY <1>6, <1>9
<1>22. QED
  BY <1>1, <1>8, <1>10, <1>11, <1>12, <1>18, <1>19, <1>20, <1>21, IssueKeepsInv

(* The undo or redo of a transaction on a stack. *)
LEMMA UndoOrRedoKeepsInv ==
    ASSUME IInv, scope' = scope, NEW r \in Replicas, NEW transaction,
           transaction \subseteq Seen(buffer[r].version), UndoOrRedo(r, transaction),
           NEW undos, NEW redos,
           undos \in Seq(SUBSET Seen(buffer[r].version)),
           redos \in Seq(SUBSET Seen(buffer[r].version)),
           undo_stack' = [undo_stack EXCEPT ![r] = undos],
           redo_stack' = [redo_stack EXCEPT ![r] = redos]
    PROVE  IInv'
<1>1. PICK b : b = buffer[r]
  OBVIOUS
<1>2. /\ Sound(b) /\ Shown(b) /\ DOMAIN b = Fields
      /\ b.lamport_clock \in Nat /\ b.version \in Versions
      /\ b.fragments \in Seq(Cached(b.undo_map))
  BY <1>1 DEF IInv, Sound, Shown
<1>3. PICK op : op = [kind |-> "undo", timestamp |-> <<b.lamport_clock, r>>,
                      version |-> b.version,
                      counts |-> [e \in transaction |-> UndoCount(b.undo_map, e) + 1]]
  OBVIOUS
<1>4. PICK u : u = ApplyUndo(b, op)
  OBVIOUS
<1>5. PICK c : c = [u EXCEPT !.version = Observe(@, op.timestamp), !.lamport_clock = @ + 1]
  OBVIOUS
<1>6. /\ buffer' = [buffer EXCEPT ![r] = c]
      /\ operations' = operations \cup {op}
  BY <1>1, <1>3, <1>4, <1>5 DEF UndoOrRedo
<1>7. Issued(r, op)
  <2>1. \A e \in transaction : e \in Stamps /\ Observed(b.version, e)
    BY <1>1 DEF Seen
  <2>2. QED
    BY <1>1, <1>2, <1>3, <2>1 DEF Issued
<1>8. /\ DOMAIN u = Fields /\ u.version = b.version
      /\ u.lamport_clock = b.lamport_clock
      /\ \A field \in {"deferred_ops", "deferred_replicas", "edit_id_resolvers",
                       "wait_for_version_txs"} : u[field] = b[field]
      /\ u.undo_map = InsertUndo(b.undo_map, op)
  BY <1>2, <1>4 DEF ApplyUndo, Fields
<1>9. u.fragments \in Seq(Cached(u.undo_map))
  BY <1>2, <1>4, <1>8, UndoCached
<1>10. /\ DOMAIN c = Fields /\ c.version = Observe(b.version, op.timestamp)
       /\ c.lamport_clock = b.lamport_clock + 1
       /\ \A field \in {"deferred_ops", "deferred_replicas", "edit_id_resolvers",
                        "wait_for_version_txs"} : c[field] = b[field]
       /\ c.undo_map = u.undo_map /\ c.fragments = u.fragments
  BY <1>5, <1>8 DEF Fields
<1>11. Advanced(b, op, c)
  BY <1>2, <1>3, <1>10 DEF Advanced
<1>12. Seen(b.version) \subseteq Seen(c.version)
  BY <1>1, <1>2, <1>7, <1>11, IssueVersion, SeenGrows
<1>13. undos \in Seq(SUBSET Seen(c.version)) /\ redos \in Seq(SUBSET Seen(c.version))
  BY <1>1, <1>12, LargerSeq
<1>14. c.undo_map = InsertUndo(b.undo_map, op) /\ op.kind = "undo"
  BY <1>3, <1>8, <1>10
<1>15. c.fragments \in Seq(Cached(c.undo_map))
  BY <1>9, <1>10
<1>16. c.fragments = ApplyUndo(b, op).fragments
  BY <1>4, <1>10
<1>17. QED
  BY <1>1, <1>6, <1>7, <1>11, <1>13, <1>14, <1>15, <1>16, IssueKeepsInv

LEMMA UndoKeepsInv ==
    ASSUME IInv, scope' = scope, NEW r \in Replicas, NEW i \in DOMAIN undo_stack[r], Undo(r, i)
    PROVE  IInv'
<1> DEFINE S == SUBSET Seen(buffer[r].version)
<1>1. undo_stack[r] \in Seq(S) /\ redo_stack[r] \in Seq(S)
  BY DEF IInv, StacksObserved
<1>2. UndoOrRedo(r, undo_stack[r][i]) /\ undo_stack[r][i] \in S
  BY <1>1 DEF Undo
<1>3. PICK undos : undos = RemoveAt(undo_stack[r], i)
  OBVIOUS
<1>4. PICK redos : redos = Append(redo_stack[r], undo_stack[r][i])
  OBVIOUS
<1>5. undo_stack' = [undo_stack EXCEPT ![r] = undos] /\ redo_stack' = [redo_stack EXCEPT ![r] = redos]
  BY <1>3, <1>4 DEF Undo, RemoveFromUndo
<1>6. undos \in Seq(S)
  <2> HIDE DEF S
  <2>1. QED
    BY <1>1, <1>3, RemovedIn
<1>7. redos \in Seq(S)
  BY <1>1, <1>2, <1>4
<1>8. PICK t : t = undo_stack[r][i]
  OBVIOUS
<1>9. t \subseteq Seen(buffer[r].version) /\ UndoOrRedo(r, t)
  BY <1>2, <1>8
<1>10. QED
  BY <1>5, <1>6, <1>7, <1>9, UndoOrRedoKeepsInv

LEMMA RedoKeepsInv ==
    ASSUME IInv, scope' = scope, NEW r \in Replicas, Redo(r)
    PROVE  IInv'
<1> DEFINE S == SUBSET Seen(buffer[r].version)
<1>1. undo_stack[r] \in Seq(S) /\ redo_stack[r] \in Seq(S) /\ redo_stack[r] # << >>
  BY DEF IInv, StacksObserved, Redo
<1>2. Last(redo_stack[r]) \in S
  BY <1>1 DEF Last
<1>3. PICK undos : undos = Append(undo_stack[r], Last(redo_stack[r]))
  OBVIOUS
<1>4. PICK redos : redos = Front(redo_stack[r])
  OBVIOUS
<1>5. undo_stack' = [undo_stack EXCEPT ![r] = undos] /\ redo_stack' = [redo_stack EXCEPT ![r] = redos]
  BY <1>3, <1>4 DEF Redo, PopRedo
<1>6. undos \in Seq(S)
  BY <1>1, <1>2, <1>3
<1>7. redos \in Seq(S)
  <2>1. \A k \in 1 .. Len(redo_stack[r]) : redo_stack[r][k] \in S
    BY <1>1
  <2>2. Len(redo_stack[r]) \in Nat
    BY <1>1
  <2> HIDE DEF S
  <2>3. QED
    BY <1>1, <1>4, <2>1, <2>2 DEF Front
<1>8. PICK t : t = Last(redo_stack[r])
  OBVIOUS
<1>9. t \subseteq Seen(buffer[r].version) /\ UndoOrRedo(r, t)
  BY <1>2, <1>8 DEF Redo
<1>10. QED
  BY <1>5, <1>6, <1>7, <1>9, UndoOrRedoKeepsInv

-----------------------------------------------------------------------------
(* The actions that make no operation.                                     *)

LEMMA BufferKeepsInv ==
    ASSUME IInv, UNCHANGED <<scope, operations, redo_stack>>, NEW r \in Replicas,
           NEW c, Sound(c), Blocked(c), Shown(c), ObservedAll(c.version, buffer[r].version),
           Kept(buffer[r], c),
           DOMAIN buffer' = Replicas, buffer'[r] = c,
           \A q \in Replicas \ {r} : buffer'[q] = buffer[q],
           DOMAIN undo_stack' = Replicas,
           \A q \in Replicas : undo_stack'[q] \in Seq(SUBSET Seen(buffer[q].version))
    PROVE  IInv'
<1>1. /\ Replicas' = Replicas /\ \A q : Base(q)' = Base(q)
      /\ \A kind : OpsOf(kind)' = OpsOf(kind)
  BY DEF Replicas, Base, OpsOf
<1>2. Versions' = Versions /\ Stamps' = Stamps
      /\ \A v : MadeOfStamps(v)' = MadeOfStamps(v) /\ Closed(v)' = Closed(v)
      /\ \A undo_map : Cached(undo_map)' = Cached(undo_map)
  BY <1>1 DEF Versions, Stamps, MadeOfStamps, Closed, Observed, ObservedAll, Cached, Fragment
<1>3. \A v : UndoMapOf(v)' = UndoMapOf(v) /\ Seen(v)' = Seen(v)
  BY <1>1, <1>2 DEF UndoMapOf, InsertUndo, Observed, Seen
<1>4. OpsOK'
  <2>1. \A op \in operations : OpShape(op)'
    BY <1>1, <1>2 DEF IInv, OpsOK, OpShape, Observed
  <2>2. QED
    BY <2>1 DEF IInv, OpsOK, OpsOrdered
<1>5. ASSUME NEW d, Sound(d), Blocked(d), Shown(d) PROVE Sound(d)' /\ Blocked(d)' /\ Shown(d)'
  <2>1. WaitsForMore(d)'
    BY <1>1, <1>2, <1>5 DEF Sound, WaitsForMore, Observed, ObservedAll
  <2>2. Sound(d)'
    BY <1>1, <1>2, <1>5, <2>1 DEF Sound
  <2>3. Blocked(d)'
    BY <1>1, <1>5 DEF Blocked, ObservedAll
  <2>4. Shown(d)'
    BY <1>2, <1>3, <1>5 DEF Shown
  <2>5. QED
    BY <2>2, <2>3, <2>4
<1>6. /\ DOMAIN buffer' = Replicas /\ buffer'[r] = c
      /\ \A q \in Replicas \ {r} : buffer'[q] = buffer[q]
  BY DEF IInv
<1>7. \A q \in Replicas' : (Sound(buffer[q]) /\ Blocked(buffer[q]) /\ Shown(buffer[q]))'
  <2>1. SUFFICES ASSUME NEW q \in Replicas, NEW d, d = buffer'[q]
                 PROVE  Sound(d)' /\ Blocked(d)' /\ Shown(d)'
    BY <1>1
  <2>2. Sound(d) /\ Blocked(d) /\ Shown(d)
    BY <1>6, <2>1 DEF IInv
  <2>3. QED
    BY <1>5, <2>2
<1>8. \A q \in Replicas : Seen(buffer[q].version) \subseteq Seen(buffer'[q].version)
  <2>1. c.version \in Versions /\ buffer[r].version \in Versions
    BY DEF IInv, Sound
  <2>2. Seen(buffer[r].version) \subseteq Seen(c.version)
    BY <2>1, SeenGrows
  <2>3. QED
    BY <1>6, <2>2
<1>9. OwnObserved'
  <2>1. ASSUME NEW op \in operations
        PROVE  Observed(buffer'[op.timestamp[2]].version, op.timestamp)
    <3>1. op.timestamp[2] \in Replicas /\ op.timestamp \in Seen(buffer[op.timestamp[2]].version)
      BY DEF IInv, OpsOK, OpShape, OwnObserved, Seen, Stamps
    <3>2. QED
      BY <1>8, <3>1 DEF Seen
  <2>2. QED
    BY <2>1 DEF OwnObserved, Observed
<1>10. StacksObserved'
  <2>1. ASSUME NEW q \in Replicas
        PROVE  /\ undo_stack'[q] \in Seq(SUBSET Seen(buffer'[q].version))
               /\ redo_stack'[q] \in Seq(SUBSET Seen(buffer'[q].version))
    <3>1. /\ undo_stack'[q] \in Seq(SUBSET Seen(buffer[q].version))
          /\ redo_stack'[q] \in Seq(SUBSET Seen(buffer[q].version))
      BY DEF IInv, StacksObserved
    <3>2. Seen(buffer[q].version) \subseteq Seen(buffer'[q].version)
      BY <1>8
    <3>3. undo_stack'[q] \in Seq(SUBSET Seen(buffer'[q].version))
      BY <3>1, <3>2, LargerSeq
    <3>4. redo_stack'[q] \in Seq(SUBSET Seen(buffer'[q].version))
      BY <3>1, <3>2, LargerSeq
    <3>5. QED
      BY <3>3, <3>4
  <2>2. QED
    BY <1>1, <1>3, <2>1 DEF StacksObserved
<1>11. Agreement'
  <2>1. Agreement
    BY DEF IInv
  <2>2. QED
    BY <1>6, <2>1, KeptAgrees
<1>12. QED
  BY <1>1, <1>4, <1>6, <1>7, <1>9, <1>10, <1>11 DEF IInv

LEMMA PushKeepsInv ==
    ASSUME IInv, scope' = scope, NEW r \in Replicas, NEW edit \in OpsOf("edit"),
           PushTransaction(r, edit)
    PROVE  IInv'
<1>1. PICK b : b = buffer[r]
  OBVIOUS
<1>2. Sound(b) /\ Blocked(b) /\ Shown(b)
  BY <1>1 DEF IInv
<1>3. ObservedAll(b.version, b.version)
  BY <1>2 DEF Sound, Versions, ObservedAll
<1>4. edit.timestamp \in Seen(b.version)
  BY <1>1 DEF PushTransaction, OpsOf, IInv, OpsOK, OpShape, Seen
<1>5. \A q \in Replicas : undo_stack'[q] \in Seq(SUBSET Seen(buffer[q].version))
  <2>1. \A q \in Replicas : undo_stack[q] \in Seq(SUBSET Seen(buffer[q].version))
    BY DEF IInv, StacksObserved
  <2>2. undo_stack' = [undo_stack EXCEPT ![r] = Append(undo_stack[r], {edit.timestamp})]
        /\ DOMAIN undo_stack = Replicas
    BY DEF PushTransaction, IInv
  <2>3. {edit.timestamp} \in SUBSET Seen(b.version)
    BY <1>4
  <2>4. Append(undo_stack[r], {edit.timestamp}) \in Seq(SUBSET Seen(b.version))
    BY <1>1, <2>1, <2>3
  <2>5. QED
    BY <1>1, <2>1, <2>2, <2>4
<1>6. UNCHANGED <<buffer, redo_stack, operations>> /\ DOMAIN undo_stack' = Replicas
      /\ DOMAIN buffer' = Replicas
  BY DEF PushTransaction, IInv
<1>7. Kept(b, b)
  BY DEF Kept
<1>8. QED
  BY <1>1, <1>2, <1>3, <1>5, <1>6, <1>7, BufferKeepsInv

LEMMA ApplyOpsKeepsInv ==
    ASSUME IInv, scope' = scope, NEW r \in Replicas, NEW ops \in SeqOf(operations, scope.batch),
           ApplyOps(r, ops)
    PROVE  IInv'
<1>1. PICK b : b = buffer[r]
  OBVIOUS
<1>2. Sound(b) /\ Shown(b) /\ OpsOK
  BY <1>1 DEF IInv
<1>3. PICK n \in Nat : ops \in [1 .. n -> operations]
  BY DEF SeqOf
<1>4. PICK d : d = FoldLeft(ApplyOrDefer, b, ops)
  OBVIOUS
<1>5. PICK c : c = FlushDeferredOps(d)
  OBVIOUS
<1>6. Sound(d) /\ Shown(d) /\ ObservedAll(d.version, b.version) /\ Kept(b, d)
  BY <1>2, <1>3, <1>4, BatchSound
<1>7. /\ Sound(c) /\ Blocked(c) /\ Shown(c) /\ ObservedAll(c.version, d.version)
      /\ Kept(d, c)
  BY <1>2, <1>5, <1>6, FlushSound
<1>8. ObservedAll(c.version, b.version) /\ Kept(b, c)
  BY <1>2, <1>6, <1>7, GrowsFurther, KeptFurther DEF Sound
<1>9. UNCHANGED <<operations, undo_stack, redo_stack>>
      /\ buffer' = [buffer EXCEPT ![r] = c]
  BY <1>1, <1>4, <1>5 DEF ApplyOps, ApplyAll
<1>10. /\ DOMAIN buffer' = Replicas /\ buffer'[r] = c
       /\ \A q \in Replicas \ {r} : buffer'[q] = buffer[q]
       /\ DOMAIN undo_stack' = Replicas
       /\ \A q \in Replicas : undo_stack'[q] \in Seq(SUBSET Seen(buffer[q].version))
  BY <1>9 DEF IInv, StacksObserved
<1>11. QED
  BY <1>1, <1>7, <1>8, <1>9, <1>10, BufferKeepsInv

(* The waits of a buffer change. *)
LEMMA WaitsKeepInv ==
    ASSUME IInv, scope' = scope, NEW r \in Replicas,
           UNCHANGED <<undo_stack, redo_stack, operations>>,
           NEW edits, NEW versions,
           buffer' = [buffer EXCEPT ![r].edit_id_resolvers = edits,
                                    ![r].wait_for_version_txs = versions],
           \A t \in edits : /\ ~Observed(buffer[r].version, t)
                            /\ \E op \in OpsOf("edit") : op.timestamp = t,
           \A v \in versions : /\ v \in Versions /\ MadeOfStamps(v)
                               /\ ~ObservedAll(buffer[r].version, v)
    PROVE  IInv'
<1>1. PICK b : b = buffer[r]
  OBVIOUS
<1>2. Sound(b) /\ Blocked(b) /\ Shown(b) /\ DOMAIN b = Fields
  BY <1>1 DEF IInv, Sound
<1>3. PICK c : c = [b EXCEPT !.edit_id_resolvers = edits, !.wait_for_version_txs = versions]
  OBVIOUS
<1>4. /\ DOMAIN c = Fields /\ c.edit_id_resolvers = edits /\ c.wait_for_version_txs = versions
      /\ \A field \in Fields \ {"edit_id_resolvers", "wait_for_version_txs"} : c[field] = b[field]
  BY <1>2, <1>3 DEF Fields
<1>5. /\ c.version = b.version /\ c.lamport_clock = b.lamport_clock
      /\ c.deferred_ops = b.deferred_ops /\ c.deferred_replicas = b.deferred_replicas
      /\ c.undo_map = b.undo_map /\ c.fragments = b.fragments
  BY <1>4 DEF Fields
<1>6. WaitsForMore(c)
  BY <1>1, <1>4, <1>5 DEF WaitsForMore
<1>7. Sound(c) /\ Blocked(c) /\ Shown(c)
  BY <1>2, <1>4, <1>5, <1>6 DEF Sound, Blocked, Shown
<1>8. ObservedAll(c.version, b.version) /\ Kept(b, c)
  BY <1>2, <1>5 DEF Sound, Versions, ObservedAll, Kept
<1>9. /\ DOMAIN buffer' = Replicas /\ buffer'[r] = c
      /\ \A q \in Replicas \ {r} : buffer'[q] = buffer[q]
      /\ DOMAIN undo_stack' = Replicas
      /\ \A q \in Replicas : undo_stack'[q] \in Seq(SUBSET Seen(buffer[q].version))
  BY <1>1, <1>3 DEF IInv, StacksObserved
<1>10. QED
  BY <1>1, <1>7, <1>8, <1>9, BufferKeepsInv

LEMMA WaitForEditsKeepsInv ==
    ASSUME IInv, scope' = scope, NEW r \in Replicas, NEW edit \in OpsOf("edit"),
           WaitForEdits(r, edit)
    PROVE  IInv'
<1>1. PICK b : b = buffer[r]
  OBVIOUS
<1>2. PICK edits : edits = b.edit_id_resolvers \cup {edit.timestamp}
  OBVIOUS
<1>3. PICK versions : versions = b.wait_for_version_txs
  OBVIOUS
<1>4. DOMAIN b = Fields /\ WaitsForMore(b) /\ r \in DOMAIN buffer
  BY <1>1 DEF IInv, Sound
<1>5. buffer' = [buffer EXCEPT ![r].edit_id_resolvers = edits,
                               ![r].wait_for_version_txs = versions]
  <2>1. [b EXCEPT !.edit_id_resolvers = edits]
           = [[b EXCEPT !.edit_id_resolvers = edits] EXCEPT !.wait_for_version_txs = versions]
    BY <1>3, <1>4 DEF Fields
  <2>2. buffer' = [buffer EXCEPT ![r] = [b EXCEPT !.edit_id_resolvers = edits]]
    BY <1>1, <1>2 DEF WaitForEdits
  <2>3. QED
    BY <1>1, <1>4, <2>1, <2>2
<1>6. \A t \in edits : /\ ~Observed(buffer[r].version, t)
                       /\ \E op \in OpsOf("edit") : op.timestamp = t
  BY <1>1, <1>2, <1>4 DEF WaitForEdits, WaitsForMore
<1>7. \A v \in versions : /\ v \in Versions /\ MadeOfStamps(v)
                          /\ ~ObservedAll(buffer[r].version, v)
  BY <1>1, <1>3, <1>4 DEF WaitsForMore
<1>8. UNCHANGED <<undo_stack, redo_stack, operations>>
  BY DEF WaitForEdits
<1>9. QED
  BY <1>5, <1>6, <1>7, <1>8, WaitsKeepInv

LEMMA WaitForVersionKeepsInv ==
    ASSUME IInv, scope' = scope, NEW r \in Replicas, NEW q \in Replicas,
           WaitForVersion(r, buffer[q].version)
    PROVE  IInv'
<1>1. PICK b : b = buffer[r]
  OBVIOUS
<1>2. PICK edits : edits = b.edit_id_resolvers
  OBVIOUS
<1>3. PICK versions : versions = b.wait_for_version_txs \cup {buffer[q].version}
  OBVIOUS
<1>4. DOMAIN b = Fields /\ WaitsForMore(b) /\ r \in DOMAIN buffer
      /\ buffer[q].version \in Versions /\ MadeOfStamps(buffer[q].version)
  BY <1>1 DEF IInv, Sound
<1>5. buffer' = [buffer EXCEPT ![r].edit_id_resolvers = edits,
                               ![r].wait_for_version_txs = versions]
  <2>1. [b EXCEPT !.wait_for_version_txs = versions]
           = [[b EXCEPT !.edit_id_resolvers = edits] EXCEPT !.wait_for_version_txs = versions]
    BY <1>2, <1>4 DEF Fields
  <2>2. buffer' = [buffer EXCEPT ![r] = [b EXCEPT !.wait_for_version_txs = versions]]
    BY <1>1, <1>3 DEF WaitForVersion
  <2>3. QED
    BY <1>1, <1>4, <2>1, <2>2
<1>6. \A t \in edits : /\ ~Observed(buffer[r].version, t)
                       /\ \E op \in OpsOf("edit") : op.timestamp = t
  BY <1>1, <1>2, <1>4 DEF WaitsForMore
<1>7. \A v \in versions : /\ v \in Versions /\ MadeOfStamps(v)
                          /\ ~ObservedAll(buffer[r].version, v)
  BY <1>1, <1>3, <1>4 DEF WaitForVersion, WaitsForMore
<1>8. UNCHANGED <<undo_stack, redo_stack, operations>>
  BY DEF WaitForVersion
<1>9. QED
  BY <1>5, <1>6, <1>7, <1>8, WaitsKeepInv

LEMMA GiveUpWaitingKeepsInv ==
    ASSUME IInv, scope' = scope, NEW r \in Replicas, GiveUpWaiting(r)
    PROVE  IInv'
<1>1. PICK none : none = {}
  OBVIOUS
<1>2. buffer' = [buffer EXCEPT ![r].edit_id_resolvers = none, ![r].wait_for_version_txs = none]
      /\ UNCHANGED <<undo_stack, redo_stack, operations>>
  BY <1>1 DEF GiveUpWaiting
<1>3. /\ \A t \in none : /\ ~Observed(buffer[r].version, t)
                         /\ \E op \in OpsOf("edit") : op.timestamp = t
      /\ \A v \in none : /\ v \in Versions /\ MadeOfStamps(v)
                         /\ ~ObservedAll(buffer[r].version, v)
  BY <1>1
<1>4. QED
  BY <1>2, <1>3, WaitsKeepInv

-----------------------------------------------------------------------------
(* The invariant.                                                          *)

LEMMA NextIInv ==
    ASSUME IInv, [Next]_vars
    PROVE  IInv'
<1>1. CASE Next
  <2>1. scope' = scope
    BY <1>1 DEF Next
  <2>2. PICK r \in Replicas :
        \/ \E end \in 0 .. VisibleLen(buffer[r].fragments) : \E start \in 0 .. end :
              \E len \in 0 .. scope.insert : Edit(r, start, end, len)
        \/ \E i \in DOMAIN undo_stack[r] : Undo(r, i)
        \/ Redo(r)
        \/ \E edit \in OpsOf("edit") : PushTransaction(r, edit)
        \/ \E ops \in SeqOf(operations, scope.batch) \ {<<>>} : ApplyOps(r, ops)
        \/ \E edit \in OpsOf("edit") : WaitForEdits(r, edit)
        \/ \E q \in Replicas : WaitForVersion(r, buffer[q].version)
        \/ GiveUpWaiting(r)
    BY <1>1 DEF Next
  <2>3. ASSUME NEW end \in 0 .. VisibleLen(buffer[r].fragments), NEW start \in 0 .. end,
               NEW len \in 0 .. scope.insert, Edit(r, start, end, len)
        PROVE  IInv'
    BY <2>1, <2>3, EditKeepsInv
  <2>4. ASSUME NEW i \in DOMAIN undo_stack[r], Undo(r, i) PROVE IInv'
    BY <2>1, <2>4, UndoKeepsInv
  <2>5. CASE Redo(r)
    BY <2>1, <2>5, RedoKeepsInv
  <2>6. ASSUME NEW edit \in OpsOf("edit"), PushTransaction(r, edit) PROVE IInv'
    BY <2>1, <2>6, PushKeepsInv
  <2>7. ASSUME NEW ops \in SeqOf(operations, scope.batch), ApplyOps(r, ops) PROVE IInv'
    BY <2>1, <2>7, ApplyOpsKeepsInv
  <2>8. ASSUME NEW edit \in OpsOf("edit"), WaitForEdits(r, edit) PROVE IInv'
    BY <2>1, <2>8, WaitForEditsKeepsInv
  <2>9. ASSUME NEW q \in Replicas, WaitForVersion(r, buffer[q].version) PROVE IInv'
    BY <2>1, <2>9, WaitForVersionKeepsInv
  <2>10. CASE GiveUpWaiting(r)
    BY <2>1, <2>10, GiveUpWaitingKeepsInv
  <2>11. QED
    BY <2>2, <2>3, <2>4, <2>5, <2>6, <2>7, <2>8, <2>9, <2>10
<1>2. CASE UNCHANGED vars
  <2>1. UNCHANGED <<scope, buffer, undo_stack, redo_stack, operations>>
    BY <1>2 DEF vars
  <2>2. PICK r : r \in Replicas
    BY ReplicasAre DEF IInv, OpsOK
  <2>3. PICK c : c = buffer[r]
    OBVIOUS
  <2>4. Sound(c) /\ Blocked(c) /\ Shown(c) /\ ObservedAll(c.version, buffer[r].version)
    BY <2>2, <2>3 DEF IInv, Sound, Versions, ObservedAll
  <2>5. /\ DOMAIN buffer' = Replicas /\ buffer'[r] = c
        /\ \A q \in Replicas \ {r} : buffer'[q] = buffer[q]
        /\ DOMAIN undo_stack' = Replicas
        /\ \A q \in Replicas : undo_stack'[q] \in Seq(SUBSET Seen(buffer[q].version))
    BY <2>1, <2>3 DEF IInv, StacksObserved
  <2>6. Kept(buffer[r], c)
    BY <2>3 DEF Kept
  <2>7. QED
    BY <2>1, <2>2, <2>4, <2>5, <2>6, BufferKeepsInv
<1>3. QED
  BY <1>1, <1>2

LEMMA InitAgrees ==
    ASSUME Init
    PROVE  Agreement
<1> DEFINE order == {p \in BaseChars \X BaseChars : p[1][2] < p[2][2]}
           N(k) == [timestamp |-> <<1, 0>>, offset |-> k - 1, deletions |-> {}, visible |-> TRUE]
<1>1. scope.base_len \in Nat /\ Replicas \subseteq Nat /\ 0 \in Replicas
  BY TextBufferAssumption, ReplicasAre DEF Init
<1>2. PICK n \in Nat : n = scope.base_len
  BY <1>1
<1>3. AllChars = BaseChars /\ BaseChars = {<<<<1, 0>>, k>> : k \in 0 .. n - 1}
      /\ EditsIn(operations) = {}
  BY <1>2 DEF Init, AllChars, OpsOf, BaseChars, EditsIn
<1>4. PICK chars : chars = BaseChars
  OBVIOUS
<1>5. \A c \in chars : c[1] = <<1, 0>> /\ c[2] \in 0 .. n - 1 /\ c = <<c[1], c[2]>>
  BY <1>3, <1>4
<1>6. \A c, d \in chars : <<c, d>> \in order <=> c[2] < d[2]
  BY <1>4
<1>7. order \subseteq chars \X chars
  BY <1>4
<1> HIDE DEF order
<1>8. Ordered(chars, order)
  <2>1. \A c, d \in chars : c[2] \in Nat /\ (c[2] = d[2] => c = d)
    BY <1>5
  <2>2. \A c \in chars : <<c, c>> \notin order
    BY <1>6, <2>1
  <2>3. \A c, d, e \in chars : <<c, d>> \in order /\ <<d, e>> \in order => <<c, e>> \in order
    BY <1>6, <2>1
  <2>4. \A c, d \in chars : c = d \/ <<c, d>> \in order \/ <<d, c>> \in order
    <3>1. \A c, d \in chars : c[2] = d[2] \/ c[2] < d[2] \/ d[2] < c[2]
      BY <2>1
    <3>2. QED
      BY <1>6, <2>1, <3>1
  <2>5. QED
    BY <1>6, <1>7, <2>2, <2>3, <2>4 DEF Ordered
<1>9. World(operations, chars, order, {})
  BY <1>3, <1>8 DEF World
<1>10. ASSUME NEW r \in Replicas
       PROVE  Placed(chars, order, {}, buffer[r].fragments, buffer[r].version)
  <2>1. PICK fs, u : fs = buffer[r].fragments /\ u = buffer[r].version
    OBVIOUS
  <2>2. fs = NewFragments(<<1, 0>>, n)
        /\ u = [q \in Replicas |-> IF q = 0 /\ n > 0 THEN 1 ELSE 0]
    BY <1>2, <2>1 DEF Init
  <2>3. fs = [k \in 1 .. n |-> N(k)]
    BY <2>2 DEF NewFragments
  <2>4. DOMAIN fs = 1 .. n
        /\ \A k \in 1 .. n : Id(fs[k]) = <<<<1, 0>>, k - 1>> /\ fs[k].deletions = {}
    BY <2>3 DEF Id
  <2>5. \A c \in chars : Observed(u, c[1])
    <3>1. \A c \in chars : n > 0
      BY <1>5
    <3>2. n > 0 => u[0] = 1
      BY <1>1, <2>2
    <3>3. QED
      BY <1>5, <3>1, <3>2 DEF Observed
  <2>6. SeenChars(chars, u) = chars
    BY <2>5 DEF SeenChars
  <2>7. \A k \in 1 .. n : Id(fs[k]) \in chars
    <3>1. \A k \in 1 .. n : k - 1 \in 0 .. n - 1
      OBVIOUS
    <3>2. QED
      BY <1>3, <1>4, <2>4, <3>1
  <2>8. \A c \in chars : \E k \in 1 .. n : Id(fs[k]) = c
    <3>1. SUFFICES ASSUME NEW c \in chars PROVE \E k \in 1 .. n : Id(fs[k]) = c
      OBVIOUS
    <3>2. PICK k \in 1 .. n : k = c[2] + 1
      BY <1>5
    <3>3. Id(fs[k]) = c
      <4>1. k - 1 = c[2]
        BY <1>5, <3>2
      <4>2. QED
        BY <1>5, <2>4, <4>1
    <3>4. QED
      BY <3>3
  <2>9. \A i, j \in 1 .. n : <<Id(fs[i]), Id(fs[j])>> \in order <=> i < j
    <3>1. SUFFICES ASSUME NEW i \in 1 .. n, NEW j \in 1 .. n
                   PROVE  <<Id(fs[i]), Id(fs[j])>> \in order <=> i < j
      OBVIOUS
    <3>2. PICK x, y : x = Id(fs[i]) /\ y = Id(fs[j])
      OBVIOUS
    <3>3. x \in chars /\ y \in chars /\ x[2] = i - 1 /\ y[2] = j - 1
      BY <2>4, <2>7, <3>2
    <3>4. <<x, y>> \in order <=> x[2] < y[2]
      BY <1>6, <3>3
    <3>5. QED
      BY <3>2, <3>3, <3>4
  <2>10. \A c : Deletions({}, u, c) = {}
    BY DEF Deletions
  <2>11. {Id(fs[k]) : k \in DOMAIN fs} = SeenChars(chars, u)
    BY <2>4, <2>6, <2>7, <2>8
  <2>12. Placed(chars, order, {}, fs, u)
    BY <2>4, <2>9, <2>10, <2>11 DEF Placed
  <2>13. QED
    BY <2>1, <2>12
<1>11. Agrees(order, {})
  BY <1>3, <1>4, <1>9, <1>10 DEF Agrees
<1>12. QED
  BY <1>11 DEF Agreement

LEMMA InitIInv ==
    ASSUME Init, TextBufferAssumption
    PROVE  IInv
<1>1. scope \in Scope /\ operations = {} /\ IsFiniteSet(operations)
  BY FS_EmptySet DEF Init, TextBufferAssumption
<1>2. OpsOK
  BY <1>1 DEF OpsOK, OpsOrdered
<1>3. ASSUME NEW r \in Replicas, NEW b, b = buffer[r]
      PROVE  Sound(b) /\ Blocked(b) /\ Shown(b)
  <2>1. b = [version |-> [q \in Replicas |-> IF q = 0 /\ scope.base_len > 0 THEN 1 ELSE 0],
             lamport_clock |-> IF scope.base_len > 0 THEN 2 ELSE 1,
             fragments |-> NewFragments(<<1, 0>>, scope.base_len),
             undo_map |-> {},
             deferred_ops |-> {},
             deferred_replicas |-> {},
             edit_id_resolvers |-> {},
             wait_for_version_txs |-> {}]
    BY <1>3 DEF Init
  <2>2. b.version = [q \in Replicas |-> Base(q)]
    BY <2>1 DEF Base
  <2>3. scope.base_len \in Nat /\ 0 \in Replicas
    BY <1>1, ReplicasAre
  <2>4. /\ DOMAIN b = Fields /\ b.version \in Versions /\ MadeOfStamps(b.version)
        /\ \A q \in Replicas : b.version[q] < b.lamport_clock
        /\ b.lamport_clock \in Nat
    BY <2>1, <2>2, <2>3 DEF Fields, Versions, MadeOfStamps, Base
  <2>5. /\ b.deferred_ops = {} /\ b.deferred_replicas = {} /\ b.edit_id_resolvers = {}
        /\ b.wait_for_version_txs = {} /\ b.undo_map = {}
        /\ b.fragments = NewFragments(<<1, 0>>, scope.base_len)
    BY <2>1
  <2>6. Sound(b) /\ Blocked(b)
    BY <1>1, <2>4, <2>5 DEF Sound, Blocked, Closed, WaitsForMore
  <2>7. b.undo_map = UndoMapOf(b.version)
    BY <1>1, <2>5 DEF UndoMapOf, OpsOf
  <2>8. b.fragments \in Seq(Cached(b.undo_map))
    <3>1. <<1, 0>> \in Stamps
      BY <2>3 DEF Stamps
    <3>2. ~IsUndone(b.undo_map, <<1, 0>>)
      BY <2>5, NewNotUndone
    <3>3. QED
      BY <2>3, <2>5, <3>1, <3>2, NewAreCached
  <2>9. QED
    BY <2>6, <2>7, <2>8 DEF Shown
<1>4. StacksObserved /\ OwnObserved
  BY <1>1 DEF Init, StacksObserved, OwnObserved
<1>5. DOMAIN buffer = Replicas /\ DOMAIN undo_stack = Replicas /\ DOMAIN redo_stack = Replicas
  BY DEF Init
<1>6. Agreement
  BY InitAgrees
<1>7. QED
  BY <1>2, <1>3, <1>4, <1>5, <1>6 DEF IInv

(* The inductive invariant holds in every state: the version vectors, the  *)
(* deferred operations, the waits and the undo maps of all replicas are in *)
(* step with the operations made (text.rs:927-945, 1221-1289).             *)
THEOREM InvariantTheorem == Spec => []IInv
<1>1. Init => IInv
  BY TextBufferAssumption, InitIInv
<1>2. IInv /\ [Next]_vars => IInv'
  BY NextIInv
<1>3. QED
  BY <1>1, <1>2, PTL DEF Spec

(* A replica that has observed an operation has observed all that          *)
(* operation depends on (can_apply_op, text.rs:1290).                      *)
THEOREM CausallyClosedTheorem == Spec => []CausallyClosed
<1>1. IInv => CausallyClosed
  BY DEF IInv, Sound, Closed, CausallyClosed
<1>2. QED
  BY <1>1, InvariantTheorem, PTL

(* One pass of flush_deferred_ops applies everything that can be applied,  *)
(* and leaves deferred_replicas in step with the queue (text.rs:1276).     *)
THEOREM DeferredOnlyIfBlockedTheorem == Spec => []DeferredOnlyIfBlocked
<1>1. IInv => DeferredOnlyIfBlocked
  BY DEF IInv, Sound, Blocked, DeferredOnlyIfBlocked
<1>2. QED
  BY <1>1, InvariantTheorem, PTL

(* Whoever waits for an edit or a version is told when it has arrived      *)
(* (text.rs:940, 947-954).                                                 *)
THEOREM NobodyWaitsInVainTheorem == Spec => []NobodyWaitsInVain
<1>1. IInv => NobodyWaitsInVain
  BY DEF IInv, Sound, WaitsForMore, NobodyWaitsInVain
<1>2. QED
  BY <1>1, InvariantTheorem, PTL

(* The cached visibility of a fragment is what its deletions and the undo  *)
(* map say (apply_undo, text.rs:1221).                                     *)
THEOREM VisibilityCachedTheorem == Spec => []VisibilityCached
<1>1. IInv => VisibilityCached
  <2>1. SUFFICES ASSUME IInv, NEW r \in Replicas, NEW i \in DOMAIN buffer[r].fragments
                 PROVE  buffer[r].fragments[i].visible <=>
                           IsVisible(buffer[r].fragments[i], buffer[r].undo_map)
    BY DEF VisibilityCached
  <2>2. PICK b : b = buffer[r]
    OBVIOUS
  <2>3. b.fragments \in Seq(Cached(b.undo_map)) /\ i \in DOMAIN b.fragments
    BY <2>1, <2>2 DEF IInv, Shown
  <2>4. b.fragments[i] \in Cached(b.undo_map)
    BY <2>3
  <2>5. QED
    BY <2>2, <2>4 DEF Cached
<1>2. QED
  BY <1>1, InvariantTheorem, PTL

(* Two buffers that have observed the same hold the same fragments: the    *)
(* fragment at an index is the character of that rank.                     *)
LEMMA PlacedAlike ==
    ASSUME NEW undo_map, NEW version, NEW chars, NEW order, Ordered(chars, order), NEW gone,
           NEW s \in Seq(Cached(undo_map)), Placed(chars, order, gone, s, version),
           NEW t \in Seq(Cached(undo_map)), Placed(chars, order, gone, t, version)
    PROVE  s = t
<1>1. PICK m, n \in Nat : m = Len(s) /\ n = Len(t)
  BY LenProperties
<1>2. DOMAIN s = 1 .. m /\ DOMAIN t = 1 .. n
  BY <1>1, LenProperties
<1>3. \A i \in 1 .. m : Rank(chars, order, version, Id(s[i])) = i
  BY <1>2, RankIsPlace
<1>4. \A i \in 1 .. n : Rank(chars, order, version, Id(t[i])) = i
  BY <1>2, RankIsPlace
<1>5. {Id(s[i]) : i \in 1 .. m} = {Id(t[i]) : i \in 1 .. n}
  BY <1>2 DEF Placed
<1>6. \A i \in 1 .. m : i \in 1 .. n /\ Id(t[i]) = Id(s[i])
  <2>1. SUFFICES ASSUME NEW i \in 1 .. m PROVE i \in 1 .. n /\ Id(t[i]) = Id(s[i])
    OBVIOUS
  <2>2. PICK j \in 1 .. n : Id(t[j]) = Id(s[i])
    BY <1>5
  <2>3. j = i
    BY <1>3, <1>4, <2>2
  <2>4. QED
    BY <2>2, <2>3
<1>7. \A i \in 1 .. n : i \in 1 .. m
  <2>1. SUFFICES ASSUME NEW i \in 1 .. n PROVE i \in 1 .. m
    OBVIOUS
  <2>2. PICK j \in 1 .. m : Id(s[j]) = Id(t[i])
    BY <1>5
  <2>3. j = i
    BY <1>3, <1>4, <2>2
  <2>4. QED
    BY <2>2, <2>3
<1>8. \A i \in 1 .. m : s[i] = t[i]
  <2>1. SUFFICES ASSUME NEW i \in 1 .. m PROVE s[i] = t[i]
    OBVIOUS
  <2>2. i \in DOMAIN s /\ i \in DOMAIN t /\ Id(t[i]) = Id(s[i])
    BY <1>2, <1>6
  <2>3. s[i].deletions = t[i].deletions
    BY <2>2 DEF Placed
  <2>4. s[i].timestamp = t[i].timestamp /\ s[i].offset = t[i].offset
    BY <2>2 DEF Id
  <2>5. s[i] \in Cached(undo_map) /\ t[i] \in Cached(undo_map)
    BY <2>2, ElementOfSeq
  <2>6. s[i].visible = t[i].visible
    BY <2>3, <2>4, <2>5 DEF Cached, IsVisible, Fragment
  <2>7. s[i] \in Fragment /\ t[i] \in Fragment
    BY <2>5 DEF Cached
  <2>8. \A f, g \in Fragment :
           /\ f.timestamp = g.timestamp /\ f.offset = g.offset
           /\ f.deletions = g.deletions /\ f.visible = g.visible
           => f = g
    BY DEF Fragment
  <2>9. QED
    BY <2>3, <2>4, <2>6, <2>7, <2>8
<1>9. m = n
  <2>1. m = 0 \/ m \in 1 .. m
    OBVIOUS
  <2>2. n = 0 \/ n \in 1 .. n
    OBVIOUS
  <2>3. QED
    BY <1>6, <1>7, <2>1, <2>2
<1>10. QED
  BY <1>1, <1>8, <1>9, SeqEqual

(* Replicas that have observed the same operations hold the same text, in  *)
(* whatever order the operations arrived and however often: fragments in   *)
(* the same order, with the same deletions and the same visibility, and    *)
(* the same undo map (apply_remote_edit, apply_undo, InsertUndo).          *)
THEOREM ConvergenceTheorem == Spec => []Convergence
<1>1. IInv => Convergence
  <2>1. SUFFICES ASSUME IInv, NEW r \in Replicas, NEW q \in Replicas,
                        buffer[r].version = buffer[q].version
                 PROVE  /\ buffer[r].fragments = buffer[q].fragments
                        /\ buffer[r].undo_map = buffer[q].undo_map
    BY DEF Convergence
  <2>2. PICK order, gone : Agrees(order, gone)
    BY <2>1 DEF IInv, Agreement
  <2>3. PICK s, t, v, m, chars : /\ s = buffer[r].fragments /\ t = buffer[q].fragments
                                 /\ v = buffer[r].version /\ m = UndoMapOf(v)
                                 /\ chars = AllChars
    OBVIOUS
  <2>4. buffer[r].undo_map = m /\ buffer[q].undo_map = m
        /\ s \in Seq(Cached(m)) /\ t \in Seq(Cached(m))
    BY <2>1, <2>3 DEF IInv, Shown
  <2>5. Placed(chars, order, gone, s, v) /\ Placed(chars, order, gone, t, v)
        /\ Ordered(chars, order)
    BY <2>1, <2>2, <2>3 DEF Agrees, World
  <2>6. s = t
    BY <2>4, <2>5, PlacedAlike
  <2>7. QED
    BY <2>3, <2>4, <2>6
<1>2. QED
  BY <1>1, InvariantTheorem, PTL

(* Also while they have observed different operations, replicas hold the   *)
(* characters they have in common in the same order, and differ on what    *)
(* deleted one of them only by operations that one has not observed.       *)
SameOrder ==
    \A r, q \in Replicas :
        LET s == buffer[r].fragments
            t == buffer[q].fragments
        IN  /\ \A i, j \in DOMAIN s, k, l \in DOMAIN t :
                  Id(s[i]) = Id(t[k]) /\ Id(s[j]) = Id(t[l]) => (i < j <=> k < l)
            /\ \A i \in DOMAIN s, k \in DOMAIN t :
                  Id(s[i]) = Id(t[k]) =>
                      \A d \in s[i].deletions \ t[k].deletions :
                          ~Observed(buffer[q].version, d)

THEOREM SameOrderTheorem == Spec => []SameOrder
<1>1. IInv => SameOrder
  <2>1. SUFFICES ASSUME IInv, NEW r \in Replicas, NEW q \in Replicas,
                        NEW s, s = buffer[r].fragments, NEW t, t = buffer[q].fragments
                 PROVE  /\ \A i, j \in DOMAIN s, k, l \in DOMAIN t :
                              Id(s[i]) = Id(t[k]) /\ Id(s[j]) = Id(t[l]) => (i < j <=> k < l)
                        /\ \A i \in DOMAIN s, k \in DOMAIN t :
                              Id(s[i]) = Id(t[k]) =>
                                  \A d \in s[i].deletions \ t[k].deletions :
                                      ~Observed(buffer[q].version, d)
    BY DEF SameOrder
  <2>2. PICK order, gone : Agrees(order, gone)
    BY <2>1 DEF IInv, Agreement
  <2>3. /\ Placed(AllChars, order, gone, s, buffer[r].version)
        /\ Placed(AllChars, order, gone, t, buffer[q].version)
    BY <2>1, <2>2 DEF Agrees
  <2>4. /\ \A i, j \in DOMAIN s : <<Id(s[i]), Id(s[j])>> \in order <=> i < j
        /\ \A i \in DOMAIN s :
              s[i].deletions = Deletions(gone, buffer[r].version, Id(s[i]))
    BY <2>3 DEF Placed
  <2>5. /\ \A k, l \in DOMAIN t : <<Id(t[k]), Id(t[l])>> \in order <=> k < l
        /\ \A k \in DOMAIN t :
              t[k].deletions = Deletions(gone, buffer[q].version, Id(t[k]))
    BY <2>3 DEF Placed
  <2>6. ASSUME NEW i \in DOMAIN s, NEW j \in DOMAIN s, NEW k \in DOMAIN t, NEW l \in DOMAIN t,
               Id(s[i]) = Id(t[k]), Id(s[j]) = Id(t[l])
        PROVE  i < j <=> k < l
    BY <2>4, <2>5, <2>6
  <2>7. ASSUME NEW i \in DOMAIN s, NEW k \in DOMAIN t, Id(s[i]) = Id(t[k]),
               NEW d \in s[i].deletions \ t[k].deletions
        PROVE  ~Observed(buffer[q].version, d)
    <3>1. PICK c : c = Id(s[i])
      OBVIOUS
    <3>2. /\ d \in Deletions(gone, buffer[r].version, c)
          /\ d \notin Deletions(gone, buffer[q].version, c)
      BY <2>4, <2>5, <2>7, <3>1
    <3>3. QED
      BY <3>2 DEF Deletions
  <2>8. QED
    BY <2>6, <2>7
<1>2. QED
  BY <1>1, InvariantTheorem, PTL

-----------------------------------------------------------------------------
(* Catching up: all operations at last, the latest first.                  *)

IsReversePass(f, b, S) ==
    /\ ApplyEach(b, S, Earliest) = f[S]
    /\ f[{}] = b
    /\ \A s \in SUBSET S : s # {} => f[s] = ApplyOrDefer(f[s \ {Earliest(s)}], Earliest(s))

LEMMA ReversePassIs ==
    ASSUME OpsOK, NEW b, NEW S, S \subseteq operations
    PROVE  \E f : IsReversePass(f, b, S)
<1> DEFINE Is(f) == f = [s \in SUBSET S |->
                            IF s = {} THEN b ELSE ApplyOrDefer(f[s \ {Earliest(s)}], Earliest(s))]
           pick == [s \in SUBSET S |-> Earliest(s)]
           val == [x \in S |-> x]
<1>1. \A s \in SUBSET S : s # {} => Earliest(s) \in s
  BY OneIsLast
<1>2. \E f : Is(f)
  <2>1. IsFiniteSet(S)
    BY FS_Subset DEF OpsOK
  <2>2. \A s \in SUBSET S : s # {} => pick[s] \in s
    BY <1>1
  <2> HIDE DEF pick, val, Is
  <2>3. PICK f : IsFold(f, S, b, pick, val)
    BY <2>1, <2>2, FoldExists
  <2>4. Is(f)
    BY <1>1, <2>3 DEF IsFold, pick, val, Is
  <2>5. QED
    BY <2>4
<1> DEFINE f == CHOOSE g : Is(g)
<1>3. ApplyEach(b, S, Earliest) = f[S]
  BY DEF ApplyEach, MapThenFoldSet
<1>4. Is(f)
  BY <1>2
<1> HIDE DEF f
<1>5. QED
  BY <1>3, <1>4 DEF IsReversePass

Reached(b, op) == Observed(b.version, op.timestamp) \/ op \in b.deferred_ops

LEMMA StepReaches ==
    ASSUME OpsOK, NEW b, Sound(b), NEW op \in operations
    PROVE  LET c == ApplyOrDefer(b, op)
           IN  /\ Reached(c, op)
               /\ \A p \in operations : Reached(b, p) => Reached(c, p)
               /\ \A p \in operations : Observed(b.version, p.timestamp)
                                           => Observed(c.version, p.timestamp)
<1> DEFINE c == ApplyOrDefer(b, op)
<1>1. /\ \/ /\ CanApplyOp(b, op)
            /\ c.version = Observe(b.version, op.timestamp)
            /\ c.deferred_ops = b.deferred_ops
         \/ /\ c.version = b.version
            /\ c.deferred_ops = b.deferred_ops \cup {op}
  BY StepSound
<1>2. b.version \in Versions
  BY DEF Sound
<1> HIDE DEF c
<1>3. CASE /\ CanApplyOp(b, op)
           /\ c.version = Observe(b.version, op.timestamp)
           /\ c.deferred_ops = b.deferred_ops
  <2>1. ObservedAll(b.version, op.version)
    BY <1>3 DEF CanApplyOp
  <2>2. \A p \in operations : Observed(c.version, p.timestamp)
                                 <=> Observed(b.version, p.timestamp) \/ p = op
    BY <1>2, <1>3, <2>1, OnlyItself
  <2>3. QED
    BY <1>3, <2>2 DEF Reached, c
<1>4. CASE c.version = b.version /\ c.deferred_ops = b.deferred_ops \cup {op}
  BY <1>4 DEF Reached, c
<1>5. QED
  BY <1>1, <1>3, <1>4

(* Whatever the order, an operation is applied or deferred. *)
LEMMA AllReached ==
    ASSUME OpsOK, NEW b, Sound(b), Shown(b)
    PROVE  LET d == ApplyEach(b, operations, Earliest)
           IN  Sound(d) /\ Shown(d) /\ \A op \in operations : Reached(d, op)
<1> DEFINE S == operations
           Right(f, s) == Sound(f[s]) /\ Shown(f[s]) /\ \A op \in s : Reached(f[s], op)
<1>1. PICK f : IsReversePass(f, b, S)
  BY ReversePassIs
<1>2. /\ ApplyEach(b, S, Earliest) = f[S]
      /\ f[{}] = b
      /\ \A s \in SUBSET S : s # {} => f[s] = ApplyOrDefer(f[s \ {Earliest(s)}], Earliest(s))
  BY <1>1 DEF IsReversePass
<1> DEFINE Bad == {s \in SUBSET S : ~Right(f, s)}
<1>3. ASSUME Bad # {} PROVE FALSE
  <2>1. PICK s \in Bad : \A t \in SUBSET s : t # s => t \notin Bad
    <3>1. Bad \subseteq SUBSET S /\ IsFiniteSet(S)
      BY DEF OpsOK
    <3> HIDE DEF Bad
    <3>2. QED
      BY <1>3, <3>1, SmallestSubset
  <2>2. CASE s = {}
    BY <1>2, <2>2
  <2>3. CASE s # {}
    <3> DEFINE op == Earliest(s)
               t == s \ {op}
    <3>1. op \in s /\ op \in operations /\ f[s] = ApplyOrDefer(f[t], op) /\ s \subseteq operations
      BY <1>2, <2>3, OneIsLast
    <3>2. t \in SUBSET s /\ t # s /\ t \in SUBSET S /\ s = t \cup {op}
      BY <3>1
    <3>3. Right(f, t)
      <4> HIDE DEF t, Right
      <4>1. QED
        BY <2>1, <3>2
    <3> HIDE DEF t, op
    <3>4. Sound(f[s]) /\ Shown(f[s])
      BY <3>1, <3>3, StepSound, StepShown
    <3>5. /\ Reached(f[s], op)
          /\ \A p \in operations : Reached(f[t], p) => Reached(f[s], p)
      BY <3>1, <3>3, StepReaches
    <3>6. \A p \in s : Reached(f[s], p)
      BY <3>1, <3>2, <3>3, <3>5
    <3>7. QED
      BY <3>4, <3>6
  <2>4. QED
    BY <2>2, <2>3
<1>4. Right(f, S)
  BY <1>3
<1>5. QED
  BY <1>2, <1>4

(* Timestamps below an operation's are all its version is made of. *)
LEMMA CoveredFromBelow ==
    ASSUME OpsOK, NEW version \in Versions, MadeOfStamps(version), NEW op \in operations,
           \A p \in operations : Before(p.timestamp, op.timestamp)
                                    => Observed(version, p.timestamp)
    PROVE  ObservedAll(version, op.version)
<1>1. SUFFICES ASSUME NEW q \in Replicas PROVE version[q] >= op.version[q]
  BY DEF ObservedAll
<1>2. /\ op.version[q] \in Nat /\ version[q] \in Nat /\ version[q] >= Base(q)
      /\ op.version[q] < op.timestamp[1]
      /\ op.version[q] # Base(q) => \E p \in operations : p.timestamp = <<op.version[q], q>>
  BY DEF OpsOK, OpShape, Versions, MadeOfStamps
<1>3. CASE op.version[q] = Base(q)
  BY <1>2, <1>3
<1>4. CASE op.version[q] # Base(q)
  <2>1. PICK p \in operations : p.timestamp = <<op.version[q], q>>
    BY <1>2, <1>4
  <2>2. Before(p.timestamp, op.timestamp)
    BY <1>2, <2>1 DEF Before
  <2>3. QED
    BY <2>1, <2>2 DEF Observed
<1>5. QED
  BY <1>3, <1>4

(* One pass in the order of the timestamps then applies what was deferred: *)
(* by the time of an operation, all it depends on was observed.            *)
LEMMA FlushCompletes ==
    ASSUME OpsOK, NEW d, Sound(d), Shown(d), \A op \in operations : Reached(d, op)
    PROVE  LET c == FlushDeferredOps(d)
           IN  c.deferred_ops = {} /\ \A op \in operations : Observed(c.version, op.timestamp)
<1> DEFINE taken == [d EXCEPT !.deferred_replicas = {}, !.deferred_ops = {}]
           S == d.deferred_ops
<1>1. S \subseteq operations /\ IsFiniteSet(S)
  BY FS_Subset DEF Sound, OpsOK
<1>2. /\ Sound(taken) /\ Shown(taken)
      /\ taken.version = d.version /\ taken.deferred_ops = {}
  BY TakenSound
<1>3. FlushDeferredOps(d) = ApplyEach(taken, S, Latest)
  BY DEF FlushDeferredOps
<1>4. \A op \in operations \ S : Observed(d.version, op.timestamp)
  BY DEF Reached
<1> HIDE DEF taken, S
<1>5. PICK f : IsPass(f, taken, S)
  BY <1>1, PassIs
<1>6. /\ ApplyEach(taken, S, Latest) = f[S]
      /\ f[{}] = taken
      /\ \A s \in SUBSET S : s # {} => f[s] = ApplyOrDefer(f[s \ {Latest(s)}], Latest(s))
  BY <1>5 DEF IsPass
<1> DEFINE First(s) == \A o \in s, p \in S \ s : Before(o.timestamp, p.timestamp)
           Right(s) == /\ Sound(f[s]) /\ f[s].deferred_ops = {}
                       /\ \A op \in (operations \ S) \cup s : Observed(f[s].version, op.timestamp)
           Bad == {s \in SUBSET S : First(s) /\ ~Right(s)}
<1>7. ASSUME Bad # {} PROVE FALSE
  <2>1. PICK s \in Bad : \A t \in SUBSET s : t # s => t \notin Bad
    <3>1. Bad \subseteq SUBSET S
      OBVIOUS
    <3> HIDE DEF Bad
    <3>2. QED
      BY <1>1, <1>7, <3>1, SmallestSubset
  <2>2. CASE s = {}
    BY <1>2, <1>4, <1>6, <2>2
  <2>3. CASE s # {}
    <3> DEFINE op == Latest(s)
               t == s \ {op}
    <3>1. /\ op \in s /\ op \in operations /\ f[s] = ApplyOrDefer(f[t], op)
          /\ \A p \in s : p = op \/ Before(p.timestamp, op.timestamp)
          /\ s \subseteq S
      BY <1>1, <1>6, <2>3, OneIsLast
    <3>2. t \in SUBSET s /\ t # s /\ t \in SUBSET S /\ s = t \cup {op} /\ op \notin t
      BY <3>1
    <3>3. First(t)
      <4>1. First(s)
        OBVIOUS
      <4>2. QED
        BY <3>1, <3>2, <4>1
    <3>4. Right(t)
      <4> HIDE DEF t, Right, First
      <4>1. QED
        BY <2>1, <3>2, <3>3
    <3> HIDE DEF t, op
    <3>5. ObservedAll(f[t].version, op.version)
      <4>1. ASSUME NEW p \in operations, Before(p.timestamp, op.timestamp)
            PROVE  Observed(f[t].version, p.timestamp)
        <5>1. p # op /\ ~Before(op.timestamp, p.timestamp)
          <6>1. /\ p.timestamp[1] \in Nat /\ p.timestamp[2] \in Nat
                /\ op.timestamp[1] \in Nat /\ op.timestamp[2] \in Nat
            BY <3>1, ReplicasAre DEF OpsOK, OpShape, Stamps
          <6>2. QED
            BY <4>1, <6>1 DEF Before
        <5>2. p \in t \/ p \notin S
          BY <3>1, <3>2, <5>1
        <5>3. QED
          BY <3>4, <5>2
      <4>2. f[t].version \in Versions /\ MadeOfStamps(f[t].version)
        BY <3>4 DEF Sound
      <4>3. QED
        BY <3>1, <4>1, <4>2, CoveredFromBelow
    <3>6. CanApplyOp(f[t], op)
      BY <3>4, <3>5 DEF CanApplyOp, Sound
    <3>7. Sound(f[s]) /\ f[s].deferred_ops = {}
          /\ f[s].version = Observe(f[t].version, op.timestamp)
      BY <3>1, <3>4, <3>6, StepSound
    <3>8. \A p \in operations : Observed(f[s].version, p.timestamp)
                                   <=> Observed(f[t].version, p.timestamp) \/ p = op
      BY <3>1, <3>4, <3>5, <3>7, OnlyItself DEF Sound
    <3>9. \A p \in (operations \ S) \cup s : Observed(f[s].version, p.timestamp)
      BY <1>1, <3>1, <3>2, <3>4, <3>8
    <3>10. QED
      BY <3>7, <3>9
  <2>4. QED
    BY <2>2, <2>3
<1>8. Right(S)
  BY <1>7
<1>9. QED
  BY <1>3, <1>6, <1>8

(* A replica that gets all operations at last, in the worst order, has     *)
(* observed every one and defers none: nothing is stuck for ever           *)
(* (apply_ops, flush_deferred_ops, text.rs:909, 1276).                     *)
THEOREM CatchesUpTheorem == Spec => []CatchesUp
<1>1. IInv => CatchesUp
  <2>1. SUFFICES ASSUME IInv, NEW r \in Replicas, NEW b, b = buffer[r]
                 PROVE  LET c == FlushDeferredOps(ApplyEach(b, operations, Earliest))
                        IN  /\ c.deferred_ops = {}
                            /\ \A op \in operations : Observed(c.version, op.timestamp)
    BY DEF CatchesUp
  <2>2. OpsOK /\ Sound(b) /\ Shown(b)
    BY <2>1 DEF IInv
  <2>3. PICK d : d = ApplyEach(b, operations, Earliest)
    OBVIOUS
  <2>4. Sound(d) /\ Shown(d) /\ \A op \in operations : Reached(d, op)
    BY <2>2, <2>3, AllReached
  <2>5. QED
    BY <2>2, <2>3, <2>4, FlushCompletes
<1>2. QED
  BY <1>1, InvariantTheorem, PTL
=============================================================================
