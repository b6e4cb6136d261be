------------------------------- MODULE Watch -------------------------------
(***************************************************************************)
(* The lock-based latest-value channel, src/crates/watch/src/watch.rs.     *)
(*                                                                         *)
(* `State` is behind a reader/writer lock: an operation that holds the     *)
(* lock is one step, except that `send` looks for receivers BEFORE it      *)
(* takes the lock and fires the wakers it took AFTER it has released it.   *)
(* A receiver holding the guard of `borrow` keeps writers out.             *)
(***************************************************************************)
EXTENDS Naturals

CONSTANTS
    Receivers,  \* receiver handles that may ever exist
    MaxSends,   \* bound on the number of sends
    MaxPolls    \* bound on the number of waker registrations

ASSUME WatchAssumption == MaxSends \in Nat /\ MaxPolls \in Nat

VARIABLES
    value,      \* State::value (values are numbered by the sends)
    version,    \* State::version
    wakers,     \* State::wakers, as a set of <<waker id, receiver>>
    next_waker_id, \* State::next_waker_id
    closed,     \* State::closed
    senderPc,   \* "idle", "writing" (about to take the lock), "waking" (lock
                \* released, wakers to fire), "gone"
    toWake,     \* receivers whose taken wakers send has still to fire
    pc,         \* pc[r]: what the owner of receiver r is doing: "unborn", "idle",
                \* "borrowing", "pending", "ready", "dropped"
    seen,       \* seen[r]: Receiver::version
    pending_waker_id, \* pending_waker_id[r]: Changed::pending_waker_id, 0 = None
    woken,      \* woken[r]: the task waiting on r is scheduled to poll again
    told,       \* told[r]: a poll of r has returned NoSenderError
    known       \* known[r]: history, State::value when seen[r] was last set

stateVars == <<value, version, wakers, next_waker_id, closed>>
vars == <<value, version, wakers, next_waker_id, closed, senderPc, toWake,
          pc, seen, pending_waker_id, woken, told, known>>

Alive(r) == pc[r] \notin {"unborn", "dropped"}

(* No read guard is out: the write lock can be taken. *)
Writable == \A r \in Receivers : pc[r] # "borrowing"

Init ==
    /\ value = 0
    /\ version = 0
    /\ wakers = {}
    /\ next_waker_id = 0
    /\ closed = FALSE
    /\ senderPc = "idle"
    /\ toWake = {}
    /\ \E r \in Receivers :
          pc = [q \in Receivers |-> IF q = r THEN "idle" ELSE "unborn"]
    /\ seen = [r \in Receivers |-> 0]
    /\ pending_waker_id = [r \in Receivers |-> 0]
    /\ woken = [r \in Receivers |-> FALSE]
    /\ told = [r \in Receivers |-> FALSE]
    /\ known = [r \in Receivers |-> 0]

-----------------------------------------------------------------------------
(* The sender.                                                             *)

(* Mutant of SendUnobserved: the uniqueness of the Arc is not checked. *)
SendUnchecked ==
    /\ senderPc = "idle"
    /\ value < MaxSends
    /\ value' = value + 1
    /\ UNCHANGED <<version, wakers, next_waker_id, closed, senderPc, toWake,
                   pc, seen, pending_waker_id, woken, told, known>>

(* send when Arc::get_mut succeeds: the sender holds the only reference.   *)
(* The value is replaced under the same version.                           *)
SendUnobserved ==
    /\ senderPc = "idle"
    /\ \A r \in Receivers : ~Alive(r)
    /\ value < MaxSends
    /\ value' = value + 1
    /\ UNCHANGED <<version, wakers, next_waker_id, closed, senderPc, toWake,
                   pc, seen, pending_waker_id, woken, told, known>>

(* send when Arc::get_mut fails ... *)
SendShared ==
    /\ senderPc = "idle"
    /\ \E r \in Receivers : Alive(r)
    /\ value < MaxSends
    /\ senderPc' = "writing"
    /\ UNCHANGED <<stateVars, toWake, pc, seen, pending_waker_id, woken, told, known>>

(* ... and its work under the lock; the receivers may be gone by then. *)
Send ==
    /\ senderPc = "writing"
    /\ Writable
    /\ value' = value + 1
    /\ version' = version + 1
    /\ wakers' = {}
    /\ toWake' = {w[2] : w \in wakers}
    /\ senderPc' = "waking"
    /\ UNCHANGED <<next_waker_id, closed,
                   pc, seen, pending_waker_id, woken, told, known>>

(* One taken waker is fired.  A task that is not waiting any more (its     *)
(* future completed or was cancelled in the meantime) is not affected.     *)
WakeOne(r) ==
    /\ senderPc = "waking"
    /\ r \in toWake
    /\ toWake' = toWake \ {r}
    /\ woken' = [woken EXCEPT ![r] = @ \/ pc[r] = "pending"]
    /\ UNCHANGED <<stateVars, senderPc, pc, seen, pending_waker_id, told, known>>

WakeDone ==
    /\ senderPc = "waking"
    /\ toWake = {}
    /\ senderPc' = "idle"
    /\ UNCHANGED <<stateVars, toWake,
                   pc, seen, pending_waker_id, woken, told, known>>

(* Mutant of DropSender: closing wakes nobody. *)
DropSenderSilently ==
    /\ senderPc = "idle"
    /\ Writable
    /\ closed' = TRUE
    /\ senderPc' = "gone"
    /\ UNCHANGED <<value, version, wakers, next_waker_id, toWake,
                   pc, seen, pending_waker_id, woken, told, known>>

(* Drop for Sender: the wakers are fired under the lock. *)
DropSender ==
    /\ senderPc = "idle"
    /\ Writable
    /\ closed' = TRUE
    /\ wakers' = {}
    /\ woken' = [r \in Receivers |-> woken[r] \/ \E w \in wakers : w[2] = r]
    /\ senderPc' = "gone"
    /\ UNCHANGED <<value, version, next_waker_id, toWake,
                   pc, seen, pending_waker_id, told, known>>

-----------------------------------------------------------------------------
(* Creating, reading and dropping receivers.                               *)

NewReceiver(r) ==
    /\ senderPc = "idle"
    /\ pc[r] = "unborn"
    /\ pc' = [pc EXCEPT ![r] = "idle"]
    /\ seen' = [seen EXCEPT ![r] = version]
    /\ known' = [known EXCEPT ![r] = value]
    /\ UNCHANGED <<stateVars, senderPc, toWake, pending_waker_id, woken, told>>

CloneReceiver(q, r) ==
    /\ pc[q] = "idle"
    /\ pc[r] = "unborn"
    /\ pc' = [pc EXCEPT ![r] = "idle"]
    /\ seen' = [seen EXCEPT ![r] = seen[q]]
    /\ known' = [known EXCEPT ![r] = known[q]]
    /\ UNCHANGED <<stateVars, senderPc, toWake, pending_waker_id, woken, told>>

DropReceiver(r) ==
    /\ pc[r] = "idle"
    /\ pc' = [pc EXCEPT ![r] = "dropped"]
    /\ UNCHANGED <<stateVars, senderPc, toWake, seen, pending_waker_id, woken,
                   told, known>>

(* borrow: marks the version as seen and keeps the read guard. *)
Borrow(r) ==
    /\ pc[r] = "idle"
    /\ pc' = [pc EXCEPT ![r] = "borrowing"]
    /\ seen' = [seen EXCEPT ![r] = version]
    /\ known' = [known EXCEPT ![r] = value]
    /\ UNCHANGED <<stateVars, senderPc, toWake, pending_waker_id, woken, told>>

ReleaseBorrow(r) ==
    /\ pc[r] = "borrowing"
    /\ pc' = [pc EXCEPT ![r] = "idle"]
    /\ UNCHANGED <<stateVars, senderPc, toWake, seen, pending_waker_id, woken,
                   told, known>>

-----------------------------------------------------------------------------
(* Changed::poll: the first poll of a new future, the poll of a woken task *)
(* or a spurious poll.                                                     *)

CanPoll(r) == pc[r] \in {"idle", "pending"}

(* Mutant of PollChanged: publications are taken one by one. *)
PollChangedByOne(r) ==
    /\ CanPoll(r)
    /\ version # seen[r]
    /\ pending_waker_id' = [pending_waker_id EXCEPT ![r] = 0]
    /\ seen' = [seen EXCEPT ![r] = @ + 1]
    /\ known' = [known EXCEPT ![r] = value]
    /\ pc' = [pc EXCEPT ![r] = "ready"]
    /\ woken' = [woken EXCEPT ![r] = FALSE]
    /\ UNCHANGED <<stateVars, senderPc, toWake, told>>

PollChanged(r) ==
    /\ CanPoll(r)
    /\ version # seen[r]
    /\ pending_waker_id' = [pending_waker_id EXCEPT ![r] = 0]
    /\ seen' = [seen EXCEPT ![r] = version]
    /\ known' = [known EXCEPT ![r] = value]
    /\ pc' = [pc EXCEPT ![r] = "ready"]
    /\ woken' = [woken EXCEPT ![r] = FALSE]
    /\ UNCHANGED <<stateVars, senderPc, toWake, told>>

PollClosed(r) ==
    /\ CanPoll(r)
    /\ version = seen[r]
    /\ closed
    /\ told' = [told EXCEPT ![r] = TRUE]
    /\ pc' = [pc EXCEPT ![r] = "ready"]
    /\ woken' = [woken EXCEPT ![r] = FALSE]
    /\ UNCHANGED <<stateVars, senderPc, toWake, seen, pending_waker_id, known>>

(* Mutant of PollPending: a spurious poll leaves its old waker behind. *)
PollPendingLeaks(r) ==
    /\ CanPoll(r)
    /\ version = seen[r]
    /\ ~closed
    /\ Writable
    /\ next_waker_id < MaxPolls
    /\ next_waker_id' = next_waker_id + 1
    /\ wakers' = wakers \cup {<<next_waker_id', r>>}
    /\ pending_waker_id' = [pending_waker_id EXCEPT ![r] = next_waker_id']
    /\ pc' = [pc EXCEPT ![r] = "pending"]
    /\ woken' = [woken EXCEPT ![r] = FALSE]
    /\ UNCHANGED <<value, version, closed, senderPc, toWake, seen, told, known>>

(* The upgrade of the lock waits for read guards to be released. *)
PollPending(r) ==
    /\ CanPoll(r)
    /\ version = seen[r]
    /\ ~closed
    /\ Writable
    /\ next_waker_id < MaxPolls
    /\ next_waker_id' = next_waker_id + 1
    /\ wakers' = {w \in wakers : w[1] # pending_waker_id[r]}
                    \cup {<<next_waker_id', r>>}
    /\ pending_waker_id' = [pending_waker_id EXCEPT ![r] = next_waker_id']
    /\ pc' = [pc EXCEPT ![r] = "pending"]
    /\ woken' = [woken EXCEPT ![r] = FALSE]
    /\ UNCHANGED <<value, version, closed, senderPc, toWake, seen, told, known>>

(* Drop for Changed: after completion, or cancelling a pending wait.  Only *)
(* a registered future takes the write lock.                               *)
DropChanged(r) ==
    /\ pc[r] \in {"pending", "ready"}
    /\ pending_waker_id[r] # 0 => Writable
    /\ wakers' = {w \in wakers : w[1] # pending_waker_id[r]}
    /\ pending_waker_id' = [pending_waker_id EXCEPT ![r] = 0]
    /\ pc' = [pc EXCEPT ![r] = "idle"]
    /\ woken' = [woken EXCEPT ![r] = FALSE]
    /\ UNCHANGED <<value, version, next_waker_id, closed, senderPc, toWake,
                   seen, told, known>>

Poll(r) == PollChanged(r) \/ PollClosed(r) \/ PollPending(r)

FireWakers == WakeDone \/ \E r \in Receivers : WakeOne(r)

Next ==
    \/ SendUnobserved
    \/ SendShared
    \/ Send
    \/ FireWakers
    \/ DropSender
    \/ \E r \in Receivers :
          \/ NewReceiver(r)
          \/ \E q \in Receivers : CloneReceiver(q, r)
          \/ DropReceiver(r)
          \/ Borrow(r)
          \/ ReleaseBorrow(r)
          \/ Poll(r)
          \/ DropChanged(r)

Spec == Init /\ [][Next]_vars

-----------------------------------------------------------------------------
(* Properties.                                                             *)

(* No wake-up is lost between the registration in Changed::poll and the    *)
(* wakers taken by send or by the drop of the sender: a parked future that *)
(* was not woken and is not about to be has seen everything.               *)
NoLostWakeup ==
    \A r \in Receivers :
        pc[r] = "pending" /\ ~woken[r] /\ r \notin toWake
            => version = seen[r] /\ ~closed

(* Registered wakers belong to waiting futures: none leaks, whatever the   *)
(* order of wakes, spurious polls and cancellations.  This is what the     *)
(* debug_assert of send (watch.rs:100) and the comments at 157-160 and     *)
(* 177-178 rely on.                                                        *)
NoWakerLeak ==
    \A w \in wakers : pc[w[2]] = "pending" /\ pending_waker_id[w[2]] = w[1]

(* A receiver whose version is current knows the current value: the path   *)
(* of send that does not bump the version (watch.rs:97-101) is never taken *)
(* behind the back of a receiver.                                          *)
CurrentVersionMeansCurrentValue ==
    \A r \in Receivers : Alive(r) /\ seen[r] = version => known[r] = value

Contract == INSTANCE WatchContract WITH
    published <- version,
    live <- {r \in Receivers : Alive(r)}

(* The channel implements the contract of the crate's documentation.       *)
ImplementsContract == Contract!Spec

=============================================================================
