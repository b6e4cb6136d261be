--------------------------- MODULE WatchSnapshot ---------------------------
(***************************************************************************)
(* The lock-free latest-value channel, src/crates/watch/src/snapshot.rs.   *)
(*                                                                         *)
(* One sender thread and several receiver tasks share three atomics:       *)
(* `latest` (an ArcSwap), `receivers` (an ArcSwap of the registry) and     *)
(* `closed` (an AtomicBool), plus one AtomicWaker per receiver.  Every     *)
(* access to a shared atomic is one step, so the model contains every      *)
(* interleaving of publication, closure and polling.  A value is           *)
(* identified with the number of its publication, which is also its        *)
(* version: MaxSends stays far below the 2^64 at which the version wraps.  *)
(***************************************************************************)
EXTENDS Naturals

CONSTANTS
    Receivers,  \* receiver handles that may ever exist
    MaxSends    \* bound on the number of sends

ASSUME MaxSendsAssumption == MaxSends \in Nat

VARIABLES
    latest,     \* State::latest (the version of the stored value)
    closed,     \* State::closed
    receivers,  \* State::receivers
    senderPc,   \* where the sender thread is
    toWake,     \* the handles wake_receivers has loaded and not yet visited
    result,     \* the local `result` of wake_receivers
    pc,         \* pc[r]: where the task owning receiver r is
    version,    \* version[r]: Receiver::version
    waker,      \* waker[r]: a waker is stored in r's AtomicWaker
    woken,      \* woken[r]: the task waiting on r is scheduled to poll again
    closedSeen, \* closedSeen[r]: the local `closed` of the poll under way
    told        \* told[r]: a poll of r has returned NoSenderError

senderVars == <<latest, closed, senderPc, toWake, result>>
pollVars == <<pc, version, waker, woken, closedSeen, told>>
vars == <<latest, closed, receivers, senderPc, toWake, result,
          pc, version, waker, woken, closedSeen, told>>

Pc == {"unborn", "idle", "registered", "checked", "pending", "ready",
       "dropped"}
SenderPc == {"idle", "published", "waking", "dropped", "dropWaking", "gone"}

(* The receiver exists: its Arc<AtomicWaker> can still be upgraded. *)
Alive(r) == pc[r] \notin {"unborn", "dropped"}

(* A `Changed` future borrows the receiver between its creation and drop. *)
Waiting(r) == pc[r] \in {"registered", "checked", "pending", "ready"}

TypeOK ==
    /\ latest \in 0 .. MaxSends
    /\ closed \in BOOLEAN
    /\ receivers \in SUBSET Receivers
    /\ senderPc \in SenderPc
    /\ toWake \in SUBSET Receivers
    /\ result \in {"Ok", "NoReceiverError"}
    /\ pc \in [Receivers -> Pc]
    /\ version \in [Receivers -> 0 .. MaxSends]
    /\ waker \in [Receivers -> BOOLEAN]
    /\ woken \in [Receivers -> BOOLEAN]
    /\ closedSeen \in [Receivers -> BOOLEAN]
    /\ told \in [Receivers -> BOOLEAN]

(* channel: a sender and one receiver that has seen the initial value. *)
Init ==
    /\ latest = 0
    /\ closed = FALSE
    /\ senderPc = "idle"
    /\ toWake = {}
    /\ result = "Ok"
    /\ \E r \in Receivers :
          /\ receivers = {r}
          /\ pc = [q \in Receivers |-> IF q = r THEN "idle" ELSE "unborn"]
    /\ version = [r \in Receivers |-> 0]
    /\ waker = [r \in Receivers |-> FALSE]
    /\ woken = [r \in Receivers |-> FALSE]
    /\ closedSeen = [r \in Receivers |-> FALSE]
    /\ told = [r \in Receivers |-> FALSE]

-----------------------------------------------------------------------------
(* The sender.                                                             *)

(* Sender::send up to the store.  Only the sender writes `latest`, so the  *)
(* load of the old version and the store of the new one are one step.      *)
Send ==
    /\ senderPc = "idle"
    /\ latest < MaxSends
    /\ latest' = latest + 1
    /\ senderPc' = "published"
    /\ UNCHANGED <<closed, receivers, toWake, result, pollVars>>

(* Mutant of DropSender: closing wakes nobody. *)
DropSenderSilently ==
    /\ senderPc = "idle"
    /\ closed' = TRUE
    /\ senderPc' = "gone"
    /\ UNCHANGED <<latest, receivers, toWake, result, pollVars>>

(* Drop for Sender up to the store. *)
DropSender ==
    /\ senderPc = "idle"
    /\ closed' = TRUE
    /\ senderPc' = "dropped"
    /\ UNCHANGED <<latest, receivers, toWake, result, pollVars>>

(* wake_receivers: the registry is loaded once ... *)
LoadReceivers ==
    /\ senderPc \in {"published", "dropped"}
    /\ toWake' = receivers
    /\ result' = "NoReceiverError"
    /\ senderPc' = IF senderPc = "published" THEN "waking" ELSE "dropWaking"
    /\ UNCHANGED <<latest, closed, receivers, pollVars>>

(* ... and its entries are visited one by one.  AtomicWaker::wake takes    *)
(* the stored waker, if there is one, and schedules its task.  For a       *)
(* dropped receiver the upgrade fails and nothing is woken.                *)
WakeOne(r) ==
    /\ senderPc \in {"waking", "dropWaking"}
    /\ r \in toWake
    /\ toWake' = toWake \ {r}
    /\ result' = IF Alive(r) THEN "Ok" ELSE result
    /\ waker' = [waker EXCEPT ![r] = FALSE]
    /\ woken' = [woken EXCEPT ![r] = woken[r] \/ (Alive(r) /\ waker[r])]
    /\ UNCHANGED <<latest, closed, receivers, senderPc,
                   pc, version, closedSeen, told>>

WakeDone ==
    /\ senderPc \in {"waking", "dropWaking"}
    /\ toWake = {}
    /\ senderPc' = IF senderPc = "waking" THEN "idle" ELSE "gone"
    /\ UNCHANGED <<latest, closed, receivers, toWake, result, pollVars>>

-----------------------------------------------------------------------------
(* Creating and dropping receivers.                                        *)

(* Mutant of Subscribe: every receiver starts at the initial version. *)
SubscribeAtZero(r, v) ==
    /\ pc[r] = "unborn"
    /\ pc' = [pc EXCEPT ![r] = "idle"]
    /\ version' = [version EXCEPT ![r] = 0]
    /\ receivers' = receivers \cup {r}
    /\ UNCHANGED <<senderVars, waker, woken, closedSeen, told>>

(* State::subscribe: the registry is extended by an atomic rcu. *)
Subscribe(r, v) ==
    /\ pc[r] = "unborn"
    /\ pc' = [pc EXCEPT ![r] = "idle"]
    /\ version' = [version EXCEPT ![r] = v]
    /\ receivers' = receivers \cup {r}
    /\ UNCHANGED <<senderVars, waker, woken, closedSeen, told>>

(* Sender::receiver borrows the sender, so no send is under way. *)
NewReceiver(r) ==
    /\ senderPc = "idle"
    /\ Subscribe(r, latest)

(* Receiver::clone borrows the receiver q, so no future of q exists. *)
CloneReceiver(q, r) ==
    /\ pc[q] = "idle"
    /\ Subscribe(r, version[q])

DropReceiver(r) ==
    /\ pc[r] = "idle"
    /\ pc' = [pc EXCEPT ![r] = "dropped"]
    /\ receivers' = receivers \ {r}
    /\ UNCHANGED <<senderVars, version, waker, woken, closedSeen, told>>

-----------------------------------------------------------------------------
(* Reading and waiting.                                                    *)

Snapshot(r) ==
    /\ pc[r] = "idle"
    /\ version' = [version EXCEPT ![r] = latest]
    /\ UNCHANGED <<senderVars, receivers, pc, waker, woken, closedSeen, told>>

(* Mutant of PollRegister: the waker is registered by the first poll only. *)
PollRegisterOnce(r) ==
    /\ pc[r] \in {"idle", "pending"}
    /\ pc' = [pc EXCEPT ![r] = "registered"]
    /\ waker' = [waker EXCEPT ![r] = waker[r] \/ pc[r] = "idle"]
    /\ woken' = [woken EXCEPT ![r] = FALSE]
    /\ UNCHANGED <<senderVars, receivers, version, closedSeen, told>>

(* Changed::poll, first step: the first poll of a new future, the poll of  *)
(* a woken task, or a spurious poll.  Being polled consumes the wake-up.   *)
PollRegister(r) ==
    /\ pc[r] \in {"idle", "pending"}
    /\ pc' = [pc EXCEPT ![r] = "registered"]
    /\ waker' = [waker EXCEPT ![r] = TRUE]
    /\ woken' = [woken EXCEPT ![r] = FALSE]
    /\ UNCHANGED <<senderVars, receivers, version, closedSeen, told>>

PollLoadClosed(r) ==
    /\ pc[r] = "registered"
    /\ closedSeen' = [closedSeen EXCEPT ![r] = closed]
    /\ pc' = [pc EXCEPT ![r] = "checked"]
    /\ UNCHANGED <<senderVars, receivers, version, waker, woken, told>>

(* Mutant of PollLoadLatest: closure is looked at before the version. *)
PollClosedFirst(r) ==
    /\ pc[r] = "checked"
    /\ pc' = [pc EXCEPT ![r] = IF closedSeen[r] \/ latest # version[r]
                               THEN "ready" ELSE "pending"]
    /\ told' = [told EXCEPT ![r] = @ \/ closedSeen[r]]
    /\ version' = [version EXCEPT ![r] = IF closedSeen[r] THEN @ ELSE latest]
    /\ closedSeen' = [closedSeen EXCEPT ![r] = FALSE]
    /\ UNCHANGED <<senderVars, receivers, waker, woken>>

(* Last step: load the value and decide. *)
PollLoadLatest(r) ==
    /\ pc[r] = "checked"
    /\ \/ /\ latest # version[r]
          /\ version' = [version EXCEPT ![r] = latest]
          /\ pc' = [pc EXCEPT ![r] = "ready"]
          /\ UNCHANGED told
       \/ /\ latest = version[r]
          /\ closedSeen[r]
          /\ told' = [told EXCEPT ![r] = TRUE]
          /\ pc' = [pc EXCEPT ![r] = "ready"]
          /\ UNCHANGED version
       \/ /\ latest = version[r]
          /\ ~closedSeen[r]
          /\ pc' = [pc EXCEPT ![r] = "pending"]
          /\ UNCHANGED <<version, told>>
    /\ closedSeen' = [closedSeen EXCEPT ![r] = FALSE]
    /\ UNCHANGED <<senderVars, receivers, waker, woken>>

(* Drop for Changed: after completion, or cancelling a pending wait. *)
DropChanged(r) ==
    /\ pc[r] \in {"pending", "ready"}
    /\ pc' = [pc EXCEPT ![r] = "idle"]
    /\ waker' = [waker EXCEPT ![r] = FALSE]
    /\ woken' = [woken EXCEPT ![r] = FALSE]
    /\ UNCHANGED <<senderVars, receivers, version, closedSeen, told>>

WakeReceivers == LoadReceivers \/ WakeDone \/ \E r \in Receivers : WakeOne(r)

Poll(r) == PollRegister(r) \/ PollLoadClosed(r) \/ PollLoadLatest(r)

Next ==
    \/ Send
    \/ DropSender
    \/ WakeReceivers
    \/ \E r \in Receivers :
          \/ NewReceiver(r)
          \/ \E q \in Receivers : CloneReceiver(q, r)
          \/ DropReceiver(r)
          \/ Snapshot(r)
          \/ Poll(r)
          \/ DropChanged(r)

Spec == Init /\ [][Next]_vars

(* The sender thread runs to the end of a call it has entered, and the     *)
(* executor polls a task whose waker fired and runs a started poll to its  *)
(* end.                                                                    *)
PollWoken(r) == woken[r] /\ PollRegister(r)

Fairness ==
    /\ WF_vars(WakeReceivers)
    /\ \A r \in Receivers :
          /\ WF_vars(PollWoken(r))
          /\ WF_vars(PollLoadClosed(r) \/ PollLoadLatest(r))

FairSpec == Spec /\ Fairness

-----------------------------------------------------------------------------
(* Properties.                                                             *)

(* The sender's current call is still going to wake r. *)
WakeComing(r) ==
    \/ senderPc \in {"published", "dropped"} /\ r \in receivers
    \/ senderPc \in {"waking", "dropWaking"} /\ r \in toWake

(* No wake-up is lost ("Register before checking so a racing publication   *)
(* cannot go unnoticed", snapshot.rs:216): a parked future that nobody has *)
(* woken or is about to wake has seen the latest publication, and the      *)
(* channel is open.                                                        *)
NoLostWakeup ==
    \A r \in Receivers :
        pc[r] = "pending" /\ ~woken[r] /\ ~(WakeComing(r) /\ waker[r])
            => latest = version[r] /\ ~closed

(* "closure cannot hide a final publication that raced with this poll"     *)
(* (snapshot.rs:218-219): a receiver told that the sender is gone has seen *)
(* the final publication.                                                  *)
ClosureHidesNothing ==
    \A r \in Receivers : told[r] => closed /\ version[r] = latest

Contract == INSTANCE WatchContract WITH
    published <- latest, seen <- version,
    live <- {r \in Receivers : Alive(r)}

(* The channel implements the contract of the crate's documentation.       *)
ImplementsContract == Contract!Spec

(* A wait for a publication that was made, or for a closed channel, ends   *)
(* (or is cancelled): wake_receivers reaches every parked future.          *)
WaitEnds ==
    \A r \in Receivers :
        (Waiting(r) /\ (latest # version[r] \/ closed))
            ~> pc[r] \in {"ready", "idle", "dropped"}
=============================================================================
