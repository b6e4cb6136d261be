---------------------------- MODULE WatchProofs ----------------------------
(***************************************************************************)
(* Proofs about Watch, for any set of receivers, any number of sends and   *)
(* any number of polls: no wake-up is lost, no waker leaks, a version that *)
(* is current stands for the current value, and the channel implements the *)
(* contract.                                                               *)
(***************************************************************************)
EXTENDS Watch, TLAPS

Pc == {"unborn", "idle", "borrowing", "pending", "ready", "dropped"}

TypeOK ==
    /\ value \in Nat
    /\ version \in Nat
    /\ next_waker_id \in Nat
    /\ wakers \subseteq (1 .. next_waker_id) \X Receivers
    /\ closed \in BOOLEAN
    /\ senderPc \in {"idle", "writing", "waking", "gone"}
    /\ toWake \subseteq Receivers
    /\ pc \in [Receivers -> Pc]
    /\ seen \in [Receivers -> Nat]
    /\ pending_waker_id \in [Receivers -> 0 .. next_waker_id]
    /\ woken \in [Receivers -> BOOLEAN]
    /\ told \in [Receivers -> BOOLEAN]
    /\ known \in [Receivers -> Nat]

ClosedMatchesSender == closed <=> senderPc = "gone"

(* Wakers are fired before send can be called again. *)
OnlySendWakes == toWake # {} => senderPc = "waking"

(* Two futures are never registered under one id. *)
IdsUnique ==
    \A q, r \in Receivers :
        pending_waker_id[q] = pending_waker_id[r] /\ pending_waker_id[r] # 0 => q = r

(* Who is registered has seen everything: whatever could make a poll       *)
(* return takes the wakers.                                                *)
RegisteredUpToDate ==
    \A w \in wakers : seen[w[2]] = version /\ ~closed

(* Who is parked is registered, unless its waker was taken. *)
PendingRegistered ==
    \A r \in Receivers :
        pc[r] = "pending" /\ ~woken[r] /\ r \notin toWake
            => <<pending_waker_id[r], r>> \in wakers

(* No receiver is ahead, and each version has a value of its own. *)
NobodyAhead ==
    /\ \A r \in Receivers : seen[r] <= version
    /\ version <= value
    /\ value <= MaxSends
    /\ senderPc = "writing" => value < MaxSends

(* The inductive invariant. *)
IInv ==
    /\ TypeOK
    /\ ClosedMatchesSender
    /\ OnlySendWakes
    /\ IdsUnique
    /\ NoWakerLeak
    /\ RegisteredUpToDate
    /\ PendingRegistered
    /\ NobodyAhead
    /\ CurrentVersionMeansCurrentValue

LEMMA InitIInv == Init => IInv
<1> SUFFICES ASSUME Init PROVE IInv
  OBVIOUS
<1> USE WatchAssumption
<1>1. PICK r0 \in Receivers :
        pc = [q \in Receivers |-> IF q = r0 THEN "idle" ELSE "unborn"]
  BY DEF Init
<1>2. TypeOK
  <2>1. pc \in [Receivers -> Pc]
    BY <1>1 DEF Pc
  <2>2. wakers \subseteq (1 .. next_waker_id) \X Receivers
    BY DEF Init
  <2>3. /\ value \in Nat /\ version \in Nat /\ next_waker_id \in Nat
        /\ closed \in BOOLEAN
        /\ senderPc \in {"idle", "writing", "waking", "gone"}
        /\ toWake \subseteq Receivers
    BY DEF Init
  <2>4. /\ seen \in [Receivers -> Nat]
        /\ pending_waker_id \in [Receivers -> 0 .. next_waker_id]
        /\ known \in [Receivers -> Nat]
    BY DEF Init
  <2>5. woken \in [Receivers -> BOOLEAN] /\ told \in [Receivers -> BOOLEAN]
    BY DEF Init
  <2> QED
    BY <2>1, <2>2, <2>3, <2>4, <2>5 DEF TypeOK
<1>3. ClosedMatchesSender /\ OnlySendWakes /\ IdsUnique /\ NobodyAhead
  BY DEF Init, ClosedMatchesSender, OnlySendWakes, IdsUnique, NobodyAhead
<1>4. NoWakerLeak /\ RegisteredUpToDate
  BY DEF Init, NoWakerLeak, RegisteredUpToDate
<1>5. PendingRegistered /\ CurrentVersionMeansCurrentValue
  BY <1>1 DEF Init, PendingRegistered, CurrentVersionMeansCurrentValue
<1> QED
  BY <1>2, <1>3, <1>4, <1>5 DEF IInv

(* The type invariant alone is preserved by every step. *)
LEMMA NextTypeOK == TypeOK /\ [Next]_vars => TypeOK'
<1> SUFFICES ASSUME TypeOK, [Next]_vars PROVE TypeOK'
  OBVIOUS
<1> USE DEF TypeOK, Pc
<1>1. CASE SendUnobserved
  BY <1>1 DEF SendUnobserved, stateVars
<1>2. CASE Send
  BY <1>2 DEF Send, stateVars
<1>16. CASE SendShared
  BY <1>16 DEF SendShared, stateVars
<1>3. CASE WakeDone
  BY <1>3 DEF WakeDone, stateVars
<1>4. CASE DropSender
  BY <1>4 DEF DropSender, stateVars
<1>5. ASSUME NEW r \in Receivers, WakeOne(r) PROVE TypeOK'
  BY <1>5 DEF WakeOne, stateVars
<1>6. ASSUME NEW r \in Receivers, NewReceiver(r) PROVE TypeOK'
  BY <1>6 DEF NewReceiver, stateVars
<1>7. ASSUME NEW q \in Receivers, NEW r \in Receivers, CloneReceiver(q, r)
      PROVE  TypeOK'
  BY <1>7 DEF CloneReceiver, stateVars
<1>8. ASSUME NEW r \in Receivers, DropReceiver(r) PROVE TypeOK'
  BY <1>8 DEF DropReceiver, stateVars
<1>9. ASSUME NEW r \in Receivers, Borrow(r) PROVE TypeOK'
  BY <1>9 DEF Borrow, stateVars
<1>10. ASSUME NEW r \in Receivers, ReleaseBorrow(r) PROVE TypeOK'
  BY <1>10 DEF ReleaseBorrow, stateVars
<1>11. ASSUME NEW r \in Receivers, PollChanged(r) PROVE TypeOK'
  BY <1>11 DEF PollChanged, stateVars, CanPoll
<1>12. ASSUME NEW r \in Receivers, PollClosed(r) PROVE TypeOK'
  BY <1>12 DEF PollClosed, stateVars, CanPoll
<1>13. ASSUME NEW r \in Receivers, PollPending(r) PROVE TypeOK'
  BY <1>13 DEF PollPending, stateVars, CanPoll
<1>14. ASSUME NEW r \in Receivers, DropChanged(r) PROVE TypeOK'
  BY <1>14 DEF DropChanged, stateVars
<1>15. CASE UNCHANGED vars
  BY <1>15 DEF vars
<1> QED
  BY <1>1, <1>2, <1>3, <1>4, <1>5, <1>6, <1>7, <1>8, <1>9, <1>10, <1>11,
     <1>12, <1>13, <1>14, <1>15, <1>16
     DEF Next, FireWakers, Poll

(* Every step of the sender and of every receiver preserves the invariant. *)
LEMMA NextIInv == IInv /\ [Next]_vars => IInv'
<1> SUFFICES ASSUME IInv, [Next]_vars PROVE IInv'
  OBVIOUS
<1> DEFINE Rest == /\ ClosedMatchesSender
                   /\ OnlySendWakes
                   /\ IdsUnique
                   /\ NoWakerLeak
                   /\ RegisteredUpToDate
                   /\ PendingRegistered
                   /\ NobodyAhead
                   /\ CurrentVersionMeansCurrentValue
<1>0. TypeOK /\ TypeOK' /\ Rest
  BY NextTypeOK DEF IInv
<1> SUFFICES Rest'
  BY <1>0 DEF IInv
<1> USE WatchAssumption, <1>0
    DEF ClosedMatchesSender, OnlySendWakes, IdsUnique, NoWakerLeak,
        RegisteredUpToDate, PendingRegistered, NobodyAhead,
        CurrentVersionMeansCurrentValue, Alive, TypeOK, Pc
<1>1. CASE SendUnobserved
  BY <1>1 DEF SendUnobserved, stateVars
<1>2. CASE Send
  <2>1. \A r \in Receivers : pc[r] = "pending" /\ ~woken[r] => r \in toWake'
    <3> SUFFICES ASSUME NEW r \in Receivers, pc[r] = "pending", ~woken[r]
                 PROVE  r \in toWake'
      OBVIOUS
    <3> DEFINE w == <<pending_waker_id[r], r>>
    <3>1. w \in wakers
      BY <1>2 DEF Send
    <3>2. w[2] = r
      OBVIOUS
    <3> HIDE DEF w
    <3> QED
      BY <1>2, <3>1, <3>2 DEF Send
  <2>2. PendingRegistered'
    BY <1>2, <2>1 DEF Send
  <2> QED
    BY <1>2, <2>2 DEF Send
<1>16. CASE SendShared
  BY <1>16 DEF SendShared, stateVars
<1>3. CASE WakeDone
  BY <1>3 DEF WakeDone, stateVars
<1>4. CASE DropSender
  <2>1. \A r \in Receivers : pc[r] = "pending" /\ ~woken[r] => woken'[r]
    <3> SUFFICES ASSUME NEW r \in Receivers, pc[r] = "pending", ~woken[r]
                 PROVE  woken'[r]
      OBVIOUS
    <3> DEFINE w == <<pending_waker_id[r], r>>
    <3>1. w \in wakers
      BY <1>4 DEF DropSender
    <3>2. w[2] = r
      OBVIOUS
    <3> HIDE DEF w
    <3> QED
      BY <1>4, <3>1, <3>2 DEF DropSender
  <2>2. PendingRegistered'
    BY <1>4, <2>1 DEF DropSender
  <2> QED
    BY <1>4, <2>2 DEF DropSender
<1>5. ASSUME NEW r \in Receivers, WakeOne(r) PROVE Rest'
  BY <1>5 DEF WakeOne, stateVars
<1>6. ASSUME NEW r \in Receivers, NewReceiver(r) PROVE Rest'
  BY <1>6 DEF NewReceiver, stateVars
<1>7. ASSUME NEW q \in Receivers, NEW r \in Receivers, CloneReceiver(q, r)
      PROVE  Rest'
  BY <1>7 DEF CloneReceiver, stateVars
<1>8. ASSUME NEW r \in Receivers, DropReceiver(r) PROVE Rest'
  BY <1>8 DEF DropReceiver, stateVars
<1>9. ASSUME NEW r \in Receivers, Borrow(r) PROVE Rest'
  BY <1>9 DEF Borrow, stateVars
<1>10. ASSUME NEW r \in Receivers, ReleaseBorrow(r) PROVE Rest'
  BY <1>10 DEF ReleaseBorrow, stateVars
<1>11. ASSUME NEW r \in Receivers, PollChanged(r) PROVE Rest'
  BY <1>11 DEF PollChanged, stateVars, CanPoll
<1>12. ASSUME NEW r \in Receivers, PollClosed(r) PROVE Rest'
  BY <1>12 DEF PollClosed, stateVars, CanPoll
<1>13. ASSUME NEW r \in Receivers, PollPending(r) PROVE Rest'
  BY <1>13 DEF PollPending, stateVars, CanPoll
<1>14. ASSUME NEW r \in Receivers, DropChanged(r) PROVE Rest'
  BY <1>14 DEF DropChanged, stateVars
<1>15. CASE UNCHANGED vars
  BY <1>15 DEF vars
<1> QED
  BY <1>1, <1>2, <1>3, <1>4, <1>5, <1>6, <1>7, <1>8, <1>9, <1>10, <1>11,
     <1>12, <1>13, <1>14, <1>15, <1>16
     DEF Next, FireWakers, Poll

(* A future that is parked, not woken and not about to be woken has seen   *)
(* the latest publication and the channel is open: the registration of     *)
(* Changed::poll and the wakers taken by send and by the drop of the       *)
(* sender never miss each other.                                           *)
THEOREM NoLostWakeupTheorem == Spec => []NoLostWakeup
<1>1. IInv => NoLostWakeup
  <2> SUFFICES ASSUME IInv, NEW r \in Receivers,
                      pc[r] = "pending", ~woken[r], r \notin toWake
               PROVE  version = seen[r] /\ ~closed
    BY DEF NoLostWakeup
  <2> DEFINE w == <<pending_waker_id[r], r>>
  <2>1. w \in wakers
    BY DEF IInv, PendingRegistered
  <2>2. w[2] = r
    OBVIOUS
  <2> HIDE DEF w
  <2> QED
    BY <2>1, <2>2 DEF IInv, RegisteredUpToDate
<1> QED
  BY InitIInv, NextIInv, <1>1, PTL DEF Spec

(* Every registered waker belongs to a future that waits, under the id     *)
(* that future will remove it by (the debug_assert of send).               *)
THEOREM NoWakerLeakTheorem == Spec => []NoWakerLeak
<1>1. IInv => NoWakerLeak
  BY DEF IInv
<1> QED
  BY InitIInv, NextIInv, <1>1, PTL DEF Spec

(* A receiver that is at the current version knows the current value: the  *)
(* path of send without a new version is never taken while one exists.     *)
THEOREM CurrentVersionMeansCurrentValueTheorem ==
    Spec => []CurrentVersionMeansCurrentValue
<1>1. IInv => CurrentVersionMeansCurrentValue
  BY DEF IInv
<1> QED
  BY InitIInv, NextIInv, <1>1, PTL DEF Spec

-----------------------------------------------------------------------------
(* Refinement: a send that found a receiver publishes, borrow and a poll   *)
(* that finds a new version observe; the rest of the bookkeeping stutters. *)

LEMMA ContractInit == Init => Contract!Init
<1> SUFFICES ASSUME Init PROVE Contract!Init
  OBVIOUS
<1>1. PICK r0 \in Receivers :
        pc = [q \in Receivers |-> IF q = r0 THEN "idle" ELSE "unborn"]
  BY DEF Init
<1>2. {r \in Receivers : Alive(r)} = {r0}
  BY <1>1 DEF Alive
<1> QED
  BY <1>1, <1>2 DEF Init, Contract!Init

LEMMA ContractStep == IInv /\ [Next]_vars => [Contract!Next]_(Contract!vars)
<1> SUFFICES ASSUME IInv, [Next]_vars
             PROVE  Contract!Next \/ UNCHANGED Contract!vars
  OBVIOUS
<1> DEFINE Live == {r \in Receivers : Alive(r)}
<1>0. TypeOK /\ ClosedMatchesSender /\ NobodyAhead
  BY DEF IInv
<1> USE <1>0, WatchAssumption DEF TypeOK
<1>1. CASE SendUnobserved
  <2>1. Live' = Live
    BY <1>1 DEF SendUnobserved, stateVars, Alive, Pc
  <2> QED
    BY <1>1, <2>1 DEF SendUnobserved, stateVars, Contract!vars
<1>2. CASE Send
  <2>1. Live' = Live
    BY <1>2 DEF Send, stateVars, Alive, Pc
  <2> QED
    BY <1>2, <2>1 DEF Send, Contract!Publish, Contract!Next,
                      ClosedMatchesSender, NobodyAhead
<1>16. CASE SendShared
  <2>1. Live' = Live
    BY <1>16 DEF SendShared, stateVars, Alive, Pc
  <2> QED
    BY <1>16, <2>1 DEF SendShared, stateVars, Contract!vars
<1>3. CASE WakeDone
  <2>1. Live' = Live
    BY <1>3 DEF WakeDone, stateVars, Alive, Pc
  <2> QED
    BY <1>3, <2>1 DEF WakeDone, stateVars, Contract!vars
<1>4. CASE DropSender
  <2>1. Live' = Live
    BY <1>4 DEF DropSender, stateVars, Alive, Pc
  <2> QED
    BY <1>4, <2>1 DEF DropSender, Contract!Close, Contract!Next,
                      ClosedMatchesSender
<1>5. ASSUME NEW r \in Receivers, WakeOne(r) PROVE UNCHANGED Contract!vars
  <2>1. Live' = Live
    BY <1>5 DEF WakeOne, stateVars, Alive, Pc
  <2> QED
    BY <1>5, <2>1 DEF WakeOne, stateVars, Contract!vars
<1>6. ASSUME NEW r \in Receivers, NewReceiver(r) PROVE Contract!Join(r)
  <2>1. Live' = Live \cup {r} /\ r \notin Live
    BY <1>6 DEF NewReceiver, stateVars, Alive, Pc
  <2> QED
    BY <1>6, <2>1 DEF NewReceiver, stateVars, Contract!Join
<1>7. ASSUME NEW q \in Receivers, NEW r \in Receivers, CloneReceiver(q, r)
      PROVE  Contract!Join(r)
  <2>1. Live' = Live \cup {r} /\ r \notin Live /\ q \in Live
    BY <1>7 DEF CloneReceiver, stateVars, Alive, Pc
  <2> QED
    BY <1>7, <2>1 DEF CloneReceiver, stateVars, Contract!Join
<1>8. ASSUME NEW r \in Receivers, DropReceiver(r) PROVE Contract!Leave(r)
  <2>1. Live' = Live \ {r} /\ r \in Live
    BY <1>8 DEF DropReceiver, stateVars, Alive, Pc
  <2> QED
    BY <1>8, <2>1 DEF DropReceiver, stateVars, Contract!Leave
<1>9. ASSUME NEW r \in Receivers, Borrow(r) PROVE Contract!Observe(r)
  <2>1. Live' = Live /\ r \in Live
    BY <1>9 DEF Borrow, stateVars, Alive, Pc
  <2> QED
    BY <1>9, <2>1 DEF Borrow, stateVars, Contract!Observe
<1>10. ASSUME NEW r \in Receivers, ReleaseBorrow(r) PROVE UNCHANGED Contract!vars
  <2>1. Live' = Live
    BY <1>10 DEF ReleaseBorrow, stateVars, Alive, Pc
  <2> QED
    BY <1>10, <2>1 DEF ReleaseBorrow, stateVars, Contract!vars
<1>11. ASSUME NEW r \in Receivers, PollChanged(r) PROVE Contract!Observe(r)
  <2>1. Live' = Live /\ r \in Live
    BY <1>11 DEF PollChanged, stateVars, CanPoll, Alive, Pc
  <2> QED
    BY <1>11, <2>1 DEF PollChanged, stateVars, CanPoll, Contract!Observe
<1>12. ASSUME NEW r \in Receivers, PollClosed(r) PROVE Contract!ReportClosed(r)
  <2>1. Live' = Live /\ r \in Live
    BY <1>12 DEF PollClosed, stateVars, CanPoll, Alive, Pc
  <2> QED
    BY <1>12, <2>1 DEF PollClosed, stateVars, CanPoll, Contract!ReportClosed
<1>13. ASSUME NEW r \in Receivers, PollPending(r) PROVE UNCHANGED Contract!vars
  <2>1. Live' = Live
    BY <1>13 DEF PollPending, stateVars, CanPoll, Alive, Pc
  <2> QED
    BY <1>13, <2>1 DEF PollPending, stateVars, CanPoll, Contract!vars
<1>14. ASSUME NEW r \in Receivers, DropChanged(r) PROVE UNCHANGED Contract!vars
  <2>1. Live' = Live
    BY <1>14 DEF DropChanged, stateVars, Alive, Pc
  <2> QED
    BY <1>14, <2>1 DEF DropChanged, stateVars, Contract!vars
<1>15. CASE UNCHANGED vars
  BY <1>15 DEF vars, Alive, Contract!vars
<1> QED
  BY <1>1, <1>2, <1>3, <1>4, <1>5, <1>6, <1>7, <1>8, <1>9, <1>10, <1>11,
     <1>12, <1>13, <1>14, <1>15, <1>16
     DEF Next, FireWakers, Poll, Contract!Next

(* The lock-based channel implements the contract both channels share.     *)
THEOREM Refinement == Spec => ImplementsContract
<1> QED
  BY InitIInv, NextIInv, ContractInit, ContractStep, PTL
     DEF Spec, ImplementsContract, Contract!Spec

=============================================================================
