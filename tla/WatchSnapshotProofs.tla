----------------------- MODULE WatchSnapshotProofs -------------------------
(***************************************************************************)
(* Proofs about WatchSnapshot, for any set of receivers and any number of  *)
(* sends: no wake-up is lost, and closure never hides a publication.       *)
(***************************************************************************)
EXTENDS WatchSnapshot, TLAPS

(* The channel is closed exactly from the store in Drop for Sender on. *)
ClosedMatchesSender ==
    closed <=> senderPc \in {"dropped", "dropWaking", "gone"}

(* A receiver that exists is in the registry, so wake_receivers visits it. *)
AliveRegistered ==
    \A r \in Receivers : Alive(r) => r \in receivers

(* From registration to parking, the waker is stored or was fired. *)
WakerHeld ==
    \A r \in Receivers :
        pc[r] \in {"registered", "checked", "pending"} => waker[r] \/ woken[r]

(* A poll that saw the channel open and is about to look at the value will *)
(* be woken if the sender has been dropped since.                          *)
CheckedCovered ==
    \A r \in Receivers :
        pc[r] = "checked" /\ ~closedSeen[r] /\ closed
            => woken[r] \/ WakeComing(r)

(* A parked future that misses something was woken or is about to be. *)
PendingCovered ==
    \A r \in Receivers :
        pc[r] = "pending" /\ (latest # version[r] \/ closed)
            => woken[r] \/ WakeComing(r)

ClosedSeenSound ==
    \A r \in Receivers : closedSeen[r] => closed

(* A receiver that was not created yet was told nothing. *)
UnbornUntold ==
    \A r \in Receivers : pc[r] = "unborn" => ~told[r]

(* The inductive invariant. *)
IInv ==
    /\ TypeOK
    /\ ClosedMatchesSender
    /\ AliveRegistered
    /\ WakerHeld
    /\ CheckedCovered
    /\ PendingCovered
    /\ ClosedSeenSound
    /\ UnbornUntold
    /\ ClosureHidesNothing

LEMMA InitIInv == Init => IInv
<1> SUFFICES ASSUME Init PROVE IInv
  OBVIOUS
<1> USE MaxSendsAssumption
<1>1. PICK r0 \in Receivers :
        /\ receivers = {r0}
        /\ pc = [q \in Receivers |-> IF q = r0 THEN "idle" ELSE "unborn"]
  BY DEF Init
<1>2. TypeOK
  <2>1. latest \in 0 .. MaxSends /\ version \in [Receivers -> 0 .. MaxSends]
    BY DEF Init
  <2>2. pc \in [Receivers -> Pc] /\ receivers \in SUBSET Receivers
    BY <1>1 DEF Pc
  <2>3. /\ closed \in BOOLEAN
        /\ waker \in [Receivers -> BOOLEAN]
        /\ woken \in [Receivers -> BOOLEAN]
        /\ closedSeen \in [Receivers -> BOOLEAN]
        /\ told \in [Receivers -> BOOLEAN]
    BY DEF Init
  <2>4. /\ senderPc \in SenderPc
        /\ toWake \in SUBSET Receivers
        /\ result \in {"Ok", "NoReceiverError"}
    BY DEF Init, SenderPc
  <2> QED
    BY <2>1, <2>2, <2>3, <2>4 DEF TypeOK
<1>3. ClosedMatchesSender /\ AliveRegistered /\ WakerHeld
  BY <1>1 DEF Init, ClosedMatchesSender, AliveRegistered, WakerHeld, Alive
<1>4. CheckedCovered /\ PendingCovered /\ ClosedSeenSound
        /\ UnbornUntold /\ ClosureHidesNothing
  BY <1>1 DEF Init, CheckedCovered, PendingCovered, ClosedSeenSound,
              UnbornUntold, ClosureHidesNothing
<1> QED
  BY <1>2, <1>3, <1>4 DEF IInv

(* The type invariant alone is preserved by every step. *)
LEMMA NextTypeOK == TypeOK /\ [Next]_vars => TypeOK'
<1> SUFFICES ASSUME TypeOK, [Next]_vars PROVE TypeOK'
  OBVIOUS
<1> USE MaxSendsAssumption DEF TypeOK
<1>1. CASE Send
  BY <1>1 DEF Send, pollVars, SenderPc
<1>2. CASE DropSender
  BY <1>2 DEF DropSender, pollVars, SenderPc
<1>3. CASE LoadReceivers
  BY <1>3 DEF LoadReceivers, pollVars, SenderPc
<1>4. CASE WakeDone
  BY <1>4 DEF WakeDone, pollVars, SenderPc
<1>5. ASSUME NEW r \in Receivers, WakeOne(r) PROVE TypeOK'
  BY <1>5 DEF WakeOne, Alive
<1>6. ASSUME NEW r \in Receivers, NewReceiver(r) PROVE TypeOK'
  BY <1>6 DEF NewReceiver, Subscribe, senderVars, Pc
<1>7. ASSUME NEW q \in Receivers, NEW r \in Receivers, CloneReceiver(q, r)
      PROVE  TypeOK'
  BY <1>7 DEF CloneReceiver, Subscribe, senderVars, Pc
<1>8. ASSUME NEW r \in Receivers, DropReceiver(r) PROVE TypeOK'
  BY <1>8 DEF DropReceiver, senderVars, Pc
<1>9. ASSUME NEW r \in Receivers, Snapshot(r) PROVE TypeOK'
  BY <1>9 DEF Snapshot, senderVars
<1>10. ASSUME NEW r \in Receivers, PollRegister(r) PROVE TypeOK'
  BY <1>10 DEF PollRegister, senderVars, Pc
<1>11. ASSUME NEW r \in Receivers, PollLoadClosed(r) PROVE TypeOK'
  BY <1>11 DEF PollLoadClosed, senderVars, Pc
<1>12. ASSUME NEW r \in Receivers, PollLoadLatest(r) PROVE TypeOK'
  BY <1>12 DEF PollLoadLatest, senderVars, Pc
<1>13. ASSUME NEW r \in Receivers, DropChanged(r) PROVE TypeOK'
  BY <1>13 DEF DropChanged, senderVars, Pc
<1>14. CASE UNCHANGED vars
  BY <1>14 DEF vars
<1> QED
  BY <1>1, <1>2, <1>3, <1>4, <1>5, <1>6, <1>7, <1>8, <1>9, <1>10, <1>11,
     <1>12, <1>13, <1>14 DEF Next, WakeReceivers, Poll

(* Every step of the sender and of every receiver preserves the invariant. *)
LEMMA NextIInv == IInv /\ [Next]_vars => IInv'
<1> SUFFICES ASSUME IInv, [Next]_vars PROVE IInv'
  OBVIOUS
<1> DEFINE Rest == /\ ClosedMatchesSender
                   /\ AliveRegistered
                   /\ WakerHeld
                   /\ CheckedCovered
                   /\ PendingCovered
                   /\ ClosedSeenSound
                   /\ UnbornUntold
                   /\ ClosureHidesNothing
<1>0. TypeOK /\ TypeOK' /\ Rest
  BY NextTypeOK DEF IInv
<1> SUFFICES Rest'
  BY <1>0 DEF IInv
<1> USE MaxSendsAssumption, <1>0
    DEF ClosedMatchesSender, AliveRegistered, WakerHeld, CheckedCovered,
        PendingCovered, ClosedSeenSound, UnbornUntold,
        ClosureHidesNothing, WakeComing,
        Alive, TypeOK
<1>1. CASE Send
  BY <1>1 DEF Send, pollVars
<1>2. CASE DropSender
  BY <1>2 DEF DropSender, pollVars
<1>3. CASE LoadReceivers
  BY <1>3 DEF LoadReceivers, pollVars
<1>4. CASE WakeDone
  BY <1>4 DEF WakeDone, pollVars
<1>5. ASSUME NEW r \in Receivers, WakeOne(r) PROVE Rest'
  BY <1>5 DEF WakeOne
<1>6. ASSUME NEW r \in Receivers, NewReceiver(r) PROVE Rest'
  BY <1>6 DEF NewReceiver, Subscribe, senderVars
<1>7. ASSUME NEW q \in Receivers, NEW r \in Receivers, CloneReceiver(q, r)
      PROVE  Rest'
  BY <1>7 DEF CloneReceiver, Subscribe, senderVars
<1>8. ASSUME NEW r \in Receivers, DropReceiver(r) PROVE Rest'
  BY <1>8 DEF DropReceiver, senderVars
<1>9. ASSUME NEW r \in Receivers, Snapshot(r) PROVE Rest'
  BY <1>9 DEF Snapshot, senderVars
<1>10. ASSUME NEW r \in Receivers, PollRegister(r) PROVE Rest'
  BY <1>10 DEF PollRegister, senderVars
<1>11. ASSUME NEW r \in Receivers, PollLoadClosed(r) PROVE Rest'
  BY <1>11 DEF PollLoadClosed, senderVars
<1>12. ASSUME NEW r \in Receivers, PollLoadLatest(r) PROVE Rest'
  BY <1>12 DEF PollLoadLatest, senderVars
<1>13. ASSUME NEW r \in Receivers, DropChanged(r) PROVE Rest'
  BY <1>13 DEF DropChanged, senderVars
<1>14. CASE UNCHANGED vars
  BY <1>14 DEF vars
<1> QED
  BY <1>1, <1>2, <1>3, <1>4, <1>5, <1>6, <1>7, <1>8, <1>9, <1>10, <1>11,
     <1>12, <1>13, <1>14 DEF Next, WakeReceivers, Poll

(* Every state of the channel is type correct. *)
THEOREM TypeCorrect == Spec => []TypeOK
<1>1. IInv => TypeOK
  BY DEF IInv
<1> QED
  BY InitIInv, NextIInv, <1>1, PTL DEF Spec

(* A future that is parked, not woken and not about to be woken has seen   *)
(* the latest publication and the channel is open (Changed::poll and       *)
(* wake_receivers never miss each other).                                  *)
THEOREM NoLostWakeupTheorem == Spec => []NoLostWakeup
<1>1. IInv => NoLostWakeup
  BY DEF IInv, NoLostWakeup, PendingCovered, WakerHeld
<1> QED
  BY InitIInv, NextIInv, <1>1, PTL DEF Spec

(* NoSenderError is returned only to a receiver that has seen the final    *)
(* publication (Changed::poll loads `closed` before `latest`).             *)
THEOREM ClosureHidesNothingTheorem == Spec => []ClosureHidesNothing
<1>1. IInv => ClosureHidesNothing
  BY DEF IInv
<1> QED
  BY InitIInv, NextIInv, <1>1, PTL DEF Spec

-----------------------------------------------------------------------------
(* Refinement: publication is the store of `latest`, closure the store of  *)
(* `closed`, observation and the report of closure the last step of a poll.*)

LEMMA ContractInit == Init => Contract!Init
<1> SUFFICES ASSUME Init PROVE Contract!Init
  OBVIOUS
<1>1. PICK r0 \in Receivers :
        pc = [q \in Receivers |-> IF q = r0 THEN "idle" ELSE "unborn"]
  BY DEF Init
<1>2. {r \in Receivers : Alive(r)} = {r0}
  BY <1>1 DEF Alive
<1> QED
  BY <1>1, <1>2 DEF Init, Contract!Init

LEMMA ContractStep == IInv /\ [Next]_vars => [Contract!Next]_(Contract!vars)
<1> SUFFICES ASSUME IInv, [Next]_vars
             PROVE  Contract!Next \/ UNCHANGED Contract!vars
  OBVIOUS
<1> DEFINE Live == {r \in Receivers : Alive(r)}
<1>0. TypeOK /\ ClosedMatchesSender /\ ClosedSeenSound /\ UnbornUntold
  BY DEF IInv
<1> USE <1>0, MaxSendsAssumption DEF TypeOK
<1>1. CASE Send
  <2>1. Live' = Live
    BY <1>1 DEF Send, pollVars, Alive
  <2> QED
    BY <1>1, <2>1 DEF Send, pollVars, ClosedMatchesSender,
                      Contract!Next, Contract!Publish
<1>2. CASE DropSender
  <2>1. Live' = Live
    BY <1>2 DEF DropSender, pollVars, Alive
  <2> QED
    BY <1>2, <2>1 DEF DropSender, pollVars, ClosedMatchesSender,
                      Contract!Next, Contract!Close
<1>3. CASE LoadReceivers
  BY <1>3 DEF LoadReceivers, pollVars, Alive, Contract!vars
<1>4. CASE WakeDone
  BY <1>4 DEF WakeDone, pollVars, Alive, Contract!vars
<1>5. ASSUME NEW r \in Receivers, WakeOne(r) PROVE UNCHANGED Contract!vars
  BY <1>5 DEF WakeOne, Alive, Contract!vars
<1>6. ASSUME NEW r \in Receivers, NewReceiver(r) PROVE Contract!Join(r)
  <2>1. Live' = Live \cup {r} /\ r \notin Live
    BY <1>6 DEF NewReceiver, Subscribe, senderVars, Alive, Pc
  <2> QED
    BY <1>6, <2>1 DEF NewReceiver, Subscribe, senderVars, Contract!Join
<1>7. ASSUME NEW q \in Receivers, NEW r \in Receivers, CloneReceiver(q, r)
      PROVE  Contract!Join(r)
  <2>1. Live' = Live \cup {r} /\ r \notin Live /\ q \in Live
    BY <1>7 DEF CloneReceiver, Subscribe, senderVars, Alive, Pc
  <2> QED
    BY <1>7, <2>1 DEF CloneReceiver, Subscribe, senderVars, Contract!Join
<1>8. ASSUME NEW r \in Receivers, DropReceiver(r) PROVE Contract!Leave(r)
  <2>1. Live' = Live \ {r} /\ r \in Live
    BY <1>8 DEF DropReceiver, senderVars, Alive, Pc
  <2> QED
    BY <1>8, <2>1 DEF DropReceiver, senderVars, Contract!Leave
<1>9. ASSUME NEW r \in Receivers, Snapshot(r) PROVE Contract!Observe(r)
  <2>1. Live' = Live /\ r \in Live
    BY <1>9 DEF Snapshot, senderVars, Alive
  <2> QED
    BY <1>9, <2>1 DEF Snapshot, senderVars, Contract!Observe
<1>10. ASSUME NEW r \in Receivers, PollRegister(r)
       PROVE  UNCHANGED Contract!vars
  <2>1. Live' = Live
    BY <1>10 DEF PollRegister, senderVars, Alive, Pc
  <2> QED
    BY <1>10, <2>1 DEF PollRegister, senderVars, Contract!vars
<1>11. ASSUME NEW r \in Receivers, PollLoadClosed(r)
       PROVE  UNCHANGED Contract!vars
  <2>1. Live' = Live
    BY <1>11 DEF PollLoadClosed, senderVars, Alive, Pc
  <2> QED
    BY <1>11, <2>1 DEF PollLoadClosed, senderVars, Contract!vars
<1>12. ASSUME NEW r \in Receivers, PollLoadLatest(r)
       PROVE  \/ Contract!Observe(r)
              \/ Contract!ReportClosed(r)
              \/ UNCHANGED Contract!vars
  <2>1. Live' = Live /\ r \in Live
    BY <1>12 DEF PollLoadLatest, senderVars, Alive, Pc
  <2>2. CASE latest # version[r]
    BY <1>12, <2>1, <2>2 DEF PollLoadLatest, senderVars, Contract!Observe
  <2>3. CASE latest = version[r] /\ closedSeen[r]
    BY <1>12, <2>1, <2>3
       DEF PollLoadLatest, senderVars, ClosedSeenSound, Contract!ReportClosed
  <2>4. CASE latest = version[r] /\ ~closedSeen[r]
    BY <1>12, <2>1, <2>4 DEF PollLoadLatest, senderVars, Contract!vars
  <2> QED
    BY <2>2, <2>3, <2>4
<1>13. ASSUME NEW r \in Receivers, DropChanged(r)
       PROVE  UNCHANGED Contract!vars
  <2>1. Live' = Live
    BY <1>13 DEF DropChanged, senderVars, Alive, Pc
  <2> QED
    BY <1>13, <2>1 DEF DropChanged, senderVars, Contract!vars
<1>14. CASE UNCHANGED vars
  BY <1>14 DEF vars, Alive, Contract!vars
<1> QED
  BY <1>1, <1>2, <1>3, <1>4, <1>5, <1>6, <1>7, <1>8, <1>9, <1>10, <1>11,
     <1>12, <1>13, <1>14 DEF Next, WakeReceivers, Poll, Contract!Next

(* The lock-free channel implements the contract both channels share.      *)
THEOREM Refinement == Spec => ImplementsContract
<1> QED
  BY InitIInv, NextIInv, ContractInit, ContractStep, PTL
     DEF Spec, ImplementsContract, Contract!Spec

=============================================================================
