--------------------------- MODULE WatchContract ---------------------------
(***************************************************************************)
(* What both channels of the `watch` crate promise (the crate              *)
(* documentation, src/crates/watch/src/watch.rs:1-7, as the code keeps it):*)
(* publications coalesce, each receiver tracks independently which         *)
(* publication it has seen, and closure is reported to a receiver only     *)
(* after the final publication has been seen by it.                        *)
(*                                                                         *)
(* `Watch` (the lock-based channel) and `WatchSnapshot` (the atomic one)   *)
(* are both checked to implement this specification.                       *)
(***************************************************************************)
EXTENDS Naturals

CONSTANTS
    Receivers,  \* the receivers that may ever exist
    MaxSends    \* bound on the number of publications

VARIABLES
    published,  \* the number of the latest publication
    closed,     \* the sender was dropped
    live,       \* the receivers that exist
    seen,       \* seen[r]: the publication r has marked as seen
    told        \* told[r]: r has been told that the sender is gone

vars == <<published, closed, live, seen, told>>

Init ==
    /\ published = 0
    /\ closed = FALSE
    /\ \E r \in Receivers : live = {r}
    /\ seen = [r \in Receivers |-> 0]
    /\ told = [r \in Receivers |-> FALSE]

(* A send that receivers can notice. *)
Publish ==
    /\ ~closed
    /\ published < MaxSends
    /\ published' = published + 1
    /\ UNCHANGED <<closed, live, seen, told>>

Close ==
    /\ ~closed
    /\ closed' = TRUE
    /\ UNCHANGED <<published, live, seen, told>>

(* A new receiver starts at the current publication, or at the one the     *)
(* receiver it is cloned from has seen.                                    *)
Join(r) ==
    /\ r \notin live
    /\ live' = live \cup {r}
    /\ \E v \in {published} \cup {seen[q] : q \in live} :
          seen' = [seen EXCEPT ![r] = v]
    /\ UNCHANGED <<published, closed, told>>

Leave(r) ==
    /\ r \in live
    /\ live' = live \ {r}
    /\ UNCHANGED <<published, closed, seen, told>>

(* Reading or being notified marks the LATEST publication as seen. *)
Observe(r) ==
    /\ r \in live
    /\ seen' = [seen EXCEPT ![r] = published]
    /\ UNCHANGED <<published, closed, live, told>>

(* Closure is reported only to a receiver that has seen everything. *)
ReportClosed(r) ==
    /\ r \in live
    /\ closed
    /\ seen[r] = published
    /\ told' = [told EXCEPT ![r] = TRUE]
    /\ UNCHANGED <<published, closed, live, seen>>

Next ==
    \/ Publish
    \/ Close
    \/ \E r \in Receivers :
          Join(r) \/ Leave(r) \/ Observe(r) \/ ReportClosed(r)

Spec == Init /\ [][Next]_vars
=============================================================================
