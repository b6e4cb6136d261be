-------------------------- MODULE MCRemoteChannel --------------------------
(* Model-checking instances of RemoteChannel. *)
EXTENDS RemoteChannel

(* Two requests and a notification around one broken connection. *)
OneBreak ==
    [requests |-> 2, notifications |-> 1, disconnects |-> 1, background |-> 0]

(* A lone request, broken off and timed out three times. *)
Retry ==
    [requests |-> 1, notifications |-> 0, disconnects |-> 3, background |-> 0]

(* The same with an answer from a background thread, two times. *)
Background ==
    [requests |-> 1, notifications |-> 0, disconnects |-> 2, background |-> 1]

(* An answer and a notification from two background threads. *)
Overtaking ==
    [requests |-> 1, notifications |-> 1, disconnects |-> 1, background |-> 2]

(* A request and a notification, two breaks or timeouts. *)
TwoBreaks ==
    [requests |-> 1, notifications |-> 1, disconnects |-> 2, background |-> 0]

(* Two requests, two breaks or timeouts: the smallest load that loses a    *)
(* request when a break overtakes the client's replay.                     *)
TwoRequests ==
    [requests |-> 2, notifications |-> 0, disconnects |-> 2, background |-> 0]

(* One request and two notifications, the smallest load that loses one. *)
TwoNotifications ==
    [requests |-> 1, notifications |-> 2, disconnects |-> 2, background |-> 0]

MCLoads == {OneBreak, Retry, Background, Overtaking, TwoBreaks, TwoRequests}
MCLossLoads == {TwoNotifications}
=============================================================================
