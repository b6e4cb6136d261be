---------------------------- MODULE RemoteClient ----------------------------
(***************************************************************************)
(* The connection state machine of RemoteClient,                           *)
(* src/crates/remote/src/remote_client.rs: the initial connection, the     *)
(* heartbeat, the monitor of the proxy process, the reconnect attempts and *)
(* shutdown.                                                               *)
(*                                                                         *)
(* All of them are tasks of the main thread; each action is the code one   *)
(* task runs between two awaits.  `state` owns the monitor and heartbeat   *)
(* tasks of an established connection, so replacing it cancels them.       *)
(***************************************************************************)
EXTENDS Naturals

CONSTANTS
    MAX_MISSED_HEARTBEATS,
    MAX_RECONNECT_ATTEMPTS

ASSUME RemoteClientAssumption ==
    /\ MAX_MISSED_HEARTBEATS \in Nat \ {0}
    /\ MAX_RECONNECT_ATTEMPTS \in Nat \ {0}

VARIABLES
    state,              \* RemoteClient::state; "None" when taken
    missed_heartbeats,  \* State::HeartbeatMissed::missed_heartbeats
    attempts,           \* the number of the reconnect attempt under way
    connector,          \* the task of `new` or of a reconnect attempt
    link,               \* the proxy process and the connection behind it
    monitor,            \* the task of `monitor`
    heartbeat,          \* the task of `heartbeat`
    missed,             \* its local missed_heartbeats
    keepalive_timer,    \* its timer is armed
    activity,           \* a signal waits in its connection_activity channel
    closing,            \* shutdown_processes: "no", "grace" (it waits before
                        \* dropping the tasks), "done"
    panicked            \* the unwrap of handle_heartbeat_result failed

taskVars == <<link, monitor, heartbeat, missed, keepalive_timer, activity>>
connectionVars == <<state, missed_heartbeats, attempts, connector, link, monitor,
          heartbeat, missed, keepalive_timer, activity, closing, panicked>>

State == {"Connecting", "Connected", "HeartbeatMissed", "Reconnecting",
          "ReconnectExhausted", "ServerNotRunning", "None"}

(* `new` waits for the server's RemoteStarted, then for a ping; a          *)
(* reconnect attempt kills the old process, connects, shakes hands and     *)
(* resyncs.  "pinged", "resynced" and "failed" wait for their last step.   *)
NewSteps == {"waiting", "pinging", "pinged"}
AttemptSteps == {"killing", "handshaking", "resyncing", "resynced", "failed"}

(* The states in which the client holds no connection and starts none. *)
Over == {"ReconnectExhausted", "ServerNotRunning", "None"}

(* ReconnectFailed is not in State: it never outlives the step that sets   *)
(* it, because `reconnect` is called at once.                              *)
ConnectionTypeOK ==
    /\ state \in State
    /\ missed_heartbeats \in 0 .. MAX_MISSED_HEARTBEATS
    /\ attempts \in 0 .. MAX_RECONNECT_ATTEMPTS
    /\ connector \in {"none"} \cup NewSteps \cup AttemptSteps
    /\ link \in {"none", "up", "silent", "dead", "notRunning"}
    /\ monitor \in {"none", "watching", "finished"}
    /\ heartbeat \in {"none", "waiting", "pinging", "stopped"}
    /\ missed \in 0 .. MAX_MISSED_HEARTBEATS
    /\ keepalive_timer \in BOOLEAN
    /\ activity \in BOOLEAN
    /\ closing \in {"no", "grace", "done"}
    /\ panicked \in BOOLEAN

(* `new` has started the proxy. *)
ConnectionInit ==
    /\ state = "Connecting"
    /\ missed_heartbeats = 0
    /\ attempts = 0
    /\ connector = "waiting"
    /\ link = "up"
    /\ monitor = "none"
    /\ heartbeat = "none"
    /\ missed = 0
    /\ keepalive_timer = FALSE
    /\ activity = FALSE
    /\ closing = "no"
    /\ panicked = FALSE

-----------------------------------------------------------------------------
(* Helpers.                                                                *)

(* Dropping the tasks of a connection kills its proxy process. *)
DropTasks ==
    /\ link' = "none"
    /\ monitor' = "none"
    /\ heartbeat' = "none"
    /\ missed' = 0
    /\ keepalive_timer' = FALSE
    /\ activity' = FALSE

(* The activity channel is closed with the io task. *)
Closed == link \in {"none", "dead", "notRunning"}

(* State::can_reconnect (ReconnectFailed aside, see above). *)
CanReconnect(s) == s \in {"Connected", "HeartbeatMissed"}

(* Mutant of StartReconnect: the attempts are not counted. *)
StartReconnectUncounted(tried) ==
    /\ DropTasks
    /\ missed_heartbeats' = 0
    /\ state' = "Reconnecting"
    /\ attempts' = 1
    /\ connector' = "killing"

(* `reconnect` from a state that allows it, after `tried` failed attempts: *)
(* the tasks in the old state are dropped.                                 *)
StartReconnect(tried) ==
    /\ DropTasks
    /\ missed_heartbeats' = 0
    /\ \/ /\ tried + 1 > MAX_RECONNECT_ATTEMPTS
          /\ state' = "ReconnectExhausted"
          /\ attempts' = 0
          /\ connector' = "none"
       \/ /\ tried + 1 <= MAX_RECONNECT_ATTEMPTS
          /\ state' = "Reconnecting"
          /\ attempts' = tried + 1
          /\ connector' = "killing"

(* A connection is established: the state takes over the tasks. *)
Establish ==
    /\ state' = "Connected"
    /\ attempts' = 0
    /\ connector' = "none"
    /\ heartbeat' = "waiting"
    /\ missed' = 0
    /\ keepalive_timer' = TRUE

-----------------------------------------------------------------------------
(* The initial connection.                                                 *)

NewRemoteStarted ==
    /\ connector = "waiting"
    /\ link = "up"
    /\ connector' = "pinging"
    /\ monitor' = "watching"
    /\ UNCHANGED <<state, missed_heartbeats, attempts, link, heartbeat, missed,
                   keepalive_timer, activity, closing, panicked>>

NewPinged ==
    /\ connector = "pinging"
    /\ link = "up"
    /\ connector' = "pinged"
    /\ UNCHANGED <<state, missed_heartbeats, attempts, taskVars, closing, panicked>>

(* The state is set whatever it has become in the meantime. *)
NewDone ==
    /\ connector = "pinged"
    /\ Establish
    /\ UNCHANGED <<missed_heartbeats, link, monitor, activity, closing, panicked>>

(* Timeout, closed connection or cancellation: the entity is dropped. *)
NewGivesUp ==
    /\ connector \in NewSteps
    /\ connector' = "none"
    /\ state' = "None"
    /\ closing' = "done"
    /\ DropTasks
    /\ UNCHANGED <<missed_heartbeats, attempts, panicked>>

-----------------------------------------------------------------------------
(* The network and the proxy process.                                      *)

Traffic ==
    /\ link = "up"
    /\ activity' = TRUE
    /\ UNCHANGED <<state, missed_heartbeats, attempts, connector, link, monitor,
                   heartbeat, missed, keepalive_timer, closing, panicked>>

GoSilent ==
    /\ link = "up"
    /\ link' = "silent"
    /\ UNCHANGED <<state, missed_heartbeats, attempts, connector, monitor,
                   heartbeat, missed, keepalive_timer, activity, closing, panicked>>

Resume ==
    /\ link = "silent"
    /\ link' = "up"
    /\ UNCHANGED <<state, missed_heartbeats, attempts, connector, monitor,
                   heartbeat, missed, keepalive_timer, activity, closing, panicked>>

(* The io task ends: an error, an unexpected exit, or force_disconnect. *)
IoDies ==
    /\ link \in {"up", "silent"}
    /\ link' = "dead"
    /\ UNCHANGED <<state, missed_heartbeats, attempts, connector, monitor,
                   heartbeat, missed, keepalive_timer, activity, closing, panicked>>

(* The proxy of a reconnect attempt finds no server and says so by its     *)
(* exit code, before any message is exchanged.                             *)
ServerGone ==
    /\ connector = "handshaking"
    /\ link = "up"
    /\ link' = "notRunning"
    /\ UNCHANGED <<state, missed_heartbeats, attempts, connector, monitor,
                   heartbeat, missed, keepalive_timer, activity, closing, panicked>>

-----------------------------------------------------------------------------
(* The monitor.                                                            *)

(* Mutant of MonitorReconnects: a dead io task is only logged. *)
MonitorGivesUp ==
    /\ monitor = "watching"
    /\ link = "dead"
    /\ monitor' = "finished"
    /\ UNCHANGED <<state, missed_heartbeats, attempts, connector, link,
                   heartbeat, missed, keepalive_timer, activity, closing, panicked>>

(* The error of a refused reconnect is discarded. *)
MonitorReconnects ==
    /\ monitor = "watching"
    /\ link = "dead"
    /\ \/ CanReconnect(state) /\ StartReconnect(0)
       \/ /\ ~CanReconnect(state)
          /\ monitor' = "finished"
          /\ UNCHANGED <<state, missed_heartbeats, attempts, connector, link,
                         heartbeat, missed, keepalive_timer, activity>>
    /\ UNCHANGED <<closing, panicked>>

MonitorServerNotRunning ==
    /\ monitor = "watching"
    /\ link = "notRunning"
    /\ state' = "ServerNotRunning"
    /\ monitor' = "finished"
    /\ UNCHANGED <<missed_heartbeats, attempts, connector, link, heartbeat,
                   missed, keepalive_timer, activity, closing, panicked>>

-----------------------------------------------------------------------------
(* The heartbeat.                                                          *)

(* handle_heartbeat_result(0): State::heartbeat_recovered, or the panic of *)
(* unwrapping a state that was taken.                                      *)
Recover ==
    IF state = "None"
    THEN panicked' = TRUE /\ UNCHANGED <<state, missed_heartbeats>>
    ELSE /\ state' = IF state = "HeartbeatMissed" THEN "Connected" ELSE state
         /\ missed_heartbeats' = 0
         /\ UNCHANGED panicked

(* A signal in the outer select re-arms the timer. *)
HeartbeatActivity ==
    /\ heartbeat = "waiting"
    /\ activity
    /\ activity' = FALSE
    /\ keepalive_timer' = TRUE
    /\ missed' = 0
    /\ IF missed # 0 THEN Recover
                     ELSE UNCHANGED <<state, missed_heartbeats, panicked>>
    /\ UNCHANGED <<attempts, connector, link, monitor, heartbeat, closing>>

HeartbeatStops ==
    /\ heartbeat = "waiting"
    /\ ~activity
    /\ Closed
    /\ heartbeat' = "stopped"
    /\ UNCHANGED <<state, missed_heartbeats, attempts, connector, link, monitor,
                   missed, keepalive_timer, activity, closing, panicked>>

HeartbeatPings ==
    /\ heartbeat = "waiting"
    /\ ~activity
    /\ ~Closed
    /\ keepalive_timer
    /\ keepalive_timer' = FALSE
    /\ heartbeat' = "pinging"
    /\ UNCHANGED <<state, missed_heartbeats, attempts, connector, link, monitor,
                   missed, activity, closing, panicked>>

(* Mutant of HeartbeatAnswered: the state is not told of the recovery. *)
HeartbeatAnsweredQuietly ==
    /\ heartbeat = "pinging"
    /\ activity \/ Closed
    /\ activity' = FALSE
    /\ heartbeat' = "waiting"
    /\ missed' = 0
    /\ keepalive_timer' = (missed # 0)
    /\ UNCHANGED <<state, missed_heartbeats, attempts, connector, link, monitor,
                   closing, panicked>>

(* A signal, or the closing of the channel, counts as an answer.  Without  *)
(* a missed heartbeat the loop is continued past the re-arming of the      *)
(* timer (line 852).                                                       *)
HeartbeatAnswered ==
    /\ heartbeat = "pinging"
    /\ activity \/ Closed
    /\ activity' = FALSE
    /\ heartbeat' = "waiting"
    /\ missed' = 0
    /\ keepalive_timer' = (missed # 0)
    /\ IF missed # 0 THEN Recover
                     ELSE UNCHANGED <<state, missed_heartbeats, panicked>>
    /\ UNCHANGED <<attempts, connector, link, monitor, closing>>

(* State::heartbeat_missed *)
CountMissed ==
    /\ state' = "HeartbeatMissed"
    /\ missed_heartbeats' = IF state = "Connected" THEN 1 ELSE missed_heartbeats + 1

(* The ping times out: handle_heartbeat_result(missed + 1). *)
HeartbeatMisses ==
    /\ heartbeat = "pinging"
    /\ ~activity
    /\ ~Closed
    /\ \/ /\ state = "None"
          /\ panicked' = TRUE
          /\ UNCHANGED <<state, missed_heartbeats, attempts, connector, taskVars>>
       \/ /\ state # "None"
          /\ missed + 1 < MAX_MISSED_HEARTBEATS
          /\ missed' = missed + 1
          /\ CountMissed
          /\ heartbeat' = "waiting"
          /\ keepalive_timer' = TRUE
          /\ UNCHANGED <<attempts, connector, link, monitor, activity, panicked>>
       \/ /\ state # "None"
          /\ missed + 1 >= MAX_MISSED_HEARTBEATS
          /\ StartReconnect(0)
          /\ UNCHANGED panicked
    /\ UNCHANGED closing

-----------------------------------------------------------------------------
(* A reconnect attempt.                                                    *)

(* kill, ConnectionPool::connect, start_proxy, monitor, reconnect, resync. *)
AttemptConnects ==
    /\ connector = "killing"
    /\ connector' = "handshaking"
    /\ link' = "up"
    /\ monitor' = "watching"
    /\ activity' = FALSE
    /\ UNCHANGED <<state, missed_heartbeats, attempts, heartbeat, missed,
                   keepalive_timer, closing, panicked>>

AttemptHandshaken ==
    /\ connector = "handshaking"
    /\ link = "up"
    /\ connector' = "resyncing"
    /\ UNCHANGED <<state, missed_heartbeats, attempts, taskVars, closing, panicked>>

AttemptResynced ==
    /\ connector = "resyncing"
    /\ link = "up"
    /\ connector' = "resynced"
    /\ UNCHANGED <<state, missed_heartbeats, attempts, taskVars, closing, panicked>>

(* An error or a timeout on the way: the attempt's tasks are dropped. *)
AttemptFails ==
    /\ connector \in {"killing", "handshaking", "resyncing"}
    /\ connector' = "failed"
    /\ DropTasks
    /\ UNCHANGED <<state, missed_heartbeats, attempts, closing, panicked>>

(* Mutant of ReconnectSucceeds: the state is replaced whatever it is. *)
ReconnectSucceedsAlways ==
    /\ connector = "resynced"
    /\ Establish
    /\ UNCHANGED <<missed_heartbeats, link, monitor, activity, closing, panicked>>

(* The completion of an attempt counts only if the state still waits for   *)
(* it; otherwise the new connection is dropped.                            *)
ReconnectSucceeds ==
    /\ connector = "resynced"
    /\ \/ /\ state = "Reconnecting"
          /\ Establish
          /\ UNCHANGED <<missed_heartbeats, link, monitor, activity>>
       \/ /\ state # "Reconnecting"
          /\ connector' = "none"
          /\ DropTasks
          /\ UNCHANGED <<state, missed_heartbeats, attempts>>
    /\ UNCHANGED <<closing, panicked>>

(* Mutant of ReconnectFails: no new attempt is started. *)
ReconnectFailsIdle ==
    /\ connector = "failed"
    /\ connector' = "none"
    /\ UNCHANGED <<state, missed_heartbeats, attempts, taskVars, closing, panicked>>

ReconnectFails ==
    /\ connector = "failed"
    /\ \/ state = "Reconnecting" /\ StartReconnect(attempts)
       \/ /\ state # "Reconnecting"
          /\ connector' = "none"
          /\ UNCHANGED <<state, missed_heartbeats, attempts, taskVars>>
    /\ UNCHANGED <<closing, panicked>>

-----------------------------------------------------------------------------
(* Shutdown, and the forced timeout of the developer tools.                *)

(* shutdown_processes takes the state.  A connected client keeps its tasks *)
(* for 50ms so that the shutdown request gets through; the tasks of a      *)
(* client with missed heartbeats go at once; an attempt under way goes on. *)
ShutdownProcesses ==
    /\ state \notin {"None", "Connecting"}
    /\ state' = "None"
    /\ missed_heartbeats' = 0
    /\ closing' = IF state = "Connected" THEN "grace" ELSE "done"
    /\ IF state = "HeartbeatMissed" THEN DropTasks ELSE UNCHANGED taskVars
    /\ UNCHANGED <<attempts, connector, panicked>>

GraceEnds ==
    /\ closing = "grace"
    /\ closing' = "done"
    /\ DropTasks
    /\ UNCHANGED <<state, missed_heartbeats, attempts, connector, panicked>>

(* force_heartbeat_timeout(tried): the state is taken before it is looked  *)
(* at.                                                                     *)
ForceHeartbeatTimeout(tried) ==
    /\ state \notin {"None", "Connecting"}
    /\ \/ /\ state = "Connected"
          /\ StartReconnect(tried)
       \/ /\ state # "Connected"
          /\ state' = "None"
          /\ missed_heartbeats' = 0
          /\ IF state = "HeartbeatMissed" THEN DropTasks ELSE UNCHANGED taskVars
          /\ UNCHANGED <<attempts, connector>>
    /\ UNCHANGED <<closing, panicked>>

-----------------------------------------------------------------------------
Connector ==
    \/ NewRemoteStarted \/ NewPinged \/ NewDone \/ NewGivesUp
    \/ AttemptConnects \/ AttemptHandshaken \/ AttemptResynced \/ AttemptFails
    \/ ReconnectSucceeds \/ ReconnectFails

Monitor == MonitorReconnects \/ MonitorServerNotRunning

Heartbeat ==
    \/ HeartbeatActivity \/ HeartbeatStops \/ HeartbeatPings
    \/ HeartbeatAnswered \/ HeartbeatMisses

Network == Traffic \/ GoSilent \/ Resume \/ IoDies \/ ServerGone

ConnectionNext ==
    /\ ~panicked
    /\ \/ Connector \/ Monitor \/ Heartbeat \/ Network
       \/ ShutdownProcesses \/ GraceEnds
       \/ \E tried \in 0 .. MAX_RECONNECT_ATTEMPTS : ForceHeartbeatTimeout(tried)

ConnectionSpec == ConnectionInit /\ [][ConnectionNext]_connectionVars

(* Every task runs when it can.  Pings, the handshake and the resync end   *)
(* by their timeouts; that killing the old process and connecting end,     *)
(* with success or an error, is assumed of the transport.                  *)
ConnectionFairness ==
    /\ WF_connectionVars(~panicked /\ Connector)
    /\ WF_connectionVars(~panicked /\ Monitor)
    /\ WF_connectionVars(~panicked /\ Heartbeat)
    /\ WF_connectionVars(~panicked /\ GraceEnds)

FairConnectionSpec == ConnectionSpec /\ ConnectionFairness

-----------------------------------------------------------------------------
(* Properties.                                                             *)

(* The state and the heartbeat task agree on the missed heartbeats: the    *)
(* count shown to the user is the one that decides about reconnecting.     *)
HeartbeatCountAgrees ==
    heartbeat \in {"waiting", "pinging"} /\ CanReconnect(state) =>
        /\ missed_heartbeats = missed
        /\ (state = "HeartbeatMissed") <=> (missed > 0)

(* Once a client has given up, or its state was taken by shutdown, no      *)
(* attempt that finishes late and no monitor or heartbeat revives it       *)
(* (remote_client.rs:751-778).                                             *)
GaveUpForGood == [][(state \in Over) => (state' \in Over)]_connectionVars

(* Whoever owns the connection is one: while the state waits for an        *)
(* attempt there is one under way, and an established connection has none  *)
(* competing with it.                                                      *)
OneConnectionOwner ==
    /\ state = "Reconnecting" => connector \in AttemptSteps
    /\ CanReconnect(state) => connector = "none" /\ heartbeat # "none"

(* Reconnecting is never for ever: the attempts are counted and each ends. *)
ReconnectingEnds == state = "Reconnecting" ~> state # "Reconnecting"

(* A dead connection whose monitor is still on watch is left ("remote io   *)
(* task died with error ... reconnecting...", remote_client.rs:926).  A    *)
(* monitor that ended while the state was Connecting or Reconnecting has   *)
(* had its report refused, and is no longer on watch.                      *)
MonitoredDeathNoticed ==
    (CanReconnect(state) /\ link = "dead" /\ monitor = "watching")
        ~> ~(CanReconnect(state) /\ link = "dead")

(* Pausing heartbeat responses "will cause heartbeat failures and          *)
(* eventually trigger reconnection after MAX_MISSED_HEARTBEATS are missed" *)
(* (remote_client.rs:1099-1101): a connected client whose connection has   *)
(* gone silent for good does not stay connected.                           *)
SilenceNoticed ==
    (state = "Connected" /\ link = "silent")
        ~> ~(state = "Connected" /\ link = "silent")
=============================================================================
