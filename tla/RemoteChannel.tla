--------------------------- MODULE RemoteChannel ---------------------------
(***************************************************************************)
(* The message channel between Forge and a remote server: two              *)
(* `ChannelClient`s (src/crates/remote/src/remote_client.rs) joined by a   *)
(* proxy connection that may break and be replaced, with the server's      *)
(* connection loop (src/crates/remote_server/src/server.rs, start_server). *)
(*                                                                         *)
(* Each end numbers its messages, keeps the ones it sent in a replay       *)
(* buffer, and piggybacks on what it sends the id of the message it        *)
(* received last; the peer drops the messages up to that id from its own   *)
(* buffer.  After a reconnect the client asks the server to replay its     *)
(* buffer (FlushBufferedMessages) and then replays its own.                *)
(*                                                                         *)
(* The client sends requests, the server answers them and sends            *)
(* notifications.  Payloads are abstracted to their kind.                  *)
(***************************************************************************)
EXTENDS Integers, Sequences, FiniteSets

CONSTANT
    Loads     \* the instances examined, see Load

(* The bounds of an instance. *)
Load ==
    [requests      : Nat, \* bound on the client's requests
     notifications : Nat, \* bound on the server's one-way messages
     disconnects   : Nat, \* bound on the number of broken connections
     background    : Nat] \* the server's sends that may be under way at once on
                          \* background threads; 0: it sends on its main thread

ASSUME ChannelAssumption == Loads \subseteq Load

VARIABLES
    load,              \* the instance, chosen once
    next_message_id,   \* [End -> id]
    buffer,            \* [End -> sequence of envelopes]: the replay buffer
    max_received,      \* [End -> id]
    response_channels, \* the client's requests waiting for a response
    c2s,        \* envelopes the server will read
    s2c,        \* envelopes the client will read
    outgoing,   \* the server's outgoing queue while no proxy is connected
    phase,      \* the client's view of the connection
    handshake,  \* the id of the client's latest RemoteStarted
    flush,      \* the id of the client's latest FlushBufferedMessages
    owed,       \* the requests whose handlers the server has not finished
    notified,   \* number of notifications the server has begun to send
    allocated,  \* envelopes of background sends that have an id, some of them
                \* an ack_id, and are not buffered yet
    unqueued,   \* envelopes of background sends that are buffered, not queued
    disconnects,\* number of broken connections
    replaying,  \* history: how many of the messages in c2s come before the end
                \* of the client's latest replay, itself included
    orderly,    \* history: no connection broke or timed out before its resync
                \* was over and the server had read the replay, and no
                \* background send was overtaken
    sent,       \* [End -> ids]: history, the buffered messages queued
    handled     \* [End -> ids]: history, the messages of the peer handled

clientVars == <<response_channels, phase, handshake, flush, disconnects>>
serverVars == <<outgoing, owed, notified, allocated, unqueued>>
history == <<load, replaying, orderly>>
vars == <<load, next_message_id, buffer, max_received, response_channels, c2s,
          s2c, outgoing, phase, handshake, flush, owed, notified, allocated,
          unqueued, disconnects, replaying, orderly, sent, handled>>

End == {"client", "server"}
NoId == -1

Id == Nat

Msg(i, k, r, a) == [id |-> i, kind |-> k, responding_to |-> r, ack_id |-> a]

(* A connection carries what the client sends. *)
Linked == phase # "down"

(* ChannelClient::new on both ends: each has sent its RemoteStarted. *)
Init ==
    /\ load \in Loads
    /\ next_message_id = [e \in End |-> 1]
    /\ buffer = [e \in End |-> <<>>]
    /\ max_received = [e \in End |-> 0]
    /\ response_channels = {}
    /\ c2s = <<Msg(0, "RemoteStarted", NoId, NoId)>>
    /\ s2c = <<Msg(0, "RemoteStarted", NoId, NoId)>>
    /\ outgoing = <<>>
    /\ phase = "connected"
    /\ handshake = 0
    /\ flush = NoId
    /\ owed = <<>>
    /\ notified = 0
    /\ allocated = {}
    /\ unqueued = {}
    /\ disconnects = 0
    /\ replaying = 0
    /\ orderly = TRUE
    /\ sent = [e \in End |-> {}]
    /\ handled = [e \in End |-> {}]

-----------------------------------------------------------------------------
(* Sending.                                                                *)

(* outgoing_tx: what the client sends without a connection is dropped (the *)
(* error is ignored), the server's queue outlives its connections.         *)
TransmitClient(ms) == c2s' = IF Linked THEN c2s \o ms ELSE c2s

TransmitServer(ms) ==
    IF Linked THEN s2c' = s2c \o ms /\ UNCHANGED outgoing
              ELSE outgoing' = outgoing \o ms /\ UNCHANGED s2c

(* send_buffered, for an envelope that has its id. *)
Buffered(e, m) == [m EXCEPT !.ack_id = max_received[e]]

(* request_dynamic of the client: the response channel is registered       *)
(* before the request leaves.                                              *)
ClientRequest ==
    LET i == next_message_id["client"]
        m == Buffered("client", Msg(i, "request", NoId, NoId))
    IN  /\ Cardinality(sent["client"]) < load.requests
        /\ next_message_id' = [next_message_id EXCEPT !["client"] = i + 1]
        /\ response_channels' = response_channels \cup {i}
        /\ buffer' = [buffer EXCEPT !["client"] = Append(@, m)]
        /\ sent' = [sent EXCEPT !["client"] = @ \cup {i}]
        /\ TransmitClient(<<m>>)
        /\ UNCHANGED <<max_received, s2c, phase, handshake, flush, disconnects,
                       serverVars, history, handled>>

(* An answer to a handled request, or a notification, without its id.      *)
(* Handlers run detached and may finish in any order.                      *)
AnswerOwed(k, r) ==
    /\ k = "response"
    /\ \E n \in DOMAIN owed :
          /\ r = owed[n]
          /\ owed' = SubSeq(owed, 1, n - 1) \o SubSeq(owed, n + 1, Len(owed))
    /\ UNCHANGED notified

NotificationDue(k, r) ==
    /\ k = "notification"
    /\ r = NoId
    /\ notified < load.notifications
    /\ notified' = notified + 1
    /\ UNCHANGED owed

ServerWantsToSend(k, r) == AnswerOwed(k, r) \/ NotificationDue(k, r)

(* send_dynamic / send_response of the server on its main thread. *)
ServerSend(k, r) ==
    LET i == next_message_id["server"]
        m == Buffered("server", Msg(i, k, r, NoId))
    IN  /\ load.background = 0
        /\ ServerWantsToSend(k, r)
        /\ next_message_id' = [next_message_id EXCEPT !["server"] = i + 1]
        /\ buffer' = [buffer EXCEPT !["server"] = Append(@, m)]
        /\ sent' = [sent EXCEPT !["server"] = @ \cup {i}]
        /\ TransmitServer(<<m>>)
        /\ UNCHANGED <<max_received, c2s, clientVars, allocated, unqueued,
                       history, handled>>

(* The same on background threads, statement by statement: the id is taken *)
(* (send_dynamic), ...                                                     *)
BeginServerSend(k, r) ==
    LET i == next_message_id["server"]
    IN  /\ Cardinality(allocated \cup unqueued) < load.background
        /\ ServerWantsToSend(k, r)
        /\ next_message_id' = [next_message_id EXCEPT !["server"] = i + 1]
        /\ allocated' = allocated \cup {Msg(i, k, r, NoId)}
        /\ UNCHANGED <<buffer, max_received, c2s, s2c, outgoing, unqueued,
                       clientVars, history, sent, handled>>

(* ... max_received is read, ...                                           *)
StampServerSend(a) ==
    /\ a.ack_id = NoId
    /\ allocated' = (allocated \ {a}) \cup {Buffered("server", a)}
    /\ UNCHANGED <<next_message_id, buffer, max_received, c2s, s2c, outgoing, owed,
                   notified, unqueued, clientVars, history, sent, handled>>

NotOvertaken(a) == next_message_id["server"] = a.id + 1

(* ... the envelope is put into the replay buffer, ...                     *)
BufferServerSend(a) ==
    /\ a.ack_id # NoId
    /\ allocated' = allocated \ {a}
    /\ unqueued' = unqueued \cup {a}
    /\ buffer' = [buffer EXCEPT !["server"] = Append(@, a)]
    /\ UNCHANGED <<next_message_id, max_received, c2s, s2c, outgoing, owed,
                   notified, clientVars, history, sent, handled>>

(* ... and queued, though a flush may have been answered with it meanwhile. *)
QueueServerSend(a) ==
    /\ unqueued' = unqueued \ {a}
    /\ sent' = [sent EXCEPT !["server"] = @ \cup {a.id}]
    /\ TransmitServer(<<a>>)
    /\ orderly' = (orderly /\ NotOvertaken(a))
    /\ UNCHANGED <<load, next_message_id, buffer, max_received, c2s, clientVars,
                   owed, notified, allocated, replaying, handled>>

ContinueServerSend ==
    \/ \E a \in allocated : StampServerSend(a) \/ BufferServerSend(a)
    \/ \E a \in unqueued : QueueServerSend(a)

-----------------------------------------------------------------------------
(* Receiving: handle_message.                                              *)

(* Mutant of Unacknowledged: any acknowledgement empties the buffer. *)
UnacknowledgedNone(buf, ack) == IF ack = NoId THEN buf ELSE <<>>

(* The buffer after the front messages up to ack_id were popped. *)
Unacknowledged(buf, ack) ==
    LET k == CHOOSE n \in 0 .. Len(buf) :
                /\ \A p \in 1 .. n : buf[p].id <= ack
                /\ n < Len(buf) => buf[n + 1].id > ack
    IN  SubSeq(buf, k + 1, Len(buf))

(* The reply to a handshake or a flush. *)
Ack(i, m) == Msg(i, "Ack", m.id, NoId)

NeedsAck(m) == m.kind \in {"RemoteStarted", "FlushBufferedMessages"}

(* What leaves at once: a flush is answered by the whole buffer, and both  *)
(* a flush and a handshake by an Ack without an ack_id.                    *)
(* Mutant of Replies: the flush is acknowledged before the replay. *)
RepliesAckFirst(e, m, buf) ==
    CASE m.kind = "RemoteStarted" -> <<Ack(next_message_id[e], m)>>
      [] m.kind = "FlushBufferedMessages" ->
            <<Ack(next_message_id[e], m)>> \o buf
      [] OTHER -> <<>>

Replies(e, m, buf) ==
    CASE m.kind = "RemoteStarted" -> <<Ack(next_message_id[e], m)>>
      [] m.kind = "FlushBufferedMessages" ->
            Append(buf, Ack(next_message_id[e], m))
      [] OTHER -> <<>>

(* What both ends update for a message that is not skipped. *)
HandleMessage(e, m, buf) ==
    /\ buffer' = [buffer EXCEPT ![e] = buf]
    /\ next_message_id' =
          [next_message_id EXCEPT ![e] = IF NeedsAck(m) THEN @ + 1 ELSE @]
    /\ max_received' = [max_received EXCEPT ![e] = IF NeedsAck(m) THEN @ ELSE m.id]
    /\ handled' = [handled EXCEPT ![e] =
                      IF m.kind \in {"request", "response", "notification"}
                      THEN @ \cup {m.id} ELSE @]

(* A request starts its (detached) handler. *)
StartHandler(m) == IF m.kind = "request" THEN Append(owed, m.id) ELSE owed

(* The server's handshake is message 0 for its whole life; it skips the    *)
(* client's acknowledgement of it.                                         *)
ServerReceive ==
    /\ c2s # <<>>
    /\ LET m == Head(c2s)
           buf == Unacknowledged(buffer["server"], m.ack_id)
       IN  IF m.kind = "Ack" /\ m.responding_to = 0
           THEN UNCHANGED <<buffer, next_message_id, max_received, handled,
                            s2c, outgoing, owed>>
           ELSE /\ HandleMessage("server", m, buf)
                /\ TransmitServer(Replies("server", m, buf))
                /\ owed' = StartHandler(m)
    /\ c2s' = Tail(c2s)
    /\ replaying' = IF replaying = 0 THEN 0 ELSE replaying - 1
    /\ UNCHANGED <<clientVars, notified, allocated, unqueued, load,
                   orderly, sent>>

(* Mutant of ClientReplies: resync does not replay the client's buffer. *)
ClientRepliesNoReplay(m, buf, resynced) ==
    IF resynced THEN <<>> ELSE Replies("client", m, buf)

(* What the client sends in answer: `resync` replays the buffer. *)
ClientReplies(m, buf, resynced) ==
    IF resynced THEN buf ELSE Replies("client", m, buf)

(* The client's read loop.  The acknowledgement of its handshake is        *)
(* skipped, except that the first one makes a new connection ready; the    *)
(* answer to the flush completes `resync`, which replays the buffer before *)
(* the next message is looked at (handle_message waits for the requester). *)
ClientReceive ==
    /\ s2c # <<>>
    /\ LET m == Head(s2c)
           buf == Unacknowledged(buffer["client"], m.ack_id)
           ready == m.kind = "Ack" /\ m.responding_to = handshake
           resynced == phase = "resyncing" /\ m.responding_to = flush
       IN  \/ /\ ready
              /\ phase' = IF phase = "handshaking" THEN "resyncing" ELSE phase
              /\ UNCHANGED <<buffer, next_message_id, max_received, handled,
                             response_channels, c2s, replaying>>
           \/ /\ ~ready
              /\ HandleMessage("client", m, buf)
              /\ response_channels' = response_channels \ {m.responding_to}
              /\ phase' = IF resynced THEN "connected" ELSE phase
              /\ TransmitClient(ClientReplies(m, buf, resynced))
              /\ replaying' = IF resynced /\ buf # <<>> THEN Len(c2s') ELSE replaying
    /\ s2c' = Tail(s2c)
    /\ UNCHANGED <<handshake, flush, disconnects, serverVars, load, orderly, sent>>

-----------------------------------------------------------------------------
(* Breaking and replacing the connection.                                  *)

(* The handshake or the resync times out: the attempt is given up, but its *)
(* connection still carries messages until it is killed.                   *)
ResyncTimeout ==
    /\ phase \in {"handshaking", "resyncing"}
    /\ disconnects < load.disconnects
    /\ phase' = "abandoned"
    /\ disconnects' = disconnects + 1
    /\ orderly' = FALSE
    /\ UNCHANGED <<load, next_message_id, buffer, max_received, response_channels,
                   c2s, s2c, handshake, flush, serverVars, replaying, sent, handled>>

(* The connection breaks.  The server keeps what it has read (a prefix of  *)
(* what was under way); the client still handles what it has read; the     *)
(* server's queue keeps what was not yet taken out of it.                  *)
Disconnect ==
    /\ Linked
    /\ \/ phase = "abandoned" /\ UNCHANGED disconnects
       \/ /\ phase # "abandoned"
          /\ disconnects < load.disconnects
          /\ disconnects' = disconnects + 1
    /\ phase' = "down"
    /\ orderly' = (orderly /\ phase = "connected" /\ replaying = 0)
    /\ replaying' = 0
    /\ \E n \in 0 .. Len(c2s) : c2s' = SubSeq(c2s, 1, n)
    /\ \E n \in 0 .. Len(s2c) : \E k \in n .. Len(s2c) :
          /\ s2c' = SubSeq(s2c, 1, n)
          /\ outgoing' = SubSeq(s2c, k + 1, Len(s2c))
    /\ UNCHANGED <<load, next_message_id, buffer, max_received, response_channels,
                   handshake, flush, owed, notified, allocated, unqueued,
                   sent, handled>>

(* ChannelClient::reconnect followed by resync: the old read loop and its  *)
(* queue are dropped, a handshake and the flush are queued at once.  The   *)
(* server's connection loop goes on with the queue it has.                 *)
Reconnect ==
    LET h == next_message_id["client"]
    IN  /\ phase = "down"
        /\ phase' = "handshaking"
        /\ handshake' = h
        /\ flush' = h + 1
        /\ next_message_id' = [next_message_id EXCEPT !["client"] = h + 2]
        /\ response_channels' = response_channels \cup {h + 1}
        /\ c2s' = c2s \o <<Msg(h, "RemoteStarted", NoId, NoId),
                           Msg(h + 1, "FlushBufferedMessages", NoId,
                               max_received["client"])>>
        /\ s2c' = outgoing
        /\ outgoing' = <<>>
        /\ UNCHANGED <<buffer, max_received, owed, notified, allocated,
                       unqueued, disconnects, history, sent, handled>>

ServerSends ==
    \E k \in {"response", "notification"} :
        \E r \in {NoId} \cup {owed[n] : n \in DOMAIN owed} :
            ServerSend(k, r) \/ BeginServerSend(k, r)

Next ==
    \/ ClientRequest
    \/ ServerSends
    \/ ContinueServerSend
    \/ ServerReceive
    \/ ClientReceive
    \/ ResyncTimeout
    \/ Disconnect
    \/ Reconnect

Spec == Init /\ [][Next]_vars

(* The reconnect loop keeps trying, queues are read, handlers finish and   *)
(* threads go on; nothing has to break, time out or be requested.          *)
Fairness ==
    /\ WF_vars(ServerReceive)
    /\ WF_vars(ClientReceive)
    /\ WF_vars(\E r \in {owed[n] : n \in DOMAIN owed} :
                  ServerSend("response", r) \/ BeginServerSend("response", r))
    /\ WF_vars(ContinueServerSend)
    /\ WF_vars(phase = "abandoned" /\ Disconnect)
    /\ WF_vars(Reconnect)

FairSpec == Spec /\ Fairness

-----------------------------------------------------------------------------
(* Properties.                                                             *)

Ids(q) == {q[n].id : n \in DOMAIN q}

(* Every message that send_buffered queued is handled by the peer, kept    *)
(* for replay, or on its way: acknowledgements never discard one that      *)
(* the peer missed ("or its ack_id could cause the server to discard       *)
(* messages we missed while disconnected", remote_client.rs:1848-1849).    *)
NoMessageLost ==
    /\ sent["client"] \subseteq
          handled["server"] \cup Ids(buffer["client"]) \cup Ids(c2s)
    /\ sent["server"] \subseteq
          handled["client"] \cup Ids(buffer["server"])
             \cup Ids(s2c) \cup Ids(outgoing)

(* What the channel does keep: nothing is lost, whatever the number of     *)
(* breaks, as long as each resync ends and the server has read the replay  *)
(* before the next break, and sends do not overtake each other             *)
(* (handle_message, send_buffered, resync).                                *)
LossNeedsOverlap == orderly => NoMessageLost

(* When resync returns (remote_client.rs:1852-1866), the client has        *)
(* handled everything the server had sent when it answered the flush,      *)
(* unless an earlier resync was cut off or a send overtaken.               *)
CaughtUpAfterResync ==
    [][orderly /\ phase = "resyncing" /\ phase' = "connected" =>
         {i \in sent["server"] : i < Head(s2c).id} \subseteq handled'["client"]]_vars

(* Every request of the client is answered in the end, connections broken  *)
(* in between included: a lone request whatever the breaks and timeouts,   *)
(* one among other messages as long as the channel is orderly.             *)
Lone == notified = 0 /\ Cardinality(sent["client"]) <= 1

AllRequestsAnswered ==
    <>[](orderly \/ Lone => sent["client"] \cap response_channels = {})
=============================================================================
