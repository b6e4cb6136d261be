------------------------------ MODULE RpcPeer ------------------------------
(***************************************************************************)
(* One connection of a Peer, src/crates/rpc/src/peer.rs: the handle_io     *)
(* future that writes the outgoing queue and reads the socket, the         *)
(* filtered stream of incoming messages that routes responses to the       *)
(* futures and streams waiting for them, and the threads that make         *)
(* requests while the connection is being closed.                          *)
(*                                                                         *)
(* The other side answers the requests written to it and sends messages of *)
(* its own, falls silent or closes the socket.  The id of a request is the *)
(* request itself: ids come from an atomic counter.                        *)
(***************************************************************************)
EXTENDS Naturals, Sequences

CONSTANTS
    Requests,               \* requests with one response
    Streams,                \* requests with a stream of responses
    INCOMING_BUFFER_SIZE,   \* the bound of the channel of incoming messages
    MaxSent                 \* bound on what the other side sends

ASSUME RpcPeerAssumption ==
    /\ Requests \cap Streams = {}
    /\ INCOMING_BUFFER_SIZE \in Nat
    /\ MaxSent \in Nat

VARIABLES
    connected,                \* the connection is in Peer::connections
    response_channels,        \* Option of the requests that wait
    stream_response_channels, \* Option of the streams that are open
    outgoing,                 \* outgoing_tx to outgoing_rx
    io,                       \* where handle_io is
    incoming,                 \* incoming_tx to incoming_rx
    reader,                   \* the future of filter_map for one message
    call,                     \* where the caller of each request is
    inbox,                    \* its oneshot or mpsc receiver
    told,                     \* streams that saw their end or an error
    peer,                     \* the other side: "up", "silent", "closed"
    wire,                     \* what it sent and handle_io has not read
    unanswered,               \* the requests it has got and not answered for good
    sent,                     \* the number of its envelopes
    seen                      \* the serial of the one the application saw last

ioVars == <<response_channels, stream_response_channels, outgoing, io, incoming>>
peerVars == <<peer, wire, sent>>
vars == <<connected, response_channels, stream_response_channels, outgoing, io,
          incoming, reader, call, inbox, told, peer, wire, unanswered,
          sent, seen>>

Callers == Requests \cup Streams

(* Option<HashMap>: the entries, until the map is taken. *)
Some(ids) == [open |-> TRUE, ids |-> ids]
Taken == [open |-> FALSE, ids |-> {}]

NoReader == [pc |-> "idle", m |-> [serial |-> 0], sender |-> FALSE]

(* add_connection and register_connection; handle_io was not polled yet. *)
Init ==
    /\ connected = TRUE
    /\ response_channels = Some({})
    /\ stream_response_channels = Some({})
    /\ outgoing = <<>>
    /\ io = "unpolled"
    /\ incoming = <<>>
    /\ reader = NoReader
    /\ call = [c \in Callers |-> "start"]
    /\ inbox = [c \in Callers |-> <<>>]
    /\ told = {}
    /\ peer = "up"
    /\ wire = <<>>
    /\ unanswered = {}
    /\ sent = 0
    /\ seen = 0

(* The receiver of a caller exists, and something can still be sent to it. *)
Receives(c) == call[c] \in {"inserted", "waiting", "queued", "open"}

HasSender(c) ==
    \/ c \in response_channels.ids \cup stream_response_channels.ids
    \/ reader.sender /\ reader.m.to = c

-----------------------------------------------------------------------------
(* Callers: request_dynamic and request_stream_dynamic run at once, on any *)
(* thread; the future or stream they return is polled or dropped later.    *)

SetCall(c, pc) == call' = [call EXCEPT ![c] = pc]

ConnectionState(c) ==
    /\ call[c] = "start"
    /\ SetCall(c, IF connected THEN "found" ELSE "failed")
    /\ UNCHANGED <<connected, ioVars, reader, inbox, told, peerVars, unanswered, seen>>

(* Register for the response, before the request can be sent. *)
Insert(c) ==
    LET isOpen == IF c \in Requests THEN response_channels.open
                                    ELSE stream_response_channels.open
    IN  /\ call[c] = "found"
        /\ SetCall(c, IF isOpen THEN "inserted" ELSE "failed")
        /\ IF isOpen /\ c \in Requests
           THEN response_channels' = [response_channels EXCEPT !.ids = @ \cup {c}]
           ELSE UNCHANGED response_channels
        /\ IF isOpen /\ c \in Streams
           THEN stream_response_channels' =
                    [stream_response_channels EXCEPT !.ids = @ \cup {c}]
           ELSE UNCHANGED stream_response_channels
        /\ UNCHANGED <<connected, outgoing, io, incoming, reader, inbox, told,
                       peerVars, unanswered, seen>>

(* unbounded_send fails once outgoing_rx is gone; only a stream's entry is *)
(* then removed.                                                           *)
Send(c) ==
    /\ call[c] = "inserted"
    /\ IF io \in {"ended", "abandoned"}
       THEN /\ SetCall(c, "failed")
            /\ inbox' = [inbox EXCEPT ![c] = <<>>]
            /\ stream_response_channels' = [stream_response_channels EXCEPT !.ids = @ \ {c}]
            /\ UNCHANGED outgoing
       ELSE /\ SetCall(c, IF c \in Requests THEN "waiting" ELSE "queued")
            /\ outgoing' = Append(outgoing, c)
            /\ UNCHANGED <<inbox, stream_response_channels>>
    /\ UNCHANGED <<connected, response_channels, io, incoming, reader, told,
                   peerVars, unanswered, seen>>

(* A request's future goes on with the response, or without one. *)
Resume(r) ==
    /\ call[r] = "waiting"
    /\ \/ /\ inbox[r] # <<>>
          /\ SetCall(r, "answered")
          /\ seen' = Head(inbox[r]).serial
       \/ /\ inbox[r] = <<>>
          /\ ~HasSender(r)
          /\ SetCall(r, "failed")
          /\ UNCHANGED seen
    /\ inbox' = [inbox EXCEPT ![r] = <<>>]
    /\ UNCHANGED <<connected, ioVars, reader, told, peerVars, unanswered>>

DropRequest(r) ==
    /\ call[r] = "waiting"
    /\ SetCall(r, "dropped")
    /\ inbox' = [inbox EXCEPT ![r] = <<>>]
    /\ UNCHANGED <<connected, ioVars, reader, told, peerVars, unanswered, seen>>

(* The first poll of a stream's future creates the cleanup guard. *)
OpenStream(s) ==
    /\ call[s] = "queued"
    /\ SetCall(s, "open")
    /\ UNCHANGED <<connected, ioVars, reader, inbox, told, peerVars, unanswered, seen>>

Terminal == {"error", "end_stream"}

(* The stream yields an item; its last frame removes the sender. *)
PollStream(s) ==
    LET item == Head(inbox[s])
    IN  /\ call[s] = "open"
        /\ inbox[s] # <<>>
        /\ inbox' = [inbox EXCEPT ![s] = Tail(@)]
        /\ seen' = IF item.kind = "closed" THEN seen ELSE item.serial
        /\ told' = IF item.kind = "data" THEN told ELSE told \cup {s}
        /\ stream_response_channels' =
              [stream_response_channels EXCEPT
                  !.ids = IF item.kind \in Terminal THEN @ \ {s} ELSE @]
        /\ UNCHANGED <<connected, response_channels, outgoing, io, incoming,
                       reader, call, peerVars, unanswered>>

StreamEnds(s) ==
    /\ call[s] = "open"
    /\ inbox[s] = <<>>
    /\ ~HasSender(s)
    /\ SetCall(s, "ended")
    /\ UNCHANGED <<connected, ioVars, reader, inbox, told, peerVars, unanswered, seen>>

(* Dropped before its first poll a stream has no guard yet, and its entry  *)
(* stays until a frame arrives.                                            *)
DropStream(s) ==
    /\ call[s] \in {"queued", "open"}
    /\ SetCall(s, "dropped")
    /\ inbox' = [inbox EXCEPT ![s] = <<>>]
    /\ stream_response_channels' =
          [stream_response_channels EXCEPT !.ids = IF call[s] = "open" THEN @ \ {s} ELSE @]
    /\ UNCHANGED <<connected, response_channels, outgoing, io, incoming, reader,
                   told, peerVars, unanswered, seen>>

(* disconnect and teardown *)
Disconnect ==
    /\ connected
    /\ connected' = FALSE
    /\ UNCHANGED <<ioVars, reader, call, inbox, told, peerVars, unanswered, seen>>

-----------------------------------------------------------------------------
(* handle_io.  select_biased! prefers the outgoing queue.                  *)

FirstPoll ==
    /\ io = "unpolled"
    /\ io' = "select"
    /\ UNCHANGED <<connected, response_channels, stream_response_channels, outgoing,
                   incoming, reader, call, inbox, told, peerVars, unanswered, seen>>

(* Whoever should drive handle_io drops it instead (a failed initial       *)
(* update, collab's rpc.rs:936-948).  _end_connection was not created, so  *)
(* the connection stays where it is and both maps as they are.             *)
Abandon ==
    /\ io = "unpolled"
    /\ io' = "abandoned"
    /\ outgoing' = <<>>
    /\ wire' = <<>>
    /\ UNCHANGED <<connected, response_channels, stream_response_channels, incoming,
                   reader, call, inbox, told, peer, unanswered, sent, seen>>

(* The maps of an abandoned connection go with the last reference to them: *)
(* the connection, the incoming stream, a caller at work and, for streams, *)
(* a future before its first poll each hold one.                           *)
DropMaps ==
    /\ io = "abandoned"
    /\ ~connected
    /\ reader.pc = "gone"
    /\ \A c \in Callers : call[c] \notin {"found", "inserted"}
    /\ response_channels' = Taken
    /\ stream_response_channels' =
          IF \E s \in Streams : call[s] = "queued" THEN stream_response_channels ELSE Taken
    /\ UNCHANGED <<connected, outgoing, io, incoming, reader, call, inbox, told,
                   peerVars, unanswered, seen>>

WriteOutgoing ==
    /\ io = "select"
    /\ outgoing # <<>>
    /\ unanswered' = unanswered \cup {Head(outgoing)}
    /\ outgoing' = Tail(outgoing)
    /\ UNCHANGED <<connected, response_channels, stream_response_channels, io,
                   incoming, reader, call, inbox, told, peerVars, seen>>

Read ==
    /\ io = "select"
    /\ outgoing = <<>>
    /\ wire # <<>>
    /\ wire' = Tail(wire)
    /\ IF reader.pc = "gone"
       THEN io' = "end" /\ UNCHANGED incoming
       ELSE io' = "processing" /\ incoming' = Append(incoming, Head(wire))
    /\ UNCHANGED <<connected, response_channels, stream_response_channels, outgoing,
                   reader, call, inbox, told, peer, unanswered, sent, seen>>

(* incoming_tx.send is done when the channel is within its bound. *)
Processed ==
    /\ io = "processing"
    /\ Len(incoming) <= INCOMING_BUFFER_SIZE
    /\ io' = "select"
    /\ UNCHANGED <<connected, response_channels, stream_response_channels, outgoing,
                   incoming, reader, call, inbox, told, peerVars, unanswered, seen>>

(* outgoing_rx yields None: all senders are gone. *)
OutgoingClosed ==
    /\ io = "select"
    /\ outgoing = <<>>
    /\ ~connected
    /\ \A c \in Callers : call[c] \notin {"found", "inserted"}

WriteTimeout == io = "select" /\ outgoing # <<>>

ProcessingTimeout == io = "processing" /\ Len(incoming) > INCOMING_BUFFER_SIZE

NothingToDo == io = "select" /\ outgoing = <<>> /\ wire = <<>>

ReadFails == NothingToDo /\ peer = "closed"

(* A failed keepalive, or nothing was received for RECEIVE_TIMEOUT. *)
ReceiveTimeout == NothingToDo

(* The future is dropped by whoever drives it, after its first poll. *)
DropIo == io \in {"select", "processing"}

EndOfIo == OutgoingClosed \/ WriteTimeout \/ ProcessingTimeout \/ ReadFails
              \/ ReceiveTimeout \/ DropIo

(* The socket is not read any more. *)
EndIo(Cause) ==
    /\ Cause
    /\ io' = "end"
    /\ wire' = <<>>
    /\ UNCHANGED <<connected, response_channels, stream_response_channels, outgoing,
                   incoming, reader, call, inbox, told, peer, unanswered, sent, seen>>

(* Mutant of TakeResponses: the map is left as it is. *)
TakeResponsesNot ==
    /\ io = "end"
    /\ io' = "end_streams"
    /\ UNCHANGED <<connected, response_channels, stream_response_channels, outgoing,
                   incoming, reader, call, inbox, told, peerVars, unanswered, seen>>

(* _end_connection, whatever the way out of the loop. *)
TakeResponses ==
    /\ io = "end"
    /\ io' = "end_streams"
    /\ response_channels' = Taken
    /\ UNCHANGED <<connected, stream_response_channels, outgoing, incoming, reader,
                   call, inbox, told, peerVars, unanswered, seen>>

(* Mutant of TakeStreams: the streams are not told. *)
TakeStreamsSilently ==
    /\ io = "end_streams"
    /\ io' = "end_connection"
    /\ stream_response_channels' = Taken
    /\ UNCHANGED <<connected, response_channels, outgoing, incoming, reader, call,
                   inbox, told, peerVars, unanswered, seen>>

TakeStreams ==
    /\ io = "end_streams"
    /\ io' = "end_connection"
    /\ stream_response_channels' = Taken
    /\ inbox' = [c \in Callers |->
                    IF c \in stream_response_channels.ids /\ Receives(c)
                    THEN Append(inbox[c], [kind |-> "closed", serial |-> 0])
                    ELSE inbox[c]]
    /\ UNCHANGED <<connected, response_channels, outgoing, incoming, reader, call,
                   told, peerVars, unanswered, seen>>

RemoveConnection ==
    /\ io = "end_connection"
    /\ io' = "end_outgoing"
    /\ connected' = FALSE
    /\ UNCHANGED <<response_channels, stream_response_channels, outgoing, incoming,
                   reader, call, inbox, told, peerVars, unanswered, seen>>

(* What the future owns goes last. *)
DropOutgoing ==
    /\ io = "end_outgoing"
    /\ io' = "ended"
    /\ outgoing' = <<>>
    /\ UNCHANGED <<connected, response_channels, stream_response_channels, incoming,
                   reader, call, inbox, told, peerVars, unanswered, seen>>

EndConnection == TakeResponses \/ TakeStreams \/ RemoveConnection \/ DropOutgoing

-----------------------------------------------------------------------------
(* The stream of incoming messages that the application polls.             *)

SetReader(pc, m, sender) == reader' = [pc |-> pc, m |-> m, sender |-> sender]

(* A message goes to the application, for a response the request's sender  *)
(* is taken out of its map; a map that is gone ends the matter.            *)
PollIncoming ==
    LET m == Head(incoming)
    IN  /\ reader.pc = "idle"
        /\ incoming # <<>>
        /\ incoming' = Tail(incoming)
        /\ IF m.kind = "message"
           THEN /\ seen' = m.serial
                /\ UNCHANGED <<reader, response_channels>>
           ELSE /\ IF response_channels.open
                   THEN SetReader("streams", m, m.to \in response_channels.ids)
                   ELSE UNCHANGED reader
                /\ response_channels' = [response_channels EXCEPT !.ids = @ \ {m.to}]
                /\ UNCHANGED seen
        /\ UNCHANGED <<connected, stream_response_channels, outgoing, io, call,
                       inbox, told, peerVars, unanswered>>

(* Likewise for streams; only the last frame takes the entry out. *)
FindStream ==
    LET m == reader.m
        ids == stream_response_channels.ids
    IN  /\ reader.pc = "streams"
        /\ IF stream_response_channels.open
           THEN SetReader("send", m, reader.sender \/ m.to \in ids)
           ELSE reader' = NoReader
        /\ stream_response_channels' =
              [stream_response_channels EXCEPT
                  !.ids = IF m.kind \in Terminal THEN @ \ {m.to} ELSE @]
        /\ UNCHANGED <<connected, response_channels, outgoing, io, incoming, call,
                       inbox, told, peerVars, unanswered, seen>>

(* Mutant of SendToCaller: the reader does not wait for the requester. *)
SendToCallerGoOn ==
    LET m == reader.m
    IN  /\ reader.pc = "send"
        /\ reader' = NoReader
        /\ inbox' = IF reader.sender /\ Receives(m.to)
                    THEN [inbox EXCEPT ![m.to] = Append(@, [kind |-> m.kind, serial |-> m.serial])]
                    ELSE inbox
        /\ UNCHANGED <<connected, ioVars, call, told, peerVars, unanswered, seen>>

(* The response is handed over and the reader waits until the requester    *)
(* has gone on; a requester that is gone is forgotten.                     *)
SendToCaller ==
    LET m == reader.m
    IN  /\ reader.pc = "send"
        /\ IF reader.sender /\ Receives(m.to)
           THEN /\ SetReader("await", m, TRUE)
                /\ inbox' = [inbox EXCEPT ![m.to] =
                                Append(@, [kind |-> m.kind, serial |-> m.serial])]
                /\ UNCHANGED stream_response_channels
           ELSE /\ reader' = NoReader
                /\ stream_response_channels' =
                      [stream_response_channels EXCEPT !.ids = @ \ {m.to}]
                /\ UNCHANGED inbox
        /\ UNCHANGED <<connected, response_channels, outgoing, io, incoming, call,
                       told, peerVars, unanswered, seen>>

(* The barrier that travels with a response was dropped. *)
RequesterResumed ==
    /\ reader.pc = "await"
    /\ \A n \in DOMAIN inbox[reader.m.to] : inbox[reader.m.to][n].kind = "closed"
    /\ reader' = NoReader
    /\ UNCHANGED <<connected, ioVars, call, inbox, told, peerVars, unanswered, seen>>

(* The application drops the stream, a message under way included. *)
DropIncoming ==
    /\ reader.pc \in {"idle", "await"}
    /\ reader' = [NoReader EXCEPT !.pc = "gone"]
    /\ incoming' = <<>>
    /\ UNCHANGED <<connected, response_channels, stream_response_channels, outgoing,
                   io, call, inbox, told, peerVars, unanswered, seen>>

-----------------------------------------------------------------------------
(* The other side.                                                         *)

Envelope(kind, to) == [serial |-> sent + 1, kind |-> kind, to |-> to]

PeerSends(kind, to) ==
    /\ peer = "up"
    /\ io \in {"unpolled", "select", "processing"}
    /\ sent < MaxSent
    /\ sent' = sent + 1
    /\ wire' = Append(wire, Envelope(kind, to))
    /\ unanswered' = IF kind = "data" THEN unanswered ELSE unanswered \ {to}
    /\ UNCHANGED <<connected, ioVars, reader, call, inbox, told, peer, seen>>

PeerStops(how) ==
    /\ peer = "up"
    /\ peer' = how
    /\ UNCHANGED <<connected, ioVars, reader, call, inbox, told, wire, unanswered,
                   sent, seen>>

PeerAnswers ==
    \/ PeerSends("message", 0)
    \/ \E r \in Requests \cap unanswered : PeerSends("response", r)
    \/ \E s \in Streams \cap unanswered :
          \E kind \in {"data"} \cup Terminal : PeerSends(kind, s)

-----------------------------------------------------------------------------
MakeCall(c) == ConnectionState(c) \/ Insert(c) \/ Send(c)

Route == FindStream \/ SendToCaller

Next ==
    \/ \E c \in Callers : MakeCall(c)
    \/ \E r \in Requests : Resume(r) \/ DropRequest(r)
    \/ \E s \in Streams : OpenStream(s) \/ PollStream(s) \/ StreamEnds(s) \/ DropStream(s)
    \/ Disconnect
    \/ FirstPoll \/ Abandon \/ DropMaps
    \/ WriteOutgoing \/ Read \/ Processed
    \/ EndIo(EndOfIo)
    \/ EndConnection
    \/ PollIncoming \/ Route \/ RequesterResumed \/ DropIncoming
    \/ PeerAnswers
    \/ PeerStops("silent") \/ PeerStops("closed")

Spec == Init /\ [][Next]_vars

(* Threads go on, handle_io is driven or dropped, and its timers fire when *)
(* the socket stays silent; a reader that was resumed is polled.  Nothing is assumed  *)
(* of when the application polls its futures, streams and messages.        *)
Fairness ==
    /\ \A c \in Callers : WF_vars(MakeCall(c))
    /\ WF_vars(WriteOutgoing \/ Read \/ Processed
                  \/ EndIo(OutgoingClosed \/ ProcessingTimeout \/ ReadFails
                              \/ (peer = "silent" /\ ReceiveTimeout)))
    /\ WF_vars(EndConnection)
    /\ WF_vars(FirstPoll \/ Abandon)
    /\ WF_vars(DropMaps)
    /\ WF_vars(Route \/ RequesterResumed)

FairSpec == Spec /\ Fairness

-----------------------------------------------------------------------------
(* Properties.                                                             *)

(* The application sees responses, frames and messages in the order the    *)
(* other side sent them: whoever asked has gone on with a response before  *)
(* a later message is handed out (peer.rs:617-675).                        *)
SeenInOrder == [][seen' >= seen]_vars

(* A stream never just stops: one that ends has seen its last frame or the *)
(* error "connection closed" (peer.rs:155-163), unless handle_io was       *)
(* dropped before its first poll.                                          *)
NoSilentTruncation ==
    \A s \in Streams : call[s] = "ended" => s \in told \/ io = "abandoned"

(* Once a connection is given up by either side nobody waits on it in the  *)
(* end, requests made while it is being closed included: each has its      *)
(* answer, or finds that there will be none (peer.rs:155-166, 361-388).    *)
(* Only the maps of a connection whose handle_io was never polled may stay *)
(* behind, for as long as somebody holds them.                             *)
Settled(c) == Receives(c) => inbox[c] # <<>> \/ ~HasSender(c)

LeftBehind ==
    /\ io = "abandoned"
    /\ connected \/ reader.pc # "gone" \/ \E s \in Streams : call[s] = "queued"

NobodyLeftWaiting ==
    (~connected \/ peer # "up") ~> (LeftBehind \/ [](\A c \in Callers : Settled(c)))
=============================================================================
