--------------------------- MODULE RpcPeerProofs ---------------------------
(***************************************************************************)
(* Proofs about RpcPeer, for any sets of requests and streams, any size of *)
(* the buffer and any number of envelopes: what the other side sent is     *)
(* seen in its order, and no stream just stops.                            *)
(***************************************************************************)
EXTENDS RpcPeer, SequenceTheorems, TLAPS

Elems(q) == {q[n] : n \in DOMAIN q}

(* The envelopes of a queue are in the order they were sent. *)
Ordered(q) == \A i, j \in DOMAIN q : i < j => q[i].serial < q[j].serial

Kinds == {"message", "response", "data"} \cup Terminal

Item == [kind : Kinds \cup {"closed"}, serial : Nat]

Sent == [serial : Nat, kind : Kinds, to : Callers \cup {0}]

Called == {"start", "found", "inserted", "waiting", "queued", "open", "answered",
           "failed", "dropped", "ended"}

(* The reader holds an envelope. *)
Routing == reader.pc \in {"streams", "send", "await"}

MapsTyped ==
    /\ response_channels \in [open : BOOLEAN, ids : SUBSET Requests]
    /\ stream_response_channels \in [open : BOOLEAN, ids : SUBSET Streams]

CallersTyped ==
    /\ call \in [Callers -> Called]
    /\ inbox \in [Callers -> Seq(Item)]

QueuesTyped ==
    /\ outgoing \in Seq(Callers)
    /\ incoming \in Seq(Sent)
    /\ wire \in Seq(Sent)
    /\ \A e \in Elems(wire) \cup Elems(incoming) :
          e.kind # "message" => e.to \in Callers
    /\ unanswered \subseteq Callers
    /\ sent \in Nat
    /\ seen \in Nat

ReaderTyped ==
    /\ reader \in [pc : {"idle", "streams", "send", "await", "gone"},
                   m : Sent \cup {NoReader.m}, sender : BOOLEAN]
    /\ Routing => reader.m \in Sent /\ reader.m.to \in Callers

TypeOK == MapsTyped /\ CallersTyped /\ QueuesTyped /\ ReaderTyped

(* The two queues and the reader hold what was sent in its order. *)
PipelineOrdered ==
    /\ Ordered(wire)
    /\ Ordered(incoming)
    /\ \A e \in Elems(wire) : e.serial <= sent
    /\ \A e \in Elems(incoming) : e.serial <= sent
    /\ \A e \in Elems(incoming), f \in Elems(wire) : e.serial < f.serial
    /\ Routing =>
          /\ reader.m.serial <= sent
          /\ \A e \in Elems(incoming) \cup Elems(wire) : reader.m.serial < e.serial

(* Everything that can still be seen was sent after what was seen. *)
SeenBehind ==
    /\ seen <= sent
    /\ Routing => seen <= reader.m.serial
    /\ reader.pc # "gone" =>
          \A e \in Elems(incoming) \cup Elems(wire) : seen <= e.serial
    /\ reader.pc = "gone" => incoming = <<>>

(* What was handed to a caller and is not seen yet is the envelope the     *)
(* reader waits for, or waited for when it was dropped.                    *)
HandedOverWaits ==
    \A c \in Callers : \A x \in Elems(inbox[c]) :
        x.kind # "closed" =>
            /\ reader.pc \in {"await", "gone"}
            /\ reader.pc = "await" => c = reader.m.to /\ x.serial = reader.m.serial
            /\ seen <= x.serial /\ x.serial <= sent
            /\ \A d \in Callers : \A y \in Elems(inbox[d]) :
                  y.kind # "closed" => y.serial = x.serial

(* Only streams are told that the connection is closed. *)
RequestsNotTold ==
    \A r \in Requests : \A x \in Elems(inbox[r]) : x.kind # "closed"

(* Who has not sent its request gets no answer. *)
NoAnswerAhead ==
    \A c \in Callers :
        call[c] \in {"start", "found", "inserted"} =>
            /\ c \notin unanswered
            /\ c \notin Elems(outgoing)
            /\ \A e \in Elems(wire) \cup Elems(incoming) :
                  e.kind # "message" => e.to # c
            /\ Routing => reader.m.to # c

(* Whoever reads a stream has its entry in the map, was told the end, or   *)
(* has it before it, unless handle_io was never polled.                    *)
StreamAccounted ==
    \A s \in Streams :
        call[s] \in {"inserted", "queued", "open"} =>
            \/ io = "abandoned"
            \/ s \in told
            \/ s \in stream_response_channels.ids
            \/ \E x \in Elems(inbox[s]) : x.kind # "data"
            \/ /\ reader.pc = "send" /\ reader.sender
               /\ reader.m.to = s /\ reader.m.kind \in Terminal

(* A reader that found no sender has none to lose. *)
NothingToForget ==
    reader.pc = "send" /\ ~reader.sender =>
        reader.m.to \notin stream_response_channels.ids

TakenEmpty == ~stream_response_channels.open => stream_response_channels.ids = {}

(* The inductive invariant. *)
IInv ==
    /\ TypeOK
    /\ PipelineOrdered
    /\ SeenBehind
    /\ HandedOverWaits
    /\ RequestsNotTold
    /\ NoAnswerAhead
    /\ StreamAccounted
    /\ NothingToForget
    /\ TakenEmpty
    /\ NoSilentTruncation

-----------------------------------------------------------------------------
(* Queues *)

LEMMA AppendElems ==
    ASSUME NEW S, NEW q \in Seq(S), NEW e \in S
    PROVE  Append(q, e) \in Seq(S) /\ Elems(Append(q, e)) = Elems(q) \cup {e}
  BY AppendProperties DEF Elems

LEMMA HeadTailElems ==
    ASSUME NEW S, NEW q \in Seq(S), q # <<>>
    PROVE  /\ Head(q) \in S /\ Tail(q) \in Seq(S)
           /\ Elems(q) = {Head(q)} \cup Elems(Tail(q))
<1>1. /\ Head(q) \in S /\ Tail(q) \in Seq(S)
      /\ Len(q) \in Nat \ {0} /\ Len(Tail(q)) = Len(q) - 1
      /\ q[1] = Head(q)
      /\ \A n \in 1 .. Len(q) - 1 : Tail(q)[n] = q[n + 1]
  OBVIOUS
<1>2. Elems(q) \subseteq {Head(q)} \cup Elems(Tail(q))
  <2> SUFFICES ASSUME NEW n \in 1 .. Len(q), n # 1 PROVE q[n] \in Elems(Tail(q))
    BY <1>1 DEF Elems
  <2>1. PICK j \in 1 .. Len(q) - 1 : n = j + 1
    BY <1>1
  <2>2. j \in DOMAIN Tail(q) /\ q[n] = Tail(q)[j]
    BY <1>1, <2>1
  <2> QED
    BY <2>2 DEF Elems
<1>3. {Head(q)} \cup Elems(Tail(q)) \subseteq Elems(q)
  BY <1>1 DEF Elems
<1> QED
  BY <1>1, <1>2, <1>3

LEMMA EmptyElems == Elems(<<>>) = {} /\ Ordered(<<>>)
  BY DEF Elems, Ordered

LEMMA ElemsType ==
    ASSUME NEW S, NEW q \in Seq(S)
    PROVE  Elems(q) \subseteq S
  BY DEF Elems

LEMMA OrderedAppend ==
    ASSUME NEW S, NEW q \in Seq(S), NEW e \in S, Ordered(q),
           \A f \in Elems(q) : f.serial < e.serial
    PROVE  Ordered(Append(q, e))
<1>1. /\ Len(Append(q, e)) = Len(q) + 1 /\ Len(q) \in Nat
      /\ DOMAIN q = 1 .. Len(q)
      /\ DOMAIN Append(q, e) = 1 .. Len(q) + 1
      /\ Append(q, e)[Len(q) + 1] = e
      /\ \A n \in 1 .. Len(q) : Append(q, e)[n] = q[n]
  OBVIOUS
<1> QED
  BY <1>1 DEF Ordered, Elems

LEMMA OrderedTail ==
    ASSUME NEW S, NEW q \in Seq(S), q # <<>>, Ordered(q)
    PROVE  /\ Ordered(Tail(q))
           /\ \A e \in Elems(Tail(q)) : Head(q).serial < e.serial
<1>1. /\ Len(q) \in Nat \ {0}
      /\ DOMAIN q = 1 .. Len(q)
      /\ DOMAIN Tail(q) = 1 .. Len(q) - 1
      /\ q[1] = Head(q)
      /\ \A n \in 1 .. Len(q) - 1 : Tail(q)[n] = q[n + 1]
  OBVIOUS
<1> QED
  BY <1>1 DEF Ordered, Elems

-----------------------------------------------------------------------------
(* What a step may be, one action at a time. *)
LEMMA NextCases ==
    ASSUME [Next]_vars
    PROVE  \/ \E c \in Callers : ConnectionState(c) \/ Insert(c) \/ Send(c)
           \/ \E r \in Requests : Resume(r) \/ DropRequest(r)
           \/ \E s \in Streams :
                 OpenStream(s) \/ PollStream(s) \/ StreamEnds(s) \/ DropStream(s)
           \/ Disconnect \/ FirstPoll \/ Abandon \/ DropMaps
           \/ WriteOutgoing \/ Read \/ Processed \/ EndIo(EndOfIo)
           \/ TakeResponses \/ TakeStreams \/ RemoveConnection \/ DropOutgoing
           \/ PollIncoming \/ FindStream \/ SendToCaller \/ RequesterResumed
           \/ DropIncoming
           \/ \E kind \in Kinds, to \in Callers \cup {0} :
                 (kind # "message" => to \in unanswered) /\ PeerSends(kind, to)
           \/ \E how : PeerStops(how)
           \/ UNCHANGED vars
<1>1. ASSUME PeerAnswers
      PROVE  \E kind \in Kinds, to \in Callers \cup {0} :
                 (kind # "message" => to \in unanswered) /\ PeerSends(kind, to)
  BY <1>1 DEF PeerAnswers, Kinds, Terminal, Callers
<1> QED
  BY <1>1 DEF Next, MakeCall, EndConnection, Route

(* Who was not polled before it was dropped never will be. *)
LEMMA AbandonedStays ==
    ASSUME [Next]_vars, io = "abandoned"
    PROVE  io' = "abandoned"
BY NextCases
   DEF vars, ioVars, ConnectionState, Insert, Send, Resume, DropRequest, OpenStream,
       PollStream, StreamEnds, DropStream, Disconnect, FirstPoll, Abandon, DropMaps,
       WriteOutgoing, Read, Processed, EndIo, EndOfIo, OutgoingClosed, WriteTimeout,
       ProcessingTimeout, NothingToDo, ReadFails, ReceiveTimeout, DropIo, TakeResponses,
       TakeStreams, RemoveConnection, DropOutgoing, PollIncoming, FindStream,
       SendToCaller, RequesterResumed, DropIncoming, PeerSends, PeerStops

(* The types are preserved by every step. *)
LEMMA NextMapsTyped == TypeOK /\ [Next]_vars => MapsTyped'
<1> SUFFICES ASSUME TypeOK, [Next]_vars PROVE MapsTyped'
  OBVIOUS
<1> USE DEF TypeOK, MapsTyped
<1>1. ASSUME NEW c \in Callers, Insert(c) PROVE MapsTyped'
  BY <1>1 DEF Insert, Callers
<1>2. ASSUME NEW c \in Callers, Send(c) PROVE MapsTyped'
  BY <1>2 DEF Send
<1>3. ASSUME NEW s \in Streams, PollStream(s) PROVE MapsTyped'
  BY <1>3 DEF PollStream
<1>4. ASSUME NEW s \in Streams, DropStream(s) PROVE MapsTyped'
  BY <1>4 DEF DropStream
<1>5. CASE TakeResponses
  BY <1>5 DEF TakeResponses, Taken
<1>6. CASE TakeStreams
  BY <1>6 DEF TakeStreams, Taken
<1>7. CASE PollIncoming
  BY <1>7 DEF PollIncoming
<1>8. CASE FindStream
  BY <1>8 DEF FindStream
<1>9. CASE SendToCaller
  BY <1>9 DEF SendToCaller
<1>11. CASE DropMaps
  BY <1>11 DEF DropMaps, Taken
<1>10. CASE UNCHANGED <<response_channels, stream_response_channels>>
  BY <1>10
<1> QED
  BY NextCases, <1>1, <1>2, <1>3, <1>4, <1>5, <1>6, <1>7, <1>8, <1>9, <1>10, <1>11
     DEF vars, ioVars, peerVars, ConnectionState, SetCall, Resume,
         DropRequest, OpenStream, StreamEnds, Disconnect, WriteOutgoing, Read,
         FirstPoll, Abandon, Processed, EndIo, RemoveConnection, DropOutgoing, RequesterResumed,
         DropIncoming, PeerSends, PeerStops

LEMMA NextCallersTyped == TypeOK /\ [Next]_vars => CallersTyped'
<1> SUFFICES ASSUME TypeOK, [Next]_vars PROVE CallersTyped'
  OBVIOUS
<1> USE DEF TypeOK, CallersTyped, Called
<1>0. /\ <<>> \in Seq(Item)
      /\ Requests \subseteq Callers /\ Streams \subseteq Callers
  BY DEF Callers
<1>1. ASSUME NEW c \in Callers, ConnectionState(c) PROVE CallersTyped'
  BY <1>1 DEF ConnectionState, SetCall
<1>2. ASSUME NEW c \in Callers, Insert(c) PROVE CallersTyped'
  BY <1>2 DEF Insert, SetCall
<1>3. ASSUME NEW c \in Callers, Send(c) PROVE CallersTyped'
  <2>1. inbox' \in [Callers -> Seq(Item)]
    BY <1>3, <1>0 DEF Send
  <2> QED
    BY <1>3, <1>0, <2>1 DEF Send, SetCall
<1>4. ASSUME NEW r \in Requests, Resume(r) PROVE CallersTyped'
  <2>1. inbox' \in [Callers -> Seq(Item)]
    BY <1>4, <1>0 DEF Resume
  <2> QED
    BY <1>4, <1>0, <2>1 DEF Resume, SetCall
<1>5. ASSUME NEW r \in Requests, DropRequest(r) PROVE CallersTyped'
  <2>1. inbox' \in [Callers -> Seq(Item)]
    BY <1>5, <1>0 DEF DropRequest
  <2> QED
    BY <1>5, <1>0, <2>1 DEF DropRequest, SetCall
<1>6. ASSUME NEW s \in Streams, OpenStream(s) PROVE CallersTyped'
  BY <1>6, <1>0 DEF OpenStream, SetCall
<1>7. ASSUME NEW s \in Streams, PollStream(s) PROVE CallersTyped'
  <2>1. Tail(inbox[s]) \in Seq(Item)
    BY <1>7, <1>0, HeadTailElems DEF PollStream
  <2> QED
    BY <1>7, <1>0, <2>1 DEF PollStream
<1>8. ASSUME NEW s \in Streams, StreamEnds(s) PROVE CallersTyped'
  BY <1>8, <1>0 DEF StreamEnds, SetCall
<1>9. ASSUME NEW s \in Streams, DropStream(s) PROVE CallersTyped'
  <2>1. inbox' \in [Callers -> Seq(Item)]
    BY <1>9, <1>0 DEF DropStream
  <2> QED
    BY <1>9, <1>0, <2>1 DEF DropStream, SetCall
<1>10. CASE TakeStreams
  <2>1. [kind |-> "closed", serial |-> 0] \in Item
    BY DEF Item
  <2>2. \A c \in Callers :
           Append(inbox[c], [kind |-> "closed", serial |-> 0]) \in Seq(Item)
    BY <2>1, AppendElems
  <2> QED
    BY <1>10, <2>2 DEF TakeStreams
<1>11. CASE SendToCaller
  <2> DEFINE x == [kind |-> reader.m.kind, serial |-> reader.m.serial]
  <2>1. reader.m.to \in Callers /\ x \in Item
    BY <1>11 DEF SendToCaller, ReaderTyped, Routing, Sent, Item
  <2>2. Append(inbox[reader.m.to], x) \in Seq(Item)
    BY <2>1, AppendElems
  <2> QED
    BY <1>11, <2>1, <2>2 DEF SendToCaller
<1>12. CASE UNCHANGED <<call, inbox>>
  BY <1>12
<1>13. ASSUME \/ Disconnect \/ FirstPoll \/ Abandon \/ DropMaps
              \/ WriteOutgoing \/ Read \/ Processed \/ EndIo(EndOfIo)
              \/ TakeResponses \/ UNCHANGED vars
       PROVE  UNCHANGED <<call, inbox>>
  BY <1>13 DEF vars, ioVars, peerVars, Disconnect, FirstPoll, Abandon, DropMaps,
               WriteOutgoing, Read, Processed, EndIo, TakeResponses
<1>14. ASSUME \/ RemoveConnection \/ DropOutgoing \/ PollIncoming \/ FindStream
              \/ RequesterResumed \/ DropIncoming
              \/ \E kind \in Kinds, to \in Callers \cup {0} : PeerSends(kind, to)
              \/ \E how : PeerStops(how)
       PROVE  UNCHANGED <<call, inbox>>
  BY <1>14 DEF ioVars, peerVars, RemoveConnection, DropOutgoing, PollIncoming,
               SetReader, FindStream, RequesterResumed, DropIncoming, PeerSends,
               PeerStops
<1> HIDE DEF TypeOK, CallersTyped, Called
<1> QED
  BY NextCases, <1>1, <1>2, <1>3, <1>4, <1>5, <1>6, <1>7, <1>8, <1>9,
     <1>10, <1>11, <1>12, <1>13, <1>14

LEMMA NextQueuesTyped == TypeOK /\ [Next]_vars => QueuesTyped'
<1> SUFFICES ASSUME TypeOK, [Next]_vars PROVE QueuesTyped'
  OBVIOUS
<1> USE DEF TypeOK, QueuesTyped
<1>1. ASSUME NEW c \in Callers, Send(c) PROVE QueuesTyped'
  <2>1. UNCHANGED <<incoming, wire, unanswered, sent, seen>>
    BY <1>1 DEF Send, peerVars
  <2>2. outgoing' = outgoing \/ outgoing' = Append(outgoing, c)
    BY <1>1 DEF Send
  <2>3. outgoing' \in Seq(Callers)
    BY <2>2, AppendElems
  <2> QED
    BY <2>1, <2>3
<1>2. ASSUME NEW r \in Requests, Resume(r) PROVE QueuesTyped'
  <2>1. inbox[r] \in Seq(Item)
    BY DEF CallersTyped, Callers
  <2>2. inbox[r] # <<>> => Head(inbox[r]) \in Item
    BY <2>1, HeadTailElems
  <2>3. inbox[r] # <<>> => Head(inbox[r]).serial \in Nat
    BY <2>2 DEF Item
  <2> QED
    BY <1>2, <2>3 DEF Resume, ioVars, peerVars
<1>3. ASSUME NEW s \in Streams, PollStream(s) PROVE QueuesTyped'
  <2>1. inbox[s] \in Seq(Item) /\ inbox[s] # <<>>
    BY <1>3 DEF PollStream, CallersTyped, Callers
  <2>2. Head(inbox[s]) \in Item
    BY <2>1, HeadTailElems
  <2>3. Head(inbox[s]).serial \in Nat
    BY <2>2 DEF Item
  <2> QED
    BY <1>3, <2>3 DEF PollStream, peerVars
<1>4. CASE WriteOutgoing
  BY <1>4 DEF WriteOutgoing, peerVars
<1>5. CASE Read
  <2>1. /\ Head(wire) \in Sent /\ Tail(wire) \in Seq(Sent)
        /\ Elems(wire) = {Head(wire)} \cup Elems(Tail(wire))
    BY <1>5, HeadTailElems DEF Read
  <2>2. /\ Append(incoming, Head(wire)) \in Seq(Sent)
        /\ Elems(Append(incoming, Head(wire))) = Elems(incoming) \cup {Head(wire)}
    BY <2>1, AppendElems
  <2> QED
    BY <1>5, <2>1, <2>2 DEF Read
<1>6. CASE EndIo(EndOfIo)
  BY <1>6, EmptyElems DEF EndIo
<1>12. CASE Abandon
  BY <1>12, EmptyElems DEF Abandon
<1>7. CASE DropOutgoing
  BY <1>7 DEF DropOutgoing, peerVars
<1>8. CASE PollIncoming
  <2>1. /\ Head(incoming) \in Sent /\ Tail(incoming) \in Seq(Sent)
        /\ Elems(incoming) = {Head(incoming)} \cup Elems(Tail(incoming))
    BY <1>8, HeadTailElems DEF PollIncoming
  <2>2. Head(incoming).serial \in Nat
    BY <2>1 DEF Sent
  <2> QED
    BY <1>8, <2>1, <2>2 DEF PollIncoming, peerVars
<1>9. CASE DropIncoming
  BY <1>9, EmptyElems DEF DropIncoming, peerVars
<1>10. ASSUME NEW kind \in Kinds, NEW to \in Callers \cup {0},
             kind # "message" => to \in unanswered, PeerSends(kind, to)
      PROVE  QueuesTyped'
  <2>1. Envelope(kind, to) \in Sent
    BY <1>10 DEF Envelope, Sent
  <2>2. /\ Append(wire, Envelope(kind, to)) \in Seq(Sent)
        /\ Elems(Append(wire, Envelope(kind, to))) = Elems(wire) \cup {Envelope(kind, to)}
    BY <2>1, AppendElems
  <2>3. Envelope(kind, to).kind = kind /\ Envelope(kind, to).to = to
    BY DEF Envelope
  <2> QED
    BY <1>10, <2>2, <2>3 DEF PeerSends, ioVars
<1>11. CASE UNCHANGED <<outgoing, incoming, wire, unanswered, sent, seen>>
  BY <1>11
<1> QED
  BY NextCases, <1>1, <1>2, <1>3, <1>4, <1>5, <1>6, <1>7, <1>8, <1>9,
     <1>10, <1>11, <1>12
     DEF vars, ioVars, peerVars, ConnectionState, SetCall, Insert,
         DropRequest, OpenStream, StreamEnds, DropStream, Disconnect,
         Processed, TakeResponses, TakeStreams, RemoveConnection, FindStream,
         SetReader, SendToCaller, RequesterResumed, PeerStops,
         FirstPoll, DropMaps

LEMMA NoReaderTyped ==
    /\ NoReader \in [pc : {"idle"}, m : {NoReader.m}, sender : BOOLEAN]
    /\ NoReader.pc = "idle" /\ ~NoReader.sender
  BY DEF NoReader

LEMMA NextReaderTyped == TypeOK /\ [Next]_vars => ReaderTyped'
<1> SUFFICES ASSUME TypeOK, [Next]_vars PROVE ReaderTyped'
  OBVIOUS
<1> USE DEF TypeOK, ReaderTyped, Routing
<1>1. CASE PollIncoming
  <2>1. /\ Head(incoming) \in Sent
        /\ Head(incoming).kind # "message" => Head(incoming).to \in Callers
    BY <1>1, HeadTailElems DEF PollIncoming, QueuesTyped
  <2> DEFINE found == Head(incoming).to \in response_channels.ids
  <2>2. found \in BOOLEAN
    OBVIOUS
  <2>3. \/ reader' = reader
        \/ /\ Head(incoming).kind # "message"
           /\ reader' = [pc |-> "streams", m |-> Head(incoming), sender |-> found]
    BY <1>1 DEF PollIncoming, SetReader
  <2> HIDE DEF found
  <2> QED
    BY <2>1, <2>2, <2>3
<1>2. CASE FindStream
  <2> DEFINE found == reader.sender \/ reader.m.to \in stream_response_channels.ids
  <2>1. found \in BOOLEAN
    OBVIOUS
  <2>2. \/ reader' = NoReader
        \/ reader' = [pc |-> "send", m |-> reader.m, sender |-> found]
    BY <1>2 DEF FindStream, SetReader
  <2>3. reader.m \in Sent /\ reader.m.to \in Callers
    BY <1>2 DEF FindStream
  <2> HIDE DEF found
  <2> QED
    BY <2>1, <2>2, <2>3, NoReaderTyped
<1>3. CASE SendToCaller
  <2>1. \/ reader' = NoReader
        \/ reader' = [pc |-> "await", m |-> reader.m, sender |-> TRUE]
    BY <1>3 DEF SendToCaller, SetReader
  <2>2. reader.m \in Sent /\ reader.m.to \in Callers
    BY <1>3 DEF SendToCaller
  <2>3. CASE reader' = NoReader
    BY <2>3, NoReaderTyped
  <2>4. CASE reader' = [pc |-> "await", m |-> reader.m, sender |-> TRUE]
    BY <2>2, <2>4
  <2> QED
    BY <2>1, <2>3, <2>4
<1>4. CASE RequesterResumed
  BY <1>4 DEF RequesterResumed, NoReader
<1>5. CASE DropIncoming
  BY <1>5 DEF DropIncoming, NoReader
<1>6. CASE UNCHANGED reader
  BY <1>6
<1> QED
  BY NextCases, <1>1, <1>2, <1>3, <1>4, <1>5, <1>6
     DEF vars, ioVars, peerVars, ConnectionState, SetCall, Insert, Send,
         Resume, DropRequest, OpenStream, PollStream, StreamEnds, DropStream,
         Disconnect, WriteOutgoing, Read, Processed, EndIo, TakeResponses,
         TakeStreams, RemoveConnection, DropOutgoing, PeerSends, PeerStops,
         FirstPoll, Abandon, DropMaps

LEMMA NextTypeOK == TypeOK /\ [Next]_vars => TypeOK'
  BY NextMapsTyped, NextCallersTyped, NextQueuesTyped, NextReaderTyped DEF TypeOK

-----------------------------------------------------------------------------
LEMMA InitIInv == Init => IInv
<1> SUFFICES ASSUME Init PROVE IInv
  OBVIOUS
<1>1. /\ Elems(wire) = {} /\ Elems(incoming) = {} /\ Elems(outgoing) = {}
      /\ Ordered(wire) /\ Ordered(incoming)
      /\ \A c \in Callers : Elems(inbox[c]) = {}
  BY EmptyElems DEF Init
<1>2. ~Routing
  BY DEF Init, NoReader, Routing
<1>3. TypeOK
  <2>1. MapsTyped
    BY DEF Init, MapsTyped, Some
  <2>2. CallersTyped
    BY DEF Init, CallersTyped, Called
  <2>3. QueuesTyped
    BY <1>1 DEF Init, QueuesTyped
  <2>4. ReaderTyped
    BY <1>2, NoReaderTyped DEF Init, ReaderTyped
  <2> QED
    BY <2>1, <2>2, <2>3, <2>4 DEF TypeOK
<1>4. PipelineOrdered /\ SeenBehind
  BY <1>1, <1>2, NoReaderTyped DEF Init, PipelineOrdered, SeenBehind
<1>5. HandedOverWaits /\ RequestsNotTold
  BY <1>1 DEF HandedOverWaits, RequestsNotTold, Callers
<1>6. NoAnswerAhead
  BY <1>1, <1>2 DEF Init, NoAnswerAhead
<1>7. StreamAccounted /\ NoSilentTruncation
  BY DEF Init, StreamAccounted, NoSilentTruncation, Callers
<1>8. NothingToForget /\ TakenEmpty
  BY NoReaderTyped DEF Init, NothingToForget, TakenEmpty, Some
<1> QED
  BY <1>3, <1>4, <1>5, <1>6, <1>7, <1>8 DEF IInv

LEMMA SerialsTyped ==
    ASSUME TypeOK
    PROVE  /\ \A e \in Elems(wire) \cup Elems(incoming) : e.serial \in Nat
           /\ Routing => reader.m.serial \in Nat
           /\ \A c \in Callers : \A x \in Elems(inbox[c]) : x.serial \in Nat
<1>1. Elems(wire) \subseteq Sent /\ Elems(incoming) \subseteq Sent
  BY ElemsType DEF TypeOK, QueuesTyped
<1>2. \A c \in Callers : inbox[c] \in Seq(Item)
  BY DEF TypeOK, CallersTyped
<1>3. \A c \in Callers : Elems(inbox[c]) \subseteq Item
  BY <1>2, ElemsType
<1>4. Routing => reader.m \in Sent
  BY DEF TypeOK, ReaderTyped
<1> QED
  BY <1>1, <1>3, <1>4 DEF Sent, Item

(* Where a queue, the reader or an inbox changes, what it then holds. *)
LEMMA ReadStep ==
    ASSUME TypeOK, Read
    PROVE  /\ Head(wire) \in Sent
           /\ Elems(wire) = {Head(wire)} \cup Elems(wire')
           /\ \/ incoming' = incoming /\ reader.pc = "gone"
              \/ /\ Elems(incoming') = Elems(incoming) \cup {Head(wire)}
                 /\ incoming' = Append(incoming, Head(wire))
                 /\ reader.pc # "gone"
           /\ reader' = reader /\ sent' = sent /\ seen' = seen
<1>1. /\ Head(wire) \in Sent /\ Tail(wire) \in Seq(Sent)
      /\ Elems(wire) = {Head(wire)} \cup Elems(Tail(wire))
  BY HeadTailElems DEF Read, TypeOK, QueuesTyped
<1>2. Elems(Append(incoming, Head(wire))) = Elems(incoming) \cup {Head(wire)}
  BY <1>1, AppendElems DEF TypeOK, QueuesTyped
<1> QED
  BY <1>1, <1>2 DEF Read

LEMMA PollIncomingStep ==
    ASSUME TypeOK, PollIncoming
    PROVE  /\ Head(incoming) \in Sent
           /\ Head(incoming).kind # "message" => Head(incoming).to \in Callers
           /\ Elems(incoming) = {Head(incoming)} \cup Elems(incoming')
           /\ wire' = wire /\ sent' = sent /\ inbox' = inbox
           /\ reader.pc = "idle"
           /\ \/ /\ Head(incoming).kind = "message"
                 /\ seen' = Head(incoming).serial /\ reader' = reader
              \/ /\ Head(incoming).kind # "message" /\ seen' = seen
                 /\ \/ reader' = reader
                    \/ reader'.pc = "streams" /\ reader'.m = Head(incoming)
<1>1. /\ Head(incoming) \in Sent /\ Tail(incoming) \in Seq(Sent)
      /\ Elems(incoming) = {Head(incoming)} \cup Elems(Tail(incoming))
  BY HeadTailElems DEF PollIncoming, TypeOK, QueuesTyped
<1>2. Head(incoming).kind # "message" => Head(incoming).to \in Callers
  BY <1>1 DEF TypeOK, QueuesTyped
<1>3. wire' = wire /\ sent' = sent /\ inbox' = inbox /\ reader.pc = "idle"
      /\ incoming' = Tail(incoming)
  BY DEF PollIncoming, peerVars
<1> QED
  BY <1>1, <1>2, <1>3 DEF PollIncoming, SetReader

LEMMA PeerSendsStep ==
    ASSUME TypeOK, NEW kind \in Kinds, NEW to \in Callers \cup {0}, PeerSends(kind, to)
    PROVE  /\ Envelope(kind, to) \in Sent
           /\ Envelope(kind, to).serial = sent + 1
           /\ Envelope(kind, to).kind = kind /\ Envelope(kind, to).to = to
           /\ wire' = Append(wire, Envelope(kind, to))
           /\ Elems(wire') = Elems(wire) \cup {Envelope(kind, to)}
           /\ sent' = sent + 1
           /\ unanswered' \subseteq unanswered
           /\ UNCHANGED <<incoming, outgoing, reader, seen, inbox, call>>
<1>1. Envelope(kind, to) \in Sent
  BY DEF Envelope, Sent, TypeOK, QueuesTyped
<1>2. Elems(Append(wire, Envelope(kind, to))) = Elems(wire) \cup {Envelope(kind, to)}
  BY <1>1, AppendElems DEF TypeOK, QueuesTyped
<1> QED
  BY <1>1, <1>2 DEF PeerSends, Envelope, ioVars

LEMMA ReaderStep ==
    ASSUME FindStream \/ SendToCaller \/ RequesterResumed
    PROVE  /\ Routing
           /\ \/ reader' = NoReader /\ ~(Routing')
              \/ Routing' /\ reader'.m = reader.m
           /\ reader'.pc # "gone"
           /\ UNCHANGED <<incoming, wire, sent, seen, outgoing, unanswered, call>>
<1>1. reader' = NoReader => ~(Routing') /\ reader'.pc # "gone"
  BY NoReaderTyped DEF Routing
<1>2. CASE FindStream
  BY <1>1, <1>2 DEF FindStream, SetReader, Routing, peerVars
<1>3. CASE SendToCaller
  BY <1>1, <1>3 DEF SendToCaller, SetReader, Routing, peerVars
<1>4. CASE RequesterResumed
  BY <1>1, <1>4 DEF RequesterResumed, Routing, peerVars, ioVars
<1> QED
  BY <1>2, <1>3, <1>4

LEMMA DropIncomingStep ==
    ASSUME DropIncoming
    PROVE  /\ ~(Routing') /\ reader'.pc = "gone" /\ incoming' = <<>>
           /\ reader.pc \in {"idle", "await"}
           /\ UNCHANGED <<wire, sent, seen, outgoing, unanswered, call, inbox>>
  BY DEF DropIncoming, NoReader, Routing, peerVars

LEMMA InboxDropped ==
    ASSUME TypeOK, NEW c \in Callers, inbox' = [inbox EXCEPT ![c] = <<>>]
    PROVE  /\ Elems(inbox'[c]) = {}
           /\ \A d \in Callers : Elems(inbox'[d]) \subseteq Elems(inbox[d])
           /\ \A d \in Callers \ {c} : inbox'[d] = inbox[d]
<1>1. \A d \in Callers : inbox'[d] = IF d = c THEN <<>> ELSE inbox[d]
  BY DEF TypeOK, CallersTyped
<1> QED
  BY <1>1, EmptyElems

LEMMA PollStreamStep ==
    ASSUME TypeOK, NEW s \in Streams, PollStream(s)
    PROVE  /\ Elems(inbox[s]) = {Head(inbox[s])} \cup Elems(inbox'[s])
           /\ \A d \in Callers \ {s} : inbox'[d] = inbox[d]
           /\ \A d \in Callers : Elems(inbox'[d]) \subseteq Elems(inbox[d])
           /\ seen' = IF Head(inbox[s]).kind = "closed" THEN seen ELSE Head(inbox[s]).serial
           /\ UNCHANGED <<reader, incoming, wire, sent, call, unanswered, outgoing>>
<1>1. s \in Callers /\ inbox \in [Callers -> Seq(Item)]
  BY DEF Callers, TypeOK, CallersTyped
<1>2. inbox[s] \in Seq(Item) /\ inbox[s] # <<>> /\ inbox'[s] = Tail(inbox[s])
      /\ \A d \in Callers \ {s} : inbox'[d] = inbox[d]
  BY <1>1 DEF PollStream
<1>3. Elems(inbox[s]) = {Head(inbox[s])} \cup Elems(inbox'[s])
  BY <1>2, HeadTailElems
<1>4. \A d \in Callers : Elems(inbox'[d]) \subseteq Elems(inbox[d])
  BY <1>2, <1>3
<1> QED
  BY <1>2, <1>3, <1>4 DEF PollStream, peerVars

LEMMA TakeStreamsStep ==
    ASSUME TypeOK, TakeStreams
    PROVE  \A c \in Callers :
             \/ inbox'[c] = inbox[c]
                /\ ~(c \in stream_response_channels.ids /\ Receives(c))
             \/ /\ c \in stream_response_channels.ids /\ c \in Streams
                /\ Elems(inbox'[c]) = Elems(inbox[c]) \cup {[kind |-> "closed", serial |-> 0]}
<1> DEFINE closed == [kind |-> "closed", serial |-> 0]
<1>1. closed \in Item
  BY DEF Item
<1>2. inbox \in [Callers -> Seq(Item)] /\ stream_response_channels.ids \subseteq Streams
  BY DEF TypeOK, CallersTyped, MapsTyped
<1>3. \A c \in Callers : Elems(Append(inbox[c], closed)) = Elems(inbox[c]) \cup {closed}
  BY <1>1, <1>2, AppendElems
<1>4. inbox' = [c \in Callers |->
                    IF c \in stream_response_channels.ids /\ Receives(c)
                    THEN Append(inbox[c], closed) ELSE inbox[c]]
  BY DEF TakeStreams
<1> HIDE DEF closed
<1>5. \A c \in Callers :
             \/ inbox'[c] = inbox[c]
                /\ ~(c \in stream_response_channels.ids /\ Receives(c))
             \/ /\ c \in stream_response_channels.ids /\ c \in Streams
                /\ Elems(inbox'[c]) = Elems(inbox[c]) \cup {closed}
  BY <1>2, <1>3, <1>4
<1> QED
  BY <1>5 DEF closed

LEMMA SendToCallerStep ==
    ASSUME TypeOK, SendToCaller
    PROVE  /\ reader.pc = "send" /\ reader.m \in Sent /\ reader.m.to \in Callers
           /\ \/ inbox' = inbox /\ reader' = NoReader
                 /\ ~(reader.sender /\ Receives(reader.m.to))
              \/ /\ reader.sender /\ Receives(reader.m.to)
                 /\ reader'.pc = "await" /\ reader'.m = reader.m
                 /\ stream_response_channels' = stream_response_channels
                 /\ \A d \in Callers \ {reader.m.to} : inbox'[d] = inbox[d]
                 /\ \E x \in Item :
                       /\ x.kind = reader.m.kind /\ x.serial = reader.m.serial
                       /\ Elems(inbox'[reader.m.to]) = Elems(inbox[reader.m.to]) \cup {x}
<1>1. reader.pc = "send" /\ reader.m \in Sent /\ reader.m.to \in Callers
  BY DEF SendToCaller, TypeOK, ReaderTyped, Routing
<1>2. CASE ~(reader.sender /\ Receives(reader.m.to))
  BY <1>1, <1>2 DEF SendToCaller
<1>3. CASE reader.sender /\ Receives(reader.m.to)
  <2> DEFINE x == [kind |-> reader.m.kind, serial |-> reader.m.serial]
  <2>1. x \in Item /\ x.kind = reader.m.kind /\ x.serial = reader.m.serial
    BY <1>1 DEF Sent, Item
  <2>2. inbox' = [inbox EXCEPT ![reader.m.to] = Append(@, x)]
    BY <1>3 DEF SendToCaller
  <2>3. inbox \in [Callers -> Seq(Item)]
    BY DEF TypeOK, CallersTyped
  <2> HIDE DEF x
  <2>4. /\ inbox'[reader.m.to] = Append(inbox[reader.m.to], x)
        /\ \A d \in Callers \ {reader.m.to} : inbox'[d] = inbox[d]
    BY <1>1, <2>2, <2>3
  <2>5. Elems(inbox'[reader.m.to]) = Elems(inbox[reader.m.to]) \cup {x}
    BY <1>1, <2>1, <2>3, <2>4, AppendElems
  <2>6. reader'.pc = "await" /\ reader'.m = reader.m
        /\ stream_response_channels' = stream_response_channels
    BY <1>3 DEF SendToCaller, SetReader
  <2> QED
    BY <1>1, <1>3, <2>1, <2>4, <2>5, <2>6
<1> QED
  BY <1>1, <1>2, <1>3

(* The order of what was sent survives every step. *)
LEMMA NextPipelineOrdered == IInv /\ [Next]_vars => PipelineOrdered'
<1> SUFFICES ASSUME IInv, [Next]_vars PROVE PipelineOrdered'
  OBVIOUS
<1>0. TypeOK /\ PipelineOrdered
  BY DEF IInv
<1>t. /\ wire \in Seq(Sent) /\ incoming \in Seq(Sent) /\ sent \in Nat
      /\ \A e \in Elems(wire) \cup Elems(incoming) : e.serial \in Nat
      /\ Routing => reader.m.serial \in Nat
  BY <1>0, SerialsTyped DEF TypeOK, QueuesTyped
<1> USE <1>0, <1>t DEF PipelineOrdered
<1>1. CASE Read
  <2>1. Ordered(wire') /\ \A e \in Elems(wire') : Head(wire).serial < e.serial
    BY <1>1, OrderedTail DEF Read
  <2>2. Ordered(incoming')
    <3>1. \A e \in Elems(incoming) : e.serial < Head(wire).serial
      BY <1>1, ReadStep
    <3> QED
      BY <1>1, <3>1, ReadStep, OrderedAppend
  <2> QED
    BY <1>1, <2>1, <2>2, ReadStep DEF Routing
<1>2. CASE EndIo(EndOfIo)
  BY <1>2, EmptyElems DEF EndIo, Routing
<1>10. CASE Abandon
  BY <1>10, EmptyElems DEF Abandon, Routing
<1>3. CASE PollIncoming
  <2>1. /\ Ordered(incoming')
        /\ \A e \in Elems(incoming') : Head(incoming).serial < e.serial
    BY <1>3, OrderedTail DEF PollIncoming
  <2> QED
    BY <1>3, <2>1, PollIncomingStep DEF Routing
<1>4. CASE FindStream
  BY <1>4, ReaderStep
<1>5. CASE SendToCaller
  BY <1>5, ReaderStep
<1>6. CASE RequesterResumed
  BY <1>6, ReaderStep
<1>7. CASE DropIncoming
  BY <1>7, DropIncomingStep, EmptyElems
<1>8. ASSUME NEW kind \in Kinds, NEW to \in Callers \cup {0},
             kind # "message" => to \in unanswered, PeerSends(kind, to)
      PROVE  PipelineOrdered'
  <2> DEFINE e == Envelope(kind, to)
  <2>0. /\ e \in Sent /\ e.serial = sent + 1 /\ sent' = sent + 1
        /\ wire' = Append(wire, e) /\ Elems(wire') = Elems(wire) \cup {e}
        /\ UNCHANGED <<incoming, reader>>
    BY <1>8, PeerSendsStep
  <2> HIDE DEF e
  <2>1. Ordered(wire')
    <3>1. \A f \in Elems(wire) : f.serial < e.serial
      BY <2>0
    <3> QED
      BY <2>0, <3>1, OrderedAppend
  <2> QED
    BY <2>0, <2>1 DEF Routing
<1>9. CASE UNCHANGED <<wire, incoming, reader, sent>>
  BY <1>9 DEF Routing
<1> QED
  BY NextCases, <1>1, <1>2, <1>3, <1>4, <1>5, <1>6, <1>7, <1>8, <1>9, <1>10
     DEF vars, ioVars, peerVars, ConnectionState, SetCall, Insert, Send,
         Resume, DropRequest, OpenStream, PollStream, StreamEnds, DropStream,
         Disconnect, WriteOutgoing, Processed, TakeResponses, TakeStreams,
         RemoveConnection, DropOutgoing, PeerStops, FirstPoll, DropMaps

(* What was seen stays behind what can be seen. *)
LEMMA NextSeenBehind == IInv /\ [Next]_vars => SeenBehind' /\ seen' >= seen
<1> SUFFICES ASSUME IInv, [Next]_vars PROVE SeenBehind' /\ seen' >= seen
  OBVIOUS
<1>0. TypeOK /\ PipelineOrdered /\ SeenBehind /\ HandedOverWaits /\ RequestsNotTold
  BY DEF IInv
<1>t. /\ sent \in Nat /\ seen \in Nat
      /\ \A e \in Elems(wire) \cup Elems(incoming) : e.serial \in Nat
      /\ Routing => reader.m.serial \in Nat
      /\ \A c \in Callers : \A x \in Elems(inbox[c]) : x.serial \in Nat
  BY <1>0, SerialsTyped DEF TypeOK, QueuesTyped
<1> USE <1>0, <1>t DEF SeenBehind
<1>h. \A c \in Callers : \A x \in Elems(inbox[c]) :
        x.kind # "closed" =>
            /\ seen <= x.serial /\ x.serial <= sent
            /\ Routing => x.serial <= reader.m.serial
            /\ reader.pc # "gone" =>
                  \A e \in Elems(incoming) \cup Elems(wire) : x.serial <= e.serial
  BY DEF HandedOverWaits, PipelineOrdered, Routing
<1>1. ASSUME NEW r \in Requests, Resume(r) PROVE SeenBehind' /\ seen' >= seen
  <2>1. inbox[r] # <<>> => Head(inbox[r]) \in Elems(inbox[r])
    <3>1. inbox[r] \in Seq(Item)
      BY DEF TypeOK, CallersTyped, Callers
    <3> QED
      BY <3>1, HeadTailElems
  <2>2. inbox[r] # <<>> => Head(inbox[r]).kind # "closed"
    BY <2>1 DEF RequestsNotTold
  <2>3. /\ UNCHANGED <<reader, incoming, wire, sent>>
        /\ \/ seen' = seen
           \/ inbox[r] # <<>> /\ seen' = Head(inbox[r]).serial
    BY <1>1 DEF Resume, ioVars, peerVars
  <2> QED
    BY <1>h, <2>1, <2>2, <2>3 DEF Routing, Callers
<1>2. ASSUME NEW s \in Streams, PollStream(s) PROVE SeenBehind' /\ seen' >= seen
  <2> DEFINE x == Head(inbox[s])
  <2>1. /\ x \in Elems(inbox[s]) /\ s \in Callers
        /\ UNCHANGED <<reader, incoming, wire, sent>>
        /\ seen' = IF x.kind = "closed" THEN seen ELSE x.serial
    BY <1>2, PollStreamStep DEF Callers
  <2> HIDE DEF x
  <2> QED
    BY <1>h, <2>1 DEF Routing
<1>3. CASE Read
  BY <1>3, ReadStep DEF Routing, PipelineOrdered
<1>4. CASE EndIo(EndOfIo)
  BY <1>4, EmptyElems DEF EndIo, Routing
<1>12. CASE Abandon
  BY <1>12, EmptyElems DEF Abandon, Routing
<1>5. CASE PollIncoming
  <2>1. \A e \in Elems(incoming') : Head(incoming).serial < e.serial
    <3>1. incoming \in Seq(Sent) /\ incoming # <<>> /\ incoming' = Tail(incoming)
      BY <1>5 DEF PollIncoming, TypeOK, QueuesTyped
    <3> QED
      BY <3>1, OrderedTail DEF PipelineOrdered
  <2> DEFINE m == Head(incoming)
  <2>2. m \in Elems(incoming) /\ Elems(incoming') \subseteq Elems(incoming)
    BY <1>5, PollIncomingStep
  <2>3. /\ wire' = wire /\ sent' = sent /\ reader.pc = "idle"
        /\ \/ seen' = m.serial /\ reader' = reader
           \/ seen' = seen /\ (reader' = reader \/ (reader'.pc = "streams" /\ reader'.m = m))
    BY <1>5, PollIncomingStep
  <2>4. \A e \in Elems(wire) : m.serial < e.serial
    BY <2>2 DEF PipelineOrdered
  <2>5. m.serial \in Nat /\ seen <= m.serial /\ m.serial <= sent
    BY <2>2, <2>3 DEF PipelineOrdered
  <2> HIDE DEF m
  <2> QED
    BY <2>1, <2>2, <2>3, <2>4, <2>5 DEF Routing, m
<1>6. CASE FindStream
  BY <1>6, ReaderStep DEF Routing
<1>7. CASE SendToCaller
  BY <1>7, ReaderStep DEF Routing
<1>8. CASE RequesterResumed
  BY <1>8, ReaderStep DEF Routing
<1>9. CASE DropIncoming
  BY <1>9, DropIncomingStep, EmptyElems
<1>10. ASSUME NEW kind \in Kinds, NEW to \in Callers \cup {0},
             kind # "message" => to \in unanswered, PeerSends(kind, to)
      PROVE  SeenBehind' /\ seen' >= seen
  BY <1>10, PeerSendsStep DEF Routing
<1>11. CASE UNCHANGED <<wire, incoming, reader, sent, seen>>
  BY <1>11 DEF Routing
<1> QED
  BY NextCases, <1>1, <1>2, <1>3, <1>4, <1>5, <1>6, <1>7, <1>8, <1>9,
     <1>10, <1>11, <1>12
     DEF vars, ioVars, peerVars, ConnectionState, SetCall, Insert, Send,
         DropRequest, OpenStream, StreamEnds, DropStream, Disconnect,
         WriteOutgoing, Processed, TakeResponses, TakeStreams,
         RemoveConnection, DropOutgoing, PeerStops, FirstPoll, DropMaps

(* The reader waits until what it handed over was seen. *)
LEMMA NextHandedOverWaits == IInv /\ [Next]_vars => HandedOverWaits'
<1> SUFFICES ASSUME IInv, [Next]_vars PROVE HandedOverWaits'
  OBVIOUS
<1>0. TypeOK /\ PipelineOrdered /\ SeenBehind /\ HandedOverWaits /\ RequestsNotTold
  BY DEF IInv
<1>t. /\ sent \in Nat /\ seen \in Nat
      /\ Routing => reader.m.serial \in Nat
      /\ \A c \in Callers : \A x \in Elems(inbox[c]) : x.serial \in Nat
  BY <1>0, SerialsTyped DEF TypeOK, QueuesTyped
<1> USE <1>0, <1>t DEF HandedOverWaits
<1>c. Requests \subseteq Callers /\ Streams \subseteq Callers
  BY DEF Callers
<1>1. ASSUME NEW c \in Callers, Send(c) PROVE HandedOverWaits'
  <2>1. /\ \A d \in Callers : Elems(inbox'[d]) \subseteq Elems(inbox[d])
        /\ UNCHANGED <<reader, seen, sent>>
    BY <1>1, <1>c, InboxDropped DEF Send, ioVars, peerVars
  <2> QED
    BY <2>1
<1>2. ASSUME NEW r \in Requests, Resume(r) PROVE HandedOverWaits'
  <2>1. /\ Elems(inbox'[r]) = {}
        /\ \A d \in Callers : Elems(inbox'[d]) \subseteq Elems(inbox[d])
        /\ UNCHANGED <<reader, sent>>
    BY <1>2, <1>c, InboxDropped DEF Resume, ioVars, peerVars
  <2>2. \/ seen' = seen
        \/ \E x \in Elems(inbox[r]) : x.kind # "closed" /\ seen' = x.serial
    <3>1. inbox[r] \in Seq(Item)
      BY <1>c DEF TypeOK, CallersTyped
    <3>2. inbox[r] # <<>> => Head(inbox[r]) \in Elems(inbox[r])
      BY <3>1, HeadTailElems
    <3> QED
      BY <1>2, <3>2 DEF Resume, RequestsNotTold
  <2> QED
    BY <1>c, <2>1, <2>2
<1>3. ASSUME NEW r \in Requests, DropRequest(r) PROVE HandedOverWaits'
  <2>1. /\ \A d \in Callers : Elems(inbox'[d]) \subseteq Elems(inbox[d])
        /\ UNCHANGED <<reader, seen, sent>>
    BY <1>3, <1>c, InboxDropped DEF DropRequest, ioVars, peerVars
  <2> QED
    BY <2>1
<1>4. ASSUME NEW s \in Streams, PollStream(s) PROVE HandedOverWaits'
  <2> DEFINE x == Head(inbox[s])
  <2>1. /\ x \in Elems(inbox[s])
        /\ \A d \in Callers : Elems(inbox'[d]) \subseteq Elems(inbox[d])
        /\ UNCHANGED <<reader, sent>>
        /\ seen' = IF x.kind = "closed" THEN seen ELSE x.serial
    BY <1>4, PollStreamStep
  <2> HIDE DEF x
  <2> QED
    BY <1>c, <2>1
<1>5. ASSUME NEW s \in Streams, DropStream(s) PROVE HandedOverWaits'
  <2>1. /\ \A d \in Callers : Elems(inbox'[d]) \subseteq Elems(inbox[d])
        /\ UNCHANGED <<reader, seen, sent>>
    BY <1>5, <1>c, InboxDropped DEF DropStream, ioVars, peerVars
  <2> QED
    BY <2>1
<1>6. CASE TakeStreams
  <2>1. \A c \in Callers : \A x \in Elems(inbox'[c]) :
           x.kind # "closed" => x \in Elems(inbox[c])
    BY <1>6, TakeStreamsStep
  <2>2. UNCHANGED <<reader, seen, sent>>
    BY <1>6 DEF TakeStreams, peerVars
  <2> QED
    BY <2>1, <2>2
<1>7. CASE PollIncoming
  <2>1. \A c \in Callers : \A x \in Elems(inbox[c]) : x.kind = "closed"
    BY <1>7, PollIncomingStep
  <2>2. inbox' = inbox
    BY <1>7, PollIncomingStep
  <2> QED
    BY <2>1, <2>2
<1>8. CASE FindStream
  <2>1. \A c \in Callers : \A x \in Elems(inbox[c]) : x.kind = "closed"
    BY <1>8 DEF FindStream
  <2>2. inbox' = inbox
    BY <1>8 DEF FindStream
  <2> QED
    BY <2>1, <2>2
<1>9. CASE SendToCaller
  <2>1. \A c \in Callers : \A x \in Elems(inbox[c]) : x.kind = "closed"
    BY <1>9 DEF SendToCaller
  <2>2. /\ Routing /\ seen' = seen /\ sent' = sent
        /\ reader.m.to \in Callers
        /\ \/ inbox' = inbox
           \/ /\ reader'.pc = "await" /\ reader'.m = reader.m
              /\ \A d \in Callers \ {reader.m.to} : inbox'[d] = inbox[d]
              /\ \E x \in Item :
                    /\ x.kind = reader.m.kind /\ x.serial = reader.m.serial
                    /\ Elems(inbox'[reader.m.to]) = Elems(inbox[reader.m.to]) \cup {x}
    BY <1>9, SendToCallerStep, ReaderStep
  <2>3. seen <= reader.m.serial /\ reader.m.serial <= sent
    BY <2>2 DEF SeenBehind, PipelineOrdered
  <2> QED
    BY <2>1, <2>2, <2>3
<1>10. CASE RequesterResumed
  <2>1. \A x \in Elems(inbox[reader.m.to]) : x.kind = "closed"
    BY <1>10 DEF RequesterResumed, Elems
  <2>2. \A c \in Callers : \A x \in Elems(inbox[c]) : x.kind = "closed"
    BY <1>10, <2>1 DEF RequesterResumed
  <2>3. inbox' = inbox
    BY <1>10 DEF RequesterResumed
  <2> QED
    BY <2>2, <2>3
<1>11. CASE DropIncoming
  BY <1>11, DropIncomingStep
<1>12. ASSUME NEW kind \in Kinds, NEW to \in Callers \cup {0},
             kind # "message" => to \in unanswered, PeerSends(kind, to)
      PROVE  HandedOverWaits'
  BY <1>12, PeerSendsStep
<1>13. CASE UNCHANGED <<inbox, reader, seen, sent>>
  BY <1>13
<1> QED
  BY NextCases, <1>1, <1>2, <1>3, <1>4, <1>5, <1>6, <1>7, <1>8, <1>9,
     <1>10, <1>11, <1>12, <1>13
     DEF vars, ioVars, peerVars, ConnectionState, SetCall, Insert, OpenStream,
         StreamEnds, Disconnect, WriteOutgoing, Read, Processed, EndIo,
         TakeResponses, RemoveConnection, DropOutgoing, PeerStops,
         FirstPoll, Abandon, DropMaps

LEMMA NextRequestsNotTold == IInv /\ [Next]_vars => RequestsNotTold'
<1> SUFFICES ASSUME IInv, [Next]_vars PROVE RequestsNotTold'
  OBVIOUS
<1>0. TypeOK /\ RequestsNotTold
  BY DEF IInv
<1>c. Requests \subseteq Callers /\ Streams \subseteq Callers /\ Requests \cap Streams = {}
  BY RpcPeerAssumption DEF Callers
<1> USE <1>0, <1>c DEF RequestsNotTold
<1>1. ASSUME NEW c \in Callers, Send(c) PROVE RequestsNotTold'
  BY <1>1, InboxDropped DEF Send
<1>2. ASSUME NEW r \in Requests, Resume(r) PROVE RequestsNotTold'
  BY <1>2, InboxDropped DEF Resume
<1>3. ASSUME NEW r \in Requests, DropRequest(r) PROVE RequestsNotTold'
  BY <1>3, InboxDropped DEF DropRequest
<1>4. ASSUME NEW s \in Streams, PollStream(s) PROVE RequestsNotTold'
  BY <1>4, PollStreamStep
<1>5. ASSUME NEW s \in Streams, DropStream(s) PROVE RequestsNotTold'
  BY <1>5, InboxDropped DEF DropStream
<1>6. CASE TakeStreams
  BY <1>6, TakeStreamsStep
<1>7. CASE SendToCaller
  <2>1. reader.m \in Sent => reader.m.kind # "closed"
    BY DEF Sent, Kinds, Terminal
  <2> QED
    BY <1>7, <2>1, SendToCallerStep
<1>8. CASE UNCHANGED inbox
  BY <1>8
<1> QED
  BY NextCases, <1>1, <1>2, <1>3, <1>4, <1>5, <1>6, <1>7, <1>8
     DEF vars, ioVars, peerVars, ConnectionState, SetCall, Insert, OpenStream,
         StreamEnds, Disconnect, WriteOutgoing, Read, Processed, EndIo,
         TakeResponses, RemoveConnection, DropOutgoing, PollIncoming,
         SetReader, FindStream, RequesterResumed, DropIncoming, PeerSends,
         PeerStops, FirstPoll, Abandon, DropMaps

(* Requests are registered before they are sent, and sent before they are  *)
(* answered.                                                               *)
LEMMA NextNoAnswerAhead == IInv /\ [Next]_vars => NoAnswerAhead'
<1> SUFFICES ASSUME IInv, [Next]_vars PROVE NoAnswerAhead'
  OBVIOUS
<1> DEFINE Early(c) == call[c] \in {"start", "found", "inserted"}
<1>0. TypeOK /\ NoAnswerAhead
  BY DEF IInv
<1>c. /\ Requests \subseteq Callers /\ Streams \subseteq Callers
      /\ call \in [Callers -> Called]
      /\ outgoing \in Seq(Callers) /\ unanswered \subseteq Callers
  BY <1>0 DEF Callers, TypeOK, CallersTyped, QueuesTyped
<1> USE <1>0, <1>c DEF NoAnswerAhead
<1>1. ASSUME NEW c \in Callers, ConnectionState(c) PROVE NoAnswerAhead'
  <2>1. \A d \in Callers : Early(d)' => Early(d)
    BY <1>1 DEF ConnectionState, SetCall
  <2>2. UNCHANGED <<unanswered, outgoing, wire, incoming, reader>>
    BY <1>1 DEF ConnectionState, ioVars, peerVars
  <2> QED
    BY <2>1, <2>2 DEF Routing
<1>2. ASSUME NEW c \in Callers, Insert(c) PROVE NoAnswerAhead'
  <2>1. \A d \in Callers : Early(d)' => Early(d)
    BY <1>2 DEF Insert, SetCall
  <2>2. UNCHANGED <<unanswered, outgoing, wire, incoming, reader>>
    BY <1>2 DEF Insert, ioVars, peerVars
  <2> QED
    BY <2>1, <2>2 DEF Routing
<1>3. ASSUME NEW c \in Callers, Send(c) PROVE NoAnswerAhead'
  <2>1. \A d \in Callers : Early(d)' => Early(d) /\ d # c
    BY <1>3 DEF Send, SetCall, Called
  <2>2. Elems(outgoing') \subseteq Elems(outgoing) \cup {c}
    BY <1>3, AppendElems DEF Send
  <2>3. UNCHANGED <<unanswered, wire, incoming, reader>>
    BY <1>3 DEF Send, peerVars
  <2> QED
    BY <2>1, <2>2, <2>3 DEF Routing
<1>4. ASSUME NEW r \in Requests, Resume(r) PROVE NoAnswerAhead'
  <2>1. \A d \in Callers : Early(d)' => Early(d)
    BY <1>4 DEF Resume, SetCall
  <2>2. UNCHANGED <<unanswered, outgoing, wire, incoming, reader>>
    BY <1>4 DEF Resume, ioVars, peerVars
  <2> QED
    BY <2>1, <2>2 DEF Routing
<1>5. ASSUME NEW r \in Requests, DropRequest(r) PROVE NoAnswerAhead'
  <2>1. \A d \in Callers : Early(d)' => Early(d)
    BY <1>5 DEF DropRequest, SetCall
  <2>2. UNCHANGED <<unanswered, outgoing, wire, incoming, reader>>
    BY <1>5 DEF DropRequest, ioVars, peerVars
  <2> QED
    BY <2>1, <2>2 DEF Routing
<1>6. ASSUME NEW s \in Streams, OpenStream(s) PROVE NoAnswerAhead'
  <2>1. \A d \in Callers : Early(d)' => Early(d)
    BY <1>6 DEF OpenStream, SetCall
  <2>2. UNCHANGED <<unanswered, outgoing, wire, incoming, reader>>
    BY <1>6 DEF OpenStream, ioVars, peerVars
  <2> QED
    BY <2>1, <2>2 DEF Routing
<1>7. ASSUME NEW s \in Streams, StreamEnds(s) PROVE NoAnswerAhead'
  <2>1. \A d \in Callers : Early(d)' => Early(d)
    BY <1>7 DEF StreamEnds, SetCall
  <2>2. UNCHANGED <<unanswered, outgoing, wire, incoming, reader>>
    BY <1>7 DEF StreamEnds, ioVars, peerVars
  <2> QED
    BY <2>1, <2>2 DEF Routing
<1>8. ASSUME NEW s \in Streams, DropStream(s) PROVE NoAnswerAhead'
  <2>1. \A d \in Callers : Early(d)' => Early(d)
    BY <1>8 DEF DropStream, SetCall
  <2>2. UNCHANGED <<unanswered, outgoing, wire, incoming, reader>>
    BY <1>8 DEF DropStream, ioVars, peerVars
  <2> QED
    BY <2>1, <2>2 DEF Routing
<1>9. CASE WriteOutgoing
  <2>1. Elems(outgoing) = {Head(outgoing)} \cup Elems(outgoing')
    BY <1>9, HeadTailElems DEF WriteOutgoing
  <2>2. unanswered' = unanswered \cup {Head(outgoing)}
        /\ UNCHANGED <<call, wire, incoming, reader>>
    BY <1>9 DEF WriteOutgoing, peerVars
  <2> QED
    BY <2>1, <2>2 DEF Routing
<1>10. CASE Read
  <2>1. /\ Elems(wire') \subseteq Elems(wire)
        /\ Elems(incoming') \subseteq Elems(incoming) \cup Elems(wire)
        /\ reader' = reader
    BY <1>10, ReadStep
  <2>2. UNCHANGED <<call, unanswered, outgoing>>
    BY <1>10 DEF Read
  <2> QED
    BY <2>1, <2>2 DEF Routing
<1>11. CASE EndIo(EndOfIo)
  BY <1>11, EmptyElems DEF EndIo, Routing
<1>20. CASE Abandon
  BY <1>20, EmptyElems DEF Abandon, Routing
<1>12. CASE DropOutgoing
  BY <1>12, EmptyElems DEF DropOutgoing, peerVars, Routing
<1>13. CASE PollIncoming
  <2>1. /\ Elems(incoming') \subseteq Elems(incoming)
        /\ Head(incoming) \in Elems(incoming)
        /\ wire' = wire
        /\ \/ reader' = reader
           \/ Head(incoming).kind # "message" /\ reader'.m = Head(incoming)
    BY <1>13, PollIncomingStep
  <2>2. UNCHANGED <<call, unanswered, outgoing>>
    BY <1>13 DEF PollIncoming
  <2> QED
    BY <2>1, <2>2 DEF Routing
<1>14. CASE FindStream
  <2>1. UNCHANGED <<unanswered, outgoing, wire, incoming, call>>
        /\ (Routing' => Routing /\ reader'.m = reader.m)
    BY <1>14, ReaderStep
  <2> QED
    BY <2>1
<1>15. CASE SendToCaller
  <2>1. UNCHANGED <<unanswered, outgoing, wire, incoming, call>>
        /\ (Routing' => Routing /\ reader'.m = reader.m)
    BY <1>15, ReaderStep
  <2> QED
    BY <2>1
<1>16. CASE RequesterResumed
  <2>1. UNCHANGED <<unanswered, outgoing, wire, incoming, call>>
        /\ (Routing' => Routing /\ reader'.m = reader.m)
    BY <1>16, ReaderStep
  <2> QED
    BY <2>1
<1>17. CASE DropIncoming
  BY <1>17, DropIncomingStep, EmptyElems
<1>18. ASSUME NEW kind \in Kinds, NEW to \in Callers \cup {0},
             kind # "message" => to \in unanswered, PeerSends(kind, to)
      PROVE  NoAnswerAhead'
  <2> DEFINE e == Envelope(kind, to)
  <2>1. /\ e.kind = kind /\ e.to = to /\ Elems(wire') = Elems(wire) \cup {e}
        /\ unanswered' \subseteq unanswered
        /\ UNCHANGED <<incoming, outgoing, reader, call>>
    BY <1>18, PeerSendsStep
  <2> HIDE DEF e
  <2> QED
    BY <1>18, <2>1 DEF Routing
<1>19. CASE UNCHANGED <<call, unanswered, outgoing, wire, incoming, reader>>
  BY <1>19 DEF Routing
<1> QED
  BY NextCases, <1>1, <1>2, <1>3, <1>4, <1>5, <1>6, <1>7, <1>8, <1>9,
     <1>10, <1>11, <1>12, <1>13, <1>14, <1>15, <1>16, <1>17, <1>18, <1>19, <1>20
     DEF vars, ioVars, peerVars, PollStream, Disconnect, Processed,
         TakeResponses, TakeStreams, RemoveConnection, PeerStops, FirstPoll,
         DropMaps

(* An open stream keeps its sender, or has been told why not. *)
LEMMA NextStreamAccounted ==
    IInv /\ [Next]_vars => StreamAccounted' /\ NothingToForget' /\ TakenEmpty'
<1> DEFINE Goal == StreamAccounted' /\ NothingToForget' /\ TakenEmpty'
<1> SUFFICES ASSUME IInv, [Next]_vars PROVE Goal
  OBVIOUS
<1>0. TypeOK /\ StreamAccounted /\ NothingToForget /\ TakenEmpty /\ NoAnswerAhead
  BY DEF IInv
<1>c. /\ Requests \subseteq Callers /\ Streams \subseteq Callers
      /\ Requests \cap Streams = {}
      /\ call \in [Callers -> Called]
      /\ inbox \in [Callers -> Seq(Item)]
      /\ stream_response_channels \in [open : BOOLEAN, ids : SUBSET Streams]
  BY <1>0, RpcPeerAssumption DEF Callers, TypeOK, CallersTyped, MapsTyped
<1>a. io = "abandoned" => io' = "abandoned"
  BY AbandonedStays
<1> USE <1>0, <1>a, <1>c DEF StreamAccounted, NothingToForget, TakenEmpty
<1>1. ASSUME NEW c \in Callers, ConnectionState(c) PROVE Goal
  <2>1. UNCHANGED <<stream_response_channels, reader, told>>
    BY <1>1 DEF ConnectionState, ioVars
  <2> QED
    BY <1>1, <2>1 DEF ConnectionState, SetCall
<1>2. ASSUME NEW c \in Callers, Insert(c) PROVE Goal
  <2>1. StreamAccounted'
    BY <1>2 DEF Insert, SetCall
  <2>2. NothingToForget' /\ TakenEmpty'
    BY <1>2 DEF Insert, SetCall, NoAnswerAhead, Routing
  <2> QED
    BY <2>1, <2>2
<1>3. ASSUME NEW c \in Callers, Send(c) PROVE Goal
  <2>1. \A s \in Streams :
           call'[s] \in {"inserted", "queued", "open"} =>
               /\ call[s] \in {"inserted", "queued", "open"}
               /\ inbox'[s] = inbox[s]
               /\ s \in stream_response_channels.ids => s \in stream_response_channels'.ids
    BY <1>3 DEF Send, SetCall
  <2>2. /\ stream_response_channels'.ids \subseteq stream_response_channels.ids
        /\ stream_response_channels'.open = stream_response_channels.open
        /\ UNCHANGED <<reader, told>>
    BY <1>3 DEF Send
  <2> QED
    BY <2>1, <2>2
<1>4. ASSUME NEW r \in Requests, Resume(r) PROVE Goal
  <2>1. \A s \in Streams : call'[s] = call[s] /\ inbox'[s] = inbox[s]
    BY <1>4 DEF Resume, SetCall
  <2>2. UNCHANGED <<stream_response_channels, reader, told>>
    BY <1>4 DEF Resume, ioVars
  <2> QED
    BY <2>1, <2>2
<1>5. ASSUME NEW r \in Requests, DropRequest(r) PROVE Goal
  <2>1. UNCHANGED <<stream_response_channels, reader, told>>
    BY <1>5 DEF DropRequest, ioVars
  <2> QED
    BY <1>5, <2>1, InboxDropped DEF DropRequest, SetCall
<1>6. ASSUME NEW s \in Streams, OpenStream(s) PROVE Goal
  <2>1. UNCHANGED <<stream_response_channels, reader, told>>
    BY <1>6 DEF OpenStream, ioVars
  <2> QED
    BY <1>6, <2>1 DEF OpenStream, SetCall
<1>7. ASSUME NEW s \in Streams, PollStream(s) PROVE Goal
  <2> DEFINE x == Head(inbox[s])
               open == stream_response_channels
  <2>1. /\ Elems(inbox[s]) = {x} \cup Elems(inbox'[s])
        /\ \A d \in Streams \ {s} : inbox'[d] = inbox[d]
        /\ UNCHANGED <<reader, call>>
    BY <1>7, PollStreamStep
  <2>2. /\ told' = IF x.kind = "data" THEN told ELSE told \cup {s}
        /\ open'.ids = IF x.kind \in Terminal THEN open.ids \ {s} ELSE open.ids
        /\ open'.open = open.open
    BY <1>7 DEF PollStream
  <2>3. "data" \notin Terminal
    BY DEF Terminal
  <2> HIDE DEF x
  <2> QED
    BY <2>1, <2>2, <2>3
<1>8. ASSUME NEW s \in Streams, StreamEnds(s) PROVE Goal
  <2>1. UNCHANGED <<stream_response_channels, reader, told>>
    BY <1>8 DEF StreamEnds, ioVars
  <2> QED
    BY <1>8, <2>1 DEF StreamEnds, SetCall
<1>9. ASSUME NEW s \in Streams, DropStream(s) PROVE Goal
  BY <1>9, InboxDropped DEF DropStream, SetCall
<1>10. CASE TakeStreams
  <2>1. \A c \in Streams :
           \/ Elems(inbox'[c]) = Elems(inbox[c])
              /\ ~(c \in stream_response_channels.ids /\ Receives(c))
           \/ Elems(inbox'[c]) = Elems(inbox[c]) \cup {[kind |-> "closed", serial |-> 0]}
    BY <1>10, TakeStreamsStep
  <2>2. \A c \in Streams :
           \/ Elems(inbox'[c]) = Elems(inbox[c])
              /\ ~(c \in stream_response_channels.ids /\ Receives(c))
           \/ \E x \in Elems(inbox'[c]) : x.kind # "data"
    <3> DEFINE x == [kind |-> "closed", serial |-> 0]
    <3>1. x.kind # "data"
      OBVIOUS
    <3> HIDE DEF x
    <3>2. \A c \in Streams :
             \/ Elems(inbox'[c]) = Elems(inbox[c])
                /\ ~(c \in stream_response_channels.ids /\ Receives(c))
             \/ Elems(inbox'[c]) = Elems(inbox[c]) \cup {x}
      BY <2>1 DEF x
    <3> QED
      BY <3>1, <3>2
  <2>3. /\ stream_response_channels'.ids = {}
        /\ UNCHANGED <<reader, call, told>>
    BY <1>10 DEF TakeStreams, Taken
  <2> QED
    BY <2>2, <2>3 DEF Receives
<1>11. CASE PollIncoming
  BY <1>11 DEF PollIncoming, SetReader
<1>12. CASE FindStream
  BY <1>12, NoReaderTyped DEF FindStream, SetReader
<1>13. CASE SendToCaller
  <2>1. UNCHANGED <<call, told>> /\ stream_response_channels'.open = stream_response_channels.open
    BY <1>13 DEF SendToCaller
  <2>2. CASE reader.sender /\ Receives(reader.m.to)
    <3>1. PICK x \in Item :
             /\ x.kind = reader.m.kind
             /\ Elems(inbox'[reader.m.to]) = Elems(inbox[reader.m.to]) \cup {x}
      BY <1>13, <2>2, SendToCallerStep
    <3>2. /\ reader'.pc = "await"
          /\ stream_response_channels' = stream_response_channels
          /\ \A d \in Callers \ {reader.m.to} : inbox'[d] = inbox[d]
      BY <1>13, <2>2, SendToCallerStep
    <3>3. "data" \notin Terminal
      BY DEF Terminal
    <3>4. ASSUME NEW s \in Streams, call[s] \in {"inserted", "queued", "open"}
          PROVE  \/ io' = "abandoned"
                 \/ s \in told
                 \/ s \in stream_response_channels.ids
                 \/ \E y \in Elems(inbox'[s]) : y.kind # "data"
      <4>1. CASE s = reader.m.to
        BY <3>1, <3>3, <3>4, <4>1
      <4>2. CASE s # reader.m.to
        BY <3>2, <3>4, <4>2
      <4> QED
        BY <4>1, <4>2
    <3> QED
      BY <2>1, <3>2, <3>4
  <2>3. CASE ~(reader.sender /\ Receives(reader.m.to))
    <3>1. /\ inbox' = inbox /\ reader' = NoReader /\ reader.pc = "send"
          /\ stream_response_channels'.ids = stream_response_channels.ids \ {reader.m.to}
      BY <1>13, <2>3 DEF SendToCaller
    <3> QED
      BY <2>1, <2>3, <3>1, NoReaderTyped DEF Receives
  <2> QED
    BY <2>2, <2>3
<1>14. CASE RequesterResumed
  BY <1>14, NoReaderTyped DEF RequesterResumed, ioVars
<1>15. CASE DropIncoming
  BY <1>15, DropIncomingStep DEF DropIncoming
<1>17. CASE DropMaps
  BY <1>17 DEF DropMaps, Taken
<1>16. CASE UNCHANGED <<call, inbox, told, stream_response_channels, reader>>
  BY <1>16
<1> QED
  BY NextCases, <1>1, <1>2, <1>3, <1>4, <1>5, <1>6, <1>7, <1>8, <1>9,
     <1>10, <1>11, <1>12, <1>13, <1>14, <1>15, <1>16, <1>17
     DEF vars, ioVars, peerVars, Disconnect, WriteOutgoing, Read, Processed,
         EndIo, TakeResponses, RemoveConnection, DropOutgoing, PeerSends,
         PeerStops, FirstPoll, Abandon

(* No stream ends untold. *)
LEMMA NextNoSilentTruncation == IInv /\ [Next]_vars => NoSilentTruncation'
<1> SUFFICES ASSUME IInv, [Next]_vars PROVE NoSilentTruncation'
  OBVIOUS
<1>0. TypeOK /\ StreamAccounted /\ NoSilentTruncation
  BY DEF IInv
<1>c. /\ Requests \subseteq Callers /\ Streams \subseteq Callers
      /\ call \in [Callers -> Called]
  BY <1>0 DEF Callers, TypeOK, CallersTyped
<1>a. io = "abandoned" => io' = "abandoned"
  BY AbandonedStays
<1> USE <1>0, <1>a, <1>c DEF NoSilentTruncation
<1>1. ASSUME NEW c \in Callers, ConnectionState(c) PROVE NoSilentTruncation'
  BY <1>1 DEF ConnectionState, SetCall
<1>2. ASSUME NEW c \in Callers, Insert(c) PROVE NoSilentTruncation'
  BY <1>2 DEF Insert, SetCall
<1>3. ASSUME NEW c \in Callers, Send(c) PROVE NoSilentTruncation'
  BY <1>3 DEF Send, SetCall
<1>4. ASSUME NEW r \in Requests, Resume(r) PROVE NoSilentTruncation'
  BY <1>4 DEF Resume, SetCall
<1>5. ASSUME NEW r \in Requests, DropRequest(r) PROVE NoSilentTruncation'
  BY <1>5 DEF DropRequest, SetCall
<1>6. ASSUME NEW s \in Streams, OpenStream(s) PROVE NoSilentTruncation'
  BY <1>6 DEF OpenStream, SetCall
<1>7. ASSUME NEW s \in Streams, PollStream(s) PROVE NoSilentTruncation'
  BY <1>7 DEF PollStream
<1>8. ASSUME NEW s \in Streams, StreamEnds(s) PROVE NoSilentTruncation'
  <2>1. Elems(inbox[s]) = {}
    BY <1>8, EmptyElems DEF StreamEnds
  <2>2. s \in told \/ io = "abandoned"
    BY <1>8, <2>1 DEF StreamEnds, StreamAccounted, HasSender
  <2> QED
    BY <1>8, <2>2 DEF StreamEnds, SetCall
<1>9. ASSUME NEW s \in Streams, DropStream(s) PROVE NoSilentTruncation'
  BY <1>9 DEF DropStream, SetCall
<1>10. CASE UNCHANGED <<call, told>>
  BY <1>10
<1> QED
  BY NextCases, <1>1, <1>2, <1>3, <1>4, <1>5, <1>6, <1>7, <1>8, <1>9, <1>10
     DEF vars, ioVars, peerVars, Disconnect, WriteOutgoing, Read, Processed,
         EndIo, TakeResponses, TakeStreams, RemoveConnection, DropOutgoing,
         PollIncoming, SetReader, FindStream, SendToCaller, RequesterResumed,
         DropIncoming, PeerSends, PeerStops,
         FirstPoll, Abandon, DropMaps

LEMMA NextIInv == IInv /\ [Next]_vars => IInv'
<1>1. IInv => TypeOK
  BY DEF IInv
<1> QED
  BY <1>1, NextTypeOK, NextPipelineOrdered, NextSeenBehind, NextHandedOverWaits,
     NextRequestsNotTold, NextNoAnswerAhead, NextStreamAccounted,
     NextNoSilentTruncation DEF IInv

-----------------------------------------------------------------------------
(* A stream that ended has seen its last frame or the error "connection    *)
(* closed" (request_stream_dynamic, _end_connection), unless the           *)
(* connection was abandoned before handle_io was polled.                   *)
THEOREM NoSilentTruncationTheorem == Spec => []NoSilentTruncation
<1>1. IInv => NoSilentTruncation
  BY DEF IInv
<1> QED
  BY InitIInv, NextIInv, <1>1, PTL DEF Spec

(* The application sees responses, frames and messages in the order in     *)
(* which the other side sent them (the barrier that handle_message awaits).*)
THEOREM SeenInOrderTheorem == Spec => SeenInOrder
<1>1. IInv /\ [Next]_vars => [seen' >= seen]_vars
  BY NextSeenBehind
<1> QED
  BY InitIInv, NextIInv, <1>1, PTL DEF Spec, SeenInOrder

=============================================================================
