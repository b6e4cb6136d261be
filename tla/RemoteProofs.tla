--------------------------- MODULE RemoteProofs -----------------------------
(***************************************************************************)
(* Proofs about RemoteChannel, for any set of loads: any number of         *)
(* requests, notifications, broken connections and background sends.       *)
(*                                                                         *)
(* As long as the channel is orderly, no acknowledgement discards a        *)
(* message that the peer missed, and a resynced client has caught up.      *)
(*                                                                         *)
(* The last part is about RemoteClient, for any limits: a client that gave *)
(* up stays so, and one party at a time owns the connection.               *)
(***************************************************************************)
EXTENDS RemoteChannel, RemoteClient, SequenceTheorems, WellFoundedInduction, TLAPS

-----------------------------------------------------------------------------
(* What the messages look like.                                            *)

Kind == {"RemoteStarted", "Ack", "FlushBufferedMessages",
         "request", "response", "notification"}

Data == {"request", "response", "notification"}

Envelope == [id : Nat, kind : Kind, responding_to : Nat \cup {NoId},
             ack_id : Nat \cup {NoId}]

(* The ids that are on messages under way, buffered or received: the ones  *)
(* given out, without the background sends that are not buffered yet.      *)
ClientIds == {i \in Nat : i < next_message_id["client"]}

ServerIds ==
    {i \in Nat : i < next_message_id["server"] /\ \A a \in allocated : a.id # i}

FromClient ==
    {m \in Envelope :
        /\ m.id \in ClientIds
        /\ m.ack_id \in ServerIds \cup {NoId}
        /\ m.kind \in {"RemoteStarted", "Ack", "FlushBufferedMessages", "request"}
        /\ m.kind = "request" => m.id \in sent["client"]
        /\ m.kind = "Ack" => m.responding_to = 0}

Requests == {m \in FromClient : m.kind = "request"}

FromServer ==
    {m \in Envelope :
        /\ m.id \in ServerIds
        /\ m.ack_id \in ClientIds \cup {NoId}
        /\ m.responding_to \in ClientIds \cup {NoId}
        /\ m.kind \in {"RemoteStarted", "Ack", "response", "notification"}
        /\ m.kind = "RemoteStarted" => m.id = 0
        /\ m.kind # "Ack" => m.responding_to \in sent["client"] \cup {NoId}}

Answers == {m \in FromServer : m.kind \in {"response", "notification"}}

Unsent ==
    {m \in Envelope :
        /\ 0 < m.id /\ m.id < next_message_id["server"]
        /\ m.id \notin sent["server"]
        /\ m.kind \in {"response", "notification"}
        /\ m.responding_to \in sent["client"] \cup {NoId}}

CountersTyped ==
    /\ load \in Load
    /\ next_message_id \in [End -> Nat \ {0}]
    /\ notified \in Nat
    /\ disconnects \in Nat
    /\ replaying \in Nat
    /\ orderly \in BOOLEAN
    /\ phase \in {"connected", "down", "handshaking", "resyncing", "abandoned"}

QueuesTyped ==
    /\ c2s \in Seq(FromClient)
    /\ s2c \in Seq(FromServer)
    /\ outgoing \in Seq(FromServer)
    /\ DOMAIN buffer = End
    /\ buffer["client"] \in Seq(Requests)
    /\ buffer["server"] \in Seq(Answers)
    /\ owed \in Seq(sent["client"])

IdsTyped ==
    /\ max_received \in [End -> Nat]
    /\ max_received["client"] \in ServerIds
    /\ max_received["server"] \in ClientIds
    /\ sent \in [End -> SUBSET Nat]
    /\ handled \in [End -> SUBSET Nat]
    /\ sent["client"] \subseteq ClientIds
    /\ sent["server"] \subseteq ServerIds
    /\ handshake \in ClientIds
    /\ flush \in ClientIds \cup {NoId}
    /\ flush \notin sent["client"]
    /\ response_channels \subseteq ClientIds
    /\ allocated \subseteq Unsent
    /\ \A a, b \in allocated : a.id = b.id => a = b

TypeOK == CountersTyped /\ QueuesTyped /\ IdsTyped

-----------------------------------------------------------------------------
(* The inductive invariant.                                                *)

(* The buffered messages among the first n of a queue. *)
Front(q, n) == {q[j].id : j \in {k \in DOMAIN q : k <= n /\ q[k].kind \in Data}}

Carried(q) == Front(q, Len(q))

Missed(e) == sent[e] \ handled[IF e = "client" THEN "server" ELSE "client"]

(* No message of e up to id A is missing at the peer: an acknowledgement   *)
(* of A does no harm.                                                      *)
Safe(e, A) == \A i \in Missed(e) : i > A

Steady == phase \in {"connected", "down"}
Attempting == phase \in {"handshaking", "resyncing"}

Pending(p) == p \in DOMAIN c2s /\ c2s[p].kind = "FlushBufferedMessages"
Answered(q) == q \in DOMAIN s2c /\ s2c[q].responding_to = flush
Greeted(r) ==
    r \in DOMAIN s2c /\ s2c[r].kind = "Ack" /\ s2c[r].responding_to = handshake

(* A resync is one flush that the server reads, or its answer. *)
OneFlush ==
    /\ phase # "abandoned"
    /\ replaying <= Len(c2s)
    /\ phase # "connected" => replaying = 0
    /\ Steady => \A p : ~Pending(p)
    /\ Attempting =>
          /\ handshake \in Nat /\ flush = handshake + 1
          /\ (\E p : Pending(p)) \/ (\E q : Answered(q))
          /\ \A p, q : ~(Pending(p) /\ Answered(q))
          /\ \A p, r : Pending(p) /\ Pending(r) => p = r
          /\ \A q, r : Answered(q) /\ Answered(r) => q = r
          /\ \A p : Pending(p) => c2s[p].id = flush
          /\ \A n \in DOMAIN c2s : c2s[n].kind = "RemoteStarted" => c2s[n].id # flush
          /\ \A q : Answered(q) => s2c[q].kind = "Ack" /\ s2c[q].ack_id = NoId

(* The handshake is answered before the flush. *)
HandshakeFirst ==
    phase = "handshaking" =>
        /\ \A p : Pending(p) =>
              \/ \E n \in DOMAIN c2s : n < p /\ c2s[n].kind = "RemoteStarted"
                                             /\ c2s[n].id = handshake
              \/ \E r : Greeted(r)
        /\ \A q : Answered(q) => \E r : Greeted(r) /\ r < q

(* What the server sent and the client missed, between two resyncs.        *)
(* What the client has received, it has received all up to there.          *)
ServerSteady ==
    Steady =>
        /\ Missed("server") \subseteq Carried(buffer["server"])
        /\ Safe("server", max_received["client"])
        /\ \A n \in DOMAIN buffer["client"] : Safe("server", buffer["client"][n].ack_id)
        /\ \A n \in DOMAIN c2s : Safe("server", c2s[n].ack_id)
        /\ \A n \in DOMAIN s2c : \A i \in Missed("server") :
              i <= s2c[n].id => i \in Front(s2c, n)
        /\ phase = "connected" => Missed("server") \subseteq Carried(s2c)

(* Before the flush is read: what the server will read up to the flush     *)
(* acknowledges nothing that was missed.                                   *)
ServerPending ==
    Attempting => \A p : Pending(p) =>
        /\ Missed("server") \subseteq Carried(buffer["server"])
        /\ \A n \in DOMAIN c2s : n <= p => Safe("server", c2s[n].ack_id)

(* After it: what was missed comes before the answer; nothing that the     *)
(* client acknowledges meanwhile was sent later.                           *)
ServerAnswered ==
    Attempting => \A q : Answered(q) =>
        /\ Missed("server") \subseteq Carried(s2c)
        /\ \A i \in Missed("server") :
              IF i < s2c[q].id THEN i \in Front(s2c, q)
                               ELSE i \in Carried(buffer["server"])
        /\ \A n \in DOMAIN s2c : IF n < q THEN s2c[n].id < s2c[q].id
                                ELSE \A i \in Missed("server") :
                                        i <= s2c[n].id => i \in Front(s2c, n)
        /\ max_received["client"] < s2c[q].id
        /\ \A n \in DOMAIN buffer["client"] : buffer["client"][n].ack_id < s2c[q].id
        /\ \A n \in DOMAIN c2s : c2s[n].ack_id < s2c[q].id

(* What the client sent and the server missed, while the client is         *)
(* connected: it is under way, behind the replay in order.                 *)
ClientConnected ==
    phase = "connected" =>
        /\ Missed("client") \subseteq Carried(c2s)
        /\ Missed("client") \subseteq Carried(buffer["client"]) \cup Front(c2s, replaying)
        /\ \A n \in DOMAIN c2s :
              n > replaying /\ c2s[n].kind = "request" /\ c2s[n].id \in Missed("client") =>
                 /\ c2s[n].id > max_received["server"]
                 /\ \A k \in DOMAIN c2s : k < n /\ c2s[k].kind = "request" => c2s[k].id < c2s[n].id
                 /\ \A k \in DOMAIN s2c : s2c[k].ack_id < c2s[n].id
                 /\ \A k \in DOMAIN buffer["server"] : buffer["server"][k].ack_id < c2s[n].id

(* Without a connection, and until the flush is read: the server has       *)
(* received all up to where it has received.                               *)
ClientBehind(last) ==
    /\ Safe("client", max_received["server"])
    /\ \A k \in DOMAIN s2c : Safe("client", s2c[k].ack_id)
    /\ \A k \in DOMAIN outgoing : Safe("client", outgoing[k].ack_id)
    /\ \A k \in DOMAIN buffer["server"] : Safe("client", buffer["server"][k].ack_id)
    /\ \A n \in DOMAIN c2s : n <= last /\ c2s[n].kind = "request" =>
          \A i \in Missed("client") : i <= c2s[n].id => i \in Front(c2s, n)

ClientDown ==
    phase = "down" =>
        /\ Missed("client") \subseteq Carried(buffer["client"])
        /\ ClientBehind(Len(c2s))

ClientAttempting ==
    Attempting =>
        /\ Missed("client") \subseteq Carried(buffer["client"])
        /\ \A p : Pending(p) => ClientBehind(p)
        /\ \A q : Answered(q) =>
              \A k \in DOMAIN s2c : k <= q => Safe("client", s2c[k].ack_id)

(* An acknowledgement of A that the server sends now covers no request     *)
(* that it missed and that the client could have to replay.                *)
AckSound(A) ==
    /\ phase = "connected" =>
          \A n \in DOMAIN c2s :
             n > replaying /\ c2s[n].kind = "request" /\ c2s[n].id \in Missed("client")
                => A < c2s[n].id
    /\ phase = "down" \/ (Attempting /\ \E p : Pending(p)) => Safe("client", A)

Synced ==
    /\ OneFlush
    /\ HandshakeFirst
    /\ ServerSteady
    /\ ServerPending
    /\ ServerAnswered
    /\ ClientConnected
    /\ ClientDown
    /\ ClientAttempting

(* The background sends under way: what they carry, ...                     *)
HeldTyped ==
    /\ \A a \in allocated : a.ack_id \in ClientIds \cup {NoId}
    /\ unqueued \subseteq Answers
    /\ \A a, b \in unqueued : a.id = b.id => a = b

(* ... the newest id of all, which is buffered and nobody has seen, ...    *)
Seen ==
    {s2c[n].id : n \in DOMAIN s2c} \cup {outgoing[n].id : n \in DOMAIN outgoing}
       \cup {c2s[n].ack_id : n \in DOMAIN c2s}
       \cup {buffer["client"][n].ack_id : n \in DOMAIN buffer["client"]}
       \cup {max_received["client"]}

NewestUnseen ==
    \A a \in unqueued : NotOvertaken(a) =>
        a.id \in Carried(buffer["server"]) /\ \A i \in Seen : i < a.id

(* ... and an ack_id that may be older than what the server has received.  *)
HeldSound == \A a \in allocated \cup unqueued : AckSound(a.ack_id)

Held == HeldTyped /\ NewestUnseen

IInv == TypeOK /\ Held /\ (orderly => Synced /\ HeldSound)

-----------------------------------------------------------------------------
(* Queues.                                                                 *)

(* A message behind the first one stays in the queue.                      *)
LEMMA TailOfQueue ==
    ASSUME NEW S \in SUBSET Envelope, NEW q \in Seq(S), q # <<>>
    PROVE  /\ Head(q) \in S /\ Head(q) = q[1] /\ Len(q) \in Nat \ {0}
           /\ Tail(q) \in Seq(S)
           /\ Len(Tail(q)) = Len(q) - 1
           /\ DOMAIN Tail(q) = 1 .. Len(q) - 1
           /\ DOMAIN q = 1 .. Len(q)
           /\ \A n \in 1 .. Len(q) - 1 : Tail(q)[n] = q[n + 1]
BY HeadTailProperties, LenProperties

LEMMA FrontOfTail ==
    ASSUME NEW S \in SUBSET Envelope, NEW q \in Seq(S), q # <<>>, NEW n \in 1 .. Len(q),
           NEW i \in Front(q, n)
    PROVE  i \in Front(Tail(q), n - 1) \/ (i = q[1].id /\ q[1].kind \in Data)
<1>1. PICK j \in DOMAIN q : j <= n /\ q[j].kind \in Data /\ i = q[j].id
  BY DEF Front
<1>2. CASE j = 1
  BY <1>1, <1>2
<1>3. CASE j # 1
  <2> DEFINE k == j - 1
  <2>1. k \in DOMAIN Tail(q) /\ k <= n - 1 /\ Tail(q)[k] = q[j]
    BY <1>1, <1>3, TailOfQueue
  <2>2. QED
    BY <1>1, <2>1 DEF Front
<1>4. QED
  BY <1>2, <1>3

LEMMA JoinOfQueues ==
    ASSUME NEW S \in SUBSET Envelope, NEW q \in Seq(S), NEW r \in Seq(S)
    PROVE  /\ q \o r \in Seq(S)
           /\ Len(q) \in Nat /\ Len(r) \in Nat
           /\ Len(q \o r) = Len(q) + Len(r)
           /\ DOMAIN q = 1 .. Len(q) /\ DOMAIN r = 1 .. Len(r)
           /\ DOMAIN (q \o r) = 1 .. Len(q) + Len(r)
           /\ \A n \in 1 .. Len(q) : (q \o r)[n] = q[n]
           /\ \A n \in 1 .. Len(r) : (q \o r)[Len(q) + n] = r[n]
<1>1. /\ Len(q) \in Nat /\ Len(r) \in Nat
      /\ DOMAIN q = 1 .. Len(q) /\ DOMAIN r = 1 .. Len(r)
  BY LenProperties
<1>2. /\ q \o r \in Seq(S)
      /\ Len(q \o r) = Len(q) + Len(r)
      /\ \A i \in 1 .. Len(q) + Len(r) :
            (q \o r)[i] = IF i <= Len(q) THEN q[i] ELSE r[i - Len(q)]
  BY ConcatProperties, Zenon
<1>3. DOMAIN (q \o r) = 1 .. Len(q) + Len(r)
  BY <1>2, LenProperties
<1>4. \A n \in 1 .. Len(q) : (q \o r)[n] = q[n]
  BY <1>1, <1>2
<1>5. \A n \in 1 .. Len(r) : (q \o r)[Len(q) + n] = r[n]
  <2> TAKE n \in 1 .. Len(r)
  <2> DEFINE k == Len(q) + n
  <2>1. k \in 1 .. Len(q) + Len(r) /\ ~(k <= Len(q)) /\ k - Len(q) = n
    BY <1>1
  <2>2. QED
    BY <1>2, <2>1
<1>6. QED
  BY <1>1, <1>2, <1>3, <1>4, <1>5

(* A queue keeps what it carries when messages are added behind. *)
LEMMA FrontOfJoin ==
    ASSUME NEW S \in SUBSET Envelope, NEW q \in Seq(S), NEW r \in Seq(S)
    PROVE  /\ \A n \in Nat : Front(q, n) \subseteq Front(q \o r, n)
           /\ Carried(q) \subseteq Carried(q \o r)
           /\ Carried(r) \subseteq Carried(q \o r)
<1> DEFINE u == q \o r
<1>1. /\ Len(q) \in Nat /\ Len(r) \in Nat /\ Len(u) = Len(q) + Len(r)
      /\ DOMAIN q = 1 .. Len(q) /\ DOMAIN r = 1 .. Len(r)
      /\ DOMAIN u = 1 .. Len(q) + Len(r)
      /\ \A n \in 1 .. Len(q) : u[n] = q[n]
      /\ \A n \in 1 .. Len(r) : u[Len(q) + n] = r[n]
  BY JoinOfQueues
<1> HIDE DEF u
<1>2. \A n \in Nat : Front(q, n) \subseteq Front(u, n)
  BY <1>1 DEF Front
<1>3. Carried(q) \subseteq Carried(u)
  BY <1>1 DEF Front, Carried
<1>4. ASSUME NEW i \in Carried(r) PROVE i \in Carried(u)
  <2>1. PICK n \in 1 .. Len(r) : r[n].kind \in Data /\ i = r[n].id
    BY <1>1, <1>4 DEF Front, Carried
  <2> DEFINE k == Len(q) + n
  <2>2. k \in DOMAIN u /\ k <= Len(u) /\ u[k] = r[n]
    BY <1>1
  <2>3. QED
    BY <2>1, <2>2 DEF Front, Carried
<1>5. QED
  BY <1>2, <1>3, <1>4 DEF u

LEMMA FrontGrows ==
    ASSUME NEW q, NEW n \in Int, NEW m \in Int, n <= m, DOMAIN q \subseteq Int
    PROVE  Front(q, n) \subseteq Front(q, m)
BY DEF Front

LEMMA PrefixOfQueue ==
    ASSUME NEW S \in SUBSET Envelope, NEW q \in Seq(S), NEW l \in 0 .. Len(q)
    PROVE  /\ SubSeq(q, 1, l) \in Seq(S)
           /\ Len(SubSeq(q, 1, l)) = l
           /\ DOMAIN SubSeq(q, 1, l) = 1 .. l
           /\ DOMAIN q = 1 .. Len(q) /\ Len(q) \in Nat
           /\ \A n \in 1 .. l : SubSeq(q, 1, l)[n] = q[n]
           /\ \A n \in 0 .. l : Front(SubSeq(q, 1, l), n) = Front(q, n)
<1>1. Len(q) \in Nat /\ DOMAIN q = 1 .. Len(q) /\ \A n \in 1 .. Len(q) : q[n] \in S
  BY LenProperties, ElementOfSeq
<1> DEFINE u == SubSeq(q, 1, l)
<1>2. /\ u \in Seq(S) /\ Len(u) = l
      /\ \A n \in 1 .. l : u[n] = q[n]
  BY <1>1, SubSeqProperties
<1>3. DOMAIN u = 1 .. l
  BY <1>2, LenProperties
<1> HIDE DEF u
<1>4. \A n \in 0 .. l : Front(u, n) = Front(q, n)
  BY <1>1, <1>2, <1>3 DEF Front
<1>5. QED
  BY <1>1, <1>2, <1>3, <1>4 DEF u

(* Popping discards messages up to the acknowledged id from the front. *)
LEMMA PoppedUpTo ==
    ASSUME NEW S \in SUBSET Envelope, NEW q \in Seq(S), NEW A \in Nat \cup {NoId}
    PROVE  \E k \in 0 .. Len(q) :
              /\ Unacknowledged(q, A) = SubSeq(q, k + 1, Len(q))
              /\ \A p \in 1 .. k : q[p].id <= A
<1>1. Len(q) \in Nat /\ \A n \in 1 .. Len(q) : q[n] \in S
  BY LenProperties, ElementOfSeq
<1> DEFINE Stops == {n \in 0 .. Len(q) : n < Len(q) => q[n + 1].id > A}

<1>2. Len(q) \in Stops /\ Stops \subseteq Nat
  BY <1>1
<1> DEFINE R == OpToRel(<, Nat)
<1>r. R = {ss \in Nat \X Nat : ss[1] < ss[2]} /\ IsWellFoundedOn(R, Nat)
  BY NatLessThanWellFounded, Zenon DEF OpToRel
<1> HIDE DEF R
<1>3. PICK k \in Stops : \A n \in Stops : ~(<<n, k>> \in R)
  <2> HIDE DEF Stops
  <2>1. Stops # {}
    BY <1>2
  <2>2. QED
    BY <1>2, <1>r, <2>1, WFMin
<1>4. \A n \in Stops : k <= n
  <2> TAKE n \in Stops
  <2>1. n \in Nat /\ k \in Nat /\ <<n, k>> \notin R
    BY <1>2, <1>3
  <2>2. ~(n < k)
    BY <1>r, <2>1
  <2>3. QED
    BY <2>1, <2>2
<1>5. ASSUME NEW p \in 1 .. k PROVE q[p].id <= A
  <2> DEFINE n == p - 1
  <2>1. n \in 0 .. Len(q) /\ n < k /\ n + 1 = p /\ n < Len(q)
    BY <1>1
  <2>2. n \notin Stops
    BY <1>4, <2>1
  <2>3. q[p] \in Envelope
    BY <1>1, <2>1
  <2>4. q[p].id \in Nat
    BY <2>3 DEF Envelope
  <2>5. QED
    BY <2>1, <2>2, <2>4 DEF NoId
<1> DEFINE Good(n) == /\ \A p \in 1 .. n : q[p].id <= A
                      /\ n < Len(q) => q[n + 1].id > A
<1>6. k \in 0 .. Len(q) /\ Good(k)
  BY <1>5
<1> DEFINE c == CHOOSE n \in 0 .. Len(q) : Good(n)
<1>7. c \in 0 .. Len(q) /\ Good(c)
  BY <1>6, Zenon
<1>8. Unacknowledged(q, A) = SubSeq(q, c + 1, Len(q))
  BY DEF Unacknowledged
<1> HIDE DEF c
<1>9. QED
  BY <1>7, <1>8

LEMMA Popped ==
    ASSUME NEW S \in SUBSET Envelope, NEW q \in Seq(S), NEW A \in Nat \cup {NoId}
    PROVE  /\ Unacknowledged(q, A) \in Seq(S)
           /\ \A n \in DOMAIN Unacknowledged(q, A) :
                 \E m \in DOMAIN q : Unacknowledged(q, A)[n] = q[m]
           /\ \A i \in Carried(q) : i > A => i \in Carried(Unacknowledged(q, A))
           /\ A = NoId => Unacknowledged(q, A) = q
<1>1. PICK k \in 0 .. Len(q) :
         /\ Unacknowledged(q, A) = SubSeq(q, k + 1, Len(q))
         /\ \A p \in 1 .. k : q[p].id <= A
  BY PoppedUpTo
<1>2. Len(q) \in Nat /\ DOMAIN q = 1 .. Len(q) /\ \A n \in 1 .. Len(q) : q[n] \in S
  BY LenProperties, ElementOfSeq
<1> DEFINE u == Unacknowledged(q, A)
<1>3. /\ u \in Seq(S)
      /\ Len(u) = Len(q) - k
      /\ \A n \in 1 .. Len(q) - k : u[n] = q[k + n]
  <2> DEFINE v == SubSeq(q, k + 1, Len(q))
  <2>1. k + 1 \in Int /\ Len(q) \in Int /\ \A n \in k + 1 .. Len(q) : q[n] \in S
    BY <1>2
  <2>2. /\ v \in Seq(S)
        /\ Len(v) = IF k + 1 <= Len(q) THEN Len(q) - (k + 1) + 1 ELSE 0
        /\ \A n \in 1 .. Len(q) - (k + 1) + 1 : v[n] = q[(k + 1) + n - 1]
    BY <1>1, <2>1, SubSeqProperties
  <2> HIDE DEF v
  <2>3. Len(v) = Len(q) - k
    <3>1. k \in Nat /\ Len(q) \in Nat /\ k <= Len(q)
      BY <1>1, <1>2
    <3>2. CASE k + 1 <= Len(q)
      BY <2>2, <3>1, <3>2
    <3>3. CASE ~(k + 1 <= Len(q))
      BY <2>2, <3>1, <3>3
    <3>4. QED
      BY <3>2, <3>3
  <2>4. ASSUME NEW n \in 1 .. Len(q) - k PROVE v[n] = q[k + n]
    <3>1. n \in 1 .. Len(q) - (k + 1) + 1 /\ (k + 1) + n - 1 = k + n
      BY <1>1, <1>2
    <3>2. QED
      BY <2>2, <3>1
  <2>5. u = v
    BY <1>1 DEF v
  <2>6. QED
    BY <2>2, <2>3, <2>4, <2>5
<1>4. DOMAIN u = 1 .. Len(q) - k
  BY <1>3, LenProperties
<1>5. Len(u) \in Nat
  BY <1>2, <1>3
<1> HIDE DEF u
<1>6. \A n \in DOMAIN u : \E m \in DOMAIN q : u[n] = q[m]
  <2> TAKE n \in DOMAIN u
  <2> DEFINE m == k + n
  <2>1. m \in DOMAIN q /\ u[n] = q[m]
    BY <1>2, <1>3, <1>4
  <2>2. QED
    BY <2>1
<1>7. ASSUME NEW i \in Carried(q), i > A PROVE i \in Carried(u)
  <2>1. PICK n \in 1 .. Len(q) : q[n].kind \in Data /\ i = q[n].id
    BY <1>2, <1>7 DEF Carried, Front
  <2>2. q[n].id \in Nat
    BY <1>2, <2>1 DEF Envelope
  <2>3. ~(n \in 1 .. k)
    BY <1>1, <1>7, <2>1, <2>2 DEF NoId
  <2> DEFINE m == n - k
  <2>4. m \in 1 .. Len(q) - k /\ k + m = n
    BY <1>2, <2>3
  <2>5. m \in DOMAIN u /\ m <= Len(u) /\ u[m] = q[n]
    BY <1>3, <1>4, <2>4
  <2>6. QED
    BY <2>1, <2>5 DEF Carried, Front
<1>8. ASSUME A = NoId PROVE u = q
  <2>1. k = 0
    <3> SUFFICES ASSUME k # 0 PROVE FALSE
      OBVIOUS
    <3>1. 1 \in 1 .. k /\ q[1] \in Envelope
      BY <1>2
    <3>2. QED
      BY <1>1, <1>8, <3>1 DEF Envelope, NoId
  <2>2. Len(u) = Len(q) /\ \A n \in 1 .. Len(q) : u[n] = q[n]
    BY <1>2, <1>3, <2>1
  <2>3. QED
    BY <1>3, <2>2, SeqEqual
<1>9. QED
  BY <1>3, <1>6, <1>7, <1>8 DEF u

-----------------------------------------------------------------------------
(* Types.                                                                  *)

LEMMA InitTyped == ASSUME ChannelAssumption, Init PROVE TypeOK
<1>1. CountersTyped
  BY DEF Init, CountersTyped, ChannelAssumption, End
<1>2. IdsTyped
  BY DEF Init, IdsTyped, End, ClientIds, ServerIds, NoId
<1> DEFINE m == Msg(0, "RemoteStarted", NoId, NoId)
<1>3. m \in FromClient /\ m \in FromServer
  BY DEF Init, Msg, FromClient, FromServer, Envelope, Kind, NoId, End, ClientIds, ServerIds
<1> HIDE DEF m
<1>4. <<m>> \in Seq(FromClient) /\ <<m>> \in Seq(FromServer)
  BY <1>3
<1>5. c2s = <<m>> /\ s2c = <<m>>
  BY DEF Init, m
<1>6. /\ outgoing = <<>> /\ owed = <<>>
      /\ buffer["client"] = <<>> /\ buffer["server"] = <<>> /\ DOMAIN buffer = End
  BY DEF Init, End
<1>7. QueuesTyped
  BY <1>4, <1>5, <1>6 DEF QueuesTyped
<1>8. QED
  BY <1>1, <1>2, <1>7 DEF TypeOK

(* Messages stay what they are while ids are given out. *)
LEMMA MessagesKept ==
    ASSUME ClientIds \subseteq ClientIds', ServerIds \subseteq ServerIds',
           sent["client"] \subseteq sent'["client"]
    PROVE  /\ FromClient \subseteq FromClient' /\ Requests \subseteq Requests'
           /\ FromServer \subseteq FromServer' /\ Answers \subseteq Answers'
           /\ \A q \in Seq(FromClient) : q \in Seq(FromClient')
           /\ \A q \in Seq(Requests) : q \in Seq(Requests')
           /\ \A q \in Seq(FromServer) : q \in Seq(FromServer')
           /\ \A q \in Seq(Answers) : q \in Seq(Answers')
           /\ \A q \in Seq(sent["client"]) : q \in Seq(sent'["client"])
<1>1. FromClient \subseteq FromClient'
  BY DEF FromClient
<1>2. FromServer \subseteq FromServer'
  BY DEF FromServer
<1>3. Requests \subseteq Requests' /\ Answers \subseteq Answers'
  BY <1>1, <1>2 DEF Requests, Answers
<1>4. QED
  BY <1>1, <1>2, <1>3, SeqMonotonic

LEMMA NothingGiven ==
    ASSUME UNCHANGED <<next_message_id, allocated, sent>>
    PROVE  ClientIds = ClientIds' /\ ServerIds = ServerIds' /\ Unsent' = Unsent
BY DEF ClientIds, ServerIds, Unsent

LEMMA Transmitted ==
    ASSUME NEW S, NEW ms \in Seq(S), s2c \in Seq(S), outgoing \in Seq(S), TransmitServer(ms)
    PROVE  s2c' \in Seq(S) /\ outgoing' \in Seq(S)
BY ConcatProperties DEF TransmitServer

LEMMA ClientRequestTyped == ASSUME TypeOK, ClientRequest PROVE TypeOK'
<1> DEFINE i == next_message_id["client"]
           m == Buffered("client", Msg(i, "request", NoId, NoId))
<1>1. i \in Nat \ {0} /\ next_message_id["server"] \in Nat \ {0}
  BY DEF TypeOK, CountersTyped, End
<1>2. /\ next_message_id' = [next_message_id EXCEPT !["client"] = i + 1]
      /\ buffer' = [buffer EXCEPT !["client"] = Append(@, m)]
      /\ sent' = [sent EXCEPT !["client"] = @ \cup {i}]
      /\ response_channels' = response_channels \cup {i}
      /\ c2s' = IF Linked THEN c2s \o <<m>> ELSE c2s
      /\ UNCHANGED <<load, max_received, s2c, outgoing, phase, handshake, flush, owed,
                     notified, allocated, disconnects, replaying, orderly, handled>>
  BY DEF ClientRequest, TransmitClient, serverVars, history
<1>3. /\ next_message_id'["client"] = i + 1
      /\ next_message_id'["server"] = next_message_id["server"]
      /\ sent'["client"] = sent["client"] \cup {i}
      /\ sent'["server"] = sent["server"]
      /\ next_message_id' \in [End -> Nat \ {0}]
      /\ sent' \in [End -> SUBSET Nat]
  BY <1>1, <1>2 DEF TypeOK, CountersTyped, IdsTyped, End
<1>4. ClientIds' = ClientIds \cup {i} /\ ServerIds' = ServerIds
  BY <1>1, <1>2, <1>3 DEF ClientIds, ServerIds
<1>5. m = [id |-> i, kind |-> "request", responding_to |-> NoId,
           ack_id |-> max_received["client"]]
  BY DEF Buffered, Msg
<1>6. m \in Requests'
  BY <1>1, <1>3, <1>4, <1>5 DEF Requests, FromClient, Envelope, Kind, TypeOK, IdsTyped, ServerIds
<1> HIDE DEF m
<1>7. CountersTyped'
  BY <1>2, <1>3 DEF TypeOK, CountersTyped
<1>8. IdsTyped'
  <2>1. allocated' \subseteq Unsent'
    BY <1>2, <1>3 DEF TypeOK, IdsTyped, Unsent
  <2>2. i \notin ClientIds
    BY <1>1 DEF ClientIds
  <2>3. i # flush /\ flush \in ClientIds \cup {NoId}
    BY <1>1, <2>2 DEF TypeOK, IdsTyped, NoId
  <2>4. QED
    BY <1>2, <1>3, <1>4, <2>1, <2>3 DEF TypeOK, IdsTyped
<1>9. QueuesTyped'
  <2>1. /\ FromClient \subseteq FromClient'
        /\ \A q \in Seq(FromClient) : q \in Seq(FromClient')
        /\ \A q \in Seq(Requests) : q \in Seq(Requests')
        /\ \A q \in Seq(FromServer) : q \in Seq(FromServer')
        /\ \A q \in Seq(Answers) : q \in Seq(Answers')
        /\ \A q \in Seq(sent["client"]) : q \in Seq(sent'["client"])
    BY <1>3, <1>4, MessagesKept
  <2>2. m \in FromClient' /\ <<m>> \in Seq(FromClient')
    BY <1>6 DEF Requests
  <2>3. c2s' \in Seq(FromClient')
    BY <1>2, <2>1, <2>2, ConcatProperties DEF TypeOK, QueuesTyped
  <2>4. buffer'["client"] = Append(buffer["client"], m)
        /\ buffer'["server"] = buffer["server"] /\ DOMAIN buffer' = End
    BY <1>2 DEF TypeOK, QueuesTyped, End
  <2>5. buffer'["client"] \in Seq(Requests')
    BY <1>6, <2>1, <2>4, AppendProperties DEF TypeOK, QueuesTyped
  <2>6. QED
    BY <1>2, <2>1, <2>3, <2>4, <2>5 DEF TypeOK, QueuesTyped
<1>10. QED
  BY <1>7, <1>8, <1>9 DEF TypeOK

(* What the server wants to send responds to a request, or to nothing. *)
LEMMA WantedTyped ==
    ASSUME TypeOK, NEW k, NEW r, ServerWantsToSend(k, r)
    PROVE  /\ k \in {"response", "notification"}
           /\ r \in sent["client"] \cup {NoId}
           /\ owed' \in Seq(sent["client"])
           /\ notified' \in Nat
<1>1. owed \in Seq(sent["client"]) /\ notified \in Nat
  BY DEF TypeOK, QueuesTyped, CountersTyped
<1>2. CASE NotificationDue(k, r)
  BY <1>1, <1>2 DEF NotificationDue
<1>3. CASE AnswerOwed(k, r)
  <2>1. PICK n \in DOMAIN owed :
           /\ r = owed[n]
           /\ owed' = SubSeq(owed, 1, n - 1) \o SubSeq(owed, n + 1, Len(owed))
    BY <1>3 DEF AnswerOwed
  <2>2. /\ Len(owed) \in Nat /\ n \in 1 .. Len(owed)
        /\ \A j \in 1 .. Len(owed) : owed[j] \in sent["client"]
    BY <1>1, <2>1, LenProperties, ElementOfSeq
  <2> DEFINE u == SubSeq(owed, 1, n - 1)
             v == SubSeq(owed, n + 1, Len(owed))
  <2>3. u \in Seq(sent["client"])
    <3>1. 1 \in Int /\ n - 1 \in Int /\ \A j \in 1 .. n - 1 : owed[j] \in sent["client"]
      BY <2>2
    <3>2. QED
      BY <3>1, SubSeqProperties
  <2>4. v \in Seq(sent["client"])
    <3>1. /\ n + 1 \in Int /\ Len(owed) \in Int
          /\ \A j \in n + 1 .. Len(owed) : owed[j] \in sent["client"]
      BY <2>2
    <3>2. QED
      BY <3>1, SubSeqProperties
  <2> HIDE DEF u, v
  <2>5. owed' = u \o v
    BY <2>1 DEF u, v
  <2>6. owed' \in Seq(sent["client"])
    BY <2>3, <2>4, <2>5, ConcatProperties
  <2>7. QED
    BY <1>1, <1>3, <2>1, <2>2, <2>6 DEF AnswerOwed
<1>4. QED
  BY <1>2, <1>3 DEF ServerWantsToSend

(* A message of the server is queued: it is buffered now, or was before.   *)
Emits(m) ==
    /\ \/ buffer' = [buffer EXCEPT !["server"] = Append(@, m)]
       \/ buffer' = buffer /\ m.id \in Carried(buffer["server"])
    /\ sent' = [sent EXCEPT !["server"] = @ \cup {m.id}]
    /\ TransmitServer(<<m>>)
    /\ m.kind \in {"response", "notification"}
    /\ UNCHANGED <<max_received, c2s, phase, handshake, flush, handled, replaying>>

LEMMA EmittedQueues ==
    ASSUME TypeOK, NEW m \in Answers', Emits(m), ClientIds \subseteq ClientIds',
           ServerIds \subseteq ServerIds', owed' \in Seq(sent["client"])
    PROVE  QueuesTyped'
<1>1. /\ sent'["client"] = sent["client"]
      /\ buffer'["client"] = buffer["client"]
      /\ buffer'["server"] \in {buffer["server"], Append(buffer["server"], m)}
      /\ DOMAIN buffer' = End
  BY DEF Emits, TypeOK, QueuesTyped, IdsTyped, End
<1>2. /\ \A q \in Seq(FromClient) : q \in Seq(FromClient')
      /\ \A q \in Seq(Requests) : q \in Seq(Requests')
      /\ \A q \in Seq(FromServer) : q \in Seq(FromServer')
      /\ \A q \in Seq(Answers) : q \in Seq(Answers')
  BY <1>1, MessagesKept
<1>3. buffer'["server"] \in Seq(Answers')
  <2>1. buffer["server"] \in Seq(Answers')
    BY <1>2 DEF TypeOK, QueuesTyped
  <2>2. Append(buffer["server"], m) \in Seq(Answers')
    BY <2>1, AppendProperties
  <2>3. QED
    BY <1>1, <2>1, <2>2
<1>4. m \in FromServer' /\ <<m>> \in Seq(FromServer')
  BY DEF Answers
<1>5. s2c \in Seq(FromServer') /\ outgoing \in Seq(FromServer')
  BY <1>2 DEF TypeOK, QueuesTyped
<1>6. s2c' \in Seq(FromServer') /\ outgoing' \in Seq(FromServer')
  BY <1>4, <1>5, Transmitted DEF Emits
<1>7. c2s' \in Seq(FromClient') /\ buffer'["client"] \in Seq(Requests')
  BY <1>1, <1>2 DEF Emits, TypeOK, QueuesTyped
<1>8. QED
  BY <1>1, <1>3, <1>6, <1>7 DEF QueuesTyped

(* A message sent on the main thread gets a fresh id. *)
LEMMA ServerSendEmits ==
    ASSUME TypeOK, NEW k, NEW r, ServerSend(k, r)
    PROVE  /\ TypeOK'
           /\ \E m \in Answers' : /\ Emits(m)
                                  /\ m.ack_id = max_received["server"]
                                  /\ \A i \in ServerIds : i < m.id
           /\ ServerIds \subseteq ServerIds' /\ orderly' = orderly
           /\ next_message_id'["server"] = next_message_id["server"] + 1
<1> DEFINE i == next_message_id["server"]
           m == Buffered("server", Msg(i, k, r, NoId))
<1>1. i \in Nat \ {0} /\ next_message_id["client"] \in Nat \ {0}
  BY DEF TypeOK, CountersTyped, End
<1>2. /\ ServerWantsToSend(k, r)
      /\ next_message_id' = [next_message_id EXCEPT !["server"] = i + 1]
      /\ buffer' = [buffer EXCEPT !["server"] = Append(@, m)]
      /\ sent' = [sent EXCEPT !["server"] = @ \cup {i}]
      /\ TransmitServer(<<m>>)
      /\ UNCHANGED <<load, max_received, c2s, response_channels, phase, handshake, flush,
                     allocated, disconnects, replaying, orderly, handled>>
  BY DEF ServerSend, clientVars, history
<1>3. m = [id |-> i, kind |-> k, responding_to |-> r, ack_id |-> max_received["server"]]
  BY DEF Buffered, Msg
<1>4. /\ k \in {"response", "notification"} /\ r \in sent["client"] \cup {NoId}
      /\ owed' \in Seq(sent["client"]) /\ notified' \in Nat
  BY <1>2, WantedTyped
<1>5. /\ next_message_id'["client"] = next_message_id["client"]
      /\ next_message_id'["server"] = i + 1
      /\ sent'["client"] = sent["client"]
      /\ sent'["server"] = sent["server"] \cup {i}
      /\ next_message_id' \in [End -> Nat \ {0}]
      /\ sent' \in [End -> SUBSET Nat]
  BY <1>1, <1>2 DEF TypeOK, CountersTyped, IdsTyped, End
<1>6. \A a \in allocated : a.id \in Nat /\ a.id < i
  BY <1>1 DEF TypeOK, IdsTyped, Unsent, Envelope
<1>7. ClientIds' = ClientIds /\ ServerIds' = ServerIds \cup {i} /\ \A j \in ServerIds : j < i
  BY <1>1, <1>2, <1>5, <1>6 DEF ClientIds, ServerIds
<1>8. sent["client"] \subseteq ClientIds /\ max_received["server"] \in ClientIds
  BY DEF TypeOK, IdsTyped
<1>9. m \in Answers'
  BY <1>1, <1>2, <1>3, <1>4, <1>5, <1>7, <1>8
  DEF Answers, FromServer, Envelope, Kind, ClientIds
<1>11. /\ m.id = i /\ m.kind = k /\ m.ack_id = max_received["server"]
  BY <1>3
<1>10. Emits(m)
  <2> HIDE DEF m
  <2>1. QED
    BY <1>2, <1>4, <1>11 DEF Emits
<1> HIDE DEF m
<1>12. QueuesTyped'
  BY <1>4, <1>7, <1>9, <1>10, EmittedQueues
<1>13. CountersTyped'
  BY <1>2, <1>4, <1>5 DEF TypeOK, CountersTyped
<1>14. IdsTyped'
  <2>1. allocated' \subseteq Unsent'
    BY <1>1, <1>2, <1>5, <1>6 DEF TypeOK, IdsTyped, Unsent
  <2>2. QED
    BY <1>2, <1>5, <1>7, <2>1 DEF TypeOK, IdsTyped
<1>15. QED
  <2>1. \A j \in ServerIds : j < m.id
    BY <1>7, <1>11
  <2>2. ServerIds \subseteq ServerIds' /\ TypeOK'
    BY <1>7, <1>12, <1>13, <1>14 DEF TypeOK
  <2>3. QED
    BY <1>2, <1>5, <1>9, <1>10, <1>11, <2>1, <2>2

LEMMA BeginServerSendTyped ==
    ASSUME TypeOK, NEW k, NEW r, BeginServerSend(k, r)
    PROVE  TypeOK' /\ ServerIds \subseteq ServerIds'
<1> DEFINE i == next_message_id["server"]
           m == Msg(i, k, r, NoId)
<1>1. i \in Nat \ {0} /\ next_message_id["client"] \in Nat \ {0}
  BY DEF TypeOK, CountersTyped, End
<1>2. /\ ServerWantsToSend(k, r)
      /\ next_message_id' = [next_message_id EXCEPT !["server"] = i + 1]
      /\ allocated' = allocated \cup {m}
      /\ UNCHANGED <<load, buffer, max_received, c2s, s2c, outgoing, response_channels,
                     phase, handshake, flush, disconnects, replaying, orderly, sent, handled>>
  BY DEF BeginServerSend, clientVars, history
<1>3. m = [id |-> i, kind |-> k, responding_to |-> r, ack_id |-> NoId]
  BY DEF Msg
<1>4. /\ k \in {"response", "notification"} /\ r \in sent["client"] \cup {NoId}
      /\ owed' \in Seq(sent["client"]) /\ notified' \in Nat
  BY <1>2, WantedTyped
<1>5. /\ next_message_id'["client"] = next_message_id["client"]
      /\ next_message_id'["server"] = i + 1
      /\ next_message_id' \in [End -> Nat \ {0}]
  BY <1>1, <1>2 DEF TypeOK, CountersTyped, End
<1>6. \A j \in ServerIds : j < i
  BY DEF ServerIds
<1>7. \A a \in allocated : a.id < i
  BY <1>1 DEF TypeOK, IdsTyped, Unsent
<1>8. sent["client"] \subseteq Nat /\ sent["server"] \subseteq ServerIds
  BY <1>1 DEF TypeOK, IdsTyped, End
<1>9. m \in Envelope /\ m.id = i
  BY <1>1, <1>3, <1>4, <1>8 DEF Envelope, Kind
<1>10. m \in Unsent'
  BY <1>1, <1>2, <1>3, <1>4, <1>5, <1>6, <1>8, <1>9 DEF Unsent
<1> HIDE DEF m
<1>11. ClientIds' = ClientIds /\ ServerIds \subseteq ServerIds'
  BY <1>1, <1>2, <1>5, <1>6, <1>9 DEF ClientIds, ServerIds
<1>12. QueuesTyped'
  BY <1>2, <1>4, <1>11, MessagesKept DEF TypeOK, QueuesTyped
<1>13. CountersTyped'
  BY <1>2, <1>4, <1>5 DEF TypeOK, CountersTyped
<1>14. IdsTyped'
  <2>1. Unsent \subseteq Unsent'
    BY <1>1, <1>2, <1>5 DEF Unsent, Envelope
  <2>2. allocated' \subseteq Unsent'
    BY <1>2, <1>10, <2>1 DEF TypeOK, IdsTyped
  <2>3. \A a, b \in allocated' : a.id = b.id => a = b
    BY <1>1, <1>2, <1>7, <1>9 DEF TypeOK, IdsTyped
  <2>4. QED
    BY <1>2, <1>11, <2>2, <2>3 DEF TypeOK, IdsTyped
<1>15. QED
  BY <1>11, <1>12, <1>13, <1>14 DEF TypeOK

(* A background send reads its ack_id, ...                                 *)
LEMMA StampServerSendTyped ==
    ASSUME TypeOK, NEW a \in allocated, StampServerSend(a)
    PROVE  TypeOK' /\ ServerIds' = ServerIds /\ ClientIds' = ClientIds
<1> DEFINE m == Buffered("server", a)
<1>1. /\ allocated' = (allocated \ {a}) \cup {m}
      /\ UNCHANGED <<load, next_message_id, buffer, max_received, c2s, s2c, outgoing,
                     response_channels, phase, handshake, flush, owed, notified,
                     disconnects, replaying, orderly, sent, handled>>
  BY DEF StampServerSend, clientVars, history
<1>2. /\ a \in Envelope /\ max_received["server"] \in Nat /\ a \in Unsent
  BY DEF TypeOK, IdsTyped, Unsent, End
<1>3. /\ m \in Envelope /\ m.id = a.id /\ m.kind = a.kind
      /\ m.responding_to = a.responding_to
  BY <1>2 DEF Buffered, Envelope
<1> HIDE DEF m
<1>4. ServerIds' = ServerIds /\ ClientIds' = ClientIds
  <2>1. \A i : (\A b \in allocated' : b.id # i) <=> (\A b \in allocated : b.id # i)
    BY <1>1, <1>3
  <2>2. QED
    BY <1>1, <2>1 DEF ServerIds, ClientIds
<1>5. FromClient' = FromClient /\ FromServer' = FromServer /\ Requests' = Requests
      /\ Answers' = Answers
  BY <1>1, <1>4 DEF FromClient, FromServer, Requests, Answers
<1>6. CountersTyped' /\ QueuesTyped'
  BY <1>1, <1>5 DEF TypeOK, CountersTyped, QueuesTyped
<1>7. allocated' \subseteq Unsent' /\ \A b, c \in allocated' : b.id = c.id => b = c
  <2>1. m \in Unsent /\ Unsent' = Unsent
    BY <1>1, <1>2, <1>3 DEF Unsent
  <2>2. QED
    BY <1>1, <1>3, <2>1 DEF TypeOK, IdsTyped
<1>8. IdsTyped'
  BY <1>1, <1>4, <1>7 DEF TypeOK, IdsTyped
<1>9. QED
  BY <1>4, <1>6, <1>8 DEF TypeOK

(* ... enters the buffer ...                                               *)
LEMMA BufferServerSendTyped ==
    ASSUME TypeOK, HeldTyped, NEW a \in allocated, BufferServerSend(a)
    PROVE  /\ TypeOK' /\ ClientIds' = ClientIds
           /\ ServerIds \subseteq ServerIds' /\ a.id \notin ServerIds
           /\ a \in Answers'
<1>1. /\ a.ack_id # NoId /\ allocated' = allocated \ {a}
      /\ buffer' = [buffer EXCEPT !["server"] = Append(@, a)]
      /\ UNCHANGED <<load, next_message_id, max_received, c2s, s2c, outgoing,
                     response_channels, phase, handshake, flush, owed, notified,
                     disconnects, replaying, orderly, sent, handled>>
  BY DEF BufferServerSend, clientVars, history
<1>2. /\ a \in Envelope /\ a.kind \in {"response", "notification"}
      /\ a.responding_to \in sent["client"] \cup {NoId}
      /\ 0 < a.id /\ a.id < next_message_id["server"] /\ a.id \in Nat
  BY DEF TypeOK, IdsTyped, Unsent, Envelope
<1>3. \A b \in allocated' : b.id # a.id
  BY <1>1 DEF TypeOK, IdsTyped
<1>4. /\ ClientIds' = ClientIds /\ ServerIds \subseteq ServerIds'
      /\ a.id \in ServerIds' /\ a.id \notin ServerIds
  BY <1>1, <1>2, <1>3 DEF ClientIds, ServerIds
<1>5. sent["client"] \subseteq ClientIds /\ a.ack_id \in ClientIds
  BY <1>1 DEF TypeOK, IdsTyped, HeldTyped
<1>6. a \in Answers'
  BY <1>1, <1>2, <1>4, <1>5 DEF Answers, FromServer
<1>7. QueuesTyped'
  <2>1. /\ buffer'["client"] = buffer["client"] /\ DOMAIN buffer' = End
        /\ buffer'["server"] = Append(buffer["server"], a)
    BY <1>1 DEF TypeOK, QueuesTyped, End
  <2>2. /\ \A q \in Seq(FromClient) : q \in Seq(FromClient')
        /\ \A q \in Seq(Requests) : q \in Seq(Requests')
        /\ \A q \in Seq(FromServer) : q \in Seq(FromServer')
        /\ \A q \in Seq(Answers) : q \in Seq(Answers')
    BY <1>1, <1>4, MessagesKept
  <2>3. buffer'["server"] \in Seq(Answers')
    BY <1>6, <2>1, <2>2, AppendProperties DEF TypeOK, QueuesTyped
  <2>4. QED
    BY <1>1, <2>1, <2>2, <2>3 DEF TypeOK, QueuesTyped
<1>8. CountersTyped'
  BY <1>1 DEF TypeOK, CountersTyped
<1>9. IdsTyped'
  <2>1. Unsent' = Unsent /\ allocated' \subseteq allocated
    BY <1>1 DEF Unsent
  <2>2. QED
    BY <1>1, <1>4, <2>1 DEF TypeOK, IdsTyped
<1>10. QED
  BY <1>4, <1>6, <1>7, <1>8, <1>9 DEF TypeOK

(* ... and is queued, with the newest id if it was not overtaken.          *)
LEMMA QueueServerSendEmits ==
    ASSUME TypeOK, Held, NEW a \in unqueued, QueueServerSend(a)
    PROVE  /\ TypeOK' /\ ServerIds' = ServerIds /\ ClientIds' = ClientIds
           /\ orderly' => orderly
           /\ a \in Answers'
           /\ orderly' => Emits(a) /\ \A i \in Seen : i < a.id
<1>1. /\ sent' = [sent EXCEPT !["server"] = @ \cup {a.id}]
      /\ TransmitServer(<<a>>)
      /\ orderly' = (orderly /\ NotOvertaken(a))
      /\ UNCHANGED <<load, next_message_id, buffer, max_received, c2s, response_channels,
                     phase, handshake, flush, disconnects, owed, notified, allocated,
                     replaying, handled>>
  BY DEF QueueServerSend, clientVars
<1>2. /\ a \in Answers /\ a \in FromServer /\ a.id \in ServerIds /\ a.id \in Nat
      /\ a.kind \in {"response", "notification"}
  BY DEF Held, HeldTyped, Answers, FromServer, Envelope
<1>3. /\ sent'["client"] = sent["client"]
      /\ sent'["server"] = sent["server"] \cup {a.id}
      /\ sent' \in [End -> SUBSET Nat]
  BY <1>1, <1>2 DEF TypeOK, IdsTyped, End
<1>4. ServerIds' = ServerIds /\ ClientIds' = ClientIds
  BY <1>1 DEF ServerIds, ClientIds
<1>5. FromClient' = FromClient /\ FromServer' = FromServer /\ Requests' = Requests
      /\ Answers' = Answers
  BY <1>3, <1>4 DEF FromClient, FromServer, Requests, Answers
<1>6. QueuesTyped'
  <2>1. <<a>> \in Seq(FromServer)
    BY <1>2
  <2>2. s2c' \in Seq(FromServer) /\ outgoing' \in Seq(FromServer)
    BY <1>1, <2>1, Transmitted DEF TypeOK, QueuesTyped
  <2>3. QED
    BY <1>1, <1>3, <1>5, <2>2 DEF TypeOK, QueuesTyped
<1>7. CountersTyped'
  BY <1>1 DEF TypeOK, CountersTyped
<1>8. IdsTyped'
  <2>1. \A b \in allocated : b.id # a.id
    BY <1>2 DEF ServerIds
  <2>2. allocated' \subseteq Unsent'
    BY <1>1, <1>3, <2>1 DEF TypeOK, IdsTyped, Unsent
  <2>3. sent'["server"] \subseteq ServerIds'
    BY <1>2, <1>3, <1>4 DEF TypeOK, IdsTyped
  <2>4. QED
    BY <1>1, <1>3, <1>4, <2>2, <2>3 DEF TypeOK, IdsTyped
<1>9. ASSUME orderly' PROVE Emits(a) /\ \A i \in Seen : i < a.id
  <2>1. a.id \in Carried(buffer["server"]) /\ \A i \in Seen : i < a.id
    BY <1>1, <1>9 DEF Held, NewestUnseen
  <2>2. QED
    BY <1>1, <1>2, <2>1 DEF Emits
<1>10. QED
  BY <1>1, <1>2, <1>4, <1>5, <1>6, <1>7, <1>8, <1>9 DEF TypeOK

-----------------------------------------------------------------------------
(* Receiving.                                                              *)


LEMMA ServerReceiveCases ==
    ASSUME TypeOK, ServerReceive
    PROVE  /\ c2s # <<>> /\ c2s' = Tail(c2s) /\ c2s[1] \in FromClient
           /\ replaying' = IF replaying = 0 THEN 0 ELSE replaying - 1
           /\ UNCHANGED <<response_channels, phase, handshake, flush, disconnects,
                          notified, allocated, load, orderly, sent>>
           /\ \/ /\ c2s[1].kind = "Ack"
                 /\ UNCHANGED <<buffer, next_message_id, max_received, handled,
                                s2c, outgoing, owed>>
              \/ /\ c2s[1].kind # "Ack"
                 /\ HandleMessage("server", c2s[1],
                                  Unacknowledged(buffer["server"], c2s[1].ack_id))
                 /\ TransmitServer(Replies("server", c2s[1],
                                  Unacknowledged(buffer["server"], c2s[1].ack_id)))
                 /\ owed' = StartHandler(c2s[1])
<1>1. c2s # <<>> /\ c2s \in Seq(FromClient) /\ FromClient \subseteq Envelope
  BY DEF ServerReceive, TypeOK, QueuesTyped, FromClient
<1>2. Head(c2s) = c2s[1] /\ c2s[1] \in FromClient
  BY <1>1, TailOfQueue
<1>3. c2s[1].kind = "Ack" => c2s[1].responding_to = 0
  BY <1>2 DEF FromClient
<1>4. QED
  BY <1>1, <1>2, <1>3 DEF ServerReceive, clientVars

(* The three kinds of messages that the server handles. *)
ReadByServer(buf) ==
    /\ buffer' = [buffer EXCEPT !["server"] = buf]
    /\ UNCHANGED <<max_received, handled, owed>>
    /\ next_message_id' =
          [next_message_id EXCEPT !["server"] = next_message_id["server"] + 1]

ServerGreets(m, buf) ==
    /\ m.kind = "RemoteStarted"
    /\ ReadByServer(buf)
    /\ TransmitServer(<<Ack(next_message_id["server"], m)>>)

ServerFlushes(m, buf) ==
    /\ m.kind = "FlushBufferedMessages"
    /\ ReadByServer(buf)
    /\ TransmitServer(Append(buf, Ack(next_message_id["server"], m)))

ServerServes(m, buf) ==
    /\ m.kind = "request"
    /\ buffer' = [buffer EXCEPT !["server"] = buf]
    /\ UNCHANGED <<next_message_id, s2c, outgoing>>
    /\ max_received' = [max_received EXCEPT !["server"] = m.id]
    /\ handled' = [handled EXCEPT !["server"] = handled["server"] \cup {m.id}]
    /\ owed' = Append(owed, m.id)

ServerSkips(m) ==
    /\ m.kind = "Ack"
    /\ UNCHANGED <<buffer, next_message_id, max_received, handled, s2c, outgoing, owed>>

LEMMA ServerReceiveKinds ==
    ASSUME TypeOK, ServerReceive
    PROVE  LET m == c2s[1]
               buf == Unacknowledged(buffer["server"], m.ack_id)
           IN  ServerSkips(m) \/ ServerGreets(m, buf) \/ ServerFlushes(m, buf)
               \/ ServerServes(m, buf)
<1> DEFINE m == c2s[1]
           buf == Unacknowledged(buffer["server"], m.ack_id)
<1>1. /\ m \in FromClient
      /\ \/ /\ m.kind = "Ack"
            /\ UNCHANGED <<buffer, next_message_id, max_received, handled,
                           s2c, outgoing, owed>>
         \/ /\ m.kind # "Ack"
            /\ HandleMessage("server", m, buf)
            /\ TransmitServer(Replies("server", m, buf))
            /\ owed' = StartHandler(m)
  BY ServerReceiveCases
<1> SUFFICES \/ ServerSkips(m) \/ ServerGreets(m, buf)
             \/ ServerFlushes(m, buf) \/ ServerServes(m, buf)
  OBVIOUS
<1> HIDE DEF m, buf
<1>2. CASE m.kind = "Ack"
  BY <1>1, <1>2 DEF ServerSkips
<1>3. ASSUME m.kind # "Ack"
      PROVE  /\ HandleMessage("server", m, buf)
             /\ TransmitServer(Replies("server", m, buf))
             /\ owed' = StartHandler(m)
  BY <1>1, <1>3
<1>4. /\ next_message_id \in [End -> Nat \ {0}] /\ handled \in [End -> SUBSET Nat]
      /\ max_received \in [End -> Nat]
  BY DEF TypeOK, CountersTyped, IdsTyped
<1>5. CASE m.kind = "RemoteStarted"
  <2>2. ReadByServer(buf)
    BY <1>3, <1>4, <1>5 DEF HandleMessage, NeedsAck, StartHandler, ReadByServer, End
  <2>3. Replies("server", m, buf) = <<Ack(next_message_id["server"], m)>>
    BY <1>5 DEF Replies
  <2>4. QED
    BY <1>3, <1>5, <2>2, <2>3 DEF ServerGreets
<1>6. CASE m.kind = "FlushBufferedMessages"
  <2>1. ReadByServer(buf)
    BY <1>3, <1>4, <1>6 DEF HandleMessage, NeedsAck, StartHandler, ReadByServer, End
  <2>2. Replies("server", m, buf) = Append(buf, Ack(next_message_id["server"], m))
    BY <1>6 DEF Replies
  <2>3. QED
    BY <1>3, <1>6, <2>1, <2>2 DEF ServerFlushes
<1>7. CASE m.kind = "request"
  <2>1. Replies("server", m, buf) = <<>>
    BY <1>7 DEF Replies
  <2>2. s2c' = s2c /\ outgoing' = outgoing
    <3>1. s2c \in Seq(FromServer) /\ outgoing \in Seq(FromServer)
      BY DEF TypeOK, QueuesTyped
    <3>2. s2c \o <<>> = s2c /\ outgoing \o <<>> = outgoing
      BY <3>1, ConcatEmptySeq
    <3>3. QED
      BY <1>3, <1>7, <2>1, <3>2 DEF TransmitServer
  <2>3. /\ buffer' = [buffer EXCEPT !["server"] = buf]
        /\ next_message_id' = next_message_id
        /\ max_received' = [max_received EXCEPT !["server"] = m.id]
        /\ handled' = [handled EXCEPT !["server"] = handled["server"] \cup {m.id}]
        /\ owed' = Append(owed, m.id)
    BY <1>3, <1>4, <1>7 DEF HandleMessage, NeedsAck, StartHandler, End
  <2>4. QED
    BY <1>7, <2>2, <2>3 DEF ServerServes
<1>8. m.kind \in {"RemoteStarted", "Ack", "FlushBufferedMessages", "request"}
  BY <1>1 DEF FromClient
<1>9. QED
  BY <1>2, <1>5, <1>6, <1>7, <1>8

LEMMA MessageSets ==
    /\ FromClient \in SUBSET Envelope /\ Requests \in SUBSET Envelope
    /\ FromServer \in SUBSET Envelope /\ Answers \in SUBSET Envelope
    /\ Requests \subseteq FromClient /\ Answers \subseteq FromServer
BY DEF FromClient, Requests, FromServer, Answers

(* What the server reads, and what is left of its buffer then. *)
LEMMA ServerReads ==
    ASSUME TypeOK, c2s # <<>>
    PROVE  /\ c2s[1] \in FromClient /\ c2s[1].ack_id \in Nat \cup {NoId}
           /\ Tail(c2s) \in Seq(FromClient)
           /\ Unacknowledged(buffer["server"], c2s[1].ack_id) \in Seq(Answers)
<1>1. c2s[1] \in FromClient /\ Tail(c2s) \in Seq(FromClient)
  BY TailOfQueue, MessageSets DEF TypeOK, QueuesTyped
<1>2. c2s[1].ack_id \in Nat \cup {NoId}
  BY <1>1 DEF FromClient, Envelope
<1>3. QED
  BY <1>1, <1>2, Popped, MessageSets DEF TypeOK, QueuesTyped

(* The acknowledgement of a handshake or a flush. *)
LEMMA ServerAcks ==
    ASSUME TypeOK, NEW m \in FromClient, NEW buf \in Seq(Answers), ReadByServer(buf),
           UNCHANGED <<allocated, sent>>
    PROVE  LET a == Ack(next_message_id["server"], m)
           IN  /\ a \in FromServer' /\ a.kind = "Ack" /\ a.responding_to = m.id
               /\ a.ack_id = NoId
               /\ \A i \in ServerIds : i < a.id
               /\ ServerIds \subseteq ServerIds' /\ ClientIds' = ClientIds
               /\ next_message_id' \in [End -> Nat \ {0}]
               /\ Unsent \subseteq Unsent'
<1> DEFINE i == next_message_id["server"]
           a == Ack(i, m)
<1>1. i \in Nat \ {0} /\ next_message_id["client"] \in Nat \ {0}
  BY DEF TypeOK, CountersTyped, End
<1>2. /\ next_message_id'["server"] = i + 1
      /\ next_message_id'["client"] = next_message_id["client"]
      /\ next_message_id' \in [End -> Nat \ {0}]
  BY <1>1 DEF ReadByServer, TypeOK, CountersTyped, End
<1>3. \A b \in allocated : b.id \in Nat /\ b.id < i
  BY <1>1 DEF TypeOK, IdsTyped, Unsent, Envelope
<1>4. ServerIds' = ServerIds \cup {i} /\ ClientIds' = ClientIds /\ \A j \in ServerIds : j < i
  BY <1>1, <1>2, <1>3 DEF ServerIds, ClientIds
<1>5. a = [id |-> i, kind |-> "Ack", responding_to |-> m.id, ack_id |-> NoId]
  BY DEF Ack, Msg
<1>6. m.id \in Nat /\ m.id \in ClientIds
  BY DEF FromClient, Envelope
<1>7. a \in FromServer'
  BY <1>1, <1>4, <1>5, <1>6 DEF FromServer, Envelope, Kind
<1>8. Unsent \subseteq Unsent'
  BY <1>1, <1>2 DEF Unsent, Envelope
<1>9. QED
  BY <1>2, <1>4, <1>5, <1>7, <1>8

LEMMA ServerReceiveTyped ==
    ASSUME TypeOK, ServerReceive
    PROVE  TypeOK' /\ ServerIds \subseteq ServerIds' /\ ClientIds' = ClientIds
<1> DEFINE m == c2s[1]
           buf == Unacknowledged(buffer["server"], m.ack_id)
           a == Ack(next_message_id["server"], m)
<1>1. /\ c2s # <<>> /\ c2s' = Tail(c2s)
      /\ replaying' = IF replaying = 0 THEN 0 ELSE replaying - 1
      /\ UNCHANGED <<response_channels, phase, handshake, flush, disconnects,
                     notified, allocated, load, orderly, sent>>
  BY ServerReceiveCases
<1>2. \/ ServerSkips(m) \/ ServerGreets(m, buf)
      \/ ServerFlushes(m, buf) \/ ServerServes(m, buf)
  BY ServerReceiveKinds
<1>3. /\ m \in FromClient /\ m.ack_id \in Nat \cup {NoId}
      /\ c2s' \in Seq(FromClient)
      /\ buf \in Seq(Answers)
  BY <1>1, ServerReads
<1> HIDE DEF m, buf
<1>4. replaying' \in Nat
  BY <1>1 DEF TypeOK, CountersTyped
<1>5. ASSUME ServerIds \subseteq ServerIds', ClientIds' = ClientIds
      PROVE  /\ c2s' \in Seq(FromClient') /\ buf \in Seq(Answers')
             /\ s2c \in Seq(FromServer') /\ outgoing \in Seq(FromServer')
             /\ buffer["server"] \in Seq(Answers') /\ buffer["client"] \in Seq(Requests')
             /\ \A q \in Seq(Answers') : q \in Seq(FromServer')
             /\ Answers' \subseteq FromServer'
  <2>1. /\ \A q \in Seq(FromClient) : q \in Seq(FromClient')
        /\ \A q \in Seq(Requests) : q \in Seq(Requests')
        /\ \A q \in Seq(FromServer) : q \in Seq(FromServer')
        /\ \A q \in Seq(Answers) : q \in Seq(Answers')
    BY <1>1, <1>5, MessagesKept
  <2>2. Answers' \subseteq FromServer'
    BY DEF Answers
  <2>3. \A q \in Seq(Answers') : q \in Seq(FromServer')
    BY <2>2, SeqMonotonic
  <2>4. QED
    BY <1>3, <2>1, <2>2, <2>3 DEF TypeOK, QueuesTyped
<1>6. ASSUME ServerSkips(m) \/ ServerServes(m, buf)
      PROVE  TypeOK' /\ ServerIds \subseteq ServerIds' /\ ClientIds' = ClientIds
  <2>1. next_message_id' = next_message_id
    BY <1>6 DEF ServerSkips, ServerServes
  <2>2. ServerIds' = ServerIds /\ ClientIds' = ClientIds /\ Unsent' = Unsent
    BY <1>1, <2>1, NothingGiven
  <2>3. s2c' = s2c /\ outgoing' = outgoing
    BY <1>6 DEF ServerSkips, ServerServes
  <2>4. CountersTyped'
    BY <1>1, <1>4, <2>1 DEF TypeOK, CountersTyped
  <2>5. /\ DOMAIN buffer' = End /\ buffer'["client"] = buffer["client"]
        /\ buffer'["server"] \in Seq(Answers')
    BY <1>5, <1>6, <2>2 DEF ServerSkips, ServerServes, TypeOK, QueuesTyped, End
  <2>6. /\ max_received' \in [End -> Nat]
        /\ max_received'["client"] = max_received["client"]
        /\ max_received'["server"] \in ClientIds
        /\ handled' \in [End -> SUBSET Nat]
    BY <1>3, <1>6 DEF ServerSkips, ServerServes, TypeOK, IdsTyped, FromClient, Envelope, End
  <2>7. owed' \in Seq(sent["client"])
    <3>1. CASE ServerSkips(m)
      BY <3>1 DEF ServerSkips, TypeOK, QueuesTyped
    <3>2. CASE ServerServes(m, buf)
      <4>1. m.id \in sent["client"] /\ owed \in Seq(sent["client"]) /\ owed' = Append(owed, m.id)
        BY <1>3, <3>2 DEF ServerServes, FromClient, TypeOK, QueuesTyped
      <4>2. QED
        BY <4>1, AppendProperties
    <3>3. QED
      BY <1>6, <3>1, <3>2
  <2>8. QueuesTyped'
    BY <1>1, <1>5, <2>2, <2>3, <2>5, <2>7 DEF QueuesTyped
  <2>9. IdsTyped'
    BY <1>1, <2>2, <2>6 DEF TypeOK, IdsTyped
  <2>10. QED
    BY <2>2, <2>4, <2>8, <2>9 DEF TypeOK
<1>7. ASSUME ServerGreets(m, buf) \/ ServerFlushes(m, buf)
      PROVE  TypeOK' /\ ServerIds \subseteq ServerIds' /\ ClientIds' = ClientIds
  <2>1. ReadByServer(buf)
    BY <1>7 DEF ServerGreets, ServerFlushes
  <2>2. /\ a \in FromServer' /\ ServerIds \subseteq ServerIds' /\ ClientIds' = ClientIds
        /\ next_message_id' \in [End -> Nat \ {0}] /\ Unsent \subseteq Unsent'
    BY <1>1, <1>3, <2>1, ServerAcks
  <2> HIDE DEF a
  <2>3. s2c' \in Seq(FromServer') /\ outgoing' \in Seq(FromServer')
    <3>1. <<a>> \in Seq(FromServer') /\ Append(buf, a) \in Seq(FromServer')
      BY <1>5, <2>2, AppendProperties
    <3>2. TransmitServer(<<a>>) \/ TransmitServer(Append(buf, a))
      BY <1>7 DEF ServerGreets, ServerFlushes, a
    <3>3. QED
      BY <1>5, <2>2, <3>1, <3>2, Transmitted
  <2>4. CountersTyped'
    BY <1>1, <1>4, <2>2 DEF TypeOK, CountersTyped
  <2>5. /\ DOMAIN buffer' = End /\ buffer'["client"] = buffer["client"]
        /\ buffer'["server"] = buf
    BY <2>1 DEF ReadByServer, TypeOK, QueuesTyped, End
  <2>6. QueuesTyped'
    BY <1>1, <1>5, <2>1, <2>2, <2>3, <2>5 DEF QueuesTyped, ReadByServer, TypeOK
  <2>7. IdsTyped'
    BY <1>1, <2>1, <2>2 DEF TypeOK, IdsTyped, ReadByServer
  <2>8. QED
    BY <2>2, <2>4, <2>6, <2>7 DEF TypeOK
<1>8. QED
  BY <1>2, <1>6, <1>7

(* The client skips the acknowledgement of its handshake ... *)
ClientSkips(m) ==
    /\ m.kind = "Ack"
    /\ m.responding_to = handshake
    /\ phase' = IF phase = "handshaking" THEN "resyncing" ELSE phase
    /\ UNCHANGED <<buffer, next_message_id, max_received, handled, response_channels,
                   c2s, replaying>>

(* ... and looks at everything else. *)
Resynced(m) == phase = "resyncing" /\ m.responding_to = flush

ClientReads(m, buf) ==
    /\ ~(m.kind = "Ack" /\ m.responding_to = handshake)
    /\ buffer' = [buffer EXCEPT !["client"] = buf]
    /\ response_channels' = response_channels \ {m.responding_to}
    /\ phase' = IF Resynced(m) THEN "connected" ELSE phase
    /\ TransmitClient(ClientReplies(m, buf, Resynced(m)))
    /\ replaying' = IF Resynced(m) /\ buf # <<>> THEN Len(c2s') ELSE replaying

ClientGreets(m, buf) ==
    /\ m.kind = "RemoteStarted"
    /\ ClientReads(m, buf)
    /\ UNCHANGED <<max_received, handled>>
    /\ next_message_id' =
          [next_message_id EXCEPT !["client"] = next_message_id["client"] + 1]

ClientTakes(m, buf) ==
    /\ m.kind \in {"Ack", "response", "notification"}
    /\ ClientReads(m, buf)
    /\ UNCHANGED next_message_id
    /\ max_received' = [max_received EXCEPT !["client"] = m.id]
    /\ handled' = [handled EXCEPT !["client"] =
                      handled["client"] \cup (IF m.kind \in Data THEN {m.id} ELSE {})]

LEMMA ClientReceiveKinds ==
    ASSUME TypeOK, ClientReceive
    PROVE  LET m == s2c[1]
               buf == Unacknowledged(buffer["client"], m.ack_id)
           IN  /\ s2c # <<>> /\ s2c' = Tail(s2c) /\ m \in FromServer
               /\ UNCHANGED <<handshake, flush, disconnects, outgoing, owed, notified,
                              allocated, load, orderly, sent>>
               /\ ClientSkips(m) \/ ClientGreets(m, buf) \/ ClientTakes(m, buf)
<1> DEFINE m == s2c[1]
           buf == Unacknowledged(buffer["client"], m.ack_id)
<1>1. s2c # <<>> /\ s2c \in Seq(FromServer)
  BY DEF ClientReceive, TypeOK, QueuesTyped
<1>2. Head(s2c) = m /\ m \in FromServer
  BY <1>1, TailOfQueue, MessageSets
<1>3. /\ s2c # <<>> /\ s2c' = Tail(s2c)
      /\ UNCHANGED <<handshake, flush, disconnects, outgoing, owed, notified,
                     allocated, load, orderly, sent>>
      /\ \/ ClientSkips(m)
         \/ /\ ClientReads(m, buf)
            /\ HandleMessage("client", m, buf)
  BY <1>2 DEF ClientReceive, ClientSkips, ClientReads, Resynced, serverVars, HandleMessage
<1>4. /\ next_message_id \in [End -> Nat \ {0}] /\ handled \in [End -> SUBSET Nat]
      /\ max_received \in [End -> Nat]
  BY DEF TypeOK, CountersTyped, IdsTyped
<1> HIDE DEF m, buf
<1>5. ASSUME HandleMessage("client", m, buf), ClientReads(m, buf)
      PROVE  ClientGreets(m, buf) \/ ClientTakes(m, buf)
  <2>1. m.kind \in {"RemoteStarted", "Ack", "response", "notification"}
    BY <1>2 DEF FromServer
  <2>2. ASSUME m.kind = "RemoteStarted" PROVE ClientGreets(m, buf)
    BY <1>4, <1>5, <2>2 DEF HandleMessage, NeedsAck, ClientGreets, End
  <2>3. ASSUME m.kind # "RemoteStarted" PROVE ClientTakes(m, buf)
    <3>1. next_message_id' = next_message_id
      BY <1>4, <1>5, <2>1, <2>3 DEF HandleMessage, NeedsAck, End
    <3>2. max_received' = [max_received EXCEPT !["client"] = m.id]
      BY <1>4, <1>5, <2>1, <2>3 DEF HandleMessage, NeedsAck, End
    <3>3. handled' = [handled EXCEPT !["client"] =
                      handled["client"] \cup (IF m.kind \in Data THEN {m.id} ELSE {})]
      BY <1>4, <1>5, <2>1, <2>3 DEF HandleMessage, Data, End
    <3>4. QED
      BY <1>5, <2>1, <2>3, <3>1, <3>2, <3>3 DEF ClientTakes
  <2>4. QED
    BY <2>2, <2>3
<1>6. QED
  BY <1>2, <1>3, <1>5 DEF m, buf

(* What the client answers with, and what is left of its buffer then. *)
LEMMA ClientAnswers ==
    ASSUME TypeOK, s2c # <<>>,
           NEW m \in FromServer, NEW buf \in Seq(Requests),
           ClientGreets(m, buf) \/ ClientTakes(m, buf), UNCHANGED <<allocated, sent>>
    PROVE  /\ ServerIds' = ServerIds /\ ClientIds \subseteq ClientIds' /\ Unsent' = Unsent
           /\ next_message_id' \in [End -> Nat \ {0}]
           /\ \A i \in ClientIds' : i # flush \/ i \in ClientIds
           /\ ClientReplies(m, buf, Resynced(m)) \in Seq(FromClient')
           /\ c2s' \in Seq(FromClient')
           /\ Resynced(m) => ClientReplies(m, buf, Resynced(m)) = buf
           /\ ~Resynced(m) =>
                 ClientReplies(m, buf, Resynced(m)) =
                    IF m.kind = "RemoteStarted"
                    THEN <<Ack(next_message_id["client"], m)>> ELSE <<>>
<1> DEFINE i == next_message_id["client"]
           a == Ack(i, m)
<1>1. /\ i \in Nat \ {0} /\ next_message_id["server"] \in Nat \ {0}
      /\ next_message_id \in [End -> Nat \ {0}]
  BY DEF TypeOK, CountersTyped, End
<1>2. /\ next_message_id' \in [End -> Nat \ {0}]
      /\ next_message_id'["server"] = next_message_id["server"]
      /\ next_message_id'["client"] = IF m.kind = "RemoteStarted" THEN i + 1 ELSE i
  BY <1>1 DEF ClientGreets, ClientTakes, End
<1>3. /\ ServerIds' = ServerIds /\ Unsent' = Unsent
      /\ ClientIds' = IF m.kind = "RemoteStarted" THEN ClientIds \cup {i} ELSE ClientIds
  BY SMTT(20), <1>1, <1>2 DEF ServerIds, ClientIds, Unsent
<1>4. flush # i /\ flush \in ClientIds \cup {NoId}
  BY <1>1 DEF TypeOK, IdsTyped, ClientIds, NoId
<1>5. Resynced(m) => ClientReplies(m, buf, Resynced(m)) = buf
  BY DEF ClientReplies
<1>6. ~Resynced(m) =>
         ClientReplies(m, buf, Resynced(m)) =
            IF m.kind = "RemoteStarted" THEN <<a>> ELSE <<>>
  <2>1. m.kind \in {"RemoteStarted", "Ack", "response", "notification"}
    BY DEF FromServer
  <2>2. QED
    BY <2>1 DEF ClientReplies, Replies
<1>7. ASSUME m.kind = "RemoteStarted" PROVE a \in FromClient'
  <2>1. a = [id |-> i, kind |-> "Ack", responding_to |-> m.id, ack_id |-> NoId]
    BY DEF Ack, Msg
  <2>2. m.id = 0 /\ i \in ClientIds'
    BY <1>1, <1>3, <1>7 DEF FromServer, Envelope
  <2>3. QED
    BY <1>1, <2>1, <2>2 DEF FromClient, Envelope, Kind
<1>8. /\ c2s \in Seq(FromClient') /\ buf \in Seq(FromClient')
  <2>1. ClientIds \subseteq ClientIds' /\ ServerIds \subseteq ServerIds'
    BY <1>3
  <2>2. /\ FromClient \subseteq FromClient'
        /\ \A q \in Seq(FromClient) : q \in Seq(FromClient')
    BY <2>1, MessagesKept
  <2>3. Requests \subseteq FromClient'
    BY <2>2, MessageSets
  <2>4. QED
    BY <2>2, <2>3, SeqMonotonic DEF TypeOK, QueuesTyped
<1> HIDE DEF a
<1>9. ClientReplies(m, buf, Resynced(m)) \in Seq(FromClient')
  <2>1. CASE Resynced(m)
    BY <1>5, <1>8, <2>1
  <2>2. CASE ~Resynced(m) /\ m.kind = "RemoteStarted"
    <3> DEFINE S == FromClient'
    <3>1. a \in S
      BY <1>7, <2>2
    <3> HIDE DEF S
    <3>2. <<a>> \in Seq(S)
      BY <3>1
    <3>3. ClientReplies(m, buf, Resynced(m)) = <<a>>
      BY <1>6, <2>2
    <3>4. QED
      BY <3>2, <3>3 DEF S
  <2>3. CASE ~Resynced(m) /\ m.kind # "RemoteStarted"
    BY <1>6, <2>3
  <2>4. QED
    BY <2>1, <2>2, <2>3
<1>10. c2s' \in Seq(FromClient')
  <2>1. TransmitClient(ClientReplies(m, buf, Resynced(m)))
    BY DEF ClientGreets, ClientTakes, ClientReads
  <2>2. QED
    BY <1>8, <1>9, <2>1, ConcatProperties DEF TransmitClient
<1>11. QED
  BY <1>2, <1>3, <1>4, <1>5, <1>6, <1>9, <1>10 DEF a

LEMMA ClientReceiveTyped ==
    ASSUME TypeOK, ClientReceive
    PROVE  TypeOK' /\ ServerIds' = ServerIds /\ ClientIds \subseteq ClientIds'
<1> DEFINE m == s2c[1]
           buf == Unacknowledged(buffer["client"], m.ack_id)
<1>1. /\ s2c # <<>> /\ s2c' = Tail(s2c) /\ m \in FromServer
      /\ UNCHANGED <<handshake, flush, disconnects, outgoing, owed, notified,
                     allocated, load, orderly, sent>>
      /\ ClientSkips(m) \/ ClientGreets(m, buf) \/ ClientTakes(m, buf)
  BY ClientReceiveKinds
<1>2. s2c' \in Seq(FromServer)
  BY <1>1, TailOfQueue, MessageSets DEF TypeOK, QueuesTyped
<1>3. buf \in Seq(Requests)
  <2>1. m.ack_id \in Nat \cup {NoId}
    BY <1>1 DEF FromServer, Envelope
  <2>2. QED
    BY <2>1, Popped, MessageSets DEF TypeOK, QueuesTyped
<1> HIDE DEF m, buf
<1>4. CASE ClientSkips(m)
  <2>1. ServerIds' = ServerIds /\ ClientIds' = ClientIds /\ Unsent' = Unsent
    BY <1>1, <1>4, NothingGiven DEF ClientSkips
  <2>2. CountersTyped'
    BY <1>1, <1>4 DEF ClientSkips, TypeOK, CountersTyped
  <2>3. IdsTyped'
    BY <1>1, <1>4, <2>1 DEF ClientSkips, TypeOK, IdsTyped
  <2>4. FromClient' = FromClient /\ FromServer' = FromServer /\ Requests' = Requests
        /\ Answers' = Answers
    BY <1>1, <2>1 DEF FromClient, FromServer, Requests, Answers
  <2>5. QueuesTyped'
    BY <1>1, <1>2, <1>4, <2>4 DEF ClientSkips, TypeOK, QueuesTyped
  <2>6. QED
    BY <2>1, <2>2, <2>3, <2>5 DEF TypeOK
<1>5. CASE ClientGreets(m, buf) \/ ClientTakes(m, buf)
  <2>1. /\ ServerIds' = ServerIds /\ ClientIds \subseteq ClientIds' /\ Unsent' = Unsent
        /\ next_message_id' \in [End -> Nat \ {0}]
        /\ c2s' \in Seq(FromClient')
    BY <1>1, <1>3, <1>5, ClientAnswers
  <2>2. ClientReads(m, buf)
    BY <1>5 DEF ClientGreets, ClientTakes
  <2>3. /\ m.id \in Nat /\ m.id \in ServerIds
    BY <1>1 DEF FromServer, Envelope
  <2>4. /\ max_received' \in [End -> Nat]
        /\ max_received'["client"] \in ServerIds
        /\ max_received'["server"] = max_received["server"]
        /\ handled' \in [End -> SUBSET Nat]
    BY <1>5, <2>3 DEF ClientGreets, ClientTakes, TypeOK, IdsTyped, End
  <2>5. CountersTyped'
    <3>1. Len(c2s') \in Nat
      BY <2>1, LenProperties
    <3>2. QED
      BY <1>1, <2>1, <2>2, <3>1 DEF ClientReads, TypeOK, CountersTyped
  <2>6. IdsTyped'
    <3>1. sent["client"] \subseteq ClientIds' /\ handshake \in ClientIds'
          /\ flush \in ClientIds' \cup {NoId} /\ response_channels' \subseteq ClientIds'
          /\ max_received["server"] \in ClientIds'
      BY <2>1, <2>2 DEF ClientReads, TypeOK, IdsTyped
    <3>2. QED
      BY <1>1, <2>1, <2>4, <3>1 DEF TypeOK, IdsTyped
  <2>7. QueuesTyped'
    <3>1. /\ \A q \in Seq(Requests) : q \in Seq(Requests')
          /\ \A q \in Seq(FromServer) : q \in Seq(FromServer')
          /\ \A q \in Seq(Answers) : q \in Seq(Answers')
      BY <1>1, <2>1, MessagesKept
    <3>2. /\ DOMAIN buffer' = End /\ buffer'["client"] = buf
          /\ buffer'["server"] = buffer["server"]
      BY <2>2 DEF ClientReads, TypeOK, QueuesTyped, End
    <3>3. QED
      BY <1>1, <1>2, <1>3, <2>1, <3>1, <3>2 DEF TypeOK, QueuesTyped
  <2>8. QED
    BY <2>1, <2>5, <2>6, <2>7 DEF TypeOK
<1>6. QED
  BY <1>1, <1>4, <1>5

-----------------------------------------------------------------------------
(* Breaking and replacing the connection.                                  *)

LEMMA DisconnectTyped ==
    ASSUME TypeOK, Disconnect
    PROVE  /\ TypeOK'
           /\ \E n \in 0 .. Len(c2s) : c2s' = SubSeq(c2s, 1, n)
           /\ \E n \in 0 .. Len(s2c) : s2c' = SubSeq(s2c, 1, n)
           /\ \A n \in DOMAIN outgoing' : \E k \in DOMAIN s2c : outgoing'[n] = s2c[k]
<1>1. PICK n \in 0 .. Len(c2s) : c2s' = SubSeq(c2s, 1, n)
  BY DEF Disconnect
<1>2. PICK l \in 0 .. Len(s2c) : \E k \in l .. Len(s2c) :
         /\ s2c' = SubSeq(s2c, 1, l)
         /\ outgoing' = SubSeq(s2c, k + 1, Len(s2c))
  BY DEF Disconnect
<1>3. PICK k \in l .. Len(s2c) :
         /\ s2c' = SubSeq(s2c, 1, l)
         /\ outgoing' = SubSeq(s2c, k + 1, Len(s2c))
  BY <1>2
<1>4. /\ c2s \in Seq(FromClient) /\ s2c \in Seq(FromServer)
      /\ Len(s2c) \in Nat /\ DOMAIN s2c = 1 .. Len(s2c)
      /\ \A j \in 1 .. Len(s2c) : s2c[j] \in FromServer
  BY LenProperties, ElementOfSeq DEF TypeOK, QueuesTyped
<1>5. c2s' \in Seq(FromClient) /\ s2c' \in Seq(FromServer)
  BY <1>1, <1>3, <1>4, PrefixOfQueue, MessageSets
<1> DEFINE o == SubSeq(s2c, k + 1, Len(s2c))
<1>6. /\ o \in Seq(FromServer)
      /\ \A j \in DOMAIN o : \E p \in DOMAIN s2c : o[j] = s2c[p]
  <2>1. /\ k + 1 \in Int /\ Len(s2c) \in Int /\ k \in Nat
        /\ \A j \in k + 1 .. Len(s2c) : s2c[j] \in FromServer
    BY <1>4
  <2>2. /\ o \in Seq(FromServer)
        /\ Len(o) = IF k + 1 <= Len(s2c) THEN Len(s2c) - (k + 1) + 1 ELSE 0
        /\ \A j \in 1 .. Len(s2c) - (k + 1) + 1 : o[j] = s2c[(k + 1) + j - 1]
    BY <2>1, SubSeqProperties
  <2> HIDE DEF o
  <2>3. DOMAIN o = 1 .. Len(o)
    BY <2>2, LenProperties
  <2>4. ASSUME NEW j \in DOMAIN o PROVE \E p \in DOMAIN s2c : o[j] = s2c[p]
    <3> DEFINE p == (k + 1) + j - 1
    <3>1. j \in 1 .. Len(s2c) - (k + 1) + 1
      <4>1. CASE k + 1 <= Len(s2c)
        BY <2>1, <2>2, <2>3, <4>1
      <4>2. CASE ~(k + 1 <= Len(s2c))
        BY <2>1, <2>2, <2>3, <4>2
      <4>3. QED
        BY <4>1, <4>2
    <3>2. p \in 1 .. Len(s2c)
      BY <1>4, <2>1, <3>1
    <3>3. o[j] = s2c[p]
      BY <2>2, <3>1
    <3>4. QED
      BY <1>4, <3>2, <3>3
  <2>5. QED
    BY <2>2, <2>4
<1> HIDE DEF o
<1>7. outgoing' = o
  BY <1>3 DEF o
<1>8. /\ phase' = "down" /\ orderly' = (orderly /\ phase = "connected" /\ replaying = 0)
      /\ replaying' = 0 /\ disconnects' \in {disconnects, disconnects + 1}
      /\ UNCHANGED <<load, next_message_id, buffer, max_received, response_channels,
                     handshake, flush, owed, notified, allocated, sent, handled>>
  BY DEF Disconnect
<1>9. ServerIds' = ServerIds /\ ClientIds' = ClientIds /\ Unsent' = Unsent
  BY <1>8, NothingGiven
<1>10. FromClient' = FromClient /\ FromServer' = FromServer /\ Requests' = Requests
       /\ Answers' = Answers
  BY <1>8, <1>9 DEF FromClient, FromServer, Requests, Answers
<1>11. CountersTyped'
  BY <1>8 DEF TypeOK, CountersTyped
<1>12. QueuesTyped'
  BY <1>5, <1>6, <1>7, <1>8, <1>10 DEF TypeOK, QueuesTyped
<1>13. IdsTyped'
  BY <1>8, <1>9 DEF TypeOK, IdsTyped
<1>14. QED
  BY <1>1, <1>3, <1>6, <1>7, <1>11, <1>12, <1>13 DEF TypeOK

LEMMA ReconnectTyped ==
    ASSUME TypeOK, Reconnect
    PROVE  LET h == next_message_id["client"]
               hello == Msg(h, "RemoteStarted", NoId, NoId)
               ask == Msg(h + 1, "FlushBufferedMessages", NoId, max_received["client"])
           IN  /\ TypeOK' /\ phase = "down" /\ phase' = "handshaking"
               /\ c2s' = c2s \o <<hello, ask>>
               /\ s2c' = outgoing /\ outgoing' = <<>>
               /\ handshake' = h /\ flush' = h + 1
               /\ h \in Nat /\ h \notin ClientIds /\ h + 1 \notin ClientIds
               /\ hello \in Envelope /\ hello.kind = "RemoteStarted" /\ hello.id = h
               /\ hello.ack_id = NoId
               /\ ask \in Envelope /\ ask.kind = "FlushBufferedMessages" /\ ask.id = h + 1
               /\ ask.ack_id = max_received["client"]
               /\ UNCHANGED <<buffer, max_received, replaying, orderly, sent, handled>>
<1> DEFINE h == next_message_id["client"]
           hello == Msg(h, "RemoteStarted", NoId, NoId)
           ask == Msg(h + 1, "FlushBufferedMessages", NoId, max_received["client"])
<1>1. h \in Nat \ {0} /\ next_message_id["server"] \in Nat \ {0}
  BY DEF TypeOK, CountersTyped, End
<1>2. /\ phase = "down" /\ phase' = "handshaking"
      /\ c2s' = c2s \o <<hello, ask>>
      /\ s2c' = outgoing /\ outgoing' = <<>>
      /\ handshake' = h /\ flush' = h + 1
      /\ next_message_id' = [next_message_id EXCEPT !["client"] = h + 2]
      /\ response_channels' = response_channels \cup {h + 1}
      /\ UNCHANGED <<buffer, max_received, owed, notified, allocated,
                     disconnects, load, replaying, orderly, sent, handled>>
  BY DEF Reconnect, history
<1>3. /\ next_message_id' \in [End -> Nat \ {0}]
      /\ next_message_id'["server"] = next_message_id["server"]
      /\ next_message_id'["client"] = h + 2
  BY <1>1, <1>2 DEF TypeOK, CountersTyped, End
<1>4. /\ ServerIds' = ServerIds /\ Unsent' = Unsent
      /\ ClientIds' = ClientIds \cup {h, h + 1}
      /\ h \notin ClientIds /\ h + 1 \notin ClientIds
  <2>1. ServerIds' = ServerIds /\ Unsent' = Unsent
    BY <1>2, <1>3 DEF ServerIds, Unsent
  <2>2. ClientIds' = ClientIds \cup {h, h + 1}
    BY <1>1, <1>3 DEF ClientIds
  <2>3. h \notin ClientIds /\ h + 1 \notin ClientIds
    BY <1>1 DEF ClientIds
  <2>4. QED
    BY <2>1, <2>2, <2>3
<1>5. /\ hello = [id |-> h, kind |-> "RemoteStarted", responding_to |-> NoId, ack_id |-> NoId]
      /\ ask = [id |-> h + 1, kind |-> "FlushBufferedMessages", responding_to |-> NoId,
                ack_id |-> max_received["client"]]
  BY DEF Msg
<1>6. max_received["client"] \in Nat /\ max_received["client"] \in ServerIds
  BY DEF TypeOK, IdsTyped, End
<1>7. hello \in FromClient' /\ ask \in FromClient'
  BY <1>1, <1>4, <1>5, <1>6 DEF FromClient, Envelope, Kind, NoId
<1>8. /\ hello.kind = "RemoteStarted" /\ hello.id = h /\ hello.ack_id = NoId
      /\ ask.kind = "FlushBufferedMessages" /\ ask.id = h + 1
      /\ ask.ack_id = max_received["client"]
      /\ hello \in Envelope /\ ask \in Envelope
  BY <1>1, <1>5, <1>6 DEF Envelope, Kind
<1> HIDE DEF hello, ask
<1>9. CountersTyped'
  BY <1>2, <1>3 DEF TypeOK, CountersTyped
<1>10. QueuesTyped'
  <2>1. /\ \A q \in Seq(FromClient) : q \in Seq(FromClient')
        /\ \A q \in Seq(Requests) : q \in Seq(Requests')
        /\ \A q \in Seq(FromServer) : q \in Seq(FromServer')
        /\ \A q \in Seq(Answers) : q \in Seq(Answers')
    BY <1>2, <1>4, MessagesKept
  <2>2. c2s \in Seq(FromClient') /\ <<hello, ask>> \in Seq(FromClient')
    BY <1>7, <2>1 DEF TypeOK, QueuesTyped
  <2>3. c2s' \in Seq(FromClient')
    BY <1>2, <2>2, ConcatProperties
  <2>4. outgoing' \in Seq(FromServer')
    BY <1>2
  <2>5. QED
    BY <1>2, <2>1, <2>3, <2>4 DEF TypeOK, QueuesTyped
<1>11. IdsTyped'
  <2>1. sent["client"] \subseteq ClientIds
    BY DEF TypeOK, IdsTyped
  <2>2. h \in ClientIds' /\ h + 1 \in ClientIds' /\ h + 1 \notin sent["client"]
    BY <1>4, <2>1
  <2>3. QED
    BY <1>2, <1>4, <2>2 DEF TypeOK, IdsTyped
<1>12. QED
  BY <1>1, <1>2, <1>4, <1>8, <1>9, <1>10, <1>11 DEF TypeOK, hello, ask

LEMMA SameMessagesTyped ==
    ASSUME TypeOK, CountersTyped',
           UNCHANGED <<next_message_id, buffer, max_received, response_channels, c2s, s2c,
                       outgoing, handshake, flush, owed, allocated, sent, handled>>
    PROVE  TypeOK'
<1>1. ServerIds' = ServerIds /\ ClientIds' = ClientIds /\ Unsent' = Unsent
  BY NothingGiven
<1>2. FromClient' = FromClient /\ FromServer' = FromServer /\ Requests' = Requests
      /\ Answers' = Answers
  BY <1>1 DEF FromClient, FromServer, Requests, Answers
<1>3. QED
  BY <1>1, <1>2 DEF TypeOK, QueuesTyped, IdsTyped

LEMMA ResyncTimeoutTyped == ASSUME TypeOK, ResyncTimeout PROVE TypeOK' /\ ~orderly'
<1>1. /\ phase' = "abandoned" /\ disconnects' = disconnects + 1 /\ ~orderly'
      /\ UNCHANGED <<load, next_message_id, notified, replaying>>
  BY DEF ResyncTimeout, serverVars
<1>2. CountersTyped'
  <2>1. orderly' \in BOOLEAN
    BY DEF ResyncTimeout
  <2>2. QED
    BY <1>1, <2>1 DEF TypeOK, CountersTyped
<1>3. QED
  BY <1>1, <1>2, SameMessagesTyped DEF ResyncTimeout, serverVars

LEMMA TypedStep == ASSUME TypeOK, Held, [Next]_vars PROVE TypeOK'
<1>1. CASE ClientRequest
  BY <1>1, ClientRequestTyped
<1>2. CASE ServerSends
  BY <1>2, ServerSendEmits, BeginServerSendTyped DEF ServerSends
<1>3. CASE ContinueServerSend
  BY <1>3, StampServerSendTyped, BufferServerSendTyped, QueueServerSendEmits
     DEF ContinueServerSend, Held
<1>4. CASE ServerReceive
  BY <1>4, ServerReceiveTyped
<1>5. CASE ClientReceive
  BY <1>5, ClientReceiveTyped
<1>6. CASE ResyncTimeout
  BY <1>6, ResyncTimeoutTyped
<1>7. CASE Disconnect
  BY <1>7, DisconnectTyped
<1>8. CASE Reconnect
  BY <1>8, ReconnectTyped
<1>9. CASE UNCHANGED vars
  BY <1>9, SameMessagesTyped DEF vars, TypeOK, CountersTyped
<1>10. QED
  BY <1>1, <1>2, <1>3, <1>4, <1>5, <1>6, <1>7, <1>8, <1>9 DEF Next

-----------------------------------------------------------------------------
(* Nothing is lost: sending.                                               *)

(* A queue u after the messages r were added behind q, or the message m. *)
Extended(q, r, u) ==
    /\ Len(q) \in Nat /\ Len(r) \in Nat /\ Len(u) = Len(q) + Len(r)
    /\ DOMAIN q = 1 .. Len(q) /\ DOMAIN u = 1 .. Len(u)
    /\ \A n \in DOMAIN q : n \in DOMAIN u /\ u[n] = q[n]
    /\ \A n \in DOMAIN u : n \in DOMAIN q \/ (n > Len(q) /\ \E j \in DOMAIN r : u[n] = r[j])
    /\ \A n \in DOMAIN u : n > Len(q) => n - Len(q) \in DOMAIN r /\ u[n] = r[n - Len(q)]
    /\ \A n \in Nat : Front(q, n) \subseteq Front(u, n)
    /\ Carried(q) \subseteq Carried(u) /\ Carried(r) \subseteq Carried(u)

Appended(q, m, u) ==
    /\ Len(q) \in Nat /\ Len(u) = Len(q) + 1
    /\ DOMAIN q = 1 .. Len(q) /\ DOMAIN u = 1 .. Len(u)
    /\ \A n \in DOMAIN q : n \in DOMAIN u /\ u[n] = q[n]
    /\ Len(u) \in DOMAIN u /\ u[Len(u)] = m
    /\ \A n \in DOMAIN u : n \in DOMAIN q \/ (n = Len(u) /\ n > Len(q) /\ u[n] = m)
    /\ \A n \in Nat : Front(q, n) \subseteq Front(u, n)
    /\ Carried(q) \subseteq Carried(u)
    /\ m.kind \in Data => m.id \in Carried(u) /\ m.id \in Front(u, Len(u))

LEMMA Behind ==
    ASSUME NEW S \in SUBSET Envelope, NEW q \in Seq(S), NEW r \in Seq(S)
    PROVE  Extended(q, r, q \o r)
<1> DEFINE u == q \o r
<1>1. /\ Len(q) \in Nat /\ Len(r) \in Nat
      /\ Len(u) = Len(q) + Len(r)
      /\ DOMAIN q = 1 .. Len(q) /\ DOMAIN r = 1 .. Len(r)
      /\ DOMAIN u = 1 .. Len(q) + Len(r)
      /\ \A n \in 1 .. Len(q) : u[n] = q[n]
      /\ \A n \in 1 .. Len(r) : u[Len(q) + n] = r[n]
  BY JoinOfQueues
<1>2. /\ \A n \in Nat : Front(q, n) \subseteq Front(u, n)
      /\ Carried(q) \subseteq Carried(u) /\ Carried(r) \subseteq Carried(u)
  BY FrontOfJoin
<1> HIDE DEF u
<1>3. ASSUME NEW n \in DOMAIN u, n \notin DOMAIN q
      PROVE  n > Len(q) /\ n - Len(q) \in DOMAIN r /\ u[n] = r[n - Len(q)]
  <2> DEFINE j == n - Len(q)
  <2>1. n > Len(q) /\ j \in 1 .. Len(r) /\ Len(q) + j = n
    BY <1>1, <1>3
  <2>2. u[n] = r[j]
    BY <1>1, <2>1
  <2>3. QED
    BY <1>1, <2>1, <2>2
<1>4. \A n \in DOMAIN u : n \in DOMAIN q <=> ~(n > Len(q))
  BY <1>1
<1>5. Extended(q, r, u)
  BY <1>1, <1>2, <1>3, <1>4 DEF Extended
<1>6. QED
  BY <1>5 DEF u

LEMMA OneBehind ==
    ASSUME NEW S \in SUBSET Envelope, NEW q \in Seq(S), NEW m \in S
    PROVE  Appended(q, m, q \o <<m>>) /\ Append(q, m) = q \o <<m>>
<1> DEFINE r == <<m>>
           u == q \o r
<1>1. r \in Seq(S) /\ Len(r) = 1 /\ r[1] = m /\ DOMAIN r = {1}
  OBVIOUS
<1>2. Append(q, m) = u
  BY AppendIsConcat
<1> HIDE DEF r
<1>3. Extended(q, r, u)
  BY <1>1, Behind
<1> HIDE DEF u
<1>4. Len(q) \in Nat /\ Len(u) = Len(q) + 1
  BY <1>1, <1>3 DEF Extended
<1>5. \A n \in DOMAIN u : n \in DOMAIN q \/ (n = Len(u) /\ n > Len(q) /\ u[n] = m)
  BY <1>1, <1>3, <1>4 DEF Extended
<1>6. Len(u) \in DOMAIN u /\ u[Len(u)] = m
  BY <1>3, <1>4, <1>5 DEF Extended
<1>7. m.kind \in Data => m.id \in Carried(u) /\ m.id \in Front(u, Len(u))
  BY <1>4, <1>6 DEF Carried, Front
<1>8. Appended(q, m, u)
  BY <1>3, <1>4, <1>5, <1>6, <1>7 DEF Extended, Appended
<1>9. QED
  BY <1>2, <1>8 DEF u, r

LEMMA MessageTypes ==
    ASSUME TypeOK
    PROVE  /\ \A n \in DOMAIN c2s : c2s[n] \in FromClient
           /\ \A n \in DOMAIN s2c : s2c[n] \in FromServer
           /\ \A n \in DOMAIN outgoing : outgoing[n] \in FromServer
           /\ \A n \in DOMAIN buffer["client"] : buffer["client"][n] \in Requests
           /\ \A n \in DOMAIN buffer["server"] : buffer["server"][n] \in Answers
           /\ DOMAIN c2s = 1 .. Len(c2s) /\ Len(c2s) \in Nat
           /\ DOMAIN s2c = 1 .. Len(s2c) /\ Len(s2c) \in Nat
<1>1. \A S : \A q \in Seq(S) : DOMAIN q = 1 .. Len(q) /\ Len(q) \in Nat
                               /\ \A n \in DOMAIN q : q[n] \in S
  BY LenProperties, ElementOfSeq
<1>2. QED
  BY <1>1 DEF TypeOK, QueuesTyped

(* Ids are numbers, and the acknowledgements are of ids given out. *)
LEMMA IdTypes ==
    ASSUME TypeOK
    PROVE  /\ \A n \in DOMAIN c2s :
                 /\ c2s[n].id \in ClientIds /\ c2s[n].ack_id \in ServerIds \cup {NoId}
           /\ \A n \in DOMAIN s2c :
                 /\ s2c[n].id \in ServerIds /\ s2c[n].ack_id \in ClientIds \cup {NoId}
                 /\ s2c[n].responding_to \in ClientIds \cup {NoId}
           /\ \A n \in DOMAIN outgoing :
                 /\ outgoing[n].id \in ServerIds
                 /\ outgoing[n].ack_id \in ClientIds \cup {NoId}
                 /\ outgoing[n].responding_to \in ClientIds \cup {NoId}
           /\ \A n \in DOMAIN buffer["client"] :
                 /\ buffer["client"][n].id \in ClientIds
                 /\ buffer["client"][n].ack_id \in ServerIds \cup {NoId}
           /\ \A n \in DOMAIN buffer["server"] :
                 /\ buffer["server"][n].id \in ServerIds
                 /\ buffer["server"][n].ack_id \in ClientIds \cup {NoId}
           /\ max_received["client"] \in ServerIds /\ max_received["server"] \in ClientIds
           /\ sent["client"] \subseteq ClientIds /\ sent["server"] \subseteq ServerIds
           /\ ClientIds \subseteq Nat /\ ServerIds \subseteq Nat
<1>1. /\ \A n \in DOMAIN c2s : c2s[n] \in FromClient
      /\ \A n \in DOMAIN s2c : s2c[n] \in FromServer
      /\ \A n \in DOMAIN outgoing : outgoing[n] \in FromServer
      /\ \A n \in DOMAIN buffer["client"] : buffer["client"][n] \in FromClient
      /\ \A n \in DOMAIN buffer["server"] : buffer["server"][n] \in FromServer
  BY MessageTypes, MessageSets
<1>2. \A m \in FromClient : m.id \in ClientIds /\ m.ack_id \in ServerIds \cup {NoId}
  BY DEF FromClient
<1>3. \A m \in FromServer : /\ m.id \in ServerIds /\ m.ack_id \in ClientIds \cup {NoId}
                            /\ m.responding_to \in ClientIds \cup {NoId}
  BY DEF FromServer
<1>4. /\ max_received["client"] \in ServerIds /\ max_received["server"] \in ClientIds
      /\ sent["client"] \subseteq ClientIds /\ sent["server"] \subseteq ServerIds
      /\ ClientIds \subseteq Nat /\ ServerIds \subseteq Nat
  BY DEF TypeOK, IdsTyped, ClientIds, ServerIds
<1>5. QED
  BY <1>1, <1>2, <1>3, <1>4

(* The client's new request is behind everything, with an id of its own. *)
LEMMA ClientRequestQueues ==
    ASSUME TypeOK, ClientRequest
    PROVE  \E m \in Envelope :
              /\ m.kind = "request" /\ m.ack_id = max_received["client"]
              /\ \A A \in ClientIds \cup {NoId} : A < m.id
              /\ sent' = [sent EXCEPT !["client"] = @ \cup {m.id}]
              /\ UNCHANGED <<max_received, s2c, outgoing, phase, handshake, flush,
                             replaying, handled>>
              /\ buffer'["server"] = buffer["server"]
              /\ Appended(buffer["client"], m, buffer'["client"])
              /\ IF Linked THEN Appended(c2s, m, c2s') ELSE c2s' = c2s
<1> DEFINE i == next_message_id["client"]
           m == Buffered("client", Msg(i, "request", NoId, NoId))
<1>1. /\ buffer' = [buffer EXCEPT !["client"] = Append(@, m)]
      /\ sent' = [sent EXCEPT !["client"] = @ \cup {i}]
      /\ c2s' = IF Linked THEN c2s \o <<m>> ELSE c2s
      /\ UNCHANGED <<max_received, s2c, outgoing, phase, handshake, flush,
                     replaying, handled>>
  BY DEF ClientRequest, TransmitClient, serverVars, history
<1>2. m = [id |-> i, kind |-> "request", responding_to |-> NoId,
           ack_id |-> max_received["client"]]
  BY DEF Buffered, Msg
<1>3. i \in Nat /\ max_received["client"] \in Nat
  BY DEF TypeOK, CountersTyped, IdsTyped, End
<1>4. m \in Envelope /\ m.id = i /\ m.kind = "request" /\ m.ack_id = max_received["client"]
  BY <1>2, <1>3 DEF Envelope, Kind
<1> HIDE DEF m
<1>5. \A A \in ClientIds \cup {NoId} : A < i
  BY <1>3 DEF ClientIds, NoId
<1>6. /\ buffer["client"] \in Seq(Envelope) /\ c2s \in Seq(Envelope) /\ DOMAIN buffer = End
  BY MessageSets, SeqMonotonic DEF TypeOK, QueuesTyped
<1>7. Appended(buffer["client"], m, buffer'["client"]) /\ buffer'["server"] = buffer["server"]
  <2>1. buffer'["client"] = Append(buffer["client"], m) /\ buffer'["server"] = buffer["server"]
    BY <1>1, <1>6 DEF End
  <2>2. QED
    BY <1>4, <1>6, <2>1, OneBehind
<1>8. IF Linked THEN Appended(c2s, m, c2s') ELSE c2s' = c2s
  BY <1>1, <1>4, <1>6, OneBehind
<1>9. QED
  BY <1>1, <1>4, <1>5, <1>7, <1>8

(* The flush stays where it is while messages are added behind. *)
LEMMA FlushKept ==
    ASSUME OneFlush, HandshakeFirst,
           UNCHANGED <<phase, handshake, flush, replaying>>,
           replaying <= Len(c2s'),
           \A p : Pending(p)' <=> Pending(p),
           Attempting => \A q : Answered(q)' <=> Answered(q),
           \A p : Pending(p) => c2s'[p] = c2s[p],
           \A q : Answered(q) => s2c'[q] = s2c[q],
           \A n \in DOMAIN c2s : n \in DOMAIN c2s' /\ c2s'[n] = c2s[n],
           \A n \in DOMAIN c2s' : n \in DOMAIN c2s \/ c2s'[n].kind # "RemoteStarted",
           \A r : Greeted(r) => Greeted(r)'
    PROVE  OneFlush' /\ HandshakeFirst'
<1>1. Steady' = Steady /\ Attempting' = Attempting
  BY DEF Steady, Attempting
<1>2. OneFlush'
  <2>1. /\ phase' # "abandoned"
        /\ replaying' <= Len(c2s')
        /\ phase' # "connected" => replaying' = 0
    BY DEF OneFlush
  <2>2. Steady' => \A p : ~Pending(p)'
    BY <1>1 DEF OneFlush
  <2>3. ASSUME Attempting'
        PROVE  /\ handshake' \in Nat /\ flush' = handshake' + 1
               /\ (\E p : Pending(p)') \/ (\E q : Answered(q)')
               /\ \A p, q : ~(Pending(p)' /\ Answered(q)')
               /\ \A p, r : Pending(p)' /\ Pending(r)' => p = r
               /\ \A q, r : Answered(q)' /\ Answered(r)' => q = r
               /\ \A p : Pending(p)' => c2s'[p].id = flush'
               /\ \A n \in DOMAIN c2s' : c2s'[n].kind = "RemoteStarted" => c2s'[n].id # flush'
               /\ \A q : Answered(q)' => s2c'[q].kind = "Ack" /\ s2c'[q].ack_id = NoId
    BY <1>1, <2>3 DEF OneFlush
  <2>4. QED
    BY <2>1, <2>2, <2>3 DEF OneFlush
<1>3. HandshakeFirst'
  <2> SUFFICES ASSUME phase' = "handshaking"
               PROVE  /\ \A p : Pending(p)' =>
                            \/ \E n \in DOMAIN c2s' : n < p /\ c2s'[n].kind = "RemoteStarted"
                                                            /\ c2s'[n].id = handshake'
                            \/ \E r : Greeted(r)'
                      /\ \A q : Answered(q)' => \E r : Greeted(r)' /\ r < q
    BY DEF HandshakeFirst
  <2>1. phase = "handshaking" /\ Attempting
    BY DEF Attempting
  <2>2. ASSUME NEW p, Pending(p)'
        PROVE  \/ \E n \in DOMAIN c2s' : n < p /\ c2s'[n].kind = "RemoteStarted"
                                              /\ c2s'[n].id = handshake'
               \/ \E r : Greeted(r)'
    BY <2>1, <2>2 DEF HandshakeFirst
  <2>3. ASSUME NEW q, Answered(q)' PROVE \E r : Greeted(r)' /\ r < q
    BY <2>1, <2>3 DEF HandshakeFirst
  <2>4. QED
    BY <2>2, <2>3
<1>4. QED
  BY <1>2, <1>3

LEMMA ClientRequestSynced == ASSUME TypeOK, Synced, ClientRequest PROVE Synced'
<1>1. PICK m \in Envelope :
         /\ m.kind = "request" /\ m.ack_id = max_received["client"]
         /\ \A A \in ClientIds \cup {NoId} : A < m.id
         /\ sent' = [sent EXCEPT !["client"] = @ \cup {m.id}]
         /\ UNCHANGED <<max_received, s2c, outgoing, phase, handshake, flush,
                        replaying, handled>>
         /\ buffer'["server"] = buffer["server"]
         /\ Appended(buffer["client"], m, buffer'["client"])
         /\ IF Linked THEN Appended(c2s, m, c2s') ELSE c2s' = c2s
  BY ClientRequestQueues
<1>2. /\ Missed("server")' = Missed("server")
      /\ Missed("client")' \subseteq Missed("client") \cup {m.id}
      /\ Missed("client") \subseteq Nat /\ Missed("server") \subseteq Nat
  BY <1>1 DEF Missed, TypeOK, IdsTyped, End
<1>3. /\ \A n \in DOMAIN c2s : n \in DOMAIN c2s' /\ c2s'[n] = c2s[n]
      /\ \A n \in DOMAIN c2s' : n \in DOMAIN c2s \/ (n > Len(c2s) /\ c2s'[n] = m)
      /\ \A n \in Nat : Front(c2s, n) \subseteq Front(c2s', n)
      /\ Carried(c2s) \subseteq Carried(c2s')
      /\ Len(c2s) \in Nat /\ DOMAIN c2s = 1 .. Len(c2s) /\ Len(c2s) <= Len(c2s')
  BY <1>1, MessageTypes DEF Appended
<1>4. /\ m.id \in Carried(buffer'["client"])
      /\ Carried(buffer["client"]) \subseteq Carried(buffer'["client"])
      /\ \A n \in DOMAIN buffer'["client"] :
            \/ n \in DOMAIN buffer["client"] /\ buffer'["client"][n] = buffer["client"][n]
            \/ buffer'["client"][n] = m
  BY <1>1 DEF Appended, Data
<1>5. \A p : Pending(p)' <=> Pending(p)
  BY <1>1, <1>3 DEF Pending
<1>6. \A q : (Answered(q)' <=> Answered(q)) /\ (Greeted(q)' <=> Greeted(q))
  BY <1>1 DEF Answered, Greeted
<1>7. OneFlush' /\ HandshakeFirst'
  <2>1. OneFlush /\ HandshakeFirst
    BY DEF Synced
  <2>2. replaying <= Len(c2s')
    BY <1>3, <2>1 DEF OneFlush, TypeOK, CountersTyped
  <2>3. \A p : Pending(p) => c2s'[p] = c2s[p]
    BY <1>3 DEF Pending
  <2>4. QED
    BY <1>1, <1>3, <1>5, <1>6, <2>1, <2>2, <2>3, FlushKept
<1>8. Steady' = Steady /\ Attempting' = Attempting
  BY <1>1 DEF Steady, Attempting
<1>9. \A A : Safe("server", A)' = Safe("server", A)
  BY <1>2 DEF Safe
<1> DEFINE After(A) == \A i \in Missed("client")' : i > A
<1>10. \A A \in ClientIds \cup {NoId} : Safe("client", A) => After(A)
  BY <1>1, <1>2 DEF Safe
<1>11. ServerSteady'
  <2> SUFFICES ASSUME Steady
               PROVE  /\ Missed("server") \subseteq Carried(buffer'["server"])
                      /\ Safe("server", max_received'["client"])
                      /\ \A n \in DOMAIN buffer'["client"] :
                            Safe("server", buffer'["client"][n].ack_id)
                      /\ \A n \in DOMAIN c2s' : Safe("server", c2s'[n].ack_id)
                      /\ \A n \in DOMAIN s2c' : \A i \in Missed("server") :
                            i <= s2c'[n].id => i \in Front(s2c', n)
                      /\ phase' = "connected" => Missed("server") \subseteq Carried(s2c')
    BY <1>2, <1>8, <1>9 DEF ServerSteady
  <2>1. /\ Missed("server") \subseteq Carried(buffer["server"])
        /\ Safe("server", max_received["client"])
        /\ \A n \in DOMAIN buffer["client"] : Safe("server", buffer["client"][n].ack_id)
        /\ \A n \in DOMAIN c2s : Safe("server", c2s[n].ack_id)
        /\ \A n \in DOMAIN s2c : \A i \in Missed("server") :
              i <= s2c[n].id => i \in Front(s2c, n)
        /\ phase = "connected" => Missed("server") \subseteq Carried(s2c)
    BY DEF Synced, ServerSteady
  <2>2. QED
    BY <1>1, <1>3, <1>4, <2>1
<1>12. ServerPending'
  <2> SUFFICES ASSUME Attempting, NEW p, Pending(p)
               PROVE  /\ Missed("server") \subseteq Carried(buffer'["server"])
                      /\ \A n \in DOMAIN c2s' : n <= p => Safe("server", c2s'[n].ack_id)
    BY <1>2, <1>5, <1>8, <1>9 DEF ServerPending
  <2>1. /\ Missed("server") \subseteq Carried(buffer["server"])
        /\ \A n \in DOMAIN c2s : n <= p => Safe("server", c2s[n].ack_id)
    BY DEF Synced, ServerPending
  <2>2. p \in 1 .. Len(c2s)
    BY <1>3 DEF Pending
  <2>3. QED
    BY <1>1, <1>3, <2>1, <2>2
<1>13. ServerAnswered'
  <2> SUFFICES ASSUME Attempting, NEW q, Answered(q)
               PROVE  /\ max_received'["client"] < s2c'[q].id
                      /\ \A n \in DOMAIN buffer'["client"] :
                            buffer'["client"][n].ack_id < s2c'[q].id
                      /\ \A n \in DOMAIN c2s' : c2s'[n].ack_id < s2c'[q].id
    BY <1>1, <1>2, <1>6, <1>8 DEF Synced, ServerAnswered
  <2>1. /\ max_received["client"] < s2c[q].id
        /\ \A n \in DOMAIN buffer["client"] : buffer["client"][n].ack_id < s2c[q].id
        /\ \A n \in DOMAIN c2s : c2s[n].ack_id < s2c[q].id
    BY DEF Synced, ServerAnswered
  <2>2. QED
    BY <1>1, <1>3, <1>4, <2>1
<1>14. ClientConnected'
  <2> SUFFICES ASSUME phase = "connected"
               PROVE  /\ Missed("client")' \subseteq Carried(c2s')
                      /\ Missed("client")' \subseteq
                            Carried(buffer'["client"]) \cup Front(c2s', replaying)
                      /\ \A n \in DOMAIN c2s' :
                            n > replaying /\ c2s'[n].kind = "request"
                               /\ c2s'[n].id \in Missed("client")' =>
                              /\ c2s'[n].id > max_received["server"]
                              /\ \A k \in DOMAIN c2s' :
                                    k < n /\ c2s'[k].kind = "request" => c2s'[k].id < c2s'[n].id
                              /\ \A k \in DOMAIN s2c : s2c[k].ack_id < c2s'[n].id
                              /\ \A k \in DOMAIN buffer["server"] :
                                    buffer["server"][k].ack_id < c2s'[n].id
    BY <1>1 DEF ClientConnected
  <2>1. /\ Missed("client") \subseteq Carried(c2s)
        /\ Missed("client") \subseteq Carried(buffer["client"]) \cup Front(c2s, replaying)
        /\ \A n \in DOMAIN c2s :
              n > replaying /\ c2s[n].kind = "request" /\ c2s[n].id \in Missed("client") =>
                 /\ c2s[n].id > max_received["server"]
                 /\ \A k \in DOMAIN c2s :
                       k < n /\ c2s[k].kind = "request" => c2s[k].id < c2s[n].id
                 /\ \A k \in DOMAIN s2c : s2c[k].ack_id < c2s[n].id
                 /\ \A k \in DOMAIN buffer["server"] : buffer["server"][k].ack_id < c2s[n].id
    BY DEF Synced, ClientConnected
  <2>2. Appended(c2s, m, c2s') /\ replaying \in Nat
    BY <1>1 DEF Linked, TypeOK, CountersTyped
  <2>3. m.id \in Carried(c2s')
    BY <1>1, <2>2 DEF Appended, Data
  <2>4. \A n \in DOMAIN c2s : c2s[n].id \in ClientIds
    BY IdTypes
  <2>5. ASSUME NEW n \in DOMAIN c2s', n > replaying, c2s'[n].kind = "request",
               c2s'[n].id \in Missed("client")'
        PROVE  /\ c2s'[n].id > max_received["server"]
               /\ \A k \in DOMAIN c2s' :
                     k < n /\ c2s'[k].kind = "request" => c2s'[k].id < c2s'[n].id
               /\ \A k \in DOMAIN s2c : s2c[k].ack_id < c2s'[n].id
               /\ \A k \in DOMAIN buffer["server"] : buffer["server"][k].ack_id < c2s'[n].id
    <3>1. CASE n \in DOMAIN c2s
      <4>1. c2s'[n] = c2s[n] /\ c2s[n].id \in ClientIds
        BY <1>3, <2>4, <3>1
      <4>2. c2s[n].id # m.id /\ m.id \in Nat
        BY <1>1, <4>1 DEF Envelope
      <4>3. c2s[n].id \in Missed("client")
        BY <1>2, <2>5, <4>1, <4>2
      <4>4. \A k \in DOMAIN c2s' : k < n => k \in DOMAIN c2s /\ c2s'[k] = c2s[k]
        BY <1>3, <2>2, <3>1 DEF Appended
      <4>5. QED
        BY <2>1, <2>5, <3>1, <4>1, <4>3, <4>4
    <3>2. CASE n \notin DOMAIN c2s
      <4>1. c2s'[n] = m /\ n = Len(c2s')
        BY <2>2, <3>2 DEF Appended
      <4>2. \A k \in DOMAIN c2s' : k < n => k \in DOMAIN c2s /\ c2s'[k] = c2s[k]
        BY <1>3, <2>2, <4>1 DEF Appended
      <4>3. /\ max_received["server"] \in ClientIds
            /\ \A k \in DOMAIN s2c : s2c[k].ack_id \in ClientIds \cup {NoId}
            /\ \A k \in DOMAIN buffer["server"] :
                  buffer["server"][k].ack_id \in ClientIds \cup {NoId}
            /\ ClientIds \subseteq Nat /\ m.id \in Nat
        BY IdTypes DEF Envelope
      <4>4. QED
        BY <1>1, <2>4, <4>1, <4>2, <4>3
    <3>3. QED
      BY <3>1, <3>2
  <2>6. QED
    BY <1>2, <1>3, <1>4, <2>1, <2>2, <2>3, <2>5
<1>15. ASSUME NEW last, last \in 0 .. Len(c2s), ClientBehind(last) PROVE ClientBehind(last)'
  <2>1. /\ max_received["server"] \in ClientIds
        /\ \A k \in DOMAIN s2c : s2c[k].ack_id \in ClientIds \cup {NoId}
        /\ \A k \in DOMAIN outgoing : outgoing[k].ack_id \in ClientIds \cup {NoId}
        /\ \A k \in DOMAIN buffer["server"] :
              buffer["server"][k].ack_id \in ClientIds \cup {NoId}
        /\ \A n \in DOMAIN c2s : c2s[n].id \in ClientIds
        /\ ClientIds \subseteq Nat
    BY IdTypes
  <2>2. ASSUME NEW n \in DOMAIN c2s', n <= last, c2s'[n].kind = "request",
               NEW i \in Missed("client")', i <= c2s'[n].id
        PROVE  i \in Front(c2s', n)
    <3>1. n \in DOMAIN c2s /\ c2s'[n] = c2s[n] /\ n \in Nat
      BY <1>3, <1>15, <2>2
    <3>2. i # m.id
      <4>1. c2s[n].id \in ClientIds
        BY <2>1, <3>1
      <4>2. c2s[n].id < m.id /\ c2s[n].id \in Nat /\ m.id \in Nat
        BY <1>1, <2>1, <4>1 DEF Envelope
      <4>3. i <= c2s[n].id
        BY <2>2, <3>1
      <4>4. QED
        BY <4>2, <4>3
    <3>3. i \in Front(c2s, n)
      BY <1>2, <1>15, <2>2, <3>1, <3>2 DEF ClientBehind
    <3>4. QED
      BY <1>3, <3>1, <3>3
  <2>3. /\ After(max_received["server"])
        /\ \A k \in DOMAIN s2c : After(s2c[k].ack_id)
        /\ \A k \in DOMAIN outgoing : After(outgoing[k].ack_id)
        /\ \A k \in DOMAIN buffer["server"] : After(buffer["server"][k].ack_id)
    <3> HIDE DEF After
    <3>1. QED
      BY <1>10, <1>15, <2>1 DEF ClientBehind
  <2>4. QED
    BY <1>1, <2>2, <2>3 DEF ClientBehind, Safe
<1>16. ClientDown'
  <2> SUFFICES ASSUME phase = "down"
               PROVE  /\ Missed("client")' \subseteq Carried(buffer'["client"])
                      /\ ClientBehind(Len(c2s))'
    BY <1>1 DEF ClientDown
  <2>1. Missed("client") \subseteq Carried(buffer["client"]) /\ ClientBehind(Len(c2s))
    BY DEF Synced, ClientDown
  <2>2. c2s' = c2s
    BY <1>1 DEF Linked
  <2>3. ClientBehind(Len(c2s))'
    BY <1>3, <1>15, <2>1, <2>2
  <2>4. QED
    BY <1>2, <1>4, <2>1, <2>2, <2>3
<1>17. ClientAttempting'
  <2> SUFFICES ASSUME Attempting
               PROVE  /\ Missed("client")' \subseteq Carried(buffer'["client"])
                      /\ \A p : Pending(p) => ClientBehind(p)'
                      /\ \A q : Answered(q) =>
                            \A k \in DOMAIN s2c : k <= q => After(s2c[k].ack_id)
    BY <1>1, <1>5, <1>6, <1>8 DEF ClientAttempting, Safe
  <2> HIDE DEF After
  <2>1. /\ Missed("client") \subseteq Carried(buffer["client"])
        /\ \A p : Pending(p) => ClientBehind(p)
        /\ \A q : Answered(q) => \A k \in DOMAIN s2c : k <= q => Safe("client", s2c[k].ack_id)
    BY DEF Synced, ClientAttempting
  <2>2. \A p : Pending(p) => p \in 0 .. Len(c2s)
    BY <1>3 DEF Pending
  <2>3. \A p : Pending(p) => ClientBehind(p)'
    BY <1>15, <2>1, <2>2
  <2>4. \A k \in DOMAIN s2c : s2c[k].ack_id \in ClientIds \cup {NoId}
    BY IdTypes
  <2>5. QED
    BY <1>2, <1>4, <1>10, <2>1, <2>3, <2>4
<1>18. QED
  BY <1>7, <1>11, <1>12, <1>13, <1>14, <1>16, <1>17 DEF Synced

(* The server's new message is behind everything, with the newest id. *)
LEMMA EmittedSynced ==
    ASSUME TypeOK, Synced, NEW m \in Answers', Emits(m), \A i \in Seen : i < m.id,
           AckSound(m.ack_id)
    PROVE  Synced'
<1>1. /\ sent' = [sent EXCEPT !["server"] = @ \cup {m.id}]
      /\ m.kind \in {"response", "notification"}
      /\ UNCHANGED <<max_received, c2s, phase, handshake, flush, handled, replaying>>
      /\ m \in Envelope /\ m.id \in Nat
      /\ m.responding_to \in sent["client"] \cup {NoId}
  BY DEF Emits, Answers, FromServer, Envelope, TypeOK, IdsTyped, End
<1>2. /\ Missed("client")' = Missed("client")
      /\ Missed("server")' \subseteq Missed("server") \cup {m.id}
      /\ Missed("client") \subseteq Nat /\ Missed("server") \subseteq Nat
  BY <1>1 DEF Missed, TypeOK, IdsTyped, End
<1>3. /\ buffer["server"] \in Seq(Envelope) /\ s2c \in Seq(Envelope)
      /\ outgoing \in Seq(Envelope) /\ DOMAIN buffer = End
  BY MessageSets, SeqMonotonic DEF TypeOK, QueuesTyped
<1>4. /\ buffer'["client"] = buffer["client"]
      /\ \/ Appended(buffer["server"], m, buffer'["server"])
         \/ buffer'["server"] = buffer["server"] /\ m.id \in Carried(buffer["server"])
  <2>1. /\ buffer'["client"] = buffer["client"]
        /\ \/ buffer'["server"] = Append(buffer["server"], m)
           \/ buffer'["server"] = buffer["server"] /\ m.id \in Carried(buffer["server"])
    BY <1>3 DEF Emits, End
  <2>2. LET u == Append(buffer["server"], m) IN Appended(buffer["server"], m, u)
    BY <1>1, <1>3, OneBehind
  <2>3. QED
    BY <2>1, <2>2
<1>5. IF Linked THEN Appended(s2c, m, s2c') /\ outgoing' = outgoing
                ELSE s2c' = s2c /\ Appended(outgoing, m, outgoing')
  <2>1. TransmitServer(<<m>>)
    BY DEF Emits
  <2>2. CASE Linked
    BY <1>1, <1>3, <2>1, <2>2, OneBehind DEF TransmitServer
  <2>3. CASE ~Linked
    BY <1>1, <1>3, <2>1, <2>3, OneBehind DEF TransmitServer
  <2>4. QED
    BY <2>2, <2>3
<1>6. /\ \A n \in DOMAIN s2c : n \in DOMAIN s2c' /\ s2c'[n] = s2c[n] /\ n <= Len(s2c)
      /\ \A n \in DOMAIN s2c' :
            n \in DOMAIN s2c \/ (Linked /\ n > Len(s2c) /\ n = Len(s2c') /\ s2c'[n] = m)
      /\ \A n \in Nat : Front(s2c, n) \subseteq Front(s2c', n)
      /\ Carried(s2c) \subseteq Carried(s2c')
      /\ DOMAIN s2c \subseteq Nat
      /\ \A n \in DOMAIN outgoing' : \/ n \in DOMAIN outgoing /\ outgoing'[n] = outgoing[n]
                                     \/ outgoing'[n] = m
  BY <1>5, MessageTypes DEF Appended
<1>7. /\ m.id \in Carried(buffer'["server"])
      /\ Carried(buffer["server"]) \subseteq Carried(buffer'["server"])
      /\ \A n \in DOMAIN buffer'["server"] :
            \/ n \in DOMAIN buffer["server"] /\ buffer'["server"][n] = buffer["server"][n]
            \/ buffer'["server"][n] = m
  BY <1>1, <1>4 DEF Appended, Data
<1>8. Steady' = Steady /\ Attempting' = Attempting
  BY <1>1 DEF Steady, Attempting
<1>9. \A p : Pending(p)' <=> Pending(p)
  BY <1>1 DEF Pending
<1>10. ASSUME Attempting PROVE Linked /\ \A q : Answered(q)' <=> Answered(q)
  <2>1. Linked
    BY <1>10 DEF Attempting, Linked
  <2>2. flush \notin sent["client"] /\ flush # NoId
    BY <1>10 DEF TypeOK, IdsTyped, Synced, OneFlush, NoId
  <2>3. m.responding_to # flush
    BY <1>1, <2>2
  <2>4. QED
    BY <1>1, <1>6, <2>1, <2>3 DEF Answered
<1>11. OneFlush' /\ HandshakeFirst'
  <2>1. OneFlush /\ HandshakeFirst
    BY DEF Synced
  <2>2. replaying <= Len(c2s')
    BY <1>1, <2>1 DEF OneFlush
  <2>3. \A r : Greeted(r) => Greeted(r)'
    BY <1>1, <1>6 DEF Greeted
  <2>4. \A q : Answered(q) => s2c'[q] = s2c[q]
    BY <1>6 DEF Answered
  <2>5. QED
    BY <1>1, <1>9, <1>10, <2>1, <2>2, <2>3, <2>4, FlushKept
<1> DEFINE After(A) == \A i \in Missed("server")' : i > A
<1>12. \A A \in Seen : Safe("server", A) => After(A)
  BY <1>1, <1>2 DEF Safe
<1>13. /\ \A n \in DOMAIN buffer["client"] : buffer["client"][n].ack_id \in Seen
       /\ \A n \in DOMAIN c2s : c2s[n].ack_id \in Seen
       /\ \A n \in DOMAIN s2c : s2c[n].id \in Seen /\ s2c[n].id \in Nat
       /\ max_received["client"] \in Seen
  BY IdTypes DEF Seen
<1>14. ASSUME Linked, Missed("server") \subseteq Carried(s2c)
       PROVE  /\ Missed("server")' \subseteq Carried(s2c')
              /\ Missed("server")' \subseteq Front(s2c', Len(s2c'))
  <2>1. m.id \in Carried(s2c') /\ m.id \in Front(s2c', Len(s2c'))
    BY <1>1, <1>5, <1>14 DEF Appended, Data
  <2>2. Carried(s2c') = Front(s2c', Len(s2c'))
    BY DEF Carried
  <2>3. QED
    BY <1>2, <1>6, <1>14, <2>1, <2>2
<1>15. ASSUME NEW n \in DOMAIN s2c,
              \A i \in Missed("server") : i <= s2c[n].id => i \in Front(s2c, n)
       PROVE  \A i \in Missed("server")' : i <= s2c[n].id => i \in Front(s2c', n)
  <2>1. s2c[n].id < m.id /\ s2c[n].id \in Nat
    BY <1>13
  <2>2. QED
    BY <1>1, <1>2, <1>6, <1>15, <2>1
<1>16. ServerSteady'
  <2> SUFFICES ASSUME Steady
               PROVE  /\ Missed("server")' \subseteq Carried(buffer'["server"])
                      /\ After(max_received["client"])
                      /\ \A n \in DOMAIN buffer["client"] : After(buffer["client"][n].ack_id)
                      /\ \A n \in DOMAIN c2s : After(c2s[n].ack_id)
                      /\ \A n \in DOMAIN s2c' : \A i \in Missed("server")' :
                            i <= s2c'[n].id => i \in Front(s2c', n)
                      /\ phase = "connected" => Missed("server")' \subseteq Carried(s2c')
    BY <1>1, <1>4, <1>8 DEF ServerSteady, Safe
  <2> HIDE DEF After
  <2>1. /\ Missed("server") \subseteq Carried(buffer["server"])
        /\ Safe("server", max_received["client"])
        /\ \A n \in DOMAIN buffer["client"] : Safe("server", buffer["client"][n].ack_id)
        /\ \A n \in DOMAIN c2s : Safe("server", c2s[n].ack_id)
        /\ \A n \in DOMAIN s2c : \A i \in Missed("server") :
              i <= s2c[n].id => i \in Front(s2c, n)
        /\ phase = "connected" => Missed("server") \subseteq Carried(s2c)
    BY DEF Synced, ServerSteady
  <2>2. Linked <=> phase = "connected"
    BY DEF Steady, Linked
  <2>3. ASSUME NEW n \in DOMAIN s2c'
        PROVE  \A i \in Missed("server")' : i <= s2c'[n].id => i \in Front(s2c', n)
    <3>1. CASE n \in DOMAIN s2c
      BY <1>6, <1>15, <2>1, <3>1
    <3>2. CASE n \notin DOMAIN s2c
      BY <1>6, <1>14, <2>1, <2>2, <3>2
    <3>3. QED
      BY <3>1, <3>2
  <2>4. QED
    BY <1>2, <1>7, <1>12, <1>13, <1>14, <2>1, <2>2, <2>3
<1>17. ServerPending'
  <2> SUFFICES ASSUME Attempting, NEW p, Pending(p)
               PROVE  /\ Missed("server")' \subseteq Carried(buffer'["server"])
                      /\ \A n \in DOMAIN c2s : n <= p => After(c2s[n].ack_id)
    BY <1>1, <1>8, <1>9 DEF ServerPending, Safe
  <2> HIDE DEF After
  <2>1. /\ Missed("server") \subseteq Carried(buffer["server"])
        /\ \A n \in DOMAIN c2s : n <= p => Safe("server", c2s[n].ack_id)
    BY DEF Synced, ServerPending
  <2>2. QED
    BY <1>2, <1>7, <1>12, <1>13, <2>1
<1>18. ServerAnswered'
  <2> SUFFICES ASSUME Attempting, NEW q, Answered(q)
               PROVE  /\ Missed("server")' \subseteq Carried(s2c')
                      /\ \A i \in Missed("server")' :
                            IF i < s2c'[q].id THEN i \in Front(s2c', q)
                                              ELSE i \in Carried(buffer'["server"])
                      /\ \A n \in DOMAIN s2c' :
                            IF n < q THEN s2c'[n].id < s2c'[q].id
                            ELSE \A i \in Missed("server")' :
                                    i <= s2c'[n].id => i \in Front(s2c', n)
                      /\ max_received["client"] < s2c'[q].id
                      /\ \A n \in DOMAIN buffer["client"] :
                            buffer["client"][n].ack_id < s2c'[q].id
                      /\ \A n \in DOMAIN c2s : c2s[n].ack_id < s2c'[q].id
    BY <1>1, <1>4, <1>8, <1>10 DEF ServerAnswered
  <2>1. /\ Missed("server") \subseteq Carried(s2c)
        /\ \A i \in Missed("server") :
              IF i < s2c[q].id THEN i \in Front(s2c, q) ELSE i \in Carried(buffer["server"])
        /\ \A n \in DOMAIN s2c : IF n < q THEN s2c[n].id < s2c[q].id
                                ELSE \A i \in Missed("server") :
                                        i <= s2c[n].id => i \in Front(s2c, n)
        /\ max_received["client"] < s2c[q].id
        /\ \A n \in DOMAIN buffer["client"] : buffer["client"][n].ack_id < s2c[q].id
        /\ \A n \in DOMAIN c2s : c2s[n].ack_id < s2c[q].id
    BY DEF Synced, ServerAnswered
  <2>2. /\ q \in DOMAIN s2c /\ s2c'[q] = s2c[q] /\ q \in Nat /\ q <= Len(s2c) /\ Linked
        /\ s2c[q].id < m.id /\ s2c[q].id \in Nat
    BY <1>6, <1>10, <1>13 DEF Answered
  <2>3. \A i \in Missed("server")' :
            IF i < s2c[q].id THEN i \in Front(s2c', q) ELSE i \in Carried(buffer'["server"])
    BY <1>1, <1>2, <1>6, <1>7, <2>1, <2>2
  <2>4. ASSUME NEW n \in DOMAIN s2c'
        PROVE  IF n < q THEN s2c'[n].id < s2c'[q].id
               ELSE \A i \in Missed("server")' : i <= s2c'[n].id => i \in Front(s2c', n)
    <3>1. CASE n \in DOMAIN s2c
      BY <1>6, <1>15, <2>1, <2>2, <3>1
    <3>2. CASE n \notin DOMAIN s2c
      <4>1. n = Len(s2c') /\ n > q
        BY <1>6, <2>2, <3>2, MessageTypes
      <4>2. ~(n < q)
        BY <2>2, <4>1, <1>5 DEF Appended
      <4>3. \A i \in Missed("server")' : i \in Front(s2c', n)
        BY <1>14, <2>1, <2>2, <4>1
      <4>4. QED
        BY <4>2, <4>3
    <3>3. QED
      BY <3>1, <3>2
  <2>5. QED
    BY <1>14, <2>1, <2>2, <2>3, <2>4
<1>19. ClientConnected'
  <2> SUFFICES ASSUME phase = "connected", NEW n \in DOMAIN c2s,
                      n > replaying, c2s[n].kind = "request", c2s[n].id \in Missed("client")
               PROVE  /\ \A k \in DOMAIN s2c' : s2c'[k].ack_id < c2s[n].id
                      /\ \A k \in DOMAIN buffer'["server"] :
                            buffer'["server"][k].ack_id < c2s[n].id
    BY <1>1, <1>2, <1>4 DEF Synced, ClientConnected
  <2>1. /\ \A k \in DOMAIN s2c : s2c[k].ack_id < c2s[n].id
        /\ \A k \in DOMAIN buffer["server"] : buffer["server"][k].ack_id < c2s[n].id
    BY DEF Synced, ClientConnected
  <2>2. m.ack_id < c2s[n].id
    BY DEF AckSound
  <2>3. QED
    BY <1>6, <1>7, <2>1, <2>2
<1>20. ASSUME NEW last, ClientBehind(last), Safe("client", m.ack_id)
       PROVE  ClientBehind(last)'
  <2>1. Safe("client", max_received["server"]) /\ Safe("client", m.ack_id)
    BY <1>20 DEF ClientBehind
  <2>2. /\ \A k \in DOMAIN s2c' : Safe("client", s2c'[k].ack_id)
        /\ \A k \in DOMAIN outgoing' : Safe("client", outgoing'[k].ack_id)
        /\ \A k \in DOMAIN buffer'["server"] : Safe("client", buffer'["server"][k].ack_id)
    BY <1>6, <1>7, <1>20, <2>1 DEF ClientBehind
  <2>3. \A n \in DOMAIN c2s : n <= last /\ c2s[n].kind = "request" =>
           \A i \in Missed("client") : i <= c2s[n].id => i \in Front(c2s, n)
    BY <1>20 DEF ClientBehind
  <2>4. QED
    BY <1>1, <1>2, <2>1, <2>2, <2>3 DEF ClientBehind, Safe
<1>21. ClientDown'
  <2> SUFFICES ASSUME phase = "down"
               PROVE  /\ Missed("client") \subseteq Carried(buffer["client"])
                      /\ ClientBehind(Len(c2s))'
    BY <1>1, <1>2, <1>4 DEF ClientDown
  <2>1. Missed("client") \subseteq Carried(buffer["client"]) /\ ClientBehind(Len(c2s))
        /\ Safe("client", m.ack_id)
    BY DEF Synced, ClientDown, AckSound
  <2>2. \A last : last = Len(c2s) => ClientBehind(last)'
    BY <1>20, <2>1
  <2>3. Len(c2s') = Len(c2s)
    BY <1>1
  <2>4. QED
    BY <2>1, <2>2, <2>3
<1>22. ClientAttempting'
  <2> SUFFICES ASSUME Attempting
               PROVE  /\ Missed("client") \subseteq Carried(buffer["client"])
                      /\ \A p : Pending(p) => ClientBehind(p)'
                      /\ \A q : Answered(q) =>
                            \A k \in DOMAIN s2c' : k <= q => Safe("client", s2c'[k].ack_id)
    BY <1>1, <1>2, <1>4, <1>8, <1>9, <1>10 DEF ClientAttempting, Safe
  <2>1. /\ Missed("client") \subseteq Carried(buffer["client"])
        /\ \A p : Pending(p) => ClientBehind(p)
        /\ \A q : Answered(q) => \A k \in DOMAIN s2c : k <= q => Safe("client", s2c[k].ack_id)
        /\ \A p : Pending(p) => Safe("client", m.ack_id)
    BY DEF Synced, ClientAttempting, AckSound
  <2>2. ASSUME NEW q, Answered(q), NEW k \in DOMAIN s2c', k <= q
        PROVE  k \in DOMAIN s2c /\ s2c'[k] = s2c[k]
    <3>1. q \in Nat /\ q <= Len(s2c) /\ Len(s2c) \in Nat
      BY <1>6, <2>2, MessageTypes DEF Answered
    <3>2. k \in DOMAIN s2c
      <4> SUFFICES ASSUME k \notin DOMAIN s2c PROVE FALSE
        OBVIOUS
      <4>1. Appended(s2c, m, s2c') /\ k > Len(s2c) /\ k = Len(s2c')
        BY <1>5, <1>6
      <4>2. QED
        BY <2>2, <3>1, <4>1 DEF Appended
    <3>3. QED
      BY <1>6, <3>2
  <2>3. QED
    BY <1>20, <2>1, <2>2
<1>23. QED
  BY <1>11, <1>16, <1>17, <1>18, <1>19, <1>21, <1>22 DEF Synced

(* What neither sends nor receives changes nothing. *)
LEMMA SameSynced ==
    ASSUME Synced,
           UNCHANGED <<c2s, s2c, outgoing, buffer, max_received, phase, handshake, flush,
                       replaying, sent, handled>>
    PROVE  Synced'
<1>1. /\ Steady' = Steady /\ Attempting' = Attempting
      /\ \A p : Pending(p)' = Pending(p)
      /\ \A q : Answered(q)' = Answered(q) /\ Greeted(q)' = Greeted(q)
      /\ Missed("client")' = Missed("client") /\ Missed("server")' = Missed("server")
  BY DEF Steady, Attempting, Pending, Answered, Greeted, Missed
<1>2. \A A : Safe("client", A)' = Safe("client", A) /\ Safe("server", A)' = Safe("server", A)
  BY <1>1 DEF Safe
<1>3. OneFlush' /\ HandshakeFirst'
  <2>1. OneFlush /\ HandshakeFirst /\ replaying <= Len(c2s')
    BY DEF Synced, OneFlush
  <2>2. QED
    BY <1>1, <2>1, FlushKept DEF Pending
<1>4. ServerSteady'
  BY <1>1, <1>2 DEF Synced, ServerSteady, Safe
<1>5. ServerPending'
  BY <1>1, <1>2 DEF Synced, ServerPending, Safe
<1>6. ServerAnswered'
  BY <1>1 DEF Synced, ServerAnswered
<1>7. ClientConnected'
  BY <1>1 DEF Synced, ClientConnected
<1>8. ClientDown' /\ ClientAttempting'
  BY <1>1 DEF Synced, ClientDown, ClientAttempting, ClientBehind, Safe
<1>9. QED
  BY <1>3, <1>4, <1>5, <1>6, <1>7, <1>8 DEF Synced

-----------------------------------------------------------------------------
(* Nothing is lost: the server reads.                                      *)

(* A queue without its first message. *)
Advanced(q, u) ==
    /\ Len(q) \in Nat \ {0} /\ Len(u) = Len(q) - 1
    /\ DOMAIN q = 1 .. Len(q) /\ DOMAIN u = 1 .. Len(u) /\ 1 \in DOMAIN q
    /\ \A n \in DOMAIN u : n + 1 \in DOMAIN q /\ u[n] = q[n + 1]
    /\ \A n \in DOMAIN q : n = 1 \/ (n - 1 \in DOMAIN u /\ u[n - 1] = q[n])
    /\ \A n \in DOMAIN q : \A i \in Front(q, n) :
          i \in Front(u, n - 1) \/ (i = q[1].id /\ q[1].kind \in Data)

LEMMA TailAdvanced ==
    ASSUME NEW S \in SUBSET Envelope, NEW q \in Seq(S), q # <<>>
    PROVE  Advanced(q, Tail(q))
<1> DEFINE u == Tail(q)
<1>1. /\ Len(q) \in Nat \ {0} /\ Len(u) = Len(q) - 1
      /\ DOMAIN u = 1 .. Len(q) - 1 /\ DOMAIN q = 1 .. Len(q)
      /\ \A n \in 1 .. Len(q) - 1 : u[n] = q[n + 1]
  BY TailOfQueue
<1>2. \A n \in DOMAIN q : \A i \in Front(q, n) :
         i \in Front(u, n - 1) \/ (i = q[1].id /\ q[1].kind \in Data)
  BY <1>1, FrontOfTail
<1> HIDE DEF u
<1>3. \A n \in DOMAIN q : n = 1 \/ (n - 1 \in DOMAIN u /\ u[n - 1] = q[n])
  <2> TAKE n \in DOMAIN q
  <2>1. CASE n # 1
    <3> DEFINE k == n - 1
    <3>1. k \in 1 .. Len(q) - 1 /\ k + 1 = n
      BY <1>1, <2>1
    <3>2. u[k] = q[n]
      BY <1>1, <3>1
    <3>3. QED
      BY <1>1, <3>1, <3>2
  <2>2. QED
    BY <2>1
<1>4. Advanced(q, u)
  BY <1>1, <1>2, <1>3 DEF Advanced
<1>5. QED
  BY <1>4 DEF u

(* What the server answers is behind what it has sent on this connection:  *)
(* nothing, an acknowledgement, or the whole buffer with one behind it.    *)
ServerAnswers(m, buf, u, v) ==
    \/ u = v
    \/ /\ m.kind = "RemoteStarted"
       /\ \E a \in Envelope : /\ Appended(u, a, v) /\ a.kind = "Ack"
                              /\ a.responding_to = m.id /\ a.ack_id = NoId
    \/ /\ m.kind = "FlushBufferedMessages"
       /\ \E a \in Envelope : \E r \in Seq(Envelope) :
             /\ Extended(u, r, v) /\ Appended(buf, a, r) /\ a.kind = "Ack"
             /\ a.responding_to = m.id /\ a.ack_id = NoId
             /\ \A i \in ServerIds : i < a.id

LEMMA ServerReceiveQueues ==
    ASSUME TypeOK, ServerReceive
    PROVE  LET m == c2s[1]
               buf == buffer'["server"]
           IN  /\ m \in FromClient /\ Advanced(c2s, c2s')
               /\ m.id \in ClientIds /\ m.ack_id \in ServerIds \cup {NoId}
               /\ m.kind \in {"RemoteStarted", "Ack", "FlushBufferedMessages", "request"}
               /\ replaying' = IF replaying = 0 THEN 0 ELSE replaying - 1
               /\ UNCHANGED <<phase, handshake, flush, sent>>
               /\ buffer'["client"] = buffer["client"]
               /\ max_received'["client"] = max_received["client"]
               /\ handled'["client"] = handled["client"]
               /\ max_received'["server"] =
                     IF m.kind = "request" THEN m.id ELSE max_received["server"]
               /\ handled'["server"] =
                     handled["server"] \cup (IF m.kind = "request" THEN {m.id} ELSE {})
               /\ \A n \in DOMAIN buf :
                     buf[n] \in Answers /\ \E k \in DOMAIN buffer["server"] : buf[n] = buffer["server"][k]
               /\ \A i \in Carried(buffer["server"]) : i > m.ack_id => i \in Carried(buf)
               /\ IF Linked THEN ServerAnswers(m, buf, s2c, s2c') /\ outgoing' = outgoing
                            ELSE s2c' = s2c /\ ServerAnswers(m, buf, outgoing, outgoing')
               /\ m.kind \in {"RemoteStarted", "FlushBufferedMessages"} /\ Linked => s2c' # s2c
<1> DEFINE m == c2s[1]
           buf == Unacknowledged(buffer["server"], m.ack_id)
           a == Ack(next_message_id["server"], m)
<1>1. /\ c2s # <<>> /\ c2s' = Tail(c2s) /\ m \in FromClient
      /\ replaying' = IF replaying = 0 THEN 0 ELSE replaying - 1
      /\ UNCHANGED <<phase, handshake, flush, allocated, sent>>
  BY ServerReceiveCases
<1>2. ServerSkips(m) \/ ServerGreets(m, buf) \/ ServerFlushes(m, buf) \/ ServerServes(m, buf)
  BY ServerReceiveKinds
<1>3. Advanced(c2s, c2s')
  BY <1>1, TailAdvanced, MessageSets DEF TypeOK, QueuesTyped
<1>4. /\ m.id \in ClientIds /\ m.id \in Nat
      /\ m.ack_id \in ServerIds \cup {NoId} /\ m.ack_id \in Nat \cup {NoId}
      /\ m.kind \in {"RemoteStarted", "Ack", "FlushBufferedMessages", "request"}
  BY <1>1 DEF FromClient, Envelope
<1>5. /\ buffer["server"] \in Seq(Answers) /\ buffer["server"] \in Seq(Envelope)
      /\ s2c \in Seq(Envelope) /\ outgoing \in Seq(Envelope) /\ DOMAIN buffer = End
  BY MessageSets, SeqMonotonic DEF TypeOK, QueuesTyped
<1>6. /\ buf \in Seq(Answers) /\ buf \in Seq(Envelope)
      /\ \A n \in DOMAIN buf : buf[n] \in Answers
                               /\ \E k \in DOMAIN buffer["server"] : buf[n] = buffer["server"][k]
      /\ \A i \in Carried(buffer["server"]) : i > m.ack_id => i \in Carried(buf)
  <2>1. /\ buf \in Seq(Answers)
        /\ \A n \in DOMAIN buf : \E k \in DOMAIN buffer["server"] : buf[n] = buffer["server"][k]
        /\ \A i \in Carried(buffer["server"]) : i > m.ack_id => i \in Carried(buf)
    BY <1>4, <1>5, Popped, MessageSets
  <2>2. buf \in Seq(Envelope) /\ \A n \in DOMAIN buf : buf[n] \in Answers
    BY <2>1, SeqMonotonic, MessageSets, LenProperties, ElementOfSeq
  <2>3. QED
    BY <2>1, <2>2
<1>7. /\ max_received \in [End -> Nat] /\ handled \in [End -> SUBSET Nat]
  BY DEF TypeOK, IdsTyped
<1> SUFFICES
      /\ buffer'["client"] = buffer["client"]
      /\ max_received'["client"] = max_received["client"]
      /\ handled'["client"] = handled["client"]
      /\ max_received'["server"] = IF m.kind = "request" THEN m.id ELSE max_received["server"]
      /\ handled'["server"] =
            handled["server"] \cup (IF m.kind = "request" THEN {m.id} ELSE {})
      /\ buffer'["server"] = buf \/ (m.kind = "Ack" /\ buffer'["server"] = buffer["server"])
      /\ IF Linked THEN ServerAnswers(m, buffer'["server"], s2c, s2c') /\ outgoing' = outgoing
                   ELSE s2c' = s2c /\ ServerAnswers(m, buffer'["server"], outgoing, outgoing')
      /\ m.kind \in {"RemoteStarted", "FlushBufferedMessages"} /\ Linked => s2c' # s2c
  <2>1. \A n \in DOMAIN buffer["server"] : buffer["server"][n] \in Answers
    BY MessageTypes
  <2> HIDE DEF m, buf
  <2>2. QED
    BY <1>1, <1>3, <1>4, <1>6, <2>1 DEF m, buf
<1> HIDE DEF m, buf
<1>8. CASE ServerSkips(m)
  BY <1>8 DEF ServerSkips, ServerAnswers
<1>9. CASE ServerServes(m, buf)
  BY <1>5, <1>7, <1>9 DEF ServerServes, ServerAnswers, End
<1>10. ASSUME ReadByServer(buf)
       PROVE  /\ a \in Envelope /\ a.kind = "Ack" /\ a.responding_to = m.id
              /\ a.ack_id = NoId /\ \A i \in ServerIds : i < a.id
              /\ buffer'["client"] = buffer["client"] /\ buffer'["server"] = buf
              /\ UNCHANGED <<max_received, handled>>
  <2>1. /\ a \in FromServer' /\ a.kind = "Ack" /\ a.responding_to = m.id
        /\ a.ack_id = NoId /\ \A i \in ServerIds : i < a.id
    BY <1>1, <1>6, <1>10, ServerAcks
  <2>2. a \in Envelope
    BY <2>1 DEF FromServer
  <2> HIDE DEF a
  <2>3. QED
    BY <1>5, <1>10, <2>1, <2>2 DEF ReadByServer, End
<1>11. CASE ServerGreets(m, buf)
  <2>1. ReadByServer(buf) /\ TransmitServer(<<a>>) /\ m.kind = "RemoteStarted"
    BY <1>11 DEF ServerGreets
  <2>2. /\ a \in Envelope /\ a.kind = "Ack" /\ a.responding_to = m.id /\ a.ack_id = NoId
        /\ buffer'["client"] = buffer["client"] /\ buffer'["server"] = buf
        /\ UNCHANGED <<max_received, handled>>
    BY <1>10, <2>1
  <2> HIDE DEF a
  <2>3. IF Linked THEN Appended(s2c, a, s2c') /\ outgoing' = outgoing
                  ELSE s2c' = s2c /\ Appended(outgoing, a, outgoing')
    BY <1>5, <2>1, <2>2, OneBehind DEF TransmitServer
  <2>4. Linked => s2c' # s2c
    BY <2>3 DEF Appended
  <2>5. QED
    BY <2>1, <2>2, <2>3, <2>4 DEF ServerAnswers
<1>12. CASE ServerFlushes(m, buf)
  <2>1. ReadByServer(buf) /\ TransmitServer(Append(buf, a)) /\ m.kind = "FlushBufferedMessages"
    BY <1>12 DEF ServerFlushes
  <2>2. /\ a \in Envelope /\ a.kind = "Ack" /\ a.responding_to = m.id /\ a.ack_id = NoId
        /\ \A i \in ServerIds : i < a.id
        /\ buffer'["client"] = buffer["client"] /\ buffer'["server"] = buf
        /\ UNCHANGED <<max_received, handled>>
    BY <1>10, <2>1
  <2> HIDE DEF a
  <2> DEFINE r == Append(buf, a)
  <2>3. Appended(buf, a, r) /\ r \in Seq(Envelope)
    BY <1>6, <2>2, OneBehind, AppendProperties
  <2> HIDE DEF r
  <2>4. IF Linked THEN Extended(s2c, r, s2c') /\ outgoing' = outgoing
                  ELSE s2c' = s2c /\ Extended(outgoing, r, outgoing')
    BY <1>5, <2>1, <2>3, Behind DEF TransmitServer, r
  <2>5. Linked => s2c' # s2c
    BY <2>3, <2>4 DEF Extended, Appended
  <2>6. IF Linked THEN ServerAnswers(m, buf, s2c, s2c') /\ outgoing' = outgoing
                  ELSE s2c' = s2c /\ ServerAnswers(m, buf, outgoing, outgoing')
    BY <2>1, <2>2, <2>3, <2>4 DEF ServerAnswers
  <2>7. QED
    BY <2>1, <2>2, <2>5, <2>6
<1>13. QED
  BY <1>2, <1>8, <1>9, <1>11, <1>12

LEMMA ServerReceiveSynced == ASSUME TypeOK, Synced, ServerReceive PROVE Synced'
<1> DEFINE m == c2s[1]
           buf == buffer'["server"]
<1>1. /\ m \in FromClient /\ Advanced(c2s, c2s')
      /\ m.id \in ClientIds /\ m.ack_id \in ServerIds \cup {NoId}
      /\ m.kind \in {"RemoteStarted", "Ack", "FlushBufferedMessages", "request"}
      /\ replaying' = IF replaying = 0 THEN 0 ELSE replaying - 1
      /\ UNCHANGED <<phase, handshake, flush, sent>>
      /\ buffer'["client"] = buffer["client"]
      /\ max_received'["client"] = max_received["client"]
      /\ handled'["client"] = handled["client"]
      /\ max_received'["server"] =
            IF m.kind = "request" THEN m.id ELSE max_received["server"]
      /\ handled'["server"] =
            handled["server"] \cup (IF m.kind = "request" THEN {m.id} ELSE {})
      /\ \A n \in DOMAIN buf :
            buf[n] \in Answers /\ \E k \in DOMAIN buffer["server"] : buf[n] = buffer["server"][k]
      /\ \A i \in Carried(buffer["server"]) : i > m.ack_id => i \in Carried(buf)
      /\ IF Linked THEN ServerAnswers(m, buf, s2c, s2c') /\ outgoing' = outgoing
                   ELSE s2c' = s2c /\ ServerAnswers(m, buf, outgoing, outgoing')
      /\ m.kind \in {"RemoteStarted", "FlushBufferedMessages"} /\ Linked => s2c' # s2c
  BY ServerReceiveQueues
<1> HIDE DEF m, buf
<1>2. /\ Missed("server")' = Missed("server")
      /\ Missed("client")' \subseteq Missed("client")
      /\ m.kind = "request" => m.id \notin Missed("client")'
      /\ Missed("client") \subseteq ClientIds /\ Missed("server") \subseteq ServerIds
      /\ ClientIds \subseteq Nat /\ ServerIds \subseteq Nat
  BY <1>1, IdTypes DEF Missed
<1>3. /\ 1 \in DOMAIN c2s /\ c2s[1] = m /\ Len(c2s') = Len(c2s) - 1 /\ Len(c2s) \in Nat \ {0}
      /\ DOMAIN c2s \subseteq Nat \ {0} /\ DOMAIN c2s' \subseteq Nat \ {0}
      /\ \A n \in DOMAIN c2s' : n + 1 \in DOMAIN c2s /\ c2s'[n] = c2s[n + 1]
      /\ \A n \in DOMAIN c2s : n = 1 \/ (n - 1 \in DOMAIN c2s' /\ c2s'[n - 1] = c2s[n])
      /\ \A n \in DOMAIN c2s : n <= Len(c2s)
  BY <1>1 DEF Advanced, m
<1>4. /\ \A n \in DOMAIN c2s : \A i \in Front(c2s, n) :
            i \in Front(c2s', n - 1) \/ (i = m.id /\ m.kind = "request")
      /\ Front(c2s, 0) = {} /\ Front(c2s', 0) = {}
  <2>1. /\ \A n \in DOMAIN c2s : \A i \in Front(c2s, n) :
              i \in Front(c2s', n - 1) \/ (i = m.id /\ m.kind \in Data)
    BY <1>1 DEF Advanced, m
  <2>2. m.kind \in Data => m.kind = "request"
    BY <1>1 DEF Data
  <2>3. Front(c2s, 0) = {} /\ Front(c2s', 0) = {}
    BY <1>3 DEF Front
  <2>4. QED
    BY <2>1, <2>2, <2>3
<1>5. /\ Steady' = Steady /\ Attempting' = Attempting /\ phase # "abandoned"
      /\ Attempting => Linked /\ flush # NoId
      /\ Steady => (Linked <=> phase = "connected")
      /\ Steady \/ Attempting
  BY <1>1 DEF Steady, Attempting, Linked, Synced, OneFlush, NoId, TypeOK, CountersTyped
<1>6. /\ \A p : Pending(p)' => p + 1 \in Nat /\ Pending(p + 1) /\ c2s'[p] = c2s[p + 1]
                               /\ p \in Nat \ {0} /\ p <= Len(c2s')
      /\ \A p : Pending(p) => p \in Nat /\ (p = 1 \/ Pending(p - 1)')
      /\ Pending(1) <=> m.kind = "FlushBufferedMessages"
  BY <1>3 DEF Pending
<1> DEFINE After(A) == \A i \in Missed("client")' : i > A
           SafeStill(A) == \A i \in Missed("server")' : i > A
<1>7. /\ \A A : Safe("client", A) => After(A)
      /\ \A A : Safe("server", A) => SafeStill(A)
  BY <1>2 DEF Safe
<1>8. /\ \A n \in DOMAIN s2c : n \in DOMAIN s2c' /\ s2c'[n] = s2c[n] /\ n <= Len(s2c)
      /\ \A n \in Nat : Front(s2c, n) \subseteq Front(s2c', n)
      /\ Carried(s2c) \subseteq Carried(s2c')
      /\ DOMAIN s2c \subseteq Nat \ {0} /\ DOMAIN s2c' \subseteq Nat \ {0} /\ Len(s2c) \in Nat
  <2>1. /\ DOMAIN s2c = 1 .. Len(s2c) /\ Len(s2c) \in Nat
    BY MessageTypes
  <2>2. s2c' = s2c \/ (\E r : Extended(s2c, r, s2c')) \/ (\E a : Appended(s2c, a, s2c'))
    BY <1>1 DEF ServerAnswers
  <2>3. CASE s2c' = s2c
    BY <2>1, <2>3
  <2>4. CASE \E r : Extended(s2c, r, s2c')
    <3>1. PICK r : Extended(s2c, r, s2c')
      BY <2>4
    <3>2. QED
      BY <2>1, <3>1 DEF Extended
  <2>5. CASE \E a : Appended(s2c, a, s2c')
    <3>1. PICK a : Appended(s2c, a, s2c')
      BY <2>5
    <3>2. QED
      BY <2>1, <3>1 DEF Appended
  <2>6. QED
    BY <2>2, <2>3, <2>4, <2>5

<1>9. ASSUME NEW last \in Nat \ {0}, ClientBehind(last)
      PROVE  /\ After(max_received'["server"])
             /\ \A n \in DOMAIN c2s' : n <= last - 1 /\ c2s'[n].kind = "request" =>
                   \A i \in Missed("client")' : i <= c2s'[n].id => i \in Front(c2s', n)
             /\ \A k \in DOMAIN buf : After(buf[k].ack_id)
             /\ \A k \in DOMAIN s2c : After(s2c[k].ack_id)
             /\ \A k \in DOMAIN outgoing : After(outgoing[k].ack_id)
  <2>1. /\ Safe("client", max_received["server"])
        /\ \A k \in DOMAIN s2c : Safe("client", s2c[k].ack_id)
        /\ \A k \in DOMAIN outgoing : Safe("client", outgoing[k].ack_id)
        /\ \A k \in DOMAIN buffer["server"] : Safe("client", buffer["server"][k].ack_id)
        /\ \A n \in DOMAIN c2s : n <= last /\ c2s[n].kind = "request" =>
              \A i \in Missed("client") : i <= c2s[n].id => i \in Front(c2s, n)
    BY <1>9 DEF ClientBehind
  <2>2. After(max_received'["server"])
    <3>1. CASE m.kind = "request"
      <4>1. ASSUME NEW i \in Missed("client")' PROVE i > m.id
        <5>1. i \in Nat /\ m.id \in Nat
          BY <1>1, <1>2
        <5> SUFFICES ASSUME i <= m.id PROVE FALSE
          BY <5>1
        <5>2. i \in Front(c2s, 1) /\ 1 - 1 = 0
          BY <1>2, <1>3, <2>1, <3>1
        <5>3. QED
          BY <1>2, <1>3, <1>4, <3>1, <5>2
      <4>2. max_received'["server"] = m.id
        BY <1>1, <3>1
      <4>3. QED
        BY <4>1, <4>2
    <3>2. CASE m.kind # "request"
      <4>1. max_received'["server"] = max_received["server"]
        BY <1>1, <3>2
      <4>2. QED
        BY <1>7, <2>1, <4>1
    <3>3. QED
      BY <3>1, <3>2
  <2>3. ASSUME NEW n \in DOMAIN c2s', n <= last - 1, c2s'[n].kind = "request",
               NEW i \in Missed("client")', i <= c2s'[n].id
        PROVE  i \in Front(c2s', n)
    <3>1. n \in Nat /\ n + 1 \in DOMAIN c2s /\ c2s'[n] = c2s[n + 1] /\ n + 1 <= last
          /\ (n + 1) - 1 = n
      BY <1>3, <2>3
    <3>2. i \in Front(c2s, n + 1)
      BY <1>2, <2>1, <2>3, <3>1
    <3>3. i \in Front(c2s', (n + 1) - 1) \/ (i = m.id /\ m.kind = "request")
      BY <1>4, <3>1, <3>2
    <3>4. QED
      BY <1>2, <3>1, <3>3
  <2>4. \A k \in DOMAIN buf : After(buf[k].ack_id)
    <3> TAKE k \in DOMAIN buf
    <3>1. PICK l \in DOMAIN buffer["server"] : buf[k] = buffer["server"][l]
      BY <1>1
    <3>2. Safe("client", buf[k].ack_id)
      BY <2>1, <3>1
    <3>3. QED
      BY <1>7, <3>2
  <2>5. /\ \A k \in DOMAIN s2c : After(s2c[k].ack_id)
        /\ \A k \in DOMAIN outgoing : After(outgoing[k].ack_id)
    BY <1>7, <2>1
  <2>6. \A n \in DOMAIN c2s' : n <= last - 1 /\ c2s'[n].kind = "request" =>
           \A i \in Missed("client")' : i <= c2s'[n].id => i \in Front(c2s', n)
    BY <2>3
  <2> HIDE DEF After
  <2>7. QED
    BY <2>2, <2>4, <2>5, <2>6
<1>10. ASSUME NEW last, last = Len(c2s) \/ last \in Nat \ {0}, ClientBehind(last),
              \A k \in DOMAIN s2c' :
                 k \in DOMAIN s2c \/ s2c'[k].ack_id = NoId,
              \A k \in DOMAIN outgoing' :
                 \/ k \in DOMAIN outgoing /\ outgoing'[k] = outgoing[k]
                 \/ outgoing'[k].ack_id = NoId
                 \/ \E j \in DOMAIN buf : outgoing'[k] = buf[j]
       PROVE  /\ After(max_received'["server"])
              /\ \A k \in DOMAIN s2c' : After(s2c'[k].ack_id)
              /\ \A k \in DOMAIN outgoing' : After(outgoing'[k].ack_id)
              /\ \A k \in DOMAIN buf : After(buf[k].ack_id)
              /\ \A n \in DOMAIN c2s' : n <= last - 1 /\ c2s'[n].kind = "request" =>
                    \A i \in Missed("client")' : i <= c2s'[n].id => i \in Front(c2s', n)
  <2>1. last \in Nat \ {0}
    BY <1>3, <1>10
  <2>2. After(NoId)
    <3>1. \A i \in Nat : i > NoId
      BY DEF NoId
    <3>2. Missed("client")' \subseteq Nat
      BY <1>2
    <3>3. QED
      BY <3>1, <3>2
  <2> HIDE DEF After, SafeStill
  <2>3. /\ After(max_received'["server"])
        /\ \A k \in DOMAIN buf : After(buf[k].ack_id)
        /\ \A k \in DOMAIN s2c : After(s2c[k].ack_id)
        /\ \A k \in DOMAIN outgoing : After(outgoing[k].ack_id)
    BY <1>9, <1>10, <2>1
  <2>4. \A k \in DOMAIN s2c' : After(s2c'[k].ack_id)
    BY <1>8, <1>10, <2>2, <2>3
  <2>5. \A k \in DOMAIN outgoing' : After(outgoing'[k].ack_id)
    BY <1>10, <2>2, <2>3
  <2>6. QED
    BY <1>9, <1>10, <2>1, <2>3, <2>4, <2>5
<1>11. ASSUME m.kind # "FlushBufferedMessages" PROVE Synced'
  <2>1. /\ \A n \in DOMAIN s2c' :
              \/ n \in DOMAIN s2c
              \/ /\ Linked /\ n > Len(s2c) /\ n = Len(s2c') /\ m.kind = "RemoteStarted"
                 /\ s2c'[n].kind = "Ack" /\ s2c'[n].responding_to = m.id
                 /\ s2c'[n].ack_id = NoId
        /\ \A n \in DOMAIN outgoing' : \/ n \in DOMAIN outgoing /\ outgoing'[n] = outgoing[n]
                                       \/ outgoing'[n].ack_id = NoId
        /\ Linked /\ m.kind = "RemoteStarted" =>
              /\ Len(s2c') \in DOMAIN s2c' /\ s2c'[Len(s2c')].kind = "Ack"
              /\ s2c'[Len(s2c')].responding_to = m.id
    <3>1. ASSUME NEW u, NEW v, ServerAnswers(m, buf, u, v)
          PROVE  \/ v = u
                 \/ \E a : /\ Appended(u, a, v) /\ a.kind = "Ack" /\ m.kind = "RemoteStarted"
                           /\ a.responding_to = m.id /\ a.ack_id = NoId
      BY <1>11, <3>1 DEF ServerAnswers
    <3>2. CASE Linked
      <4>1. CASE s2c' = s2c
        BY <1>1, <3>2, <4>1
      <4>2. CASE s2c' # s2c
        <5>1. PICK a : /\ Appended(s2c, a, s2c') /\ a.kind = "Ack" /\ m.kind = "RemoteStarted"
                       /\ a.responding_to = m.id /\ a.ack_id = NoId
          BY <1>1, <3>1, <3>2, <4>2
        <5>2. QED
          BY <1>1, <3>2, <5>1 DEF Appended
      <4>3. QED
        BY <4>1, <4>2
    <3>3. CASE ~Linked
      <4>1. CASE outgoing' = outgoing
        BY <1>1, <3>3, <4>1
      <4>2. CASE outgoing' # outgoing
        <5>1. PICK a : Appended(outgoing, a, outgoing') /\ a.ack_id = NoId
          BY <1>1, <3>1, <3>3, <4>2
        <5>2. QED
          BY <1>1, <3>3, <5>1 DEF Appended
      <4>3. QED
        BY <4>1, <4>2
    <3>4. QED
      BY <3>2, <3>3
  <2>2. Attempting => \A q : Answered(q)' <=> Answered(q)
    <3> SUFFICES ASSUME Attempting, NEW q PROVE Answered(q)' <=> Answered(q)
      OBVIOUS
    <3>1. m.kind = "RemoteStarted" => m.id # flush
      BY <1>3 DEF Synced, OneFlush
    <3>2. QED
      BY <1>1, <1>8, <2>1, <3>1 DEF Answered
  <2>3. \A r : Greeted(r) => Greeted(r)'
    BY <1>1, <1>8 DEF Greeted
  <2>4. \A n : n \in DOMAIN c2s' /\ c2s'[n].kind = "RemoteStarted" =>
           n + 1 \in DOMAIN c2s /\ c2s[n + 1].kind = "RemoteStarted" /\ c2s'[n] = c2s[n + 1]
    BY <1>3
  <2>5. OneFlush'
    <3>1. /\ phase' # "abandoned" /\ (phase' # "connected" => replaying' = 0)
          /\ replaying' <= Len(c2s')
      <4>1. replaying \in Nat /\ replaying <= Len(c2s) /\ (phase # "connected" => replaying = 0)
        BY DEF Synced, OneFlush, TypeOK, CountersTyped
      <4>2. QED
        BY <1>1, <1>3, <1>5, <4>1
    <3>2. Steady' => \A p : ~Pending(p)'
      BY <1>5, <1>6 DEF Synced, OneFlush
    <3>3. ASSUME Attempting
          PROVE  /\ handshake' \in Nat /\ flush' = handshake' + 1
                 /\ (\E p : Pending(p)') \/ (\E q : Answered(q)')
                 /\ \A p, q : ~(Pending(p)' /\ Answered(q)')
                 /\ \A p, r : Pending(p)' /\ Pending(r)' => p = r
                 /\ \A q, r : Answered(q)' /\ Answered(r)' => q = r
                 /\ \A p : Pending(p)' => c2s'[p].id = flush'
                 /\ \A n \in DOMAIN c2s' : c2s'[n].kind = "RemoteStarted" => c2s'[n].id # flush'
                 /\ \A q : Answered(q)' => s2c'[q].kind = "Ack" /\ s2c'[q].ack_id = NoId
      <4>1. /\ handshake \in Nat /\ flush = handshake + 1
            /\ (\E p : Pending(p)) \/ (\E q : Answered(q))
            /\ \A p, q : ~(Pending(p) /\ Answered(q))
            /\ \A p, r : Pending(p) /\ Pending(r) => p = r
            /\ \A q, r : Answered(q) /\ Answered(r) => q = r
            /\ \A p : Pending(p) => c2s[p].id = flush
            /\ \A n \in DOMAIN c2s : c2s[n].kind = "RemoteStarted" => c2s[n].id # flush
            /\ \A q : Answered(q) => s2c[q].kind = "Ack" /\ s2c[q].ack_id = NoId
        BY <3>3 DEF Synced, OneFlush
      <4>2. (\E p : Pending(p)') \/ (\E q : Answered(q)')
        <5>1. CASE \E p : Pending(p)
          BY <1>6, <1>11, <5>1
        <5>2. CASE \E q : Answered(q)
          BY <2>2, <3>3, <5>2
        <5>3. QED
          BY <4>1, <5>1, <5>2
      <4>3. \A p, r : Pending(p)' /\ Pending(r)' => p = r
        <5> TAKE p, r
        <5> HAVE Pending(p)' /\ Pending(r)'
        <5>1. p \in Nat /\ r \in Nat /\ p + 1 = r + 1
          BY <1>6, <4>1
        <5>2. QED
          BY <5>1
      <4>4. \A q : Answered(q) => s2c'[q] = s2c[q]
        BY <1>8 DEF Answered
      <4>5. \A p, q : ~(Pending(p)' /\ Answered(q)')
        BY <1>6, <2>2, <3>3, <4>1
      <4>6. /\ \A q, r : Answered(q)' /\ Answered(r)' => q = r
            /\ \A q : Answered(q)' => s2c'[q].kind = "Ack" /\ s2c'[q].ack_id = NoId
        BY <2>2, <3>3, <4>1, <4>4
      <4>7. \A p : Pending(p)' => c2s'[p].id = flush'
        BY <1>1, <1>6, <4>1
      <4>8. \A n \in DOMAIN c2s' : c2s'[n].kind = "RemoteStarted" => c2s'[n].id # flush'
        BY <1>1, <2>4, <4>1
      <4>9. QED
        BY <1>1, <4>1, <4>2, <4>3, <4>5, <4>6, <4>7, <4>8
    <3>4. QED
      BY <1>5, <3>1, <3>2, <3>3 DEF OneFlush
  <2>6. HandshakeFirst'
    <3> SUFFICES ASSUME phase = "handshaking"
                 PROVE  /\ \A p : Pending(p)' =>
                              \/ \E n \in DOMAIN c2s' : n < p /\ c2s'[n].kind = "RemoteStarted"
                                                              /\ c2s'[n].id = handshake
                              \/ \E r : Greeted(r)'
                        /\ \A q : Answered(q)' => \E r : Greeted(r)' /\ r < q
      BY <1>1 DEF HandshakeFirst
    <3>1. Attempting /\ Linked
      BY DEF Attempting, Linked
    <3>2. /\ \A p : Pending(p) =>
                \/ \E n \in DOMAIN c2s : n < p /\ c2s[n].kind = "RemoteStarted"
                                               /\ c2s[n].id = handshake
                \/ \E r : Greeted(r)
          /\ \A q : Answered(q) => \E r : Greeted(r) /\ r < q
      BY DEF Synced, HandshakeFirst
    <3>3. ASSUME NEW p, Pending(p)'
          PROVE  \/ \E n \in DOMAIN c2s' : n < p /\ c2s'[n].kind = "RemoteStarted"
                                                 /\ c2s'[n].id = handshake
                 \/ \E r : Greeted(r)'
      <4>1. CASE \E r : Greeted(r)
        BY <2>3, <4>1
      <4>2. ASSUME NEW n \in DOMAIN c2s, n < p + 1, c2s[n].kind = "RemoteStarted",
                   c2s[n].id = handshake
            PROVE  \/ \E k \in DOMAIN c2s' : k < p /\ c2s'[k].kind = "RemoteStarted"
                                                   /\ c2s'[k].id = handshake
                   \/ \E r : Greeted(r)'
        <5>1. CASE n = 1
          BY <1>1, <1>3, <2>1, <3>1, <4>2, <5>1 DEF Greeted
        <5>2. CASE n # 1
          <6>1. n - 1 \in DOMAIN c2s' /\ c2s'[n - 1] = c2s[n]
            BY <1>3, <5>2
          <6>2. n - 1 < p
            BY <1>3, <1>6, <3>3, <4>2
          <6>3. QED
            BY <4>2, <6>1, <6>2
        <5>3. QED
          BY <5>1, <5>2
      <4>3. Pending(p + 1)
        BY <1>6, <3>3
      <4>4. QED
        BY <3>2, <4>1, <4>2, <4>3
    <3>4. QED
      BY <2>2, <2>3, <3>1, <3>2, <3>3
  <2>7. \A i \in Missed("server") : i \in Carried(s2c) =>
           \A n \in DOMAIN s2c' : n > Len(s2c) /\ n = Len(s2c') => i \in Front(s2c', n)
    <3>1. \A n : n = Len(s2c') => Front(s2c', n) = Carried(s2c')
      BY DEF Carried
    <3>2. QED
      BY <1>8, <3>1
  <2>8. ASSUME NEW n \in DOMAIN s2c,
               \A i \in Missed("server") : i <= s2c[n].id => i \in Front(s2c, n)
        PROVE  \A i \in Missed("server") : i <= s2c'[n].id => i \in Front(s2c', n)
    BY <1>8, <2>8
  <2>9. ServerSteady'
    <3> SUFFICES ASSUME Steady
                 PROVE  /\ Missed("server") \subseteq Carried(buf)
                        /\ SafeStill(max_received["client"])
                        /\ \A n \in DOMAIN buffer["client"] : SafeStill(buffer["client"][n].ack_id)
                        /\ \A n \in DOMAIN c2s' : SafeStill(c2s'[n].ack_id)
                        /\ \A n \in DOMAIN s2c' : \A i \in Missed("server") :
                              i <= s2c'[n].id => i \in Front(s2c', n)
                        /\ phase = "connected" => Missed("server") \subseteq Carried(s2c')
      BY <1>1, <1>2, <1>5 DEF ServerSteady, Safe, buf
    <3>1. /\ Missed("server") \subseteq Carried(buffer["server"])
          /\ Safe("server", max_received["client"])
          /\ \A n \in DOMAIN buffer["client"] : Safe("server", buffer["client"][n].ack_id)
          /\ \A n \in DOMAIN c2s : Safe("server", c2s[n].ack_id)
          /\ \A n \in DOMAIN s2c : \A i \in Missed("server") :
                i <= s2c[n].id => i \in Front(s2c, n)
          /\ phase = "connected" => Missed("server") \subseteq Carried(s2c)
      BY DEF Synced, ServerSteady
    <3>2. Missed("server") \subseteq Carried(buf)
      <4>1. Safe("server", m.ack_id)
        BY <1>3, <3>1
      <4>2. QED
        BY <1>1, <3>1, <4>1 DEF Safe
    <3>3. ASSUME NEW n \in DOMAIN s2c'
          PROVE  \A i \in Missed("server") : i <= s2c'[n].id => i \in Front(s2c', n)
      <4>1. CASE n \in DOMAIN s2c
        BY <2>8, <3>1, <4>1
      <4>2. CASE n \notin DOMAIN s2c
        BY <1>5, <2>1, <2>7, <3>1, <4>2
      <4>3. QED
        BY <4>1, <4>2
    <3> HIDE DEF SafeStill
    <3>4. \A n \in DOMAIN c2s' : SafeStill(c2s'[n].ack_id)
      BY <1>3, <1>7, <3>1
    <3>5. QED
      BY <1>7, <1>8, <3>1, <3>2, <3>3, <3>4
  <2>10. ServerPending'
    <3> SUFFICES ASSUME Attempting, NEW p, Pending(p)'
                 PROVE  /\ Missed("server") \subseteq Carried(buf)
                        /\ \A n \in DOMAIN c2s' : n <= p => SafeStill(c2s'[n].ack_id)
      BY <1>2, <1>5 DEF ServerPending, Safe, buf
    <3>1. Pending(p + 1) /\ p \in Nat \ {0}
      BY <1>6
    <3>2. /\ Missed("server") \subseteq Carried(buffer["server"])
          /\ \A n \in DOMAIN c2s : n <= p + 1 => Safe("server", c2s[n].ack_id)
      BY <3>1 DEF Synced, ServerPending
    <3>3. Missed("server") \subseteq Carried(buf)
      <4>1. Safe("server", m.ack_id)
        BY <1>3, <3>1, <3>2
      <4>2. QED
        BY <1>1, <3>2, <4>1 DEF Safe
    <3> HIDE DEF SafeStill
    <3>4. \A n \in DOMAIN c2s' : n <= p => SafeStill(c2s'[n].ack_id)
      BY <1>3, <1>7, <3>1, <3>2
    <3>5. QED
      BY <3>3, <3>4
  <2>11. ServerAnswered'
    <3> SUFFICES ASSUME Attempting, NEW q, Answered(q)
                 PROVE  /\ Missed("server") \subseteq Carried(s2c')
                        /\ \A i \in Missed("server") :
                              IF i < s2c'[q].id THEN i \in Front(s2c', q) ELSE i \in Carried(buf)
                        /\ \A n \in DOMAIN s2c' :
                              IF n < q THEN s2c'[n].id < s2c'[q].id
                              ELSE \A i \in Missed("server") :
                                      i <= s2c'[n].id => i \in Front(s2c', n)
                        /\ max_received["client"] < s2c'[q].id
                        /\ \A n \in DOMAIN buffer["client"] :
                              buffer["client"][n].ack_id < s2c'[q].id
                        /\ \A n \in DOMAIN c2s' : c2s'[n].ack_id < s2c'[q].id
      BY <1>1, <1>2, <1>5, <2>2 DEF ServerAnswered, buf
    <3>1. /\ Missed("server") \subseteq Carried(s2c)
          /\ \A i \in Missed("server") :
                IF i < s2c[q].id THEN i \in Front(s2c, q) ELSE i \in Carried(buffer["server"])
          /\ \A n \in DOMAIN s2c : IF n < q THEN s2c[n].id < s2c[q].id
                                  ELSE \A i \in Missed("server") :
                                          i <= s2c[n].id => i \in Front(s2c, n)
          /\ max_received["client"] < s2c[q].id
          /\ \A n \in DOMAIN buffer["client"] : buffer["client"][n].ack_id < s2c[q].id
          /\ \A n \in DOMAIN c2s : c2s[n].ack_id < s2c[q].id
      BY DEF Synced, ServerAnswered
    <3>2. /\ q \in DOMAIN s2c /\ s2c'[q] = s2c[q] /\ q \in Nat /\ q <= Len(s2c)
          /\ s2c[q].id \in Nat /\ Front(s2c, q) \subseteq Front(s2c', q)
      BY <1>8, IdTypes DEF Answered
    <3>3. ASSUME NEW i \in Missed("server")
          PROVE  IF i < s2c[q].id THEN i \in Front(s2c', q) ELSE i \in Carried(buf)
      <4>1. CASE i < s2c[q].id
        BY <3>1, <3>2, <4>1
      <4>2. CASE ~(i < s2c[q].id)
        <5>1. i \in Carried(buffer["server"])
          BY <3>1, <4>2
        <5>2. i \in Nat /\ m.ack_id \in Int
          <6>1. ServerIds \subseteq Nat /\ i \in ServerIds
            BY <1>2
          <6>2. m.ack_id \in ServerIds \cup {NoId}
            BY <1>1
          <6>3. NoId \in Int /\ \A k \in Nat : k \in Int
            BY DEF NoId
          <6>4. QED
            BY <6>1, <6>2, <6>3
        <5>3. m.ack_id < s2c[q].id
          BY <1>3, <3>1
        <5>4. i > m.ack_id
          BY <3>2, <4>2, <5>2, <5>3
        <5>5. QED
          BY <1>1, <4>2, <5>1, <5>4
      <4>3. QED
        BY <4>1, <4>2
    <3>4. ASSUME NEW n \in DOMAIN s2c'
          PROVE  IF n < q THEN s2c'[n].id < s2c'[q].id
                 ELSE \A i \in Missed("server") : i <= s2c'[n].id => i \in Front(s2c', n)
      <4>1. CASE n \in DOMAIN s2c
        BY <1>8, <2>8, <3>1, <3>2, <4>1
      <4>2. CASE n \notin DOMAIN s2c
        <5>1. n > Len(s2c) /\ n = Len(s2c') /\ ~(n < q)
          BY <1>8, <2>1, <3>2, <4>2
        <5>2. QED
          BY <2>7, <3>1, <5>1
      <4>3. QED
        BY <4>1, <4>2
    <3>5. \A n \in DOMAIN c2s' : c2s'[n].ack_id < s2c'[q].id
      BY <1>3, <3>1, <3>2
    <3>6. QED
      BY <1>8, <3>1, <3>2, <3>3, <3>4, <3>5
  <2>12. ClientConnected'
    <3> SUFFICES ASSUME phase = "connected"
                 PROVE  /\ Missed("client")' \subseteq Carried(c2s')
                        /\ Missed("client")' \subseteq
                              Carried(buffer["client"]) \cup Front(c2s', replaying')
                        /\ \A n \in DOMAIN c2s' :
                              n > replaying' /\ c2s'[n].kind = "request"
                                 /\ c2s'[n].id \in Missed("client")' =>
                                /\ c2s'[n].id > max_received'["server"]
                                /\ \A k \in DOMAIN c2s' : k < n /\ c2s'[k].kind = "request" =>
                                      c2s'[k].id < c2s'[n].id
                                /\ \A k \in DOMAIN s2c' : s2c'[k].ack_id < c2s'[n].id
                                /\ \A k \in DOMAIN buf : buf[k].ack_id < c2s'[n].id
      BY <1>1 DEF ClientConnected, buf
    <3>1. /\ Missed("client") \subseteq Carried(c2s)
          /\ Missed("client") \subseteq Carried(buffer["client"]) \cup Front(c2s, replaying)
          /\ \A n \in DOMAIN c2s :
                n > replaying /\ c2s[n].kind = "request" /\ c2s[n].id \in Missed("client") =>
                   /\ c2s[n].id > max_received["server"]
                   /\ \A k \in DOMAIN c2s :
                         k < n /\ c2s[k].kind = "request" => c2s[k].id < c2s[n].id
                   /\ \A k \in DOMAIN s2c : s2c[k].ack_id < c2s[n].id
                   /\ \A k \in DOMAIN buffer["server"] : buffer["server"][k].ack_id < c2s[n].id
      BY DEF Synced, ClientConnected
    <3>2. replaying \in Nat /\ replaying <= Len(c2s)
      BY DEF Synced, OneFlush, TypeOK, CountersTyped
    <3>3. DOMAIN c2s = 1 .. Len(c2s)
      BY <1>1 DEF Advanced
    <3>4. ASSUME NEW i \in Missed("client")' PROVE i \in Carried(c2s')
      <4>1. i \in Front(c2s, Len(c2s)) /\ Len(c2s) \in DOMAIN c2s
        BY <1>2, <1>3, <3>1, <3>3 DEF Carried
      <4>2. i \in Front(c2s', Len(c2s) - 1)
        BY <1>2, <1>4, <4>1
      <4>3. QED
        BY <1>3, <4>2 DEF Carried
    <3>5. ASSUME NEW i \in Missed("client")', i \in Front(c2s, replaying)
          PROVE  i \in Front(c2s', replaying')
      <4>1. replaying # 0
        BY <1>4, <3>5
      <4>2. replaying \in DOMAIN c2s /\ replaying' = replaying - 1
        BY <1>1, <3>2, <3>3, <4>1
      <4>3. QED
        BY <1>2, <1>4, <3>5, <4>2
    <3>6. ASSUME NEW n \in DOMAIN c2s', n > replaying', c2s'[n].kind = "request",
                 c2s'[n].id \in Missed("client")'
          PROVE  /\ c2s'[n].id > max_received'["server"]
                 /\ \A k \in DOMAIN c2s' :
                       k < n /\ c2s'[k].kind = "request" => c2s'[k].id < c2s'[n].id
                 /\ \A k \in DOMAIN s2c' : s2c'[k].ack_id < c2s'[n].id
                 /\ \A k \in DOMAIN buf : buf[k].ack_id < c2s'[n].id
      <4> DEFINE l == n + 1
      <4>1. /\ l \in DOMAIN c2s /\ c2s'[n] = c2s[l] /\ l > replaying /\ n \in Nat \ {0}
            /\ l > 1 /\ l \in Nat
        BY <1>1, <1>3, <3>2, <3>6
      <4>2. /\ c2s[l].id > max_received["server"]
            /\ \A k \in DOMAIN c2s : k < l /\ c2s[k].kind = "request" => c2s[k].id < c2s[l].id
            /\ \A k \in DOMAIN s2c : s2c[k].ack_id < c2s[l].id
            /\ \A k \in DOMAIN buffer["server"] : buffer["server"][k].ack_id < c2s[l].id
            /\ c2s[l].id \in Nat
        BY <1>2, <3>1, <3>6, <4>1
      <4>3. m.kind = "request" => m.id < c2s[l].id
        BY <1>3, <4>1, <4>2
      <4>4. c2s[l].id > max_received'["server"]
        BY <1>1, <1>2, <4>2, <4>3
      <4>5. \A k \in DOMAIN c2s' : k < n => k + 1 \in DOMAIN c2s /\ k + 1 < l /\ c2s'[k] = c2s[k + 1]
        BY <1>3, <4>1
      <4>6. NoId < c2s[l].id
        BY <4>2 DEF NoId
      <4> HIDE DEF l
      <4>7. QED
        BY <1>1, <1>8, <2>1, <4>1, <4>2, <4>4, <4>5, <4>6
    <3>7. QED
      BY <1>2, <3>1, <3>4, <3>5, <3>6
  <2>13. ClientDown'
    <3> SUFFICES ASSUME phase = "down"
                 PROVE  /\ Missed("client")' \subseteq Carried(buffer["client"])
                        /\ ClientBehind(Len(c2s))'
      BY <1>1 DEF ClientDown
    <3>1. Missed("client") \subseteq Carried(buffer["client"]) /\ ClientBehind(Len(c2s))
      BY DEF Synced, ClientDown
    <3> DEFINE l == Len(c2s)
    <3>2. \A n \in DOMAIN c2s' : n <= Len(c2s') => n <= l - 1
      BY <1>3
    <3>3. ClientBehind(l)
      BY <3>1
    <3> HIDE DEF l, After
    <3>4. /\ After(max_received'["server"])
          /\ \A k \in DOMAIN s2c' : After(s2c'[k].ack_id)
          /\ \A k \in DOMAIN outgoing' : After(outgoing'[k].ack_id)
          /\ \A k \in DOMAIN buf : After(buf[k].ack_id)
          /\ \A n \in DOMAIN c2s' : n <= l - 1 /\ c2s'[n].kind = "request" =>
                \A i \in Missed("client")' : i <= c2s'[n].id => i \in Front(c2s', n)
      BY <1>10, <2>1, <3>3 DEF l
    <3> USE DEF After
    <3>5. ClientBehind(Len(c2s))'
      BY <3>2, <3>4 DEF ClientBehind, Safe, buf
    <3>6. QED
      BY <1>2, <3>1, <3>5
  <2>14. ClientAttempting'
    <3> SUFFICES ASSUME Attempting
                 PROVE  /\ Missed("client")' \subseteq Carried(buffer["client"])
                        /\ \A p : Pending(p)' => ClientBehind(p)'
                        /\ \A q : Answered(q) =>
                              \A k \in DOMAIN s2c' : k <= q => After(s2c'[k].ack_id)
      BY <1>1, <1>5, <2>2 DEF ClientAttempting, Safe
    <3>1. /\ Missed("client") \subseteq Carried(buffer["client"])
          /\ \A p : Pending(p) => ClientBehind(p)
          /\ \A q : Answered(q) => \A k \in DOMAIN s2c : k <= q => Safe("client", s2c[k].ack_id)
      BY DEF Synced, ClientAttempting
    <3>2. ASSUME NEW p, Pending(p)' PROVE ClientBehind(p)'
      <4> DEFINE l == p + 1
      <4>1. l \in Nat \ {0} /\ ClientBehind(l) /\ l - 1 = p
        BY <1>6, <3>1, <3>2
      <4> HIDE DEF l, After
      <4>2. /\ After(max_received'["server"])
            /\ \A k \in DOMAIN s2c' : After(s2c'[k].ack_id)
            /\ \A k \in DOMAIN outgoing' : After(outgoing'[k].ack_id)
            /\ \A k \in DOMAIN buf : After(buf[k].ack_id)
            /\ \A n \in DOMAIN c2s' : n <= p /\ c2s'[n].kind = "request" =>
                  \A i \in Missed("client")' : i <= c2s'[n].id => i \in Front(c2s', n)
        BY <1>10, <2>1, <4>1
      <4> USE DEF After
      <4>3. QED
        BY <4>2 DEF ClientBehind, Safe, buf
    <3> HIDE DEF After
    <3>3. ASSUME NEW q, Answered(q), NEW k \in DOMAIN s2c', k <= q PROVE After(s2c'[k].ack_id)
      <4>1. q \in Nat /\ q <= Len(s2c)
        BY <1>8, <3>3 DEF Answered
      <4>2. k \in DOMAIN s2c
        BY <1>8, <2>1, <3>3, <4>1
      <4>3. QED
        BY <1>7, <1>8, <3>1, <3>3, <4>2
    <3>4. QED
      BY <1>2, <3>1, <3>2, <3>3
  <2>15. QED
    BY <2>5, <2>6, <2>9, <2>10, <2>11, <2>12, <2>13, <2>14 DEF Synced
<1>12. ASSUME m.kind = "FlushBufferedMessages" PROVE Synced'
  <2>1. Pending(1) /\ Attempting /\ Linked /\ m.id = flush
    <3>1. Pending(1)
      BY <1>6, <1>12
    <3>2. ~Steady
      BY <3>1 DEF Synced, OneFlush
    <3>3. QED
      BY <1>3, <1>5, <3>1, <3>2 DEF Synced, OneFlush
  <2>2. PICK a \in Envelope : \E r \in Seq(Envelope) :
           /\ Extended(s2c, r, s2c') /\ Appended(buf, a, r) /\ a.kind = "Ack"
           /\ a.responding_to = m.id /\ a.ack_id = NoId
           /\ \A i \in ServerIds : i < a.id
    BY <1>1, <1>12, <2>1 DEF ServerAnswers
  <2>3. PICK r \in Seq(Envelope) :
           /\ Extended(s2c, r, s2c') /\ Appended(buf, a, r) /\ a.kind = "Ack"
           /\ a.responding_to = m.id /\ a.ack_id = NoId
           /\ \A i \in ServerIds : i < a.id
    BY <2>2
  <2> DEFINE q == Len(s2c')
  <2>4. /\ q \in DOMAIN s2c' /\ s2c'[q] = a /\ q > Len(s2c) /\ q \in Nat
        /\ outgoing' = outgoing
        /\ \A n \in DOMAIN s2c' : \/ n \in DOMAIN s2c
                                  \/ n = q
                                  \/ n > Len(s2c) /\ \E k \in DOMAIN buf : s2c'[n] = buf[k]
        /\ \A n \in DOMAIN s2c' : n <= q
    <3>1. /\ Len(r) = Len(buf) + 1 /\ Len(buf) \in Nat /\ Len(s2c) \in Nat /\ q = Len(s2c) + Len(r)
          /\ r[Len(r)] = a /\ DOMAIN s2c' = 1 .. q /\ DOMAIN s2c = 1 .. Len(s2c)
          /\ DOMAIN r = 1 .. Len(r) /\ DOMAIN buf = 1 .. Len(buf)
          /\ \A n \in DOMAIN r : n \in DOMAIN buf \/ n = Len(r)
          /\ \A n \in DOMAIN buf : r[n] = buf[n]
      BY <2>3 DEF Extended, Appended
    <3>2. ASSUME NEW n \in DOMAIN s2c', n > Len(s2c)
          PROVE  (n = q /\ s2c'[n] = a) \/ \E k \in DOMAIN buf : s2c'[n] = buf[k]
      <4>1. n - Len(s2c) \in DOMAIN r /\ s2c'[n] = r[n - Len(s2c)]
        BY <2>3, <3>2 DEF Extended
      <4>2. CASE n - Len(s2c) = Len(r)
        BY <3>1, <4>1, <4>2
      <4>3. CASE n - Len(s2c) \in DOMAIN buf
        BY <3>1, <4>1, <4>3
      <4>4. QED
        BY <3>1, <4>1, <4>2, <4>3
    <3>3. q \in DOMAIN s2c' /\ q > Len(s2c) /\ q \in Nat
      BY <3>1
    <3>4. s2c'[q] = a
      <4>1. q - Len(s2c) = Len(r) /\ q \in DOMAIN s2c'
        BY <3>1
      <4>2. s2c'[q] = r[q - Len(s2c)]
        BY <2>3, <3>3 DEF Extended
      <4>3. QED
        BY <3>1, <4>1, <4>2
    <3>5. QED
      BY <1>1, <2>1, <3>1, <3>2, <3>3, <3>4
  <2> HIDE DEF q
  <2>5. /\ \A i \in Carried(buf) : i \in Carried(s2c')
        /\ Carried(s2c') = Front(s2c', q)
    BY <2>3 DEF Extended, Appended, Carried, q
  <2>6. \A n : Answered(n)' <=> n = q
    <3>1. flush \notin sent["client"] /\ flush # NoId
      BY <1>5, <2>1 DEF TypeOK, IdsTyped
    <3>2. \A k \in DOMAIN buf : buf[k].responding_to # flush
      <4>1. \A k \in DOMAIN buf : buf[k].responding_to \in sent["client"] \cup {NoId}
        BY <1>1 DEF Answers, FromServer
      <4>2. QED
        BY <3>1, <4>1
    <3>3. \A n : ~Answered(n)
      BY <2>1 DEF Synced, OneFlush
    <3>4. \A n \in DOMAIN s2c' : s2c'[n].responding_to = flush <=> n = q
      <4> TAKE n \in DOMAIN s2c'
      <4>1. CASE n \in DOMAIN s2c
        BY <1>8, <2>4, <3>3, <4>1 DEF Answered
      <4>2. CASE n = q
        BY <2>1, <2>3, <2>4, <4>2
      <4>3. CASE n \notin DOMAIN s2c /\ n # q
        BY <2>4, <3>2, <4>3
      <4>4. QED
        BY <4>1, <4>2, <4>3
    <3>5. QED
      BY <1>1, <2>4, <3>4 DEF Answered
  <2>7. \A p : ~Pending(p)'
    <3> SUFFICES ASSUME NEW p, Pending(p)' PROVE FALSE
      OBVIOUS
    <3>1. Pending(p + 1) /\ p \in Nat \ {0}
      BY <1>6
    <3>2. p + 1 = 1
      BY <2>1, <3>1 DEF Synced, OneFlush
    <3>3. QED
      BY <3>1, <3>2
  <2>8. ServerSteady' /\ ClientConnected' /\ ClientDown' /\ ServerPending'
    BY <1>1, <1>5, <2>1, <2>7
       DEF ServerSteady, ClientConnected, ClientDown, ServerPending, Steady, Attempting
  <2>9. OneFlush'
    <3>1. /\ handshake \in Nat /\ flush = handshake + 1
          /\ \A n \in DOMAIN c2s : c2s[n].kind = "RemoteStarted" => c2s[n].id # flush
          /\ replaying = 0
      BY <2>1 DEF Synced, OneFlush, Attempting
    <3>2. \A n \in DOMAIN c2s' : c2s'[n].kind = "RemoteStarted" => c2s'[n].id # flush
      BY <1>3, <3>1
    <3>3. phase' # "abandoned" /\ replaying' = 0 /\ 0 <= Len(c2s')
      BY <1>1, <1>3, <1>5, <3>1
    <3>4. ~Steady'
      BY <1>5, <2>1 DEF Steady, Attempting
    <3>5. s2c'[q].kind = "Ack" /\ s2c'[q].ack_id = NoId
      BY <2>3, <2>4
    <3>6. QED
      BY <1>1, <2>6, <2>7, <3>1, <3>2, <3>3, <3>4, <3>5 DEF OneFlush
  <2>10. HandshakeFirst'
    <3> SUFFICES ASSUME phase = "handshaking" PROVE \E r1 : Greeted(r1)' /\ r1 < q
      BY <1>1, <2>6, <2>7 DEF HandshakeFirst
    <3>1. \/ \E n \in DOMAIN c2s : n < 1 /\ c2s[n].kind = "RemoteStarted"
                                     /\ c2s[n].id = handshake
          \/ \E r1 : Greeted(r1)
      BY <2>1 DEF Synced, HandshakeFirst
    <3>2. PICK r1 : Greeted(r1)
      BY <1>3, <3>1
    <3>3. Greeted(r1)' /\ r1 <= Len(s2c) /\ r1 \in Nat
      BY <1>1, <1>8, <3>2 DEF Greeted
    <3>4. r1 < q
      BY <1>8, <2>4, <3>3
    <3>5. QED
      BY <3>3, <3>4
  <2>11. ServerAnswered'
    <3> SUFFICES /\ Missed("server") \subseteq Carried(s2c')
                 /\ \A i \in Missed("server") :
                       IF i < s2c'[q].id THEN i \in Front(s2c', q) ELSE i \in Carried(buf)
                 /\ \A n \in DOMAIN s2c' :
                       IF n < q THEN s2c'[n].id < s2c'[q].id
                       ELSE \A i \in Missed("server") : i <= s2c'[n].id => i \in Front(s2c', n)
                 /\ max_received["client"] < s2c'[q].id
                 /\ \A n \in DOMAIN buffer["client"] : buffer["client"][n].ack_id < s2c'[q].id
                 /\ \A n \in DOMAIN c2s' : c2s'[n].ack_id < s2c'[q].id
      BY <1>1, <1>2, <2>6 DEF ServerAnswered, buf
    <3>1. /\ Missed("server") \subseteq Carried(buffer["server"])
          /\ Safe("server", m.ack_id)
      BY <1>3, <2>1 DEF Synced, ServerPending
    <3>2. Missed("server") \subseteq Carried(s2c') /\ Missed("server") \subseteq Front(s2c', q)
      BY <1>1, <2>5, <3>1 DEF Safe
    <3>3. /\ \A i \in ServerIds \cup {NoId} : i < s2c'[q].id
      <4>1. a.id \in Nat
        BY DEF Envelope
      <4>2. NoId < a.id
        BY <4>1 DEF NoId
      <4>3. QED
        BY <2>3, <2>4, <4>2
    <3>4. /\ \A n \in DOMAIN s2c : s2c[n].id \in ServerIds
          /\ max_received["client"] \in ServerIds
          /\ \A n \in DOMAIN buffer["client"] : buffer["client"][n].ack_id \in ServerIds \cup {NoId}
          /\ \A n \in DOMAIN c2s : c2s[n].ack_id \in ServerIds \cup {NoId}
      BY IdTypes
    <3>5. \A k \in DOMAIN buf : buf[k].id \in ServerIds
      BY <1>1 DEF Answers, FromServer
    <3>6. ASSUME NEW n \in DOMAIN s2c'
          PROVE  IF n < q THEN s2c'[n].id < s2c'[q].id
                 ELSE \A i \in Missed("server") : i <= s2c'[n].id => i \in Front(s2c', n)
      <4>1. CASE n = q
        BY <2>4, <3>2, <4>1
      <4>2. CASE n # q
        <5>1. s2c'[n].id \in ServerIds
          BY <1>8, <2>4, <3>4, <3>5, <4>2
        <5>2. n < q
          BY <1>8, <2>4, <4>2
        <5>3. QED
          BY <3>3, <5>1, <5>2
      <4>3. QED
        BY <4>1, <4>2
    <3>7. \A n \in DOMAIN c2s' : c2s'[n].ack_id < s2c'[q].id
      BY <1>3, <3>3, <3>4
    <3>8. QED
      BY <1>2, <3>2, <3>3, <3>4, <3>6, <3>7
  <2>12. ClientAttempting'
    <3> SUFFICES /\ Missed("client")' \subseteq Carried(buffer["client"])
                 /\ \A k \in DOMAIN s2c' : After(s2c'[k].ack_id)
      BY <1>1, <2>6, <2>7 DEF ClientAttempting, Safe
    <3>1. Missed("client") \subseteq Carried(buffer["client"]) /\ ClientBehind(1)
      BY <2>1 DEF Synced, ClientAttempting
    <3>2. After(NoId)
      <4>1. \A i \in Nat : i > NoId
        BY DEF NoId
      <4>2. Missed("client")' \subseteq Nat
        BY <1>2
      <4>3. QED
        BY <4>1, <4>2
    <3>3. 1 \in Nat \ {0}
      OBVIOUS
    <3> HIDE DEF After
    <3>4. /\ \A k \in DOMAIN buf : After(buf[k].ack_id)
          /\ \A k \in DOMAIN s2c : After(s2c[k].ack_id)
      BY <1>9, <3>1, <3>3
    <3>5. \A k \in DOMAIN s2c' : After(s2c'[k].ack_id)
      BY <1>8, <2>3, <2>4, <3>2, <3>4
    <3>6. QED
      BY <1>2, <3>1, <3>5
  <2>13. QED
    BY <2>8, <2>9, <2>10, <2>11, <2>12 DEF Synced
<1>13. QED
  BY <1>11, <1>12
-----------------------------------------------------------------------------
(* Nothing is lost: the client reads.                                      *)

Ready(m) == m.kind = "Ack" /\ m.responding_to = handshake

LEMMA ClientReceiveQueues ==
    ASSUME TypeOK, ClientReceive
    PROVE  LET m == s2c[1]
               buf == buffer'["client"]
           IN  /\ m \in FromServer /\ Advanced(s2c, s2c')
               /\ m.id \in ServerIds /\ m.ack_id \in ClientIds \cup {NoId}
               /\ UNCHANGED <<handshake, flush, outgoing, sent>>
               /\ buffer'["server"] = buffer["server"]
               /\ max_received'["server"] = max_received["server"]
               /\ handled'["server"] = handled["server"]
               /\ max_received'["client"] \in {max_received["client"], m.id}
               /\ handled'["client"] =
                     handled["client"] \cup (IF m.kind \in Data THEN {m.id} ELSE {})
               /\ buf \in Seq(Requests)
               /\ \A n \in DOMAIN buf : \E k \in DOMAIN buffer["client"] : buf[n] = buffer["client"][k]
               /\ \A i \in Carried(buffer["client"]) : i > m.ack_id => i \in Carried(buf)
               /\ m.ack_id = NoId => buf = buffer["client"]
               /\ IF Resynced(m) /\ ~Ready(m)
                  THEN /\ phase' = "connected" /\ Extended(c2s, buf, c2s')
                       /\ replaying' = IF buf # <<>> THEN Len(c2s') ELSE replaying
                  ELSE /\ phase' = IF Ready(m) /\ phase = "handshaking" THEN "resyncing" ELSE phase
                       /\ replaying' = replaying
                       /\ \/ c2s' = c2s
                          \/ \E a \in Envelope : Appended(c2s, a, c2s') /\ a.kind = "Ack"
                                                 /\ a.ack_id = NoId
<1> DEFINE m == s2c[1]
           buf == Unacknowledged(buffer["client"], m.ack_id)
<1>1. /\ s2c # <<>> /\ s2c' = Tail(s2c) /\ m \in FromServer
      /\ UNCHANGED <<handshake, flush, outgoing, allocated, sent>>
      /\ ClientSkips(m) \/ ClientGreets(m, buf) \/ ClientTakes(m, buf)
  BY ClientReceiveKinds
<1>2. Advanced(s2c, s2c')
  BY <1>1, TailAdvanced, MessageSets DEF TypeOK, QueuesTyped
<1>3. /\ m.id \in ServerIds
      /\ m.ack_id \in ClientIds \cup {NoId} /\ m.ack_id \in Nat \cup {NoId}
      /\ m.kind \in {"RemoteStarted", "Ack", "response", "notification"}
  BY <1>1 DEF FromServer, Envelope
<1>4. /\ buffer["client"] \in Seq(Requests) /\ buffer["client"] \in Seq(Envelope)
      /\ c2s \in Seq(Envelope) /\ DOMAIN buffer = End
  BY MessageSets, SeqMonotonic DEF TypeOK, QueuesTyped
<1>5. /\ buf \in Seq(Requests) /\ buf \in Seq(Envelope)
      /\ \A n \in DOMAIN buf : \E k \in DOMAIN buffer["client"] : buf[n] = buffer["client"][k]
      /\ \A i \in Carried(buffer["client"]) : i > m.ack_id => i \in Carried(buf)
      /\ m.ack_id = NoId => buf = buffer["client"]
  <2>1. /\ buf \in Seq(Requests)
        /\ \A n \in DOMAIN buf : \E k \in DOMAIN buffer["client"] : buf[n] = buffer["client"][k]
        /\ \A i \in Carried(buffer["client"]) : i > m.ack_id => i \in Carried(buf)
        /\ m.ack_id = NoId => buf = buffer["client"]
    BY <1>3, <1>4, Popped, MessageSets
  <2>2. buf \in Seq(Envelope)
    BY <2>1, SeqMonotonic, MessageSets
  <2>3. QED
    BY <2>1, <2>2
<1>6. max_received \in [End -> Nat] /\ handled \in [End -> SUBSET Nat]
  BY DEF TypeOK, IdsTyped
<1> SUFFICES
      /\ buffer'["server"] = buffer["server"]
      /\ max_received'["server"] = max_received["server"]
      /\ handled'["server"] = handled["server"]
      /\ max_received'["client"] \in {max_received["client"], m.id}
      /\ handled'["client"] = handled["client"] \cup (IF m.kind \in Data THEN {m.id} ELSE {})
      /\ buffer'["client"] = buf \/ (Ready(m) /\ buffer'["client"] = buffer["client"])
      /\ IF Resynced(m) /\ ~Ready(m)
         THEN /\ phase' = "connected" /\ Extended(c2s, buf, c2s')
              /\ replaying' = IF buf # <<>> THEN Len(c2s') ELSE replaying
         ELSE /\ phase' = IF Ready(m) /\ phase = "handshaking" THEN "resyncing" ELSE phase
              /\ replaying' = replaying
              /\ \/ c2s' = c2s
                 \/ \E a \in Envelope : Appended(c2s, a, c2s') /\ a.kind = "Ack" /\ a.ack_id = NoId
  <2>1. \A n \in DOMAIN buffer["client"] : \E k \in DOMAIN buffer["client"] :
           buffer["client"][n] = buffer["client"][k]
    OBVIOUS
  <2> HIDE DEF m, buf
  <2>2. Ready(m) \/ buffer'["client"] = buf
    OBVIOUS
  <2>3. QED
    BY <1>1, <1>2, <1>3, <1>4, <1>5, <2>1, <2>2 DEF m, buf
<1> HIDE DEF m, buf
<1>7. CASE ClientSkips(m)
  BY <1>3, <1>4, <1>7 DEF ClientSkips, Ready, Data
<1>8. CASE ClientGreets(m, buf) \/ ClientTakes(m, buf)
  <2>1. /\ ~Ready(m)
        /\ buffer' = [buffer EXCEPT !["client"] = buf]
        /\ phase' = IF Resynced(m) THEN "connected" ELSE phase
        /\ TransmitClient(ClientReplies(m, buf, Resynced(m)))
        /\ replaying' = IF Resynced(m) /\ buf # <<>> THEN Len(c2s') ELSE replaying
    BY <1>8 DEF ClientGreets, ClientTakes, ClientReads, Ready
  <2>2. /\ Resynced(m) => ClientReplies(m, buf, Resynced(m)) = buf
        /\ ~Resynced(m) => ClientReplies(m, buf, Resynced(m)) =
              IF m.kind = "RemoteStarted" THEN <<Ack(next_message_id["client"], m)>> ELSE <<>>
    BY <1>1, <1>5, <1>8, ClientAnswers
  <2>3. /\ buffer'["server"] = buffer["server"] /\ buffer'["client"] = buf
    BY <1>4, <2>1 DEF End
  <2>4. /\ max_received'["server"] = max_received["server"]
        /\ handled'["server"] = handled["server"]
        /\ max_received'["client"] \in {max_received["client"], m.id}
        /\ handled'["client"] = handled["client"] \cup (IF m.kind \in Data THEN {m.id} ELSE {})
    BY <1>6, <1>8 DEF ClientGreets, ClientTakes, End, Data
  <2>5. CASE Resynced(m)
    <3>1. c2s' = c2s \o buf
      BY <2>1, <2>2, <2>5 DEF TransmitClient, Resynced, Linked
    <3>2. Extended(c2s, buf, c2s')
      BY <1>4, <1>5, <3>1, Behind
    <3>3. QED
      BY <2>1, <2>3, <2>4, <2>5, <3>2
  <2>6. CASE ~Resynced(m)
    <3> DEFINE a == Ack(next_message_id["client"], m)
    <3>1. a \in Envelope /\ a.kind = "Ack" /\ a.ack_id = NoId
      <4>1. next_message_id["client"] \in Nat /\ m.id \in Nat
        BY <1>1 DEF FromServer, Envelope, TypeOK, CountersTyped, End
      <4>2. QED
        BY <4>1 DEF Ack, Msg, Envelope, Kind
    <3> HIDE DEF a
    <3>2. c2s \o <<>> = c2s
      BY <1>4, ConcatEmptySeq
    <3>3. c2s' = c2s \/ c2s' = c2s \o <<a>>
      BY <2>1, <2>2, <2>6, <3>2 DEF TransmitClient, a
    <3>4. Appended(c2s, a, c2s \o <<a>>)
      BY <1>4, <3>1, OneBehind
    <3>5. \/ c2s' = c2s
          \/ \E b \in Envelope : Appended(c2s, b, c2s') /\ b.kind = "Ack" /\ b.ack_id = NoId
      BY <3>1, <3>3, <3>4
    <3>6. QED
      BY <2>1, <2>3, <2>4, <2>6, <3>5
  <2>7. QED
    BY <2>5, <2>6
<1>9. QED
  BY <1>1, <1>7, <1>8
LEMMA ClientReceiveSynced == ASSUME TypeOK, Synced, ClientReceive PROVE Synced'
<1> DEFINE m == s2c[1]
           buf == buffer'["client"]
<1>1. /\ m \in FromServer /\ Advanced(s2c, s2c')
      /\ m.id \in ServerIds /\ m.ack_id \in ClientIds \cup {NoId}
      /\ UNCHANGED <<handshake, flush, outgoing, sent>>
      /\ buffer'["server"] = buffer["server"]
      /\ max_received'["server"] = max_received["server"]
      /\ handled'["server"] = handled["server"]
      /\ max_received'["client"] \in {max_received["client"], m.id}
      /\ handled'["client"] =
            handled["client"] \cup (IF m.kind \in Data THEN {m.id} ELSE {})
      /\ buf \in Seq(Requests)
      /\ \A n \in DOMAIN buf : \E k \in DOMAIN buffer["client"] : buf[n] = buffer["client"][k]
      /\ \A i \in Carried(buffer["client"]) : i > m.ack_id => i \in Carried(buf)
      /\ m.ack_id = NoId => buf = buffer["client"]
      /\ IF Resynced(m) /\ ~Ready(m)
         THEN /\ phase' = "connected" /\ Extended(c2s, buf, c2s')
              /\ replaying' = IF buf # <<>> THEN Len(c2s') ELSE replaying
         ELSE /\ phase' = IF Ready(m) /\ phase = "handshaking" THEN "resyncing" ELSE phase
              /\ replaying' = replaying
              /\ \/ c2s' = c2s
                 \/ \E a \in Envelope : Appended(c2s, a, c2s') /\ a.kind = "Ack"
                                        /\ a.ack_id = NoId
  BY ClientReceiveQueues
<1> HIDE DEF m, buf
<1> DEFINE After(A) == \A i \in Missed("server")' : i > A
           SafeStill(A) == \A i \in Missed("client")' : i > A
<1>2. /\ Missed("client")' = Missed("client")
      /\ Missed("server")' \subseteq Missed("server")
      /\ m.kind \in Data => m.id \notin Missed("server")'
      /\ Missed("client") \subseteq Nat /\ Missed("server") \subseteq Nat
      /\ ClientIds \subseteq Nat /\ ServerIds \subseteq Nat /\ m.id \in Nat
  BY <1>1, IdTypes DEF Missed
<1>3. /\ 1 \in DOMAIN s2c /\ s2c[1] = m
      /\ DOMAIN s2c \subseteq Nat \ {0} /\ DOMAIN s2c' \subseteq Nat \ {0}
      /\ \A n \in DOMAIN s2c' : n + 1 \in DOMAIN s2c /\ s2c'[n] = s2c[n + 1]
      /\ \A n \in DOMAIN s2c : n = 1 \/ (n - 1 \in DOMAIN s2c' /\ s2c'[n - 1] = s2c[n])
  BY <1>1 DEF Advanced, m
<1>4. \A n \in DOMAIN s2c : \A i \in Missed("server")' :
         i \in Front(s2c, n) => i \in Front(s2c', n - 1) /\ n # 1
  <2>1. \A n \in DOMAIN s2c : \A i \in Front(s2c, n) :
           i \in Front(s2c', n - 1) \/ (i = m.id /\ m.kind \in Data)
    BY <1>1 DEF Advanced, m
  <2>2. Front(s2c', 0) = {}
    BY <1>3 DEF Front
  <2>3. QED
    BY <1>2, <2>1, <2>2
<1>5. \A i \in Missed("server")' : i \in Carried(s2c) => i \in Carried(s2c')
  <2>1. Len(s2c) \in DOMAIN s2c /\ Len(s2c') = Len(s2c) - 1
    BY <1>1 DEF Advanced
  <2>2. QED
    BY <1>4, <2>1 DEF Carried
<1>6. /\ \A A : Safe("server", A) => After(A)
      /\ \A A : Safe("client", A) => SafeStill(A)
      /\ After(NoId) /\ SafeStill(NoId)
  <2>1. \A i \in Nat : i > NoId
    BY DEF NoId
  <2>2. QED
    BY <1>2, <2>1 DEF Safe
<1>7. /\ \A q : Answered(q)' => /\ q + 1 \in Nat /\ Answered(q + 1) /\ s2c'[q] = s2c[q + 1]
                                /\ q \in Nat \ {0}
      /\ \A q : Answered(q) => q \in Nat /\ (q = 1 \/ Answered(q - 1)')
      /\ \A r : Greeted(r) => r \in Nat /\ (r = 1 \/ Greeted(r - 1)')
      /\ Greeted(1) <=> Ready(m)
      /\ Answered(1) <=> m.responding_to = flush
  BY <1>1, <1>3 DEF Answered, Greeted, Ready
<1>8. phase # "abandoned" /\ (Steady \/ Attempting)
  BY DEF Steady, Attempting, Synced, OneFlush, TypeOK, CountersTyped
<1>9. ASSUME ~(Resynced(m) /\ ~Ready(m)) PROVE Synced'
  <2>1. /\ Steady' = Steady /\ Attempting' = Attempting /\ replaying' = replaying
        /\ phase' = IF Ready(m) /\ phase = "handshaking" THEN "resyncing" ELSE phase
    BY <1>1, <1>9 DEF Steady, Attempting
  <2>2. /\ \A n \in DOMAIN c2s : n \in DOMAIN c2s' /\ c2s'[n] = c2s[n] /\ n <= Len(c2s)
        /\ \A n \in DOMAIN c2s' : \/ n \in DOMAIN c2s
                                  \/ n > Len(c2s) /\ c2s'[n].kind = "Ack" /\ c2s'[n].ack_id = NoId
        /\ \A n \in Nat : Front(c2s, n) \subseteq Front(c2s', n)
        /\ Carried(c2s) \subseteq Carried(c2s')
        /\ DOMAIN c2s \subseteq Nat \ {0} /\ Len(c2s) \in Nat /\ Len(c2s') \in Nat
        /\ Len(c2s) <= Len(c2s')
    <3>1. DOMAIN c2s = 1 .. Len(c2s) /\ Len(c2s) \in Nat
      BY MessageTypes
    <3>2. CASE c2s' = c2s
      BY <3>1, <3>2
    <3>3. CASE c2s' # c2s
      <4>1. PICK a \in Envelope : Appended(c2s, a, c2s') /\ a.kind = "Ack" /\ a.ack_id = NoId
        BY <1>1, <1>9, <3>3
      <4>2. QED
        BY <3>1, <4>1 DEF Appended
    <3>4. QED
      BY <3>2, <3>3
  <2>3. /\ \A p : Pending(p)' <=> Pending(p)
        /\ \A p : Pending(p) => c2s'[p] = c2s[p] /\ p \in Nat /\ p <= Len(c2s)
    BY <2>2 DEF Pending
  <2>4. Attempting => ~Answered(1)
    <3> SUFFICES ASSUME Attempting, Answered(1) PROVE FALSE
      OBVIOUS
    <3>1. m.responding_to = flush /\ flush # handshake
      BY <1>7 DEF Synced, OneFlush
    <3>2. phase = "handshaking"
      BY <1>9, <3>1 DEF Attempting, Resynced, Ready
    <3>3. PICK r : Greeted(r) /\ r < 1
      BY <3>2 DEF Synced, HandshakeFirst
    <3>4. r \in Nat \ {0}
      BY <1>3, <3>3 DEF Greeted
    <3>5. QED
      BY <3>3, <3>4
  <2>5. OneFlush'
    <3>1. /\ phase' # "abandoned" /\ (phase' # "connected" => replaying' = 0)
          /\ replaying' <= Len(c2s')
      <4>1. replaying \in Nat /\ replaying <= Len(c2s) /\ (phase # "connected" => replaying = 0)
        BY DEF Synced, OneFlush, TypeOK, CountersTyped
      <4>2. QED
        BY <1>8, <2>1, <2>2, <4>1
    <3>2. Steady' => \A p : ~Pending(p)'
      BY <2>1, <2>3 DEF Synced, OneFlush
    <3>3. ASSUME Attempting
          PROVE  /\ handshake' \in Nat /\ flush' = handshake' + 1
                 /\ (\E p : Pending(p)') \/ (\E q : Answered(q)')
                 /\ \A p, q : ~(Pending(p)' /\ Answered(q)')
                 /\ \A p, r : Pending(p)' /\ Pending(r)' => p = r
                 /\ \A q, r : Answered(q)' /\ Answered(r)' => q = r
                 /\ \A p : Pending(p)' => c2s'[p].id = flush'
                 /\ \A n \in DOMAIN c2s' : c2s'[n].kind = "RemoteStarted" => c2s'[n].id # flush'
                 /\ \A q : Answered(q)' => s2c'[q].kind = "Ack" /\ s2c'[q].ack_id = NoId
      <4>1. /\ handshake \in Nat /\ flush = handshake + 1
            /\ (\E p : Pending(p)) \/ (\E q : Answered(q))
            /\ \A p, q : ~(Pending(p) /\ Answered(q))
            /\ \A p, r : Pending(p) /\ Pending(r) => p = r
            /\ \A q, r : Answered(q) /\ Answered(r) => q = r
            /\ \A p : Pending(p) => c2s[p].id = flush
            /\ \A n \in DOMAIN c2s : c2s[n].kind = "RemoteStarted" => c2s[n].id # flush
            /\ \A q : Answered(q) => s2c[q].kind = "Ack" /\ s2c[q].ack_id = NoId
        BY <3>3 DEF Synced, OneFlush
      <4>2. (\E p : Pending(p)') \/ (\E q : Answered(q)')
        BY <1>7, <2>3, <2>4, <3>3, <4>1
      <4>3. \A q, r : Answered(q)' /\ Answered(r)' => q = r
        <5> TAKE q, r
        <5> HAVE Answered(q)' /\ Answered(r)'
        <5>1. q \in Nat /\ r \in Nat /\ q + 1 = r + 1
          BY <1>7, <4>1
        <5>2. QED
          BY <5>1
      <4>4. \A p, q : ~(Pending(p)' /\ Answered(q)')
        BY <1>7, <2>3, <4>1
      <4>5. \A q : Answered(q)' => s2c'[q].kind = "Ack" /\ s2c'[q].ack_id = NoId
        BY <1>7, <4>1
      <4>6. /\ \A p, r : Pending(p)' /\ Pending(r)' => p = r
            /\ \A p : Pending(p)' => c2s'[p].id = flush'
        BY <1>1, <2>3, <4>1
      <4>7. \A n \in DOMAIN c2s' : c2s'[n].kind = "RemoteStarted" => c2s'[n].id # flush'
        BY <1>1, <2>2, <4>1
      <4>8. QED
        BY <1>1, <4>1, <4>2, <4>3, <4>4, <4>5, <4>6, <4>7
    <3>4. QED
      BY <2>1, <3>1, <3>2, <3>3 DEF OneFlush
  <2>6. HandshakeFirst'
    <3> SUFFICES ASSUME phase' = "handshaking"
                 PROVE  /\ \A p : Pending(p)' =>
                              \/ \E n \in DOMAIN c2s' : n < p /\ c2s'[n].kind = "RemoteStarted"
                                                              /\ c2s'[n].id = handshake
                              \/ \E r : Greeted(r)'
                        /\ \A q : Answered(q)' => \E r : Greeted(r)' /\ r < q
      BY <1>1 DEF HandshakeFirst
    <3>1. phase = "handshaking" /\ ~Greeted(1)
      BY <1>7, <2>1
    <3>2. /\ \A p : Pending(p) =>
                \/ \E n \in DOMAIN c2s : n < p /\ c2s[n].kind = "RemoteStarted"
                                               /\ c2s[n].id = handshake
                \/ \E r : Greeted(r)
          /\ \A q : Answered(q) => \E r : Greeted(r) /\ r < q
      BY <3>1 DEF Synced, HandshakeFirst
    <3>3. ASSUME NEW p, Pending(p)'
          PROVE  \/ \E n \in DOMAIN c2s' : n < p /\ c2s'[n].kind = "RemoteStarted"
                                                 /\ c2s'[n].id = handshake
                 \/ \E r : Greeted(r)'
      <4>1. CASE \E r : Greeted(r)
        BY <1>7, <3>1, <4>1
      <4>2. CASE \E n \in DOMAIN c2s : n < p /\ c2s[n].kind = "RemoteStarted"
                                             /\ c2s[n].id = handshake
        BY <2>2, <4>2
      <4>3. QED
        BY <2>3, <3>2, <3>3, <4>1, <4>2
    <3>4. ASSUME NEW q, Answered(q)' PROVE \E r : Greeted(r)' /\ r < q
      <4>1. Answered(q + 1) /\ q \in Nat
        BY <1>7, <3>4
      <4>2. PICK r : Greeted(r) /\ r < q + 1
        BY <3>2, <4>1
      <4>3. Greeted(r - 1)' /\ r \in Nat
        BY <1>7, <3>1, <4>2
      <4>4. r - 1 < q
        BY <4>1, <4>2, <4>3
      <4>5. QED
        BY <4>3, <4>4
    <3>5. QED
      BY <3>3, <3>4
  <2>7. \A n \in DOMAIN s2c' : \A i \in Missed("server")' :
           i \in Front(s2c, n + 1) => i \in Front(s2c', n)
    <3> TAKE n \in DOMAIN s2c'
    <3> TAKE i \in Missed("server")'
    <3>1. n + 1 \in DOMAIN s2c /\ (n + 1) - 1 = n
      BY <1>3
    <3>2. QED
      BY <1>4, <3>1
  <2>8. ServerSteady'
    <3> SUFFICES ASSUME Steady
                 PROVE  /\ Missed("server")' \subseteq Carried(buffer["server"])
                        /\ After(max_received'["client"])
                        /\ \A n \in DOMAIN buf : After(buf[n].ack_id)
                        /\ \A n \in DOMAIN c2s' : After(c2s'[n].ack_id)
                        /\ \A n \in DOMAIN s2c' : \A i \in Missed("server")' :
                              i <= s2c'[n].id => i \in Front(s2c', n)
                        /\ phase' = "connected" => Missed("server")' \subseteq Carried(s2c')
      BY <1>1, <2>1 DEF ServerSteady, Safe, buf
    <3>1. /\ Missed("server") \subseteq Carried(buffer["server"])
          /\ Safe("server", max_received["client"])
          /\ \A n \in DOMAIN buffer["client"] : Safe("server", buffer["client"][n].ack_id)
          /\ \A n \in DOMAIN c2s : Safe("server", c2s[n].ack_id)
          /\ \A n \in DOMAIN s2c : \A i \in Missed("server") :
                i <= s2c[n].id => i \in Front(s2c, n)
          /\ phase = "connected" => Missed("server") \subseteq Carried(s2c)
      BY DEF Synced, ServerSteady
    <3>2. After(m.id)
      <4> SUFFICES ASSUME NEW i \in Missed("server")', ~(i > m.id) PROVE FALSE
        OBVIOUS
      <4>1. i \in Nat /\ i <= m.id
        BY <1>2
      <4>2. i \in Front(s2c, 1)
        BY <1>2, <1>3, <3>1, <4>1
      <4>3. QED
        BY <1>3, <1>4, <4>2
    <3>3. \A n \in DOMAIN s2c' : \A i \in Missed("server")' :
             i <= s2c'[n].id => i \in Front(s2c', n)
      BY <1>2, <1>3, <2>7, <3>1
    <3>4. phase' = "connected" => phase = "connected"
      BY <2>1
    <3> HIDE DEF After
    <3>5. After(max_received'["client"])
      BY <1>1, <1>6, <3>1, <3>2
    <3>6. \A n \in DOMAIN buf : After(buf[n].ack_id)
      BY <1>1, <1>6, <3>1
    <3>7. \A n \in DOMAIN c2s' : After(c2s'[n].ack_id)
      BY <1>6, <2>2, <3>1
    <3>8. QED
      BY <1>2, <1>5, <3>1, <3>3, <3>4, <3>5, <3>6, <3>7
  <2>9. ServerPending'
    <3> SUFFICES ASSUME Attempting, NEW p, Pending(p)
                 PROVE  /\ Missed("server")' \subseteq Carried(buffer["server"])
                        /\ \A n \in DOMAIN c2s' : n <= p => After(c2s'[n].ack_id)
      BY <1>1, <2>1, <2>3 DEF ServerPending, Safe
    <3>1. /\ Missed("server") \subseteq Carried(buffer["server"])
          /\ \A n \in DOMAIN c2s : n <= p => Safe("server", c2s[n].ack_id)
      BY DEF Synced, ServerPending
    <3> HIDE DEF After
    <3>2. QED
      BY <1>2, <1>6, <2>2, <3>1
  <2>10. ServerAnswered'
    <3> SUFFICES ASSUME Attempting, NEW q, Answered(q)'
                 PROVE  /\ Missed("server")' \subseteq Carried(s2c')
                        /\ \A i \in Missed("server")' :
                              IF i < s2c'[q].id THEN i \in Front(s2c', q)
                                                ELSE i \in Carried(buffer["server"])
                        /\ \A n \in DOMAIN s2c' :
                              IF n < q THEN s2c'[n].id < s2c'[q].id
                              ELSE \A i \in Missed("server")' :
                                      i <= s2c'[n].id => i \in Front(s2c', n)
                        /\ max_received'["client"] < s2c'[q].id
                        /\ \A n \in DOMAIN buf : buf[n].ack_id < s2c'[q].id
                        /\ \A n \in DOMAIN c2s' : c2s'[n].ack_id < s2c'[q].id
      BY <1>1, <2>1 DEF ServerAnswered, buf
    <3> DEFINE l == q + 1
    <3>1. Answered(l) /\ l \in DOMAIN s2c /\ s2c'[q] = s2c[l] /\ q \in Nat \ {0} /\ l \in Nat
          /\ 1 < l /\ q \in DOMAIN s2c' /\ s2c[l].id \in Nat
      BY <1>7, IdTypes DEF Answered
    <3>2. /\ Missed("server") \subseteq Carried(s2c)
          /\ \A i \in Missed("server") :
                IF i < s2c[l].id THEN i \in Front(s2c, l) ELSE i \in Carried(buffer["server"])
          /\ \A n \in DOMAIN s2c : IF n < l THEN s2c[n].id < s2c[l].id
                                  ELSE \A i \in Missed("server") :
                                          i <= s2c[n].id => i \in Front(s2c, n)
          /\ max_received["client"] < s2c[l].id
          /\ \A n \in DOMAIN buffer["client"] : buffer["client"][n].ack_id < s2c[l].id
          /\ \A n \in DOMAIN c2s : c2s[n].ack_id < s2c[l].id
      BY <3>1 DEF Synced, ServerAnswered
    <3>3. \A i \in Missed("server")' :
             IF i < s2c[l].id THEN i \in Front(s2c', q) ELSE i \in Carried(buffer["server"])
      BY <1>2, <2>7, <3>1, <3>2
    <3>4. \A n \in DOMAIN s2c' :
             IF n < q THEN s2c'[n].id < s2c[l].id
             ELSE \A i \in Missed("server")' : i <= s2c'[n].id => i \in Front(s2c', n)
      <4> TAKE n \in DOMAIN s2c'
      <4>1. /\ n + 1 \in DOMAIN s2c /\ s2c'[n] = s2c[n + 1] /\ (n < q <=> n + 1 < l)
        BY <1>3, <3>1
      <4>2. QED
        BY <1>2, <2>7, <3>2, <4>1
    <3>5. max_received'["client"] < s2c[l].id
      BY <1>1, <1>3, <3>1, <3>2
    <3>6. \A n \in DOMAIN c2s' : c2s'[n].ack_id < s2c[l].id
      <4>1. NoId < s2c[l].id
        BY <3>1 DEF NoId
      <4>2. QED
        BY <2>2, <3>2, <4>1
    <3> HIDE DEF l
    <3>7. QED
      BY <1>1, <1>2, <1>5, <3>1, <3>2, <3>3, <3>4, <3>5, <3>6
  <2>11. ASSUME Missed("client") \subseteq Carried(buffer["client"]), Safe("client", m.ack_id)
         PROVE  Missed("client") \subseteq Carried(buf)
    BY <1>1, <2>11 DEF Safe
  <2>12. ClientConnected'
    <3> SUFFICES ASSUME phase' = "connected"
                 PROVE  /\ Missed("client") \subseteq Carried(c2s')
                        /\ Missed("client") \subseteq Carried(buf) \cup Front(c2s', replaying)
                        /\ \A n \in DOMAIN c2s' :
                              n > replaying /\ c2s'[n].kind = "request"
                                 /\ c2s'[n].id \in Missed("client") =>
                                /\ c2s'[n].id > max_received["server"]
                                /\ \A k \in DOMAIN c2s' : k < n /\ c2s'[k].kind = "request" =>
                                      c2s'[k].id < c2s'[n].id
                                /\ \A k \in DOMAIN s2c' : s2c'[k].ack_id < c2s'[n].id
                                /\ \A k \in DOMAIN buffer["server"] :
                                      buffer["server"][k].ack_id < c2s'[n].id
      BY <1>1, <1>2, <2>1 DEF ClientConnected, buf
    <3>1. phase = "connected" /\ replaying \in Nat
      BY <2>1 DEF TypeOK, CountersTyped
    <3>2. /\ Missed("client") \subseteq Carried(c2s)
          /\ Missed("client") \subseteq Carried(buffer["client"]) \cup Front(c2s, replaying)
          /\ \A n \in DOMAIN c2s :
                n > replaying /\ c2s[n].kind = "request" /\ c2s[n].id \in Missed("client") =>
                   /\ c2s[n].id > max_received["server"]
                   /\ \A k \in DOMAIN c2s :
                         k < n /\ c2s[k].kind = "request" => c2s[k].id < c2s[n].id
                   /\ \A k \in DOMAIN s2c : s2c[k].ack_id < c2s[n].id
                   /\ \A k \in DOMAIN buffer["server"] : buffer["server"][k].ack_id < c2s[n].id
      BY <3>1 DEF Synced, ClientConnected
    <3>3. ASSUME NEW i \in Missed("client") PROVE i \in Carried(buf) \cup Front(c2s', replaying)
      <4>1. CASE i \in Front(c2s, replaying)
        BY <2>2, <3>1, <4>1
      <4>2. CASE i \in Carried(buffer["client"]) /\ i \notin Front(c2s, replaying)
        <5>1. PICK n \in DOMAIN c2s : c2s[n].kind \in Data /\ c2s[n].id = i
          BY <3>2 DEF Carried, Front
        <5>2. c2s[n].kind = "request"
          BY <5>1, MessageTypes DEF FromClient, Data
        <5>3. n > replaying
          BY <2>2, <3>1, <4>2, <5>1 DEF Front
        <5>4. m.ack_id < i
          BY <1>3, <3>2, <5>1, <5>2, <5>3
        <5>5. i > m.ack_id
          <6>1. NoId \in Int /\ i \in Nat /\ \A k \in Nat : k \in Int
            BY <1>2 DEF NoId
          <6>2. m.ack_id \in ClientIds \cup {NoId}
            BY <1>1
          <6>3. ClientIds \subseteq Nat
            BY <1>2
          <6>4. m.ack_id \in Int
            BY <6>1, <6>2, <6>3
          <6>5. QED
            BY <5>4, <6>1, <6>4
        <5>6. QED
          BY <1>1, <4>2, <5>5
      <4>3. QED
        BY <3>2, <4>1, <4>2
    <3>4. ASSUME NEW n \in DOMAIN c2s', n > replaying, c2s'[n].kind = "request",
                 c2s'[n].id \in Missed("client")
          PROVE  /\ c2s'[n].id > max_received["server"]
                 /\ \A k \in DOMAIN c2s' :
                       k < n /\ c2s'[k].kind = "request" => c2s'[k].id < c2s'[n].id
                 /\ \A k \in DOMAIN s2c' : s2c'[k].ack_id < c2s'[n].id
                 /\ \A k \in DOMAIN buffer["server"] : buffer["server"][k].ack_id < c2s'[n].id
      <4>1. n \in DOMAIN c2s /\ c2s'[n] = c2s[n]
        BY <2>2, <3>4
      <4>2. \A k \in DOMAIN c2s' : c2s'[k].kind = "request" =>
               k \in DOMAIN c2s /\ c2s'[k] = c2s[k]
        BY <2>2
      <4>3. QED
        BY <1>3, <3>2, <3>4, <4>1, <4>2
    <3>5. QED
      BY <2>2, <3>2, <3>3, <3>4
  <2>13. ASSUME NEW last, ClientBehind(last), NEW l,
                \A n \in DOMAIN c2s : n <= l => n <= last
         PROVE  /\ SafeStill(max_received["server"])
                /\ \A k \in DOMAIN s2c' : SafeStill(s2c'[k].ack_id)
                /\ \A k \in DOMAIN outgoing : SafeStill(outgoing[k].ack_id)
                /\ \A k \in DOMAIN buffer["server"] : SafeStill(buffer["server"][k].ack_id)
                /\ \A n \in DOMAIN c2s' : n <= l /\ c2s'[n].kind = "request" =>
                      \A i \in Missed("client") : i <= c2s'[n].id => i \in Front(c2s', n)
    <3>1. /\ Safe("client", max_received["server"])
          /\ \A k \in DOMAIN s2c : Safe("client", s2c[k].ack_id)
          /\ \A k \in DOMAIN outgoing : Safe("client", outgoing[k].ack_id)
          /\ \A k \in DOMAIN buffer["server"] : Safe("client", buffer["server"][k].ack_id)
          /\ \A n \in DOMAIN c2s : n <= last /\ c2s[n].kind = "request" =>
                \A i \in Missed("client") : i <= c2s[n].id => i \in Front(c2s, n)
      BY <2>13 DEF ClientBehind
    <3>2. ASSUME NEW n \in DOMAIN c2s', n <= l, c2s'[n].kind = "request"
          PROVE  \A i \in Missed("client") : i <= c2s'[n].id => i \in Front(c2s', n)
      <4>1. n \in DOMAIN c2s /\ c2s'[n] = c2s[n] /\ n <= last /\ n \in Nat
        BY <2>2, <2>13, <3>2
      <4>2. QED
        BY <2>2, <3>1, <3>2, <4>1
    <3> HIDE DEF SafeStill
    <3>3. QED
      BY <1>3, <1>6, <3>1, <3>2
  <2>14. ClientDown'
    <3> SUFFICES ASSUME phase' = "down"
                 PROVE  /\ Missed("client") \subseteq Carried(buf)
                        /\ ClientBehind(Len(c2s))'
      BY <1>1, <1>2 DEF ClientDown, buf
    <3>1. phase = "down"
      BY <2>1
    <3>2. Missed("client") \subseteq Carried(buffer["client"]) /\ ClientBehind(Len(c2s))
      BY <3>1 DEF Synced, ClientDown
    <3>3. Safe("client", m.ack_id)
      BY <1>3, <3>2 DEF ClientBehind
    <3> DEFINE last == Len(c2s)
               l == Len(c2s')
    <3>4. \A n \in DOMAIN c2s : n <= l => n <= last
      BY <2>2
    <3>5. ClientBehind(last)
      BY <3>2
    <3> HIDE DEF last, l
    <3>6. /\ SafeStill(max_received["server"])
          /\ \A k \in DOMAIN s2c' : SafeStill(s2c'[k].ack_id)
          /\ \A k \in DOMAIN outgoing : SafeStill(outgoing[k].ack_id)
          /\ \A k \in DOMAIN buffer["server"] : SafeStill(buffer["server"][k].ack_id)
          /\ \A n \in DOMAIN c2s' : n <= l /\ c2s'[n].kind = "request" =>
                \A i \in Missed("client") : i <= c2s'[n].id => i \in Front(c2s', n)
      BY <2>13, <3>4, <3>5
    <3>7. ClientBehind(Len(c2s))'
      BY <1>1, <1>2, <3>6 DEF ClientBehind, Safe, l
    <3>8. QED
      BY <2>11, <3>2, <3>3, <3>7
  <2>15. ClientAttempting'
    <3> SUFFICES ASSUME Attempting
                 PROVE  /\ Missed("client") \subseteq Carried(buf)
                        /\ \A p : Pending(p) => ClientBehind(p)'
                        /\ \A q : Answered(q)' =>
                              \A k \in DOMAIN s2c' : k <= q => SafeStill(s2c'[k].ack_id)
      BY <1>1, <1>2, <2>1, <2>3 DEF ClientAttempting, Safe, buf
    <3>1. /\ Missed("client") \subseteq Carried(buffer["client"])
          /\ \A p : Pending(p) => ClientBehind(p)
          /\ \A q : Answered(q) => \A k \in DOMAIN s2c : k <= q => Safe("client", s2c[k].ack_id)
          /\ (\E p : Pending(p)) \/ (\E q : Answered(q))
      BY DEF Synced, ClientAttempting, OneFlush
    <3>2. Safe("client", m.ack_id)
      <4>1. CASE \E p : Pending(p)
        BY <1>3, <3>1, <4>1 DEF ClientBehind
      <4>2. CASE \E q : Answered(q)
        <5>1. PICK q : Answered(q)
          BY <4>2
        <5>2. 1 <= q
          BY <1>3, <5>1 DEF Answered
        <5>3. QED
          BY <1>3, <3>1, <5>1, <5>2
      <4>3. QED
        BY <3>1, <4>1, <4>2
    <3>3. ASSUME NEW p, Pending(p) PROVE ClientBehind(p)'
      <4>1. ClientBehind(p) /\ \A n \in DOMAIN c2s : n <= p => n <= p
        BY <3>1, <3>3
      <4>2. /\ SafeStill(max_received["server"])
            /\ \A k \in DOMAIN s2c' : SafeStill(s2c'[k].ack_id)
            /\ \A k \in DOMAIN outgoing : SafeStill(outgoing[k].ack_id)
            /\ \A k \in DOMAIN buffer["server"] : SafeStill(buffer["server"][k].ack_id)
            /\ \A n \in DOMAIN c2s' : n <= p /\ c2s'[n].kind = "request" =>
                  \A i \in Missed("client") : i <= c2s'[n].id => i \in Front(c2s', n)
        BY <2>13, <4>1
      <4>3. QED
        BY <1>1, <1>2, <4>2 DEF ClientBehind, Safe
    <3>4. ASSUME NEW q, Answered(q)', NEW k \in DOMAIN s2c', k <= q
          PROVE  SafeStill(s2c'[k].ack_id)
      <4>1. /\ Answered(q + 1) /\ q \in Nat
            /\ k + 1 \in DOMAIN s2c /\ s2c'[k] = s2c[k + 1] /\ k \in Nat
        BY <1>3, <1>7, <3>4
      <4>2. k + 1 <= q + 1
        BY <3>4, <4>1
      <4>3. Safe("client", s2c[k + 1].ack_id)
        BY <3>1, <4>1, <4>2
      <4> HIDE DEF SafeStill
      <4>4. QED
        BY <1>6, <4>1, <4>3
    <3>5. QED
      BY <2>11, <3>1, <3>2, <3>3, <3>4
  <2>16. QED
    BY <2>5, <2>6, <2>8, <2>9, <2>10, <2>12, <2>14, <2>15 DEF Synced
<1>10. ASSUME Resynced(m), ~Ready(m) PROVE Synced'
  <2>1. Answered(1) /\ phase = "resyncing" /\ Attempting /\ phase' = "connected"
    BY <1>1, <1>7, <1>10 DEF Resynced, Attempting
  <2>2. /\ Extended(c2s, buf, c2s')
        /\ replaying' = (IF buf # <<>> THEN Len(c2s') ELSE 0) /\ replaying = 0
        /\ \A p : ~Pending(p)
        /\ m.kind = "Ack" /\ m.ack_id = NoId
    BY <1>1, <1>3, <1>10, <2>1 DEF Synced, OneFlush
  <2>3. buf = buffer["client"]
    BY <1>1, <2>2
  <2>4. /\ ~Attempting' /\ Steady' /\ phase' # "handshaking" /\ phase' # "down"
    BY <2>1 DEF Attempting, Steady
  <2>5. HandshakeFirst' /\ ServerPending' /\ ServerAnswered' /\ ClientDown' /\ ClientAttempting'
    BY <2>4 DEF HandshakeFirst, ServerPending, ServerAnswered, ClientDown, ClientAttempting
  <2>6. /\ \A n \in DOMAIN c2s' : \/ n \in DOMAIN c2s /\ c2s'[n] = c2s[n]
                                  \/ \E k \in DOMAIN buf : c2s'[n] = buf[k]
        /\ Carried(buf) \subseteq Carried(c2s')
        /\ DOMAIN c2s' = 1 .. Len(c2s') /\ Len(c2s') \in Nat
    BY <2>2 DEF Extended
  <2>7. OneFlush'
    <3>1. \A k \in DOMAIN buf : buf[k].kind = "request"
      BY <2>3, MessageTypes DEF Requests
    <3>2. \A p : ~Pending(p)'
      <4> SUFFICES ASSUME NEW p, Pending(p)' PROVE FALSE
        OBVIOUS
      <4>1. p \in DOMAIN c2s' /\ c2s'[p].kind = "FlushBufferedMessages"
        BY DEF Pending
      <4>2. ~Pending(p)
        BY <2>2
      <4>3. QED
        BY <2>6, <3>1, <4>1, <4>2 DEF Pending
    <3>3. replaying' <= Len(c2s')
      BY <2>2, <2>6
    <3>4. QED
      BY <2>1, <2>4, <3>2, <3>3 DEF OneFlush
  <2>8. ServerSteady'
    <3> SUFFICES /\ Missed("server")' \subseteq Carried(buffer["server"])
                 /\ After(max_received'["client"])
                 /\ \A n \in DOMAIN buf : After(buf[n].ack_id)
                 /\ \A n \in DOMAIN c2s' : After(c2s'[n].ack_id)
                 /\ \A n \in DOMAIN s2c' : \A i \in Missed("server")' :
                       i <= s2c'[n].id => i \in Front(s2c', n)
                 /\ Missed("server")' \subseteq Carried(s2c')
      BY <1>1, <2>4 DEF ServerSteady, Safe, buf
    <3>1. /\ Missed("server") \subseteq Carried(s2c)
          /\ \A i \in Missed("server") :
                IF i < m.id THEN i \in Front(s2c, 1) ELSE i \in Carried(buffer["server"])
          /\ \A n \in DOMAIN s2c : IF n < 1 THEN s2c[n].id < m.id
                                  ELSE \A i \in Missed("server") :
                                          i <= s2c[n].id => i \in Front(s2c, n)
          /\ max_received["client"] < m.id
          /\ \A n \in DOMAIN buffer["client"] : buffer["client"][n].ack_id < m.id
          /\ \A n \in DOMAIN c2s : c2s[n].ack_id < m.id
      BY <1>3, <2>1 DEF Synced, ServerAnswered
    <3>2. \A n \in DOMAIN s2c : \A i \in Missed("server") : i <= s2c[n].id => i \in Front(s2c, n)
      <4> TAKE n \in DOMAIN s2c
      <4>1. ~(n < 1)
        BY <1>3
      <4>2. QED
        BY <3>1, <4>1
    <3>3. \A i \in Missed("server")' : i > m.id
      <4> TAKE i \in Missed("server")'
      <4>1. i \notin Front(s2c, 1)
        BY <1>3, <1>4
      <4>2. ~(i <= m.id)
        BY <1>2, <1>3, <3>2, <4>1
      <4>3. i \in Nat
        BY <1>2
      <4>4. QED
        BY <1>2, <4>2, <4>3
    <3>4. Missed("server")' \subseteq Carried(buffer["server"])
      <4> SUFFICES ASSUME NEW i \in Missed("server")' PROVE i \in Carried(buffer["server"])
        OBVIOUS
      <4>1. i > m.id /\ i \in Nat /\ i \in Missed("server")
        BY <1>2, <3>3
      <4>2. ~(i < m.id)
        BY <1>2, <4>1
      <4>3. QED
        BY <3>1, <4>1, <4>2
    <3>5. ASSUME NEW A \in ServerIds \cup {NoId}, A < m.id \/ A = m.id PROVE After(A)
      <4>1. A \in Int
        <5>1. NoId \in Int
          BY DEF NoId
        <5>2. QED
          BY <1>2, <5>1
      <4> SUFFICES ASSUME NEW i \in Missed("server")' PROVE i > A
        OBVIOUS
      <4>2. i \in Nat /\ i > m.id
        BY <1>2, <3>3
      <4>3. QED
        BY <1>2, <3>5, <4>1, <4>2
    <3>6. /\ \A n \in DOMAIN c2s : c2s[n].ack_id \in ServerIds \cup {NoId}
          /\ \A n \in DOMAIN buffer["client"] : buffer["client"][n].ack_id \in ServerIds \cup {NoId}
          /\ max_received["client"] \in ServerIds
      BY IdTypes
    <3>7. \A n \in DOMAIN s2c' : \A i \in Missed("server")' :
             i <= s2c'[n].id => i \in Front(s2c', n)
      <4> TAKE n \in DOMAIN s2c'
      <4> TAKE i \in Missed("server")'
      <4>1. n + 1 \in DOMAIN s2c /\ s2c'[n] = s2c[n + 1] /\ (n + 1) - 1 = n
        BY <1>3
      <4>2. i <= s2c'[n].id => i \in Front(s2c, n + 1)
        BY <1>2, <3>2, <4>1
      <4>3. QED
        BY <1>4, <4>1, <4>2
    <3> HIDE DEF After
    <3>8. After(max_received'["client"])
      BY <1>1, <3>1, <3>5, <3>6
    <3>9. \A n \in DOMAIN buf : After(buf[n].ack_id)
      BY <2>3, <3>1, <3>5, <3>6
    <3>10. \A n \in DOMAIN c2s' : After(c2s'[n].ack_id)
      BY <2>6, <3>1, <3>5, <3>6, <3>9
    <3>11. Missed("server")' \subseteq Carried(s2c')
      BY <1>2, <1>5, <3>1
    <3>12. QED
      BY <3>4, <3>7, <3>8, <3>9, <3>10, <3>11
  <2>9. ClientConnected'
    <3>1. Missed("client")' \subseteq Carried(buf) /\ Missed("client")' \subseteq Carried(c2s')
      BY <1>2, <2>1, <2>3, <2>6 DEF Synced, ClientAttempting
    <3>2. buf = <<>> => Carried(buf) = {}
      BY DEF Carried, Front
    <3>3. \A n \in DOMAIN c2s' : ~(n > replaying' /\ c2s'[n].id \in Missed("client")')
      <4>1. CASE buf = <<>>
        BY <3>1, <3>2, <4>1
      <4>2. CASE buf # <<>>
        BY <2>2, <2>6, <4>2
      <4>3. QED
        BY <4>1, <4>2
    <3>4. QED
      BY <3>1, <3>3 DEF ClientConnected, buf
  <2>10. QED
    BY <2>5, <2>7, <2>8, <2>9 DEF Synced
<1>11. QED
  BY <1>9, <1>10
-----------------------------------------------------------------------------
(* Nothing is lost: a break, and a new connection.                         *)

(* After a break in good order both ends have everything they have         *)
(* received up to there, and keep the rest.                                *)
LEMMA DisconnectSynced == ASSUME TypeOK, Synced, Disconnect, orderly' PROVE Synced'
<1>1. /\ phase = "connected" /\ phase' = "down" /\ replaying = 0 /\ replaying' = 0
      /\ UNCHANGED <<buffer, max_received, handshake, flush, sent, handled>>
  BY DEF Disconnect
<1>2. PICK cut \in 0 .. Len(c2s) : c2s' = SubSeq(c2s, 1, cut)
  BY DisconnectTyped
<1>3. PICK end \in 0 .. Len(s2c) : s2c' = SubSeq(s2c, 1, end)
  BY DisconnectTyped
<1>4. \A n \in DOMAIN outgoing' : \E k \in DOMAIN s2c : outgoing'[n] = s2c[k]
  BY DisconnectTyped
<1>5. /\ \A n \in DOMAIN c2s' : n \in DOMAIN c2s /\ c2s'[n] = c2s[n] /\ n \in Nat
                                /\ Front(c2s', n) = Front(c2s, n)
      /\ DOMAIN c2s \subseteq Nat \ {0} /\ Len(c2s') \in Nat
  <2> DEFINE u == SubSeq(c2s, 1, cut)
  <2>1. c2s \in Seq(FromClient) /\ FromClient \in SUBSET Envelope
    BY MessageSets DEF TypeOK, QueuesTyped
  <2>2. /\ Len(u) = cut /\ DOMAIN u = 1 .. cut /\ DOMAIN c2s = 1 .. Len(c2s) /\ Len(c2s) \in Nat
        /\ \A k \in 1 .. cut : u[k] = c2s[k]
        /\ \A k \in 0 .. cut : Front(u, k) = Front(c2s, k)
    BY <2>1, PrefixOfQueue
  <2> HIDE DEF u
  <2>3. c2s' = u
    BY <1>2 DEF u
  <2>4. QED
    BY <2>2, <2>3
<1>6. /\ \A n \in DOMAIN s2c' : n \in DOMAIN s2c /\ s2c'[n] = s2c[n]
                                /\ Front(s2c', n) = Front(s2c, n)
  <2> DEFINE u == SubSeq(s2c, 1, end)
  <2>1. s2c \in Seq(FromServer) /\ FromServer \in SUBSET Envelope
    BY MessageSets DEF TypeOK, QueuesTyped
  <2>2. /\ Len(u) = end /\ DOMAIN u = 1 .. end /\ DOMAIN s2c = 1 .. Len(s2c) /\ Len(s2c) \in Nat
        /\ \A k \in 1 .. end : u[k] = s2c[k]
        /\ \A k \in 0 .. end : Front(u, k) = Front(s2c, k)
    BY <2>1, PrefixOfQueue
  <2> HIDE DEF u
  <2>3. s2c' = u
    BY <1>3 DEF u
  <2>4. QED
    BY <2>2, <2>3
<1>7. /\ Missed("client")' = Missed("client") /\ Missed("server")' = Missed("server")
      /\ \A A : Safe("client", A)' = Safe("client", A)
      /\ \A A : Safe("server", A)' = Safe("server", A)
  BY <1>1 DEF Missed, Safe
<1>8. Steady /\ Steady' /\ ~Attempting'
  BY <1>1 DEF Steady, Attempting
<1>9. OneFlush'
  <2>1. \A p : ~Pending(p)'
    BY <1>5, <1>8 DEF Pending, Synced, OneFlush
  <2>2. QED
    BY <1>1, <1>5, <1>8, <2>1 DEF OneFlush
<1>10. HandshakeFirst' /\ ServerPending' /\ ServerAnswered' /\ ClientConnected' /\ ClientAttempting'
  BY <1>1, <1>8 DEF HandshakeFirst, ServerPending, ServerAnswered, ClientConnected, ClientAttempting
<1>11. ServerSteady'
  <2>1. /\ Missed("server") \subseteq Carried(buffer["server"])
        /\ Safe("server", max_received["client"])
        /\ \A n \in DOMAIN buffer["client"] : Safe("server", buffer["client"][n].ack_id)
        /\ \A n \in DOMAIN c2s : Safe("server", c2s[n].ack_id)
        /\ \A n \in DOMAIN s2c : \A i \in Missed("server") :
              i <= s2c[n].id => i \in Front(s2c, n)
    BY <1>8 DEF Synced, ServerSteady
  <2>2. /\ \A n \in DOMAIN c2s' : \A i \in Missed("server") : i > c2s'[n].ack_id
        /\ \A n \in DOMAIN s2c' : \A i \in Missed("server") :
              i <= s2c'[n].id => i \in Front(s2c', n)
    BY <1>5, <1>6, <2>1 DEF Safe
  <2>3. QED
    BY <1>1, <1>7, <2>1, <2>2 DEF ServerSteady, Safe
<1>12. ClientDown'
  <2>1. /\ Missed("client") \subseteq Carried(c2s)
        /\ Missed("client") \subseteq Carried(buffer["client"]) \cup Front(c2s, 0)
        /\ \A n \in DOMAIN c2s :
              n > 0 /\ c2s[n].kind = "request" /\ c2s[n].id \in Missed("client") =>
                 /\ c2s[n].id > max_received["server"]
                 /\ \A k \in DOMAIN c2s :
                       k < n /\ c2s[k].kind = "request" => c2s[k].id < c2s[n].id
                 /\ \A k \in DOMAIN s2c : s2c[k].ack_id < c2s[n].id
                 /\ \A k \in DOMAIN buffer["server"] : buffer["server"][k].ack_id < c2s[n].id
    BY <1>1 DEF Synced, ClientConnected
  <2>2. Front(c2s, 0) = {}
    BY <1>5 DEF Front
  <2>3. ASSUME NEW i \in Missed("client")
        PROVE  /\ i > max_received["server"]
               /\ \A k \in DOMAIN s2c : s2c[k].ack_id < i
               /\ \A k \in DOMAIN buffer["server"] : buffer["server"][k].ack_id < i
               /\ \A n \in DOMAIN c2s : c2s[n].kind = "request" =>
                     (i <= c2s[n].id => i \in Front(c2s, n))
    <3>1. PICK l \in DOMAIN c2s : c2s[l].kind \in Data /\ c2s[l].id = i
      BY <2>1 DEF Carried, Front
    <3>2. c2s[l].kind = "request" /\ l > 0 /\ l \in Nat
      BY <1>5, <3>1, MessageTypes DEF FromClient, Data
    <3>3. /\ i > max_received["server"]
          /\ \A k \in DOMAIN c2s : k < l /\ c2s[k].kind = "request" => c2s[k].id < i
          /\ \A k \in DOMAIN s2c : s2c[k].ack_id < i
          /\ \A k \in DOMAIN buffer["server"] : buffer["server"][k].ack_id < i
      BY <2>1, <3>1, <3>2
    <3>4. ASSUME NEW n \in DOMAIN c2s, c2s[n].kind = "request", i <= c2s[n].id
          PROVE  i \in Front(c2s, n)
      <4>1. CASE l <= n
        BY <3>1, <4>1 DEF Front
      <4>2. CASE ~(l <= n)
        <5>1. n < l
          BY <1>5, <3>2, <4>2
        <5>2. c2s[n].id < i
          BY <3>3, <3>4, <5>1
        <5>3. c2s[n].id \in Nat /\ i \in Nat
          BY <3>1, IdTypes
        <5>4. QED
          BY <3>4, <5>2, <5>3
      <4>3. QED
        BY <4>1, <4>2
    <3>5. QED
      BY <3>3, <3>4
  <2>4. \A A \in ClientIds \cup {NoId} : (\A i \in Missed("client") : A < i) =>
           \A i \in Missed("client") : i > A
    <3>1. Missed("client") \subseteq Nat /\ ClientIds \subseteq Nat
      BY IdTypes DEF Missed
    <3>2. NoId \in Int /\ \A k \in Nat : k \in Int
      BY DEF NoId
    <3>3. QED
      BY <3>1, <3>2
  <2>5. /\ \A k \in DOMAIN s2c : s2c[k].ack_id \in ClientIds \cup {NoId}
        /\ \A k \in DOMAIN buffer["server"] : buffer["server"][k].ack_id \in ClientIds \cup {NoId}
    BY IdTypes
  <2> DEFINE After(A) == \A i \in Missed("client") : i > A
  <2>6. /\ After(max_received["server"])
        /\ \A k \in DOMAIN s2c : After(s2c[k].ack_id)
        /\ \A k \in DOMAIN buffer["server"] : After(buffer["server"][k].ack_id)
    BY <2>3, <2>4, <2>5
  <2> HIDE DEF After
  <2>7. /\ \A k \in DOMAIN s2c' : After(s2c'[k].ack_id)
        /\ \A k \in DOMAIN outgoing' : After(outgoing'[k].ack_id)
    BY <1>4, <1>6, <2>6
  <2>8. \A n \in DOMAIN c2s' : n <= Len(c2s') /\ c2s'[n].kind = "request" =>
           \A i \in Missed("client") : i <= c2s'[n].id => i \in Front(c2s', n)
    BY <1>5, <2>3
  <2> USE DEF After
  <2>9. ClientBehind(Len(c2s))'
    BY <1>1, <1>7, <2>6, <2>7, <2>8 DEF ClientBehind, Safe
  <2>10. QED
    BY <1>1, <1>7, <2>1, <2>2, <2>9 DEF ClientDown
<1>13. QED
  BY <1>9, <1>10, <1>11, <1>12 DEF Synced

LEMMA ReconnectSynced == ASSUME TypeOK, Synced, Reconnect PROVE Synced'
<1> DEFINE h == next_message_id["client"]
           hello == Msg(h, "RemoteStarted", NoId, NoId)
           ask == Msg(h + 1, "FlushBufferedMessages", NoId, max_received["client"])
           last == Len(c2s) + 2
<1>1. /\ phase = "down" /\ phase' = "handshaking"
      /\ c2s' = c2s \o <<hello, ask>>
      /\ s2c' = outgoing /\ outgoing' = <<>>
      /\ handshake' = h /\ flush' = h + 1
      /\ h \in Nat /\ h \notin ClientIds /\ h + 1 \notin ClientIds
      /\ hello \in Envelope /\ hello.kind = "RemoteStarted" /\ hello.id = h
      /\ hello.ack_id = NoId
      /\ ask \in Envelope /\ ask.kind = "FlushBufferedMessages" /\ ask.id = h + 1
      /\ ask.ack_id = max_received["client"]
      /\ UNCHANGED <<buffer, max_received, replaying, orderly, sent, handled>>
  BY ReconnectTyped
<1> HIDE DEF h, hello, ask
<1>2. /\ c2s \in Seq(Envelope) /\ <<hello, ask>> \in Seq(Envelope)
  BY <1>1, MessageSets, SeqMonotonic DEF TypeOK, QueuesTyped
<1>3. /\ Len(c2s) \in Nat /\ DOMAIN c2s = 1 .. Len(c2s) /\ DOMAIN c2s' = 1 .. last
      /\ Len(c2s') = last
      /\ \A n \in 1 .. Len(c2s) : c2s'[n] = c2s[n]
      /\ c2s'[Len(c2s) + 1] = hello /\ c2s'[last] = ask
      /\ \A n \in Nat : Front(c2s, n) \subseteq Front(c2s', n)
  <2> DEFINE r == <<hello, ask>>
  <2>1. r[1] = hello /\ r[2] = ask /\ Len(r) = 2 /\ r \in Seq(Envelope)
    BY <1>2
  <2> HIDE DEF r
  <2>2. /\ Len(c2s) \in Nat /\ DOMAIN c2s = 1 .. Len(c2s)
        /\ DOMAIN (c2s \o r) = 1 .. Len(c2s) + Len(r)
        /\ Len(c2s \o r) = Len(c2s) + Len(r)
        /\ \A n \in 1 .. Len(c2s) : (c2s \o r)[n] = c2s[n]
        /\ \A n \in 1 .. Len(r) : (c2s \o r)[Len(c2s) + n] = r[n]
    <3>1. PICK S : S = Envelope
      OBVIOUS
    <3>2. S \in SUBSET Envelope /\ c2s \in Seq(S) /\ r \in Seq(S)
      BY <1>2, <2>1, <3>1
    <3>3. QED
      BY <3>2, JoinOfQueues
  <2>3. c2s' = c2s \o r
    BY <1>1 DEF r
  <2>4. \A n \in Nat : Front(c2s, n) \subseteq Front(c2s', n)
    BY <1>2, <2>1, <2>3, FrontOfJoin
  <2>5. 1 \in 1 .. Len(r) /\ 2 \in 1 .. Len(r)
    BY <2>1
  <2>6. QED
    BY <2>1, <2>2, <2>3, <2>4, <2>5
<1>4. \A n \in DOMAIN c2s' :
         \/ n \in DOMAIN c2s /\ c2s'[n] = c2s[n]
         \/ n = Len(c2s) + 1 /\ c2s'[n] = hello
         \/ n = last /\ c2s'[n] = ask
  BY <1>3
<1>5. Steady /\ ~Steady' /\ Attempting' /\ replaying' = 0
  BY <1>1 DEF Steady, Attempting, Synced, OneFlush
<1>6. \A p : Pending(p)' <=> p = last
  <2>1. \A p : ~Pending(p)
    BY <1>5 DEF Synced, OneFlush
  <2>2. last \in DOMAIN c2s'
    BY <1>3
  <2>3. QED
    BY <1>1, <1>3, <1>4, <2>1, <2>2 DEF Pending
<1>7. \A q : ~Answered(q)'
  <2>1. \A n \in DOMAIN outgoing : outgoing[n].responding_to \in ClientIds \cup {NoId}
    BY IdTypes
  <2>2. h + 1 # NoId
    BY <1>1 DEF NoId
  <2>3. QED
    BY <1>1, <2>1, <2>2 DEF Answered
<1>8. OneFlush'
  <2>1. \A n \in DOMAIN c2s : c2s[n].id \in ClientIds
    BY IdTypes
  <2>2. \A n \in DOMAIN c2s' : c2s'[n].kind = "RemoteStarted" => c2s'[n].id # h + 1
    BY <1>1, <1>4, <2>1
  <2>3. replaying' <= Len(c2s')
    BY <1>3, <1>5
  <2>4. \A p : Pending(p)' => c2s'[p].id = flush'
    BY <1>1, <1>3, <1>6
  <2>5. phase' # "abandoned"
    BY <1>1
  <2>6. QED
    BY <1>1, <1>5, <1>6, <1>7, <2>2, <2>3, <2>4, <2>5 DEF OneFlush
<1>9. HandshakeFirst'
  <2> DEFINE n == Len(c2s) + 1
  <2>1. n \in DOMAIN c2s' /\ n < last /\ c2s'[n].kind = "RemoteStarted" /\ c2s'[n].id = handshake'
    BY <1>1, <1>3
  <2>2. \A p : Pending(p)' => \E k \in DOMAIN c2s' : k < p /\ c2s'[k].kind = "RemoteStarted"
                                                     /\ c2s'[k].id = handshake'
    BY <1>6, <2>1
  <2>3. QED
    BY <1>7, <2>2 DEF HandshakeFirst
<1>10. ServerSteady' /\ ServerAnswered' /\ ClientConnected' /\ ClientDown'
  BY <1>1, <1>5, <1>7 DEF ServerSteady, ServerAnswered, ClientConnected, ClientDown
<1>11. /\ Missed("client")' = Missed("client") /\ Missed("server")' = Missed("server")
       /\ Missed("client") \subseteq Nat /\ Missed("server") \subseteq Nat
  BY <1>1, IdTypes DEF Missed
<1>12. ServerPending'
  <2>1. /\ Missed("server") \subseteq Carried(buffer["server"])
        /\ Safe("server", max_received["client"])
        /\ \A n \in DOMAIN c2s : Safe("server", c2s[n].ack_id)
    BY <1>5 DEF Synced, ServerSteady
  <2>2. Safe("server", NoId)
    BY <1>11 DEF Safe, NoId
  <2>3. \A n \in DOMAIN c2s' : \A i \in Missed("server") : i > c2s'[n].ack_id
    BY <1>1, <1>4, <2>1, <2>2 DEF Safe
  <2>4. QED
    BY <1>1, <1>11, <2>1, <2>3 DEF ServerPending, Safe
<1>13. ClientAttempting'
  <2>1. Missed("client") \subseteq Carried(buffer["client"]) /\ ClientBehind(Len(c2s))
    BY <1>1 DEF Synced, ClientDown
  <2>2. /\ \A i \in Missed("client") : i > max_received["server"]
        /\ \A k \in DOMAIN outgoing : \A i \in Missed("client") : i > outgoing[k].ack_id
        /\ \A k \in DOMAIN buffer["server"] :
              \A i \in Missed("client") : i > buffer["server"][k].ack_id
        /\ \A n \in DOMAIN c2s : n <= Len(c2s) /\ c2s[n].kind = "request" =>
              \A i \in Missed("client") : i <= c2s[n].id => i \in Front(c2s, n)
    BY <2>1 DEF ClientBehind, Safe
  <2>3. ASSUME NEW n \in DOMAIN c2s', c2s'[n].kind = "request"
        PROVE  \A i \in Missed("client") : i <= c2s'[n].id => i \in Front(c2s', n)
    <3>1. n \in DOMAIN c2s /\ c2s'[n] = c2s[n] /\ n \in Nat /\ n <= Len(c2s)
      BY <1>1, <1>3, <1>4, <2>3
    <3>2. QED
      BY <1>3, <2>2, <2>3, <3>1
  <2>4. DOMAIN outgoing' = {}
    BY <1>1
  <2>5. \A p : Pending(p)' => ClientBehind(p)'
    BY <1>1, <1>11, <2>2, <2>3, <2>4 DEF ClientBehind, Safe
  <2>6. QED
    BY <1>1, <1>7, <1>11, <2>1, <2>5 DEF ClientAttempting
<1>14. QED
  BY <1>8, <1>9, <1>10, <1>12, <1>13 DEF Synced

LEMMA InitSynced == ASSUME Init PROVE Synced
<1>1. /\ phase = "connected" /\ replaying = 0 /\ max_received = [e \in End |-> 0]
      /\ Missed("client") = {} /\ Missed("server") = {}
      /\ Steady /\ ~Attempting
      /\ c2s = <<Msg(0, "RemoteStarted", NoId, NoId)>>
  BY DEF Init, Missed, End, Steady, Attempting
<1>2. OneFlush
  <2>1. \A p : ~Pending(p)
    BY <1>1 DEF Pending, Msg
  <2>2. Len(c2s) = 1
    BY <1>1
  <2>3. QED
    BY <1>1, <2>1, <2>2 DEF OneFlush
<1>3. HandshakeFirst /\ ServerPending /\ ServerAnswered /\ ClientDown /\ ClientAttempting
  BY <1>1 DEF HandshakeFirst, ServerPending, ServerAnswered, ClientDown, ClientAttempting
<1>4. ServerSteady /\ ClientConnected
  BY <1>1 DEF ServerSteady, ClientConnected, Safe
<1>5. QED
  BY <1>2, <1>3, <1>4 DEF Synced
-----------------------------------------------------------------------------
(* Nothing is lost: background sends.                                      *)

(* The steps that are no sends of the server. *)
Elsewhere ==
    \/ ClientRequest
    \/ ServerReceive
    \/ ClientReceive
    \/ ResyncTimeout
    \/ Disconnect
    \/ Reconnect

LEMMA ElsewhereHolds ==
    ASSUME TypeOK, Elsewhere
    PROVE  /\ UNCHANGED <<allocated, unqueued>>
           /\ sent["client"] \subseteq sent'["client"]
           /\ ClientIds \subseteq ClientIds' /\ ServerIds \subseteq ServerIds'
<1>1. /\ UNCHANGED <<allocated, unqueued>>
      /\ ~ClientRequest => UNCHANGED sent
  BY DEF Elsewhere, ClientRequest, ServerReceive, ClientReceive, ResyncTimeout, Disconnect,
         Reconnect, serverVars, history
<1>2. CASE ClientRequest
  <2> DEFINE i == next_message_id["client"]
  <2>1. /\ next_message_id' = [next_message_id EXCEPT !["client"] = i + 1]
        /\ sent' = [sent EXCEPT !["client"] = @ \cup {i}]
    BY <1>2 DEF ClientRequest
  <2>2. /\ i \in Nat /\ next_message_id'["client"] = i + 1
        /\ next_message_id'["server"] = next_message_id["server"]
        /\ sent["client"] \subseteq sent'["client"]
    BY <2>1 DEF TypeOK, CountersTyped, IdsTyped, End
  <2>3. QED
    BY <1>1, <2>2 DEF ClientIds, ServerIds
<1>3. CASE ServerReceive
  BY <1>1, <1>3, ServerReceiveTyped DEF ServerReceive
<1>4. CASE ClientReceive
  BY <1>1, <1>4, ClientReceiveTyped DEF ClientReceive
<1>5. CASE ResyncTimeout \/ Disconnect
  <2>1. UNCHANGED <<next_message_id, allocated, sent>>
    BY <1>1, <1>5 DEF ResyncTimeout, Disconnect
  <2>2. QED
    BY <1>1, <2>1, NothingGiven
<1>6. CASE Reconnect
  <2> DEFINE h == next_message_id["client"]
  <2>1. /\ next_message_id' = [next_message_id EXCEPT !["client"] = h + 2]
        /\ sent' = sent
    BY <1>6 DEF Reconnect
  <2>2. /\ h \in Nat /\ next_message_id'["client"] = h + 2
        /\ next_message_id'["server"] = next_message_id["server"]
    BY <2>1 DEF TypeOK, CountersTyped, End
  <2>3. QED
    BY <1>1, <2>1, <2>2 DEF ClientIds, ServerIds
<1>7. QED
  BY <1>2, <1>3, <1>4, <1>5, <1>6 DEF Elsewhere

LEMMA HeldStaysTyped ==
    ASSUME HeldTyped, UNCHANGED <<allocated, unqueued>>,
           sent["client"] \subseteq sent'["client"],
           ClientIds \subseteq ClientIds', ServerIds \subseteq ServerIds'
    PROVE  HeldTyped'
<1>1. Answers \subseteq Answers'
  BY MessagesKept
<1>2. QED
  BY <1>1 DEF HeldTyped

(* A held id below one that was given out is not the newest any more. *)
LEMMA Overtaken ==
    ASSUME TypeOK, HeldTyped, NEW a \in unqueued,
           next_message_id'["server"] = next_message_id["server"] + 1
    PROVE  ~NotOvertaken(a)'
<1>1. a.id \in Nat /\ a.id < next_message_id["server"] /\ next_message_id["server"] \in Nat
  BY DEF HeldTyped, Answers, FromServer, ServerIds, TypeOK, CountersTyped, End
<1>2. QED
  BY <1>1 DEF NotOvertaken

LEMMA SeenTypes == ASSUME TypeOK PROVE Seen \subseteq ServerIds \cup {NoId}
BY IdTypes DEF Seen

(* Nobody sees the newest held id unless a message leaves the server. *)
LEMMA UnseenElsewhere == ASSUME TypeOK, Held, Elsewhere PROVE NewestUnseen'
<1> SUFFICES ASSUME NEW a \in unqueued', NotOvertaken(a)'
             PROVE  a.id \in Carried(buffer'["server"]) /\ \A i \in Seen' : i < a.id
  BY DEF NewestUnseen
<1>1. a \in unqueued /\ HeldTyped
  BY ElsewhereHolds DEF Held
<1>2. a.id \in Nat
  BY <1>1 DEF HeldTyped, Answers, FromServer, Envelope
<1>3. next_message_id'["server"] # next_message_id["server"] + 1
  BY <1>1, Overtaken
<1> SUFFICES ASSUME NotOvertaken(a) => \A i \in Seen : i < a.id
             PROVE  /\ next_message_id'["server"] = next_message_id["server"]
                    /\ NotOvertaken(a) => 
                          /\ \A i \in Carried(buffer["server"]) :
                                i = a.id => i \in Carried(buffer'["server"])
                          /\ \A i \in Seen' : i \in Seen \cup {NoId}
  <2>1. NotOvertaken(a) =>
           a.id \in Carried(buffer["server"]) /\ \A i \in Seen : i < a.id
    BY <1>1 DEF Held, NewestUnseen
  <2>2. NoId < a.id
    BY <1>2 DEF NoId
  <2>3. QED
    BY <2>1, <2>2 DEF NotOvertaken
<1>4. CASE ClientRequest
  <2>1. next_message_id'["server"] = next_message_id["server"]
    BY <1>4 DEF ClientRequest, TypeOK, CountersTyped, End
  <2>2. PICK m \in Envelope :
           /\ m.ack_id = max_received["client"]
           /\ UNCHANGED <<max_received, s2c, outgoing>>
           /\ buffer'["server"] = buffer["server"]
           /\ Appended(buffer["client"], m, buffer'["client"])
           /\ IF Linked THEN Appended(c2s, m, c2s') ELSE c2s' = c2s
    BY <1>4, ClientRequestQueues
  <2>3. /\ \A n \in DOMAIN c2s' : \/ n \in DOMAIN c2s /\ c2s'[n] = c2s[n]
                                  \/ c2s'[n] = m
        /\ \A n \in DOMAIN buffer'["client"] :
              \/ n \in DOMAIN buffer["client"] /\ buffer'["client"][n] = buffer["client"][n]
              \/ buffer'["client"][n] = m
    BY <2>2 DEF Appended
  <2>4. QED
    BY <2>1, <2>2, <2>3 DEF Seen
<1>5. CASE ServerReceive
  <2> DEFINE m == c2s[1]
             buf == Unacknowledged(buffer["server"], m.ack_id)
  <2>1. /\ ServerSkips(m) \/ ServerGreets(m, buf) \/ ServerFlushes(m, buf)
           \/ ServerServes(m, buf)
    BY <1>5, ServerReceiveKinds
  <2>2. /\ Advanced(c2s, c2s')
        /\ buffer'["client"] = buffer["client"]
        /\ max_received'["client"] = max_received["client"]
        /\ \A i \in Carried(buffer["server"]) : i > m.ack_id => i \in Carried(buffer'["server"])
    BY <1>5, ServerReceiveQueues
  <2> HIDE DEF m, buf
  <2>3. ~ReadByServer(buf)
    <3>1. next_message_id \in [End -> Nat \ {0}]
      BY DEF TypeOK, CountersTyped
    <3>2. QED
      BY <1>3, <3>1 DEF ReadByServer, End
  <2>4. UNCHANGED <<next_message_id, s2c, outgoing>>
    BY <2>1, <2>3 DEF ServerSkips, ServerGreets, ServerFlushes, ServerServes
  <2>5. m.ack_id \in Seen /\ \A n \in DOMAIN c2s' : c2s'[n].ack_id \in Seen
    BY <2>2 DEF Seen, Advanced, m
  <2>6. Seen' \subseteq Seen
    BY <2>2, <2>4, <2>5 DEF Seen
  <2>7. ASSUME NotOvertaken(a) PROVE a.id > m.ack_id
    <3>1. m.ack_id < a.id
      BY <2>5, <2>7
    <3>2. m.ack_id \in ServerIds \cup {NoId} /\ ServerIds \subseteq Nat
      BY <2>5, SeenTypes DEF ServerIds
    <3>3. QED
      BY <1>2, <3>1, <3>2 DEF NoId
  <2>8. QED
    BY <2>2, <2>4, <2>6, <2>7
<1>6. CASE ClientReceive
  <2> DEFINE m == s2c[1]
             buf == buffer'["client"]
  <2>1. /\ Advanced(s2c, s2c')
        /\ outgoing' = outgoing
        /\ buffer'["server"] = buffer["server"]
        /\ max_received'["client"] \in {max_received["client"], m.id}
        /\ buf \in Seq(Requests)
        /\ \A n \in DOMAIN buf : \E k \in DOMAIN buffer["client"] : buf[n] = buffer["client"][k]
        /\ \/ Extended(c2s, buf, c2s')
           \/ c2s' = c2s
           \/ \E e \in Envelope : Appended(c2s, e, c2s') /\ e.ack_id = NoId
    BY <1>6, ClientReceiveQueues
  <2>2. next_message_id'["server"] = next_message_id["server"]
    <3>1. next_message_id \in [End -> Nat \ {0}]
      BY DEF TypeOK, CountersTyped
    <3>2. QED
      BY <1>6, <3>1, ClientReceiveKinds DEF ClientSkips, ClientGreets, ClientTakes, End
  <2>3. /\ m.id \in Seen /\ \A n \in DOMAIN s2c' : s2c'[n].id \in Seen
        /\ \A n \in DOMAIN buf : buf[n].ack_id \in Seen
    BY <2>1 DEF Seen, Advanced
  <2>4. \A n \in DOMAIN c2s' : c2s'[n].ack_id \in Seen \cup {NoId}
    <3>1. \A n \in DOMAIN c2s : c2s[n].ack_id \in Seen
      BY DEF Seen
    <3> HIDE DEF buf
    <3>2. CASE Extended(c2s, buf, c2s')
      BY <2>3, <3>1, <3>2 DEF Extended
    <3>3. CASE c2s' = c2s
      BY <3>1, <3>3
    <3>4. CASE \E e \in Envelope : Appended(c2s, e, c2s') /\ e.ack_id = NoId
      BY <3>1, <3>4 DEF Appended
    <3>5. QED
      BY <2>1, <3>2, <3>3, <3>4
  <2>5. \A i \in Seen' : i \in Seen \cup {NoId}
    BY <2>1, <2>3, <2>4 DEF Seen
  <2>6. QED
    BY <2>1, <2>2, <2>5
<1>7. CASE ResyncTimeout
  <2>1. UNCHANGED <<next_message_id, buffer, max_received, c2s, s2c, outgoing>>
    BY <1>7 DEF ResyncTimeout, serverVars
  <2>2. QED
    BY <2>1 DEF Seen
<1>8. CASE Disconnect
  <2>1. UNCHANGED <<next_message_id, buffer, max_received>>
    BY <1>8 DEF Disconnect
  <2>2. /\ \A n \in DOMAIN c2s' : n \in DOMAIN c2s /\ c2s'[n] = c2s[n]
        /\ \A n \in DOMAIN s2c' : n \in DOMAIN s2c /\ s2c'[n] = s2c[n]
        /\ \A n \in DOMAIN outgoing' : \E k \in DOMAIN s2c : outgoing'[n] = s2c[k]
    <3>1. PICK cut \in 0 .. Len(c2s) : c2s' = SubSeq(c2s, 1, cut)
      BY <1>8, DisconnectTyped
    <3>2. PICK end \in 0 .. Len(s2c) : s2c' = SubSeq(s2c, 1, end)
      BY <1>8, DisconnectTyped
    <3>3. c2s \in Seq(FromClient) /\ s2c \in Seq(FromServer)
      BY DEF TypeOK, QueuesTyped
    <3>4. /\ \A n \in DOMAIN c2s' : n \in DOMAIN c2s /\ c2s'[n] = c2s[n]
          /\ \A n \in DOMAIN s2c' : n \in DOMAIN s2c /\ s2c'[n] = s2c[n]
      BY <3>1, <3>2, <3>3, PrefixOfQueue, MessageSets
    <3>5. QED
      BY <1>8, <3>4, DisconnectTyped
  <2>3. QED
    BY <2>1, <2>2 DEF Seen
<1>9. CASE Reconnect
  <2> DEFINE h == next_message_id["client"]
             hello == Msg(h, "RemoteStarted", NoId, NoId)
             ask == Msg(h + 1, "FlushBufferedMessages", NoId, max_received["client"])
  <2>1. /\ c2s' = c2s \o <<hello, ask>>
        /\ s2c' = outgoing /\ outgoing' = <<>>
        /\ hello \in Envelope /\ hello.ack_id = NoId
        /\ ask \in Envelope /\ ask.ack_id = max_received["client"]
        /\ UNCHANGED <<buffer, max_received>>
    BY <1>9, ReconnectTyped
  <2>2. next_message_id'["server"] = next_message_id["server"]
    BY <1>9 DEF Reconnect, TypeOK, CountersTyped, End
  <2> HIDE DEF hello, ask
  <2> DEFINE two == <<hello, ask>>
  <2>3. two \in Seq(Envelope) /\ c2s \in Seq(Envelope)
        /\ \A j \in DOMAIN two : two[j] \in {hello, ask}
    BY <2>1, MessageSets, SeqMonotonic DEF TypeOK, QueuesTyped
  <2> HIDE DEF two
  <2>4. Extended(c2s, two, c2s')
    BY <2>1, <2>3, Behind DEF two
  <2>5. \A n \in DOMAIN c2s' : c2s'[n].ack_id \in Seen \cup {NoId}
    <3>1. max_received["client"] \in Seen /\ \A n \in DOMAIN c2s : c2s[n].ack_id \in Seen
      BY DEF Seen
    <3>2. QED
      BY <2>1, <2>3, <2>4, <3>1 DEF Extended
  <2>6. \A i \in Seen' : i \in Seen \cup {NoId}
    BY <2>1, <2>5 DEF Seen
  <2>7. QED
    BY <2>1, <2>2, <2>6
<1>10. QED
  BY <1>4, <1>5, <1>6, <1>7, <1>8, <1>9 DEF Elsewhere

LEMMA InitHeld == ASSUME Init PROVE Held /\ HeldSound
BY DEF Init, Held, HeldTyped, NewestUnseen, HeldSound

LEMMA HeldStep == ASSUME TypeOK, Held, [Next]_vars PROVE Held'
<1>1. HeldTyped /\ NewestUnseen
  BY DEF Held
<1>2. CASE Elsewhere
  BY <1>1, <1>2, ElsewhereHolds, HeldStaysTyped, UnseenElsewhere DEF Held
<1>3. CASE ServerSends
  <2>1. PICK k, r : ServerSend(k, r) \/ BeginServerSend(k, r)
    BY <1>3 DEF ServerSends
  <2>2. /\ sent'["client"] = sent["client"] /\ ClientIds' = ClientIds
        /\ next_message_id'["server"] = next_message_id["server"] + 1
        /\ unqueued' = unqueued
    BY <2>1 DEF ServerSend, BeginServerSend, ClientIds, TypeOK, CountersTyped, IdsTyped, End
  <2>3. ServerIds \subseteq ServerIds'
    BY <2>1, ServerSendEmits, BeginServerSendTyped
  <2>4. Answers \subseteq Answers'
    BY <2>2, <2>3, MessagesKept
  <2>5. \A a \in allocated' : a.ack_id \in ClientIds' \cup {NoId}
    <3>1. CASE ServerSend(k, r)
      BY <1>1, <2>2, <3>1 DEF HeldTyped, ServerSend
    <3>2. CASE BeginServerSend(k, r)
      <4>1. allocated' = allocated \cup {Msg(next_message_id["server"], k, r, NoId)}
        BY <3>2 DEF BeginServerSend
      <4>2. QED
        BY <1>1, <2>2, <4>1 DEF HeldTyped, Msg
    <3>3. QED
      BY <2>1, <3>1, <3>2
  <2>6. HeldTyped'
    BY <1>1, <2>2, <2>4, <2>5 DEF HeldTyped
  <2>7. NewestUnseen'
    BY <1>1, <2>2, Overtaken DEF NewestUnseen
  <2>8. QED
    BY <2>6, <2>7 DEF Held
<1>4. ASSUME NEW a \in allocated, StampServerSend(a) PROVE Held'
  <2>1. /\ allocated' = (allocated \ {a}) \cup {Buffered("server", a)}
        /\ UNCHANGED <<next_message_id, buffer, max_received, c2s, s2c, outgoing,
                       unqueued, sent>>
    BY <1>4 DEF StampServerSend
  <2>2. a \in Envelope /\ max_received["server"] \in ClientIds
    BY DEF TypeOK, IdsTyped, Unsent
  <2>3. Buffered("server", a).ack_id \in ClientIds
    BY <2>2 DEF Buffered, Envelope
  <2>4. ServerIds' = ServerIds /\ ClientIds' = ClientIds
    BY <1>4, StampServerSendTyped
  <2>5. Answers' = Answers
    BY <2>1, <2>4 DEF Answers, FromServer
  <2>6. HeldTyped'
    BY <1>1, <2>1, <2>3, <2>4, <2>5 DEF HeldTyped
  <2>7. NewestUnseen'
    BY <1>1, <2>1 DEF NewestUnseen, NotOvertaken, Seen
  <2>8. QED
    BY <2>6, <2>7 DEF Held
<1>5. ASSUME NEW a \in allocated, BufferServerSend(a) PROVE Held'
  <2>1. /\ allocated' = allocated \ {a} /\ unqueued' = unqueued \cup {a}
        /\ buffer' = [buffer EXCEPT !["server"] = Append(@, a)]
        /\ UNCHANGED <<next_message_id, max_received, c2s, s2c, outgoing, sent>>
    BY <1>5 DEF BufferServerSend
  <2>2. /\ ClientIds' = ClientIds /\ ServerIds \subseteq ServerIds'
        /\ a.id \notin ServerIds /\ a \in Answers'
    BY <1>1, <1>5, BufferServerSendTyped
  <2>3. Answers \subseteq Answers'
    BY <2>1, <2>2, MessagesKept
  <2>4. \A b \in unqueued : b.id \in ServerIds
    BY <1>1 DEF HeldTyped, Answers, FromServer
  <2>5. HeldTyped'
    BY <1>1, <2>1, <2>2, <2>3, <2>4 DEF HeldTyped
  <2>6. /\ buffer'["client"] = buffer["client"]
        /\ Appended(buffer["server"], a, buffer'["server"])
    <3>1. buffer["server"] \in Seq(Envelope) /\ DOMAIN buffer = End
      BY MessageSets, SeqMonotonic DEF TypeOK, QueuesTyped
    <3>2. buffer'["client"] = buffer["client"] /\ buffer'["server"] = Append(buffer["server"], a)
      BY <2>1, <3>1 DEF End
    <3>3. a \in Envelope
      BY DEF TypeOK, IdsTyped, Unsent
    <3>4. QED
      BY <3>1, <3>2, <3>3, OneBehind
  <2>7. Seen' = Seen
    BY <2>1, <2>6 DEF Seen
  <2>8. ASSUME NotOvertaken(a), NEW i \in Seen PROVE i < a.id
    <3>1. i \in ServerIds \cup {NoId} /\ a.id \in Nat /\ i # a.id
      BY <2>2, <2>8, SeenTypes DEF TypeOK, IdsTyped, Unsent, Envelope, NoId
    <3>2. i \in ServerIds => i \in Nat /\ i < next_message_id["server"]
      BY DEF ServerIds
    <3>3. next_message_id["server"] = a.id + 1
      BY <2>8 DEF NotOvertaken
    <3>4. QED
      BY <3>1, <3>2, <3>3 DEF NoId
  <2>9. a.id \in Carried(buffer'["server"])
        /\ Carried(buffer["server"]) \subseteq Carried(buffer'["server"])
    <3>1. a.kind \in Data
      BY DEF TypeOK, IdsTyped, Unsent, Data
    <3>2. QED
      BY <2>6, <3>1 DEF Appended
  <2>10. NewestUnseen'
    BY <1>1, <2>1, <2>7, <2>8, <2>9 DEF NewestUnseen, NotOvertaken
  <2>11. QED
    BY <2>5, <2>10 DEF Held
<1>6. ASSUME NEW a \in unqueued, QueueServerSend(a) PROVE Held'
  <2>1. /\ unqueued' = unqueued \ {a} /\ TransmitServer(<<a>>)
        /\ UNCHANGED <<next_message_id, buffer, max_received, c2s, allocated>>
    BY <1>6 DEF QueueServerSend
  <2>2. ServerIds' = ServerIds /\ ClientIds' = ClientIds /\ sent'["client"] = sent["client"]
    BY <1>6, QueueServerSendEmits DEF QueueServerSend, TypeOK, IdsTyped, End
  <2>3. Answers \subseteq Answers'
    BY <2>2, MessagesKept
  <2>4. HeldTyped'
    BY <1>1, <2>1, <2>2, <2>3 DEF HeldTyped
  <2>5. /\ s2c \in Seq(Envelope) /\ outgoing \in Seq(Envelope) /\ a \in Envelope
        /\ \A b \in unqueued : b.id \in Nat /\ b.id < next_message_id["server"]
    BY <1>1, MessageSets, SeqMonotonic
       DEF TypeOK, QueuesTyped, HeldTyped, Answers, FromServer, ServerIds
  <2>6. /\ \A n \in DOMAIN s2c' : \/ n \in DOMAIN s2c /\ s2c'[n] = s2c[n]
                                  \/ s2c'[n] = a
        /\ \A n \in DOMAIN outgoing' : \/ n \in DOMAIN outgoing /\ outgoing'[n] = outgoing[n]
                                       \/ outgoing'[n] = a
    <3>1. \/ s2c' = s2c \o <<a>> /\ outgoing' = outgoing
          \/ s2c' = s2c /\ outgoing' = outgoing \o <<a>>
      BY <2>1 DEF TransmitServer
    <3>2. Appended(s2c, a, s2c \o <<a>>) /\ Appended(outgoing, a, outgoing \o <<a>>)
      BY <2>5, OneBehind
    <3>3. QED
      BY <3>1, <3>2 DEF Appended
  <2>7. \A i \in Seen' : i \in Seen \cup {a.id}
    BY <2>1, <2>6 DEF Seen
  <2>8. ASSUME NEW b \in unqueued', NotOvertaken(b)' PROVE a.id < b.id
    <3>1. b \in unqueued /\ b # a /\ next_message_id["server"] = b.id + 1
      BY <2>1, <2>8 DEF NotOvertaken
    <3>2. b.id # a.id
      BY <1>1, <3>1 DEF HeldTyped
    <3>3. QED
      BY <2>5, <3>1, <3>2
  <2>9. NewestUnseen'
    <3> SUFFICES ASSUME NEW b \in unqueued', NotOvertaken(b)'
                 PROVE  b.id \in Carried(buffer["server"]) /\ \A i \in Seen' : i < b.id
      BY <2>1 DEF NewestUnseen
    <3>1. b \in unqueued /\ NotOvertaken(b)
      BY <2>1 DEF NotOvertaken
    <3>2. QED
      BY <1>1, <2>7, <2>8, <3>1 DEF NewestUnseen
  <2>10. QED
    BY <2>4, <2>9 DEF Held
<1>7. CASE UNCHANGED vars
  <2>1. ClientIds' = ClientIds /\ ServerIds' = ServerIds
    BY <1>7, NothingGiven DEF vars
  <2>2. HeldTyped'
    BY <1>1, <1>7, <2>1, HeldStaysTyped DEF vars
  <2>3. NewestUnseen'
    BY <1>1, <1>7 DEF vars, NewestUnseen, NotOvertaken, Seen
  <2>4. QED
    BY <2>2, <2>3 DEF Held
<1>8. QED
  BY <1>2, <1>3, <1>4, <1>5, <1>6, <1>7 DEF Next, Elsewhere, ContinueServerSend

(* An acknowledgement that was sound stays so, however late it leaves. *)
LEMMA AckStaysSound ==
    ASSUME TypeOK, Synced, Elsewhere, orderly',
           NEW A \in ClientIds \cup {NoId}, AckSound(A)
    PROVE  AckSound(A)'
<1>1. Missed("client") \subseteq Nat /\ A \in Int
  BY DEF Missed, TypeOK, IdsTyped, End, ClientIds, NoId
<1>2. /\ phase \in {"connected", "down", "handshaking", "resyncing"}
      /\ replaying \in Nat
  BY DEF Synced, OneFlush, TypeOK, CountersTyped
<1>3. /\ DOMAIN c2s = 1 .. Len(c2s) /\ Len(c2s) \in Nat
  BY MessageTypes
<1>4. CASE ClientRequest
  <2>1. PICK m \in Envelope :
           /\ m.kind = "request"
           /\ \A B \in ClientIds \cup {NoId} : B < m.id
           /\ sent' = [sent EXCEPT !["client"] = @ \cup {m.id}]
           /\ UNCHANGED <<phase, replaying, handled>>
           /\ IF Linked THEN Appended(c2s, m, c2s') ELSE c2s' = c2s
    BY <1>4, ClientRequestQueues
  <2>2. Missed("client")' \subseteq Missed("client") \cup {m.id} /\ m.id > A /\ A < m.id
    BY <1>1, <2>1 DEF Missed, TypeOK, IdsTyped, End, Envelope
  <2>3. \A n \in DOMAIN c2s' : (n \in DOMAIN c2s /\ c2s'[n] = c2s[n]) \/ c2s'[n] = m
    BY <2>1 DEF Appended
  <2>4. \A p : Pending(p)' => Pending(p)
    BY <2>1, <2>3 DEF Pending
  <2>5. ASSUME NEW n \in DOMAIN c2s', phase = "connected",
               n > replaying, c2s'[n].kind = "request", c2s'[n].id \in Missed("client")'
        PROVE  A < c2s'[n].id
    <3>1. CASE c2s'[n] = m
      BY <2>2, <3>1
    <3>2. CASE n \in DOMAIN c2s /\ c2s'[n] = c2s[n]
      <4>1. c2s[n].id \in Missed("client") \/ c2s[n].id = m.id
        BY <2>2, <2>5, <3>2
      <4>2. QED
        BY <2>2, <2>5, <3>2, <4>1 DEF AckSound
    <3>3. QED
      BY <2>3, <3>1, <3>2
  <2>6. Attempting' = Attempting
    BY <2>1 DEF Attempting
  <2>7. ASSUME Safe("client", A) PROVE Safe("client", A)'
    BY <2>2, <2>7 DEF Safe
  <2>8. QED
    BY <2>1, <2>4, <2>5, <2>6, <2>7 DEF AckSound
<1>5. CASE ServerReceive
  <2>1. /\ Advanced(c2s, c2s')
        /\ replaying' = IF replaying = 0 THEN 0 ELSE replaying - 1
        /\ UNCHANGED <<phase, sent>>
        /\ handled["server"] \subseteq handled'["server"]
    BY <1>5, ServerReceiveQueues
  <2>2. Missed("client")' \subseteq Missed("client")
    BY <2>1 DEF Missed
  <2>3. /\ \A n \in DOMAIN c2s' : n \in Nat /\ n + 1 \in DOMAIN c2s /\ c2s'[n] = c2s[n + 1]
    BY <1>3, <2>1 DEF Advanced
  <2>4. ASSUME NEW n \in DOMAIN c2s', n > replaying' PROVE n + 1 > replaying
    BY <1>2, <2>1, <2>3, <2>4
  <2>5. \A p : Pending(p)' => Pending(p + 1)
    BY <2>3 DEF Pending
  <2>6. Attempting' = Attempting
    BY <2>1 DEF Attempting
  <2>7. Safe("client", A) => Safe("client", A)'
    BY <2>2 DEF Safe
  <2>8. ASSUME NEW n \in DOMAIN c2s', phase = "connected",
               n > replaying', c2s'[n].kind = "request", c2s'[n].id \in Missed("client")'
        PROVE  A < c2s'[n].id
    <3>1. /\ n + 1 \in DOMAIN c2s /\ c2s'[n] = c2s[n + 1] /\ n + 1 > replaying
          /\ c2s[n + 1].id \in Missed("client")
      BY <2>2, <2>3, <2>4, <2>8
    <3>2. QED
      BY <2>8, <3>1 DEF AckSound
  <2>9. QED
    BY <2>1, <2>5, <2>6, <2>7, <2>8 DEF AckSound
<1>6. CASE ClientReceive
  <2> DEFINE m == s2c[1]
             buf == buffer'["client"]
  <2>1. /\ Advanced(s2c, s2c') /\ sent' = sent /\ handled'["server"] = handled["server"]
        /\ buf \in Seq(Requests)
        /\ m.ack_id = NoId => buf = buffer["client"]
        /\ IF Resynced(m) /\ ~Ready(m)
           THEN /\ phase' = "connected" /\ Extended(c2s, buf, c2s')
                /\ replaying' = IF buf # <<>> THEN Len(c2s') ELSE replaying
           ELSE /\ phase' = IF Ready(m) /\ phase = "handshaking" THEN "resyncing" ELSE phase
                /\ replaying' = replaying
                /\ \/ c2s' = c2s
                   \/ \E e \in Envelope : Appended(c2s, e, c2s') /\ e.kind = "Ack"
    BY <1>6, ClientReceiveQueues
  <2>2. Missed("client")' = Missed("client") /\ Safe("client", A)' = Safe("client", A)
    BY <2>1 DEF Missed, Safe
  <2>3. CASE Resynced(m) /\ ~Ready(m)
    <3>1. /\ Answered(1) /\ Attempting
      BY <2>1, <2>3 DEF Advanced, Answered, Resynced, Attempting, m
    <3>2. /\ m.ack_id = NoId /\ replaying = 0
          /\ Missed("client") \subseteq Carried(buffer["client"])
      BY <2>3, <3>1 DEF Synced, OneFlush, ClientAttempting, Resynced, m
    <3>3. ASSUME buf = <<>> PROVE Missed("client") = {}
      BY <2>1, <3>2, <3>3 DEF Carried, Front
    <3>4. ASSUME buf # <<>>, NEW n \in DOMAIN c2s' PROVE ~(n > replaying')
      <4>1. replaying' = Len(c2s') /\ Extended(c2s, buf, c2s')
        BY <2>1, <2>3, <3>4
      <4> HIDE DEF buf
      <4>2. Len(c2s') \in Nat /\ n \in 1 .. Len(c2s')
        BY <4>1 DEF Extended
      <4>3. QED
        BY <4>1, <4>2
    <3>5. phase' = "connected" /\ ~Attempting'
      BY <2>1, <2>3 DEF Attempting
    <3> HIDE DEF buf
    <3>6. QED
      BY <2>2, <3>3, <3>4, <3>5 DEF AckSound
  <2>4. CASE ~(Resynced(m) /\ ~Ready(m))
    <3>1. /\ phase' = IF Ready(m) /\ phase = "handshaking" THEN "resyncing" ELSE phase
          /\ replaying' = replaying
          /\ \A n \in DOMAIN c2s' : (n \in DOMAIN c2s /\ c2s'[n] = c2s[n])
                                    \/ c2s'[n].kind = "Ack"
      BY <2>1, <2>4 DEF Appended
    <3>2. /\ phase' = "connected" <=> phase = "connected"
          /\ phase' = "down" <=> phase = "down"
          /\ Attempting' <=> Attempting
      BY <1>2, <3>1 DEF Attempting
    <3>3. \A p : Pending(p)' => Pending(p)
      BY <3>1 DEF Pending
    <3>4. ASSUME NEW n \in DOMAIN c2s', c2s'[n].kind = "request"
          PROVE  n \in DOMAIN c2s /\ c2s'[n] = c2s[n]
      BY <3>1, <3>4
    <3>5. QED
      BY <2>2, <3>1, <3>2, <3>3, <3>4 DEF AckSound
  <2>5. QED
    BY <2>3, <2>4
<1>7. CASE ResyncTimeout
  BY <1>7, ResyncTimeoutTyped
<1>8. CASE Disconnect
  <2>1. /\ phase = "connected" /\ phase' = "down" /\ replaying = 0
        /\ UNCHANGED <<sent, handled>>
    BY <1>8 DEF Disconnect
  <2>2. Missed("client")' = Missed("client")
    BY <2>1 DEF Missed
  <2>3. ASSUME NEW i \in Missed("client") PROVE i > A
    <3>1. i \in Carried(c2s)
      BY <2>1, <2>3 DEF Synced, ClientConnected
    <3>2. PICK n \in DOMAIN c2s : i = c2s[n].id /\ c2s[n].kind \in Data
      BY <3>1 DEF Carried, Front
    <3>3. c2s[n].kind = "request"
      BY <3>2, MessageTypes DEF FromClient, Data
    <3>4. n > replaying
      BY <1>3, <2>1
    <3>5. A < i
      BY <2>1, <2>3, <3>2, <3>3, <3>4 DEF AckSound
    <3>6. QED
      BY <1>1, <3>5
  <2>4. QED
    BY <2>1, <2>2, <2>3 DEF AckSound, Safe
<1>9. CASE Reconnect
  <2>1. /\ phase = "down" /\ phase' = "handshaking"
        /\ UNCHANGED <<sent, handled>>
    BY <1>9, ReconnectTyped
  <2>2. Missed("client")' = Missed("client")
    BY <2>1 DEF Missed
  <2>3. QED
    BY <2>1, <2>2 DEF AckSound, Safe
<1>10. QED
  BY <1>4, <1>5, <1>6, <1>7, <1>8, <1>9 DEF Elsewhere

(* The server's sends do not concern it. *)
LEMMA AckSoundKept ==
    ASSUME UNCHANGED <<c2s, phase, replaying, handled>>, sent'["client"] = sent["client"],
           NEW A, AckSound(A)
    PROVE  AckSound(A)'
<1>1. /\ Missed("client")' = Missed("client") /\ Attempting' = Attempting
      /\ \A p : Pending(p)' <=> Pending(p)
  BY DEF Missed, Attempting, Pending
<1>2. QED
  BY <1>1 DEF AckSound, Safe

(* What the server acknowledges now is sound. *)
LEMMA ReceivedSound == ASSUME TypeOK, Synced PROVE AckSound(max_received["server"]) /\ AckSound(NoId)
<1>1. /\ Missed("client") \subseteq Nat /\ max_received["server"] \in Nat
      /\ \A n \in DOMAIN c2s : c2s[n].id \in Nat
  BY IdTypes DEF Missed, TypeOK, IdsTyped, End
<1>2. AckSound(max_received["server"])
  <2>1. phase = "connected" => \A n \in DOMAIN c2s :
           n > replaying /\ c2s[n].kind = "request" /\ c2s[n].id \in Missed("client")
              => max_received["server"] < c2s[n].id
    BY <1>1 DEF Synced, ClientConnected
  <2>2. phase = "down" \/ (Attempting /\ \E p : Pending(p)) =>
           Safe("client", max_received["server"])
    BY DEF Synced, ClientDown, ClientAttempting, ClientBehind
  <2>3. QED
    BY <2>1, <2>2 DEF AckSound
<1>3. AckSound(NoId)
  BY <1>1 DEF AckSound, Safe, NoId
<1>4. QED
  BY <1>2, <1>3

LEMMA HeldSoundStep ==
    ASSUME TypeOK, Held, Synced, HeldSound, orderly', [Next]_vars
    PROVE  HeldSound'
<1>1. CASE Elsewhere
  <2>1. \A a \in allocated \cup unqueued : a.ack_id \in ClientIds \cup {NoId}
    BY DEF Held, HeldTyped, Answers, FromServer
  <2>2. allocated' = allocated /\ unqueued' = unqueued
    BY <1>1, ElsewhereHolds
  <2>3. \A a \in allocated \cup unqueued : AckSound(a.ack_id)'
    BY <1>1, <2>1, AckStaysSound DEF HeldSound
  <2>4. QED
    BY <2>2, <2>3 DEF HeldSound
<1>2. ASSUME ServerSends \/ ContinueServerSend
      PROVE  /\ UNCHANGED <<c2s, phase, replaying, handled>>
             /\ sent'["client"] = sent["client"]
             /\ \A A : AckSound(A) => AckSound(A)'
  <2>1. UNCHANGED <<c2s, phase, replaying, handled>> /\ sent'["client"] = sent["client"]
    BY <1>2 DEF ServerSends, ContinueServerSend, ServerSend, BeginServerSend, StampServerSend,
                BufferServerSend, QueueServerSend, clientVars, history, TypeOK, IdsTyped, End
  <2>2. QED
    BY <2>1, AckSoundKept
<1>3. CASE ServerSends
  <2>1. PICK k, r : ServerSend(k, r) \/ BeginServerSend(k, r)
    BY <1>3 DEF ServerSends
  <2> DEFINE m == Msg(next_message_id["server"], k, r, NoId)
  <2>2. allocated' \subseteq allocated \cup {m} /\ unqueued' = unqueued
    BY <2>1 DEF ServerSend, BeginServerSend
  <2>3. m.ack_id = NoId
    BY DEF Msg
  <2> HIDE DEF m
  <2>4. QED
    BY <1>2, <1>3, <2>2, <2>3, ReceivedSound DEF HeldSound
<1>4. CASE ContinueServerSend
  <2>1. ASSUME NEW a \in allocated, StampServerSend(a) PROVE HeldSound'
    <3> DEFINE m == Buffered("server", a)
    <3>1. allocated' = (allocated \ {a}) \cup {m} /\ unqueued' = unqueued
      BY <2>1 DEF StampServerSend
    <3>2. m.ack_id = max_received["server"]
      BY DEF Buffered, TypeOK, IdsTyped, Unsent, Envelope
    <3> HIDE DEF m
    <3>3. QED
      BY <1>2, <1>4, <3>1, <3>2, ReceivedSound DEF HeldSound
  <2>2. ASSUME NEW a \in allocated, BufferServerSend(a) PROVE HeldSound'
    <3>1. allocated' = allocated \ {a} /\ unqueued' = unqueued \cup {a}
      BY <2>2 DEF BufferServerSend
    <3>2. QED
      BY <1>2, <1>4, <2>2, <3>1 DEF HeldSound
  <2>3. ASSUME NEW a \in unqueued, QueueServerSend(a) PROVE HeldSound'
    <3>1. allocated' = allocated /\ unqueued' = unqueued \ {a}
      BY <2>3 DEF QueueServerSend
    <3>2. QED
      BY <1>2, <1>4, <3>1 DEF HeldSound
  <2>4. QED
    BY <1>4, <2>1, <2>2, <2>3 DEF ContinueServerSend
<1>5. CASE UNCHANGED vars
  <2>1. \A A : AckSound(A) => AckSound(A)'
    BY <1>5, AckSoundKept DEF vars
  <2>2. QED
    BY <1>5, <2>1 DEF vars, HeldSound
<1>6. QED
  BY <1>1, <1>3, <1>4, <1>5 DEF Next, Elsewhere

(* What enters the buffer is not sent yet. *)
LEMMA BufferedSynced ==
    ASSUME TypeOK, Synced, NEW a \in allocated, BufferServerSend(a), AckSound(a.ack_id)
    PROVE  Synced'
<1>1. /\ buffer' = [buffer EXCEPT !["server"] = Append(@, a)]
      /\ UNCHANGED <<max_received, c2s, s2c, outgoing, phase, handshake, flush,
                     replaying, sent, handled>>
  BY DEF BufferServerSend, clientVars, history
<1>2. /\ buffer'["client"] = buffer["client"]
      /\ Carried(buffer["server"]) \subseteq Carried(buffer'["server"])
      /\ \A n \in DOMAIN buffer'["server"] :
            \/ n \in DOMAIN buffer["server"] /\ buffer'["server"][n] = buffer["server"][n]
            \/ buffer'["server"][n] = a
  <2>1. buffer["server"] \in Seq(Envelope) /\ DOMAIN buffer = End /\ a \in Envelope
    BY MessageSets, SeqMonotonic DEF TypeOK, QueuesTyped, IdsTyped, Unsent
  <2>2. buffer'["client"] = buffer["client"] /\ buffer'["server"] = Append(buffer["server"], a)
    BY <1>1, <2>1 DEF End
  <2>3. Appended(buffer["server"], a, buffer'["server"])
    BY <2>1, <2>2, OneBehind
  <2>4. QED
    BY <2>2, <2>3 DEF Appended
<1>3. /\ Steady' = Steady /\ Attempting' = Attempting
      /\ \A p : Pending(p)' = Pending(p)
      /\ \A q : Answered(q)' = Answered(q) /\ Greeted(q)' = Greeted(q)
      /\ Missed("client")' = Missed("client") /\ Missed("server")' = Missed("server")
  BY <1>1 DEF Steady, Attempting, Pending, Answered, Greeted, Missed
<1>4. \A A : Safe("client", A)' = Safe("client", A) /\ Safe("server", A)' = Safe("server", A)
  BY <1>3 DEF Safe
<1>5. OneFlush' /\ HandshakeFirst'
  <2>1. OneFlush /\ HandshakeFirst /\ replaying <= Len(c2s')
    BY <1>1 DEF Synced, OneFlush
  <2>2. QED
    BY <1>1, <1>3, <2>1, FlushKept DEF Pending
<1>6. ServerSteady'
  BY <1>1, <1>2, <1>3, <1>4 DEF Synced, ServerSteady, Safe
<1>7. ServerPending'
  BY <1>1, <1>2, <1>3, <1>4 DEF Synced, ServerPending, Safe
<1>8. ServerAnswered'
  BY <1>1, <1>2, <1>3 DEF Synced, ServerAnswered
<1>9. ClientConnected'
  BY <1>1, <1>2, <1>3 DEF Synced, ClientConnected, AckSound
<1>10. ASSUME NEW last, ClientBehind(last), Safe("client", a.ack_id)
       PROVE  ClientBehind(last)'
  BY <1>1, <1>2, <1>3, <1>4, <1>10 DEF ClientBehind, Safe
<1>11. ClientDown' /\ ClientAttempting'
  BY <1>1, <1>2, <1>3, <1>4, <1>10 DEF Synced, ClientDown, ClientAttempting, AckSound, Safe
<1>12. QED
  BY <1>5, <1>6, <1>7, <1>8, <1>9, <1>11 DEF Synced

-----------------------------------------------------------------------------
(* The theorems.                                                           *)

LEMMA SyncedStep == ASSUME IInv, [Next]_vars PROVE IInv'
<1>1. TypeOK /\ TypeOK' /\ Held /\ Held'
  BY TypedStep, HeldStep DEF IInv
<1> SUFFICES ASSUME orderly' PROVE Synced' /\ HeldSound'
  BY <1>1 DEF IInv
<1>2. orderly
  BY DEF Next, ClientRequest, ServerSends, ServerSend, BeginServerSend, ContinueServerSend,
         StampServerSend, BufferServerSend, QueueServerSend, ServerReceive, ClientReceive,
         ResyncTimeout, Disconnect, Reconnect, history, vars
<1>3. Synced /\ HeldSound
  BY <1>2 DEF IInv
<1>4. HeldSound'
  BY <1>1, <1>3, HeldSoundStep
<1>5. CASE Elsewhere
  <2>1. CASE ClientRequest
    BY <1>1, <1>3, <1>4, <2>1, ClientRequestSynced
  <2>2. CASE ServerReceive
    BY <1>1, <1>3, <1>4, <2>2, ServerReceiveSynced
  <2>3. CASE ClientReceive
    BY <1>1, <1>3, <1>4, <2>3, ClientReceiveSynced
  <2>4. CASE ResyncTimeout
    BY <1>1, <2>4, ResyncTimeoutTyped
  <2>5. CASE Disconnect
    BY <1>1, <1>3, <1>4, <2>5, DisconnectSynced
  <2>6. CASE Reconnect
    BY <1>1, <1>3, <1>4, <2>6, ReconnectSynced
  <2>7. QED
    BY <1>5, <2>1, <2>2, <2>3, <2>4, <2>5, <2>6 DEF Elsewhere
<1>6. CASE ServerSends
  <2>1. PICK k, r : ServerSend(k, r) \/ BeginServerSend(k, r)
    BY <1>6 DEF ServerSends
  <2>2. CASE ServerSend(k, r)
    <3>1. PICK m \in Answers' : /\ Emits(m) /\ m.ack_id = max_received["server"]
                                /\ \A i \in ServerIds : i < m.id
      BY <1>1, <2>2, ServerSendEmits
    <3>2. \A i \in Seen : i < m.id
      <4>1. m.id \in Nat
        BY <3>1 DEF Answers, FromServer, Envelope
      <4>2. QED
        BY <1>1, <3>1, <4>1, SeenTypes DEF NoId
    <3>3. AckSound(m.ack_id)
      BY <1>1, <1>3, <3>1, ReceivedSound
    <3>4. QED
      BY <1>1, <1>3, <1>4, <3>1, <3>2, <3>3, EmittedSynced
  <2>3. CASE BeginServerSend(k, r)
    <3>1. UNCHANGED <<c2s, s2c, outgoing, buffer, max_received, phase, handshake, flush,
                      replaying, sent, handled>>
      BY <2>3 DEF BeginServerSend, clientVars, history
    <3>2. QED
      BY <1>3, <1>4, <3>1, SameSynced
  <2>4. QED
    BY <2>1, <2>2, <2>3
<1>7. CASE ContinueServerSend
  <2>1. ASSUME NEW a \in allocated, StampServerSend(a) PROVE Synced'
    <3>1. UNCHANGED <<c2s, s2c, outgoing, buffer, max_received, phase, handshake, flush,
                      replaying, sent, handled>>
      BY <2>1 DEF StampServerSend, clientVars, history
    <3>2. QED
      BY <1>3, <3>1, SameSynced
  <2>2. ASSUME NEW a \in allocated, BufferServerSend(a) PROVE Synced'
    BY <1>1, <1>3, <2>2, BufferedSynced DEF HeldSound
  <2>3. ASSUME NEW a \in unqueued, QueueServerSend(a) PROVE Synced'
    <3>1. a \in Answers' /\ Emits(a) /\ \A i \in Seen : i < a.id
      BY <1>1, <2>3, QueueServerSendEmits
    <3>2. AckSound(a.ack_id)
      BY <1>3 DEF HeldSound
    <3>3. QED
      BY <1>1, <1>3, <3>1, <3>2, EmittedSynced
  <2>4. QED
    BY <1>4, <1>7, <2>1, <2>2, <2>3 DEF ContinueServerSend
<1>8. CASE UNCHANGED vars
  BY <1>3, <1>4, <1>8, SameSynced DEF vars
<1>9. QED
  BY <1>4, <1>5, <1>6, <1>7, <1>8 DEF Next, Elsewhere

LEMMA InitIInv == ASSUME Init PROVE IInv
BY ChannelAssumption, InitTyped, InitSynced, InitHeld DEF IInv

(* Message, buffer and id types of both ends and of the connection: every  *)
(* acknowledgement is of an id the peer has given out, and no id on the    *)
(* wire is one that a background send holds (send_buffered).               *)
THEOREM TypeOKTheorem == Spec => []TypeOK
<1>1. IInv => TypeOK
  BY DEF IInv
<1>2. IInv /\ [Next]_vars => IInv'
  BY SyncedStep
<1> QED
  BY InitIInv, <1>1, <1>2, PTL DEF Spec

(* Nothing given to send_buffered is lost, however many requests,          *)
(* notifications, breaks and background sends there are, as long as each   *)
(* break finds the last resync over and its replay read, and no send       *)
(* overtakes another (handle_message, resync).                             *)
THEOREM LossNeedsOverlapTheorem == Spec => []LossNeedsOverlap
<1>1. IInv => LossNeedsOverlap
  <2> SUFFICES ASSUME TypeOK, Synced PROVE NoMessageLost
    BY DEF IInv, LossNeedsOverlap
  <2>1. \A q : Carried(q) \subseteq Ids(q)
    BY DEF Carried, Front, Ids
  <2>2. phase \in {"connected", "down", "handshaking", "resyncing"}
    BY DEF Synced, OneFlush, TypeOK, CountersTyped
  <2>3. Missed("client") \subseteq Carried(c2s) \cup Carried(buffer["client"])
    BY <2>2 DEF Synced, ClientConnected, ClientDown, ClientAttempting, Attempting
  <2>4. Missed("server") \subseteq Carried(s2c) \cup Carried(buffer["server"])
    <3>1. CASE Steady
      BY <3>1 DEF Synced, ServerSteady
    <3>2. CASE Attempting
      BY <3>2 DEF Synced, OneFlush, ServerPending, ServerAnswered
    <3>3. QED
      BY <2>2, <3>1, <3>2 DEF Steady, Attempting
  <2>5. QED
    BY <2>1, <2>3, <2>4 DEF NoMessageLost, Missed
<1>2. IInv /\ [Next]_vars => IInv'
  BY SyncedStep
<1> QED
  BY InitIInv, <1>1, <1>2, PTL DEF Spec

(* When the answer to the flush completes resync, the client has handled   *)
(* every message with a smaller id than that answer.                       *)
THEOREM CaughtUpTheorem == Spec => CaughtUpAfterResync
<1>1. ASSUME IInv, [Next]_vars
      PROVE  [orderly /\ phase = "resyncing" /\ phase' = "connected" =>
                {i \in sent["server"] : i < Head(s2c).id} \subseteq handled'["client"]]_vars
  <2> SUFFICES ASSUME orderly, phase = "resyncing", phase' = "connected", Next,
                      NEW i \in sent["server"], i < Head(s2c).id
               PROVE  i \in handled'["client"]
    BY <1>1
  <2>1. TypeOK /\ Synced
    BY <1>1 DEF IInv
  <2>2. ClientReceive
    <3>1. phase' # phase
      OBVIOUS
    <3>2. ~ClientRequest /\ ~ServerSends /\ ~ServerReceive
      BY <3>1 DEF ClientRequest, ServerSends, ServerSend, BeginServerSend, ServerReceive, clientVars
    <3>3. ~ContinueServerSend
      BY <3>1 DEF ContinueServerSend, StampServerSend, BufferServerSend, QueueServerSend,
                  clientVars
    <3>4. ~ResyncTimeout /\ ~Disconnect /\ ~Reconnect
      BY DEF ResyncTimeout, Disconnect, Reconnect
    <3>5. QED
      BY <3>2, <3>3, <3>4 DEF Next
  <2>3. /\ handled["client"] \subseteq handled'["client"] /\ Resynced(s2c[1])
        /\ 1 \in DOMAIN s2c
    BY <2>1, <2>2, ClientReceiveQueues DEF Advanced
  <2>4. Answered(1) /\ Attempting
    BY <2>3 DEF Answered, Resynced, Attempting
  <2>5. Head(s2c) = s2c[1]
    <3>1. s2c # <<>> /\ s2c \in Seq(FromServer)
      BY <2>1, <2>2 DEF ClientReceive, TypeOK, QueuesTyped
    <3>2. QED
      BY <3>1, TailOfQueue, MessageSets
  <2>6. ASSUME i \in Missed("server") PROVE FALSE
    <3>1. i \in Front(s2c, 1)
      BY <2>1, <2>4, <2>5, <2>6 DEF Synced, ServerAnswered
    <3>2. PICK j \in DOMAIN s2c : j <= 1 /\ i = s2c[j].id
      BY <3>1 DEF Front
    <3>3. j = 1 /\ i \in Nat
      BY <2>1, <3>2, MessageTypes, IdTypes
    <3>4. QED
      BY <2>5, <3>2, <3>3
  <2>7. QED
    BY <2>3, <2>6 DEF Missed
<1>2. IInv /\ [Next]_vars => IInv'
  BY SyncedStep
<1> QED
  BY InitIInv, <1>1, <1>2, PTL DEF Spec, CaughtUpAfterResync

-----------------------------------------------------------------------------
(* The client that keeps the connection, RemoteClient, for any limits: the *)
(* type invariant, the agreement of the two heartbeat counts, the single   *)
(* owner of the connection, and that a client that gave up stays so.       *)
(*                                                                         *)
(* None of the invariants is inductive alone.  Ownership says who may hold *)
(* the tasks of a connection: the heartbeat exists only for an established *)
(* connection (or one in the grace period of shutdown), the connector only *)
(* before, and a proxy that found no server only in a handshake.           *)

(* Who holds the connection in which state. *)
Ownership ==
    /\ state = "Connecting" <=> connector \in NewSteps
    /\ heartbeat # "none" => connector = "none" /\ (CanReconnect(state) \/ state = "None")
    /\ link = "notRunning" => connector = "handshaking"
    /\ closing # "no" => state \in Over

(* Only a client with missed heartbeats counts any. *)
CountOwned == ~CanReconnect(state) => missed_heartbeats = 0

ConnectionInv ==
    /\ ConnectionTypeOK
    /\ OneConnectionOwner
    /\ Ownership
    /\ HeartbeatCountAgrees
    /\ CountOwned

StateUnlessOver == state \in Over => state' \in Over

LEMMA InitConnectionInv == ConnectionInit => ConnectionInv
<1> SUFFICES ASSUME ConnectionInit PROVE ConnectionInv
  OBVIOUS
<1>1. ConnectionTypeOK
  <2>1. /\ missed_heartbeats \in 0 .. MAX_MISSED_HEARTBEATS
        /\ missed \in 0 .. MAX_MISSED_HEARTBEATS
        /\ attempts \in 0 .. MAX_RECONNECT_ATTEMPTS
    BY RemoteClientAssumption DEF ConnectionInit
  <2>2. /\ keepalive_timer \in BOOLEAN
        /\ activity \in BOOLEAN
        /\ panicked \in BOOLEAN
    BY DEF ConnectionInit
  <2> QED
    BY <2>1, <2>2 DEF ConnectionInit, ConnectionTypeOK, State, NewSteps
<1>2. OneConnectionOwner /\ Ownership /\ HeartbeatCountAgrees /\ CountOwned
  BY DEF ConnectionInit, OneConnectionOwner, Ownership, HeartbeatCountAgrees, CountOwned,
         CanReconnect, NewSteps
<1> QED
  BY <1>1, <1>2 DEF ConnectionInv

(* Dropping the tasks of a connection leaves them well typed. *)
LEMMA DropTasksTyped ==
    ASSUME DropTasks
    PROVE  /\ link' = "none" /\ monitor' = "none" /\ heartbeat' = "none"
           /\ missed' \in 0 .. MAX_MISSED_HEARTBEATS
           /\ keepalive_timer' \in BOOLEAN /\ activity' \in BOOLEAN
<1>1. missed' \in 0 .. MAX_MISSED_HEARTBEATS
  BY RemoteClientAssumption DEF DropTasks
<1>2. keepalive_timer' \in BOOLEAN /\ activity' \in BOOLEAN
  BY DEF DropTasks
<1> QED
  BY <1>1, <1>2 DEF DropTasks

(* `reconnect`, whoever calls it. *)
LEMMA StartReconnectKeepsInv ==
    ASSUME NEW tried \in 0 .. MAX_RECONNECT_ATTEMPTS,
           ConnectionInv, StartReconnect(tried), state \notin Over, UNCHANGED <<closing, panicked>>
    PROVE  ConnectionInv' /\ StateUnlessOver
<1>1. DropTasks /\ missed_heartbeats' = 0
  BY DEF StartReconnect
<1>2. \/ state' = "ReconnectExhausted" /\ attempts' = 0 /\ connector' = "none"
      \/ state' = "Reconnecting" /\ attempts' \in 1 .. MAX_RECONNECT_ATTEMPTS /\ connector' = "killing"
  BY RemoteClientAssumption DEF StartReconnect
<1>3. closing = "no"
  BY DEF ConnectionInv, Ownership, ConnectionTypeOK
<1>4. ConnectionTypeOK'
  BY <1>1, <1>2, DropTasksTyped, RemoteClientAssumption
     DEF ConnectionInv, ConnectionTypeOK, State, AttemptSteps, NewSteps
<1>5. OneConnectionOwner' /\ Ownership' /\ HeartbeatCountAgrees' /\ CountOwned'
  BY <1>1, <1>2, <1>3, DropTasksTyped
     DEF OneConnectionOwner, Ownership, HeartbeatCountAgrees, CountOwned,
         CanReconnect, AttemptSteps, NewSteps
<1> QED
  BY <1>4, <1>5 DEF ConnectionInv, StateUnlessOver

(* A heartbeat that is answered after one was missed. *)
LEMMA RecoverKeepsInv ==
    ASSUME ConnectionInv, missed # 0, Recover, heartbeat \in {"waiting", "pinging"},
           heartbeat' = "waiting", missed' = 0,
           keepalive_timer' \in BOOLEAN, activity' \in BOOLEAN,
           UNCHANGED <<attempts, connector, link, monitor, closing>>
    PROVE  ConnectionInv' /\ StateUnlessOver
<1>1. CASE state = "None"
  <2>1. panicked' \in BOOLEAN /\ state' = state /\ missed_heartbeats' = missed_heartbeats
    BY <1>1 DEF Recover
  <2>2. ConnectionTypeOK'
    BY <2>1, RemoteClientAssumption DEF ConnectionInv, ConnectionTypeOK
  <2>3. OneConnectionOwner' /\ Ownership' /\ HeartbeatCountAgrees' /\ CountOwned'
    BY <1>1, <2>1 DEF ConnectionInv, OneConnectionOwner, Ownership, HeartbeatCountAgrees,
                      CountOwned, CanReconnect
  <2> QED
    BY <2>1, <2>2, <2>3 DEF ConnectionInv, StateUnlessOver
<1>2. CASE state # "None"
  <2>1. state = "HeartbeatMissed"
    BY <1>2, RemoteClientAssumption
       DEF ConnectionInv, ConnectionTypeOK, Ownership, HeartbeatCountAgrees, CanReconnect
  <2>2. state' = "Connected" /\ missed_heartbeats' = 0 /\ panicked' = panicked
    BY <2>1 DEF Recover
  <2>3. ConnectionTypeOK'
    BY <2>2, RemoteClientAssumption DEF ConnectionInv, ConnectionTypeOK, State
  <2>4. OneConnectionOwner' /\ Ownership' /\ HeartbeatCountAgrees' /\ CountOwned'
    BY <2>1, <2>2 DEF ConnectionInv, OneConnectionOwner, Ownership, HeartbeatCountAgrees,
                      CountOwned, CanReconnect, NewSteps, Over
  <2> QED
    BY <2>1, <2>3, <2>4 DEF ConnectionInv, StateUnlessOver, Over
<1> QED
  BY <1>1, <1>2

LEMMA StepConnectionInv == ConnectionInv /\ [ConnectionNext]_connectionVars => ConnectionInv' /\ StateUnlessOver
<1> SUFFICES ASSUME ConnectionInv, [ConnectionNext]_connectionVars PROVE ConnectionInv' /\ StateUnlessOver
  OBVIOUS
<1> USE RemoteClientAssumption
    DEF ConnectionInv, ConnectionTypeOK, State, NewSteps, AttemptSteps, OneConnectionOwner,
        Ownership, HeartbeatCountAgrees, CountOwned, CanReconnect, Over,
        StateUnlessOver
<1>1. CASE NewRemoteStarted
  BY <1>1 DEF NewRemoteStarted
<1>2. CASE NewPinged
  BY <1>2 DEF NewPinged, taskVars
<1>3. CASE NewDone
  BY <1>3 DEF NewDone, Establish
<1>4. CASE NewGivesUp
  BY <1>4 DEF NewGivesUp, DropTasks
<1>5. CASE AttemptConnects
  BY <1>5 DEF AttemptConnects
<1>6. CASE AttemptHandshaken
  BY <1>6 DEF AttemptHandshaken, taskVars
<1>7. CASE AttemptResynced
  BY <1>7 DEF AttemptResynced, taskVars
<1>8. CASE AttemptFails
  BY <1>8 DEF AttemptFails, DropTasks
<1>9. CASE ReconnectSucceeds
  <2>1. CASE state = "Reconnecting"
    BY <1>9, <2>1 DEF ReconnectSucceeds, Establish, DropTasks
  <2>2. CASE state # "Reconnecting"
    BY <1>9, <2>2 DEF ReconnectSucceeds, Establish, DropTasks
  <2> QED
    BY <2>1, <2>2
<1>10. CASE ReconnectFails
  <2>1. CASE state # "Reconnecting"
    BY <1>10, <2>1 DEF ReconnectFails, StartReconnect, DropTasks, taskVars
  <2>2. CASE state = "Reconnecting"
    BY <1>10, <2>2, StartReconnectKeepsInv DEF ReconnectFails
  <2> QED
    BY <2>1, <2>2
<1>11. CASE MonitorReconnects
  <2>1. CASE ~CanReconnect(state)
    BY <1>11, <2>1 DEF MonitorReconnects, StartReconnect, DropTasks
  <2>2. CASE CanReconnect(state)
    BY <1>11, <2>2, StartReconnectKeepsInv DEF MonitorReconnects
  <2> QED
    BY <2>1, <2>2
<1>12. CASE MonitorServerNotRunning
  BY <1>12 DEF MonitorServerNotRunning
<1>13. CASE HeartbeatActivity
  <2>1. CASE missed = 0
    BY <1>13, <2>1 DEF HeartbeatActivity, Recover
  <2>2. CASE missed # 0
    <3>1. keepalive_timer' \in BOOLEAN /\ activity' \in BOOLEAN
      BY <1>13, <2>2 DEF HeartbeatActivity
    <3> QED
      BY <1>13, <2>2, <3>1, RecoverKeepsInv DEF HeartbeatActivity
  <2> QED
    BY <2>1, <2>2
<1>14. CASE HeartbeatStops
  BY <1>14 DEF HeartbeatStops
<1>15. CASE HeartbeatPings
  BY <1>15 DEF HeartbeatPings
<1>16. CASE HeartbeatAnswered
  <2>1. CASE missed = 0
    BY <1>16, <2>1 DEF HeartbeatAnswered, Recover
  <2>2. CASE missed # 0
    <3>1. keepalive_timer' \in BOOLEAN /\ activity' \in BOOLEAN
      BY <1>16, <2>2 DEF HeartbeatAnswered
    <3> QED
      BY <1>16, <2>2, <3>1, RecoverKeepsInv DEF HeartbeatAnswered
  <2> QED
    BY <2>1, <2>2
<1>17. CASE HeartbeatMisses
  <2>1. CASE state = "None"
    BY <1>17, <2>1 DEF HeartbeatMisses, CountMissed, StartReconnect, DropTasks, taskVars
  <2>2. CASE state # "None" /\ missed + 1 < MAX_MISSED_HEARTBEATS
    <3>1. /\ missed' = missed + 1 /\ missed_heartbeats' = missed + 1
          /\ state' = "HeartbeatMissed" /\ heartbeat' = "waiting"
      BY <1>17, <2>2 DEF HeartbeatMisses, CountMissed
    <3>2. ConnectionTypeOK'
      <4> ~(missed + 1 >= MAX_MISSED_HEARTBEATS)
        BY <2>2
      <4>1. keepalive_timer' \in BOOLEAN
        BY <1>17, <2>2, Zenon DEF HeartbeatMisses, CountMissed
      <4>2. missed' \in 0 .. MAX_MISSED_HEARTBEATS /\ missed_heartbeats' \in 0 .. MAX_MISSED_HEARTBEATS
        BY <2>2, <3>1
      <4>3. UNCHANGED <<attempts, connector, link, monitor, activity, closing, panicked>>
        BY <1>17, <2>2 DEF HeartbeatMisses, CountMissed
      <4> QED
        BY <3>1, <4>1, <4>2, <4>3
    <3>3. OneConnectionOwner' /\ Ownership' /\ HeartbeatCountAgrees' /\ CountOwned'
      BY <1>17, <2>2, <3>1 DEF HeartbeatMisses, CountMissed
    <3> QED
      BY <1>17, <2>2, <3>2, <3>3 DEF HeartbeatMisses, CountMissed
  <2>3. CASE state # "None" /\ missed + 1 >= MAX_MISSED_HEARTBEATS
    BY <1>17, <2>3, StartReconnectKeepsInv DEF HeartbeatMisses, CountMissed
  <2> QED
    BY <2>1, <2>2, <2>3
<1>18. CASE Traffic
  BY <1>18 DEF Traffic
<1>19. CASE GoSilent
  BY <1>19 DEF GoSilent
<1>20. CASE Resume
  BY <1>20 DEF Resume
<1>21. CASE IoDies
  BY <1>21 DEF IoDies
<1>22. CASE ServerGone
  BY <1>22 DEF ServerGone
<1>23. CASE ShutdownProcesses
  <2>1. CASE state = "HeartbeatMissed"
    BY <1>23, <2>1, DropTasksTyped DEF ShutdownProcesses
  <2>2. CASE state = "Connected"
    BY <1>23, <2>2 DEF ShutdownProcesses, DropTasks, taskVars
  <2>3. CASE state \notin {"HeartbeatMissed", "Connected"}
    BY <1>23, <2>3 DEF ShutdownProcesses, DropTasks, taskVars
  <2> QED
    BY <2>1, <2>2, <2>3
<1>24. CASE GraceEnds
  BY <1>24 DEF GraceEnds, DropTasks
<1>25. ASSUME NEW tried \in 0 .. MAX_RECONNECT_ATTEMPTS, ForceHeartbeatTimeout(tried)
      PROVE  ConnectionInv' /\ StateUnlessOver
  <2>1. CASE state = "Connected"
    BY <1>25, <2>1, StartReconnectKeepsInv DEF ForceHeartbeatTimeout
  <2>2. CASE state = "HeartbeatMissed"
    BY <1>25, <2>2, DropTasksTyped DEF ForceHeartbeatTimeout
  <2>3. CASE state \notin {"Connected", "HeartbeatMissed"}
    BY <1>25, <2>3 DEF ForceHeartbeatTimeout, taskVars
  <2> QED
    BY <2>1, <2>2, <2>3
<1>26. CASE UNCHANGED connectionVars
  BY <1>26 DEF connectionVars
<1> QED
  BY <1>1, <1>2, <1>3, <1>4, <1>5, <1>6, <1>7, <1>8, <1>9, <1>10, <1>11, <1>12, <1>13, <1>14, <1>15, <1>16, <1>17, <1>18, <1>19, <1>20, <1>21, <1>22, <1>23, <1>24, <1>25, <1>26
     DEF ConnectionNext, Connector, Monitor, Heartbeat, Network

LEMMA ConnectionInvHolds == ConnectionSpec => []ConnectionInv
  BY InitConnectionInv, StepConnectionInv, PTL DEF ConnectionSpec

(* The connection state machine stays within its states, and both counters *)
(* within the limits MAX_MISSED_HEARTBEATS and MAX_RECONNECT_ATTEMPTS.     *)
THEOREM ConnectionTypeCorrect == ConnectionSpec => []ConnectionTypeOK
<1>1. ConnectionInv => ConnectionTypeOK
  BY DEF ConnectionInv
<1> QED
  BY ConnectionInvHolds, <1>1, PTL

(* The heartbeat task and the state agree on the missed heartbeats         *)
(* (remote_client.rs:846, 869-881).                                        *)
THEOREM HeartbeatCountAgreesTheorem == ConnectionSpec => []HeartbeatCountAgrees
<1>1. ConnectionInv => HeartbeatCountAgrees
  BY DEF ConnectionInv
<1> QED
  BY ConnectionInvHolds, <1>1, PTL

(* A reconnecting client has an attempt under way, and an established      *)
(* connection no competing attempt (remote_client.rs:591-797).             *)
THEOREM OneConnectionOwnerTheorem == ConnectionSpec => []OneConnectionOwner
<1>1. ConnectionInv => OneConnectionOwner
  BY DEF ConnectionInv
<1> QED
  BY ConnectionInvHolds, <1>1, PTL

(* A client that gave up or was shut down is never revived by a late       *)
(* attempt, monitor or heartbeat (remote_client.rs:751-778).               *)
THEOREM GaveUpForGoodTheorem == ConnectionSpec => GaveUpForGood
<1>1. ConnectionInv /\ [ConnectionNext]_connectionVars => [(state \in Over) => (state' \in Over)]_connectionVars
  BY StepConnectionInv DEF StateUnlessOver
<1> QED
  BY ConnectionInvHolds, <1>1, PTL DEF ConnectionSpec, GaveUpForGood
=============================================================================
