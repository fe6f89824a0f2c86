--------------------------- MODULE SecureChannel ----------------------------
(***************************************************************************)
(* The client and tracker handshake and the one request it carries         *)
(* (common/net/secure_channel.cpp): each call of callTracker() opens a     *)
(* connection, and a handler thread of some tracker accepts it.            *)
(*                                                                         *)
(* Frames may be lost, delayed, or delivered again to another connection.  *)
(* Cryptography is ideal: a connection's ephemeral key pair and nonce are  *)
(* fresh and stand for the connection itself, a shared secret is the pair  *)
(* of its owners, and a frame opens only under the key and label it was    *)
(* sealed with.                                                            *)
(***************************************************************************)
EXTENDS Integers

CONSTANTS
    Calls,      \* connections of clients, each one callTracker()
    Handlers,   \* connections accepted by trackers
    Window,     \* WINDOW_SECONDS of isFreshTimestamp
    MaxSkew,    \* bound: how far a client's clock is from the trackers'
    MaxTime     \* bound: the clock stops here

ASSUME ChannelAssumption ==
    /\ Calls \cap Handlers = {}
    /\ Window \in Nat /\ MaxSkew \in Nat /\ MaxTime \in Nat

VARIABLES
    clock,      \* the trackers' clock
    skew,       \* call -> its client's clock minus the trackers'
    pinned,     \* the handlers of the tracker whose public key clients pin
    call,       \* call -> its step, session key and when its hello was sent
    handler,    \* handler -> its step, session key, the call it answered or refused,
                \* and (history) when it refused
    wire        \* every frame sent

vars == <<clock, skew, pinned, call, handler, wire>>

NoKey == <<>>
NoCall == "none"

Init ==
    /\ clock = 0
    /\ skew \in [Calls -> -MaxSkew .. MaxSkew]
    /\ pinned \in SUBSET Handlers
    /\ call = [c \in Calls |-> [at |-> "start", key |-> NoKey, sent |-> 0]]
    /\ handler = [h \in Handlers |-> [at |-> "accept", key |-> NoKey, request |-> NoCall,
                                    when |-> 0]]
    /\ wire = {}

-----------------------------------------------------------------------------
ClientTime(c) == clock + skew[c]

(* "HELLO|<public>|<nonce>|<time>", and the same with a signature. *)
helloFields(owner, time) == [public |-> owner, time |-> time]
transcript(clientHello, serverFields) == <<clientHello, serverFields>>

-----------------------------------------------------------------------------
(* Faulty variants, used only to show that the properties can fail. *)

(* The tracker's half of the exchange does not enter the session key. *)
sessionKey_clientOnly(own, other, text) == text[1]

(* Both directions use the same label. *)
opens_anyLabel(frame, k, label) == frame.type = "sealed" /\ frame.key = k

(* parseHello() does not count the fields: a tracker's hello passes for a     *)
(* client's.                                                                  *)
accept_anyHello(h, frame) ==
    /\ handler[h].at = "accept"
    /\ frame.type \in {"hello", "signed"}
    /\ frame.fields.time <= clock + Window /\ clock - frame.fields.time <= Window
    /\ LET mine == helloFields(h, clock)
           text == transcript(frame.fields, mine)
       IN  /\ wire' = wire \cup {[type |-> "signed", fields |-> mine,
                                  signature |-> <<h \in pinned, text>>]}
           /\ handler' = [handler EXCEPT ![h].at = "request",
                                         ![h].key = <<{h, frame.fields.public}, text>>]
    /\ UNCHANGED <<clock, skew, pinned, call>>

-----------------------------------------------------------------------------
isFreshTimestamp(stamp, now) == stamp <= now + Window /\ now - stamp <= Window

(* crypto.cpp, taken as ideal: both sides of an exchange have one secret, a   *)
(* digest or signature is what it was made of, and a message decrypts only    *)
(* under its key and its associated data.  A call that fails drops the        *)
(* connection.                                                                *)
x25519SharedSecret(own, other) == {own, other}
sha256(secret, text) == <<secret, text>>
ed25519Sign(identity, text) == <<identity, text>>
ed25519Verify(identity, text, signature) == signature = <<identity, text>>
encrypt(k, aad, plain) == [type |-> "sealed", key |-> k, label |-> aad, body |-> plain]
decrypts(k, aad, frame) == frame.type = "sealed" /\ frame.key = k /\ frame.label = aad

(* The session key is the same on both sides. *)
sessionKey(own, other, text) == sha256(x25519SharedSecret(own, other), text)

(* SecureChannel::seal() and receive(), with the label of the direction. *)
seal(k, label, body) == encrypt(k, label, body)
opens(frame, k, label) == decrypts(k, label, frame)

(* connect(): the client's hello. *)
sendHello(c) ==
    /\ call[c].at = "start"
    /\ wire' = wire \cup {[type |-> "hello", fields |-> helloFields(c, ClientTime(c))]}
    /\ call' = [call EXCEPT ![c].at = "hello", ![c].sent = clock]
    /\ UNCHANGED <<clock, skew, pinned, handler>>

(* The hello a call sent; its transcript needs it again. *)
helloOf(c) == helloFields(c, call[c].sent + skew[c])

(* accept(): checks a hello, answers with a signed one, and has its key. *)
accept(h, frame) ==
    /\ handler[h].at = "accept"
    /\ frame.type = "hello"
    /\ isFreshTimestamp(frame.fields.time, clock)
    /\ LET mine == helloFields(h, clock)
           text == transcript(frame.fields, mine)
       IN  /\ wire' = wire \cup {[type |-> "signed", fields |-> mine,
                                  signature |-> ed25519Sign(h \in pinned, text)]}
           /\ handler' = [handler EXCEPT ![h].at = "request",
                                         ![h].key = sessionKey(h, frame.fields.public, text)]
    /\ UNCHANGED <<clock, skew, pinned, call>>

(* connect(): the tracker's hello, fresh and signed by the pinned key over    *)
(* both hellos; then callTracker() seals the request.                         *)
sendRequest(c, frame) ==
    LET text == transcript(helloOf(c), frame.fields)
        k == sessionKey(c, frame.fields.public, text)
    IN  /\ call[c].at = "hello"
        /\ frame.type = "signed"
        /\ isFreshTimestamp(frame.fields.time, ClientTime(c))
        /\ ed25519Verify(TRUE, text, frame.signature)
        /\ call' = [call EXCEPT ![c].at = "sent", ![c].key = k]
        /\ wire' = wire \cup {seal(k, "client->tracker", c)}
        /\ UNCHANGED <<clock, skew, pinned, handler>>

(* The handler opens the request, handles it and seals the reply. *)
handle(h, frame) ==
    /\ handler[h].at = "request"
    /\ opens(frame, handler[h].key, "client->tracker")
    /\ handler' = [handler EXCEPT ![h].at = "replied", ![h].request = frame.body]
    /\ wire' = wire \cup {seal(handler[h].key, "tracker->client", frame.body)}
    /\ UNCHANGED <<clock, skew, pinned, call>>

(* callTracker() returns the reply. *)
receiveReply(c, frame) ==
    /\ call[c].at = "sent"
    /\ opens(frame, call[c].key, "tracker->client")
    /\ call' = [call EXCEPT ![c].at = "answered"]
    /\ UNCHANGED <<clock, skew, pinned, handler, wire>>

-----------------------------------------------------------------------------
(* A hello outside the freshness window ends the connection, *)
refuseStale(h, frame) ==
    /\ handler[h].at = "accept"
    /\ frame.type = "hello"
    /\ ~isFreshTimestamp(frame.fields.time, clock)
    /\ handler' = [handler EXCEPT ![h].at = "stale", ![h].when = clock,
                                  ![h].request = frame.fields.public]
    /\ UNCHANGED <<clock, skew, pinned, call, wire>>

(* as does any frame that fails to parse, verify or open, and a timeout. *)
dropHandler(h) ==
    /\ handler[h].at \in {"accept", "request"}
    /\ handler' = [handler EXCEPT ![h].at = "dropped"]
    /\ UNCHANGED <<clock, skew, pinned, call, wire>>

failCall(c) ==
    /\ call[c].at \in {"hello", "sent"}
    /\ call' = [call EXCEPT ![c].at = "failed"]
    /\ UNCHANGED <<clock, skew, pinned, handler, wire>>

Tick ==
    /\ clock < MaxTime
    /\ clock' = clock + 1
    /\ UNCHANGED <<skew, pinned, call, handler, wire>>

Next ==
    \/ \E c \in Calls :
         \/ sendHello(c)
         \/ failCall(c)
         \/ \E frame \in wire : sendRequest(c, frame) \/ receiveReply(c, frame)
    \/ \E h \in Handlers :
         \/ dropHandler(h)
         \/ \E frame \in wire : accept(h, frame) \/ handle(h, frame) \/ refuseStale(h, frame)
    \/ Tick

Spec == Init /\ [][Next]_vars

-----------------------------------------------------------------------------
ClientHellos == [public : Calls, time : -MaxSkew .. MaxTime + MaxSkew]
TrackerHellos == [public : Handlers, time : 0 .. MaxTime]
Transcripts == ClientHellos \X TrackerHellos
Keys == {sessionKey(t[1].public, t[2].public, t) : t \in Transcripts}
Messages ==
    [type : {"hello"}, fields : ClientHellos]
      \cup [type : {"signed"}, fields : TrackerHellos, signature : BOOLEAN \X Transcripts]
      \cup [type : {"sealed"}, key : Keys, label : {"client->tracker", "tracker->client"},
            body : Calls]

(* Every frame is a hello of a client, a signed hello of a tracker or a       *)
(* sealed request or reply; and a session key is always made of a client's    *)
(* hello and a tracker's, by the two that sent them.                          *)
TypeOK ==
    /\ clock \in 0 .. MaxTime
    /\ skew \in [Calls -> -MaxSkew .. MaxSkew]
    /\ pinned \subseteq Handlers
    /\ call \in [Calls -> [at : {"start", "hello", "sent", "answered", "failed"},
                           key : Keys \cup {NoKey}, sent : 0 .. MaxTime]]
    /\ handler \in [Handlers -> [at : {"accept", "request", "replied", "stale", "dropped"},
                                 key : Keys \cup {NoKey}, request : Calls \cup {NoCall},
                                 when : 0 .. MaxTime]]
    /\ wire \subseteq Messages

(* No request is handled twice, whatever frames are delivered again, and none *)
(* that its client did not send: a recorded connection replayed to a new      *)
(* handler never gets as far as a command.                                    *)
HandledOnce ==
    \A h \in Handlers : handler[h].at = "replied" =>
        /\ call[handler[h].request].at \in {"sent", "answered", "failed"}
        /\ \A i \in Handlers \ {h} :
              handler[i].at = "replied" => handler[i].request # handler[h].request

(* A reply that callTracker() returns answers this very request, handled by   *)
(* the tracker whose key the client pins.                                     *)
ReplyIsOwn ==
    \A c \in Calls : call[c].at = "answered" =>
        \E h \in pinned : handler[h].at = "replied" /\ handler[h].request = c

(* SECURITY.md says client and tracker clocks do not need to agree and that   *)
(* the hellos' times are not used for replay checks: no hello is refused for  *)
(* its time alone when it arrives at once.                                    *)
ClocksNeedNotAgree ==
    \A h \in Handlers : handler[h].at = "stale" =>
        handler[h].when > call[handler[h].request].sent
=============================================================================
