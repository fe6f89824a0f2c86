------------------------ MODULE SecureChannelProofs -------------------------
(***************************************************************************)
(* That the handshake binds a request and its reply to one connection, for *)
(* any number of calls and handlers, any clocks and any freshness window.  *)
(* The argument: both keys of a connection are made of the two hellos, so  *)
(* a key names its call and its handler (AgreedOnce); every frame on the   *)
(* wire was made by the side it speaks for (Frames); and what a side has   *)
(* said once stays true (CallsStable, HandlersStable), so that frames may  *)
(* be delivered at any later time and to anyone.                           *)
(***************************************************************************)
EXTENDS SecureChannel, TLAPS

-----------------------------------------------------------------------------
(* The inductive invariant. *)

(* k is the session key of a hello and an answer of handler h to it. *)
Agreed(k, hello, h) ==
    \E t \in Int : k = sessionKey(h, hello.public, transcript(hello, helloFields(h, t)))

Greeted(c) == call[c].at # "start"
HasAsked(c) == call[c].at \in {"sent", "answered", "failed"}
Answering(h) == handler[h].at # "accept"

(* A hello is the one its call sent. *)
HelloFrame(f) ==
    f.type = "hello" =>
        /\ f.fields.public \in Calls
        /\ Greeted(f.fields.public)
        /\ f.fields = helloOf(f.fields.public)

(* A signed hello comes from a handler that then has the key of both hellos. *)
SignedFrame(f) ==
    f.type = "signed" =>
        \E c \in Calls, h \in Handlers, t \in Int :
            /\ f.fields = helloFields(h, t)
            /\ Greeted(c) /\ Answering(h)
            /\ f.signature = <<h \in pinned, transcript(helloOf(c), f.fields)>>
            /\ handler[h].key = sessionKey(h, c, transcript(helloOf(c), f.fields))

(* A sealed request was sealed by the call it names. *)
RequestFrame(f) ==
    f.type = "sealed" /\ f.label = "client->tracker" =>
        /\ f.body \in Calls
        /\ HasAsked(f.body)
        /\ f.key = call[f.body].key
        /\ \E h \in Handlers : Agreed(f.key, helloOf(f.body), h)

(* A sealed reply was sealed by a handler that handled the request it names. *)
ReplyFrame(f) ==
    f.type = "sealed" /\ f.label = "tracker->client" =>
        \E h \in Handlers : handler[h].at = "replied" /\ handler[h].key = f.key

Frame(f) == HelloFrame(f) /\ SignedFrame(f) /\ RequestFrame(f) /\ ReplyFrame(f)
Frames == \A f \in wire : Frame(f)

(* Whoever has got past the handshake shares its key with one partner. *)
CallKeys ==
    \A c \in Calls : call[c].at \in {"sent", "answered"} =>
        \E h \in pinned : Agreed(call[c].key, helloOf(c), h)

HandlerKeys ==
    \A h \in Handlers : handler[h].at \in {"request", "replied"} =>
        \E c \in Calls : Greeted(c) /\ Agreed(handler[h].key, helloOf(c), h)

(* The request a handler handled is its partner's own. *)
Handled ==
    \A h \in Handlers : handler[h].at = "replied" =>
        /\ handler[h].request \in Calls
        /\ HasAsked(handler[h].request)
        /\ handler[h].key = call[handler[h].request].key
        /\ Agreed(handler[h].key, helloOf(handler[h].request), h)

Inv == TypeOK /\ Frames /\ CallKeys /\ HandlerKeys /\ Handled /\ ReplyIsOwn

-----------------------------------------------------------------------------
(* Keys. *)

(* A session key names its two ends: sha256 is taken over both hellos. *)
LEMMA AgreedOnce ==
    ASSUME NEW k, NEW f, NEW g, NEW h, NEW i, Agreed(k, f, h), Agreed(k, g, i)
    PROVE  f = g /\ h = i
<1>1. PICK t \in Int : k = sessionKey(h, f.public, transcript(f, helloFields(h, t)))
  BY DEF Agreed
<1>2. PICK u \in Int : k = sessionKey(i, g.public, transcript(g, helloFields(i, u)))
  BY DEF Agreed
<1>3. transcript(f, helloFields(h, t)) = transcript(g, helloFields(i, u))
  BY <1>1, <1>2 DEF sessionKey, sha256
<1>4. f = g /\ helloFields(h, t) = helloFields(i, u)
  BY <1>3 DEF transcript
<1>5. helloFields(h, t).public = h /\ helloFields(i, u).public = i
  BY DEF helloFields
<1> QED BY <1>4, <1>5

(* A hello names the call that sent it. *)
LEMMA HelloNames ==
    ASSUME NEW c PROVE helloOf(c).public = c
  BY DEF helloOf, helloFields

(* Both sides of an exchange have one secret, so connect() and accept()       *)
(* compute the same key from the same hellos.                                 *)
LEMMA SameKey ==
    ASSUME NEW c, NEW h, NEW text
    PROVE  sessionKey(c, h, text) = sessionKey(h, c, text)
<1>1. {c, h} = {h, c} OBVIOUS
<1> QED BY <1>1 DEF sessionKey, x25519SharedSecret

(* The states of a call and of a handler. *)
CallState == [at : {"start", "hello", "sent", "answered", "failed"},
              key : Keys \cup {NoKey}, sent : 0 .. MaxTime]
HandlerState == [at : {"accept", "request", "replied", "stale", "dropped"},
                 key : Keys \cup {NoKey}, request : Calls \cup {NoCall}, when : 0 .. MaxTime]

(* A hello of a call and one of a handler make a transcript, and a key. *)
LEMMA KeyType ==
    ASSUME NEW f \in ClientHellos, NEW g \in TrackerHellos
    PROVE  /\ transcript(f, g) \in Transcripts
           /\ sessionKey(f.public, g.public, transcript(f, g)) \in Keys
           /\ sessionKey(g.public, f.public, transcript(f, g)) \in Keys
<1> DEFINE t == transcript(f, g)
<1>1. t \in Transcripts /\ t[1] = f /\ t[2] = g BY DEF transcript, Transcripts
<1> HIDE DEF t
<1>2. sessionKey(t[1].public, t[2].public, t) \in Keys BY <1>1 DEF Keys
<1> QED BY <1>1, <1>2, SameKey DEF t

(* A hello that a call sent is of the type of clients' hellos, *)
LEMMA HelloType ==
    ASSUME TypeOK, NEW c \in Calls
    PROVE  /\ helloOf(c) \in ClientHellos
           /\ helloFields(c, ClientTime(c)) \in ClientHellos
<1>1. /\ call[c].sent \in 0 .. MaxTime /\ clock \in 0 .. MaxTime
      /\ skew[c] \in -MaxSkew .. MaxSkew
  BY DEF TypeOK
<1>2. /\ call[c].sent + skew[c] \in -MaxSkew .. MaxTime + MaxSkew
      /\ clock + skew[c] \in -MaxSkew .. MaxTime + MaxSkew
  BY <1>1, ChannelAssumption
<1> QED BY <1>2 DEF helloOf, helloFields, ClientTime, ClientHellos

(* and what a frame carries is known from its kind. *)
LEMMA FrameFields ==
    ASSUME TypeOK, NEW f \in wire
    PROVE  /\ f.type = "hello" => f.fields \in ClientHellos /\ f.fields.public \in Calls
           /\ f.type = "signed" => f.fields \in TrackerHellos /\ f.fields.public \in Handlers
           /\ f.type = "sealed" => f.key \in Keys /\ f.body \in Calls
  BY DEF TypeOK, Messages, ClientHellos, TrackerHellos

-----------------------------------------------------------------------------
(* The steps. *)

(* The types hold initially, *)
LEMMA TypesInit == Init => TypeOK
  BY ChannelAssumption DEF Init, TypeOK

(* and after every step. *)
LEMMA TypesStep ==
    ASSUME TypeOK, [Next]_vars
    PROVE  TypeOK'
<1> USE ChannelAssumption
<1>1. ASSUME NEW c \in Calls, sendHello(c) PROVE TypeOK'
  <2>1. [type |-> "hello", fields |-> helloFields(c, ClientTime(c))] \in Messages
    BY HelloType DEF Messages
  <2>2. wire' \subseteq Messages BY <1>1, <2>1 DEF TypeOK, sendHello
  <2> DEFINE e == [call[c] EXCEPT !.at = "hello", !.sent = clock]
  <2>3. call' = [call EXCEPT ![c] = e] /\ UNCHANGED <<clock, skew, pinned, handler>>
    BY <1>1 DEF sendHello
  <2>4. call[c] \in CallState /\ clock \in 0 .. MaxTime BY DEF TypeOK, CallState
  <2>5. e \in CallState BY <2>4 DEF CallState
  <2> HIDE DEF e
  <2>6. call' \in [Calls -> CallState] BY <2>3, <2>5 DEF TypeOK, CallState
  <2> QED BY <2>2, <2>3, <2>6 DEF TypeOK, CallState
<1>2. ASSUME NEW c \in Calls, failCall(c) PROVE TypeOK'
  BY <1>2 DEF TypeOK, failCall
<1>3. ASSUME NEW c \in Calls, NEW f \in wire, sendRequest(c, f) PROVE TypeOK'
  <2> DEFINE k == sessionKey(c, f.fields.public, transcript(helloOf(c), f.fields))
             m == [type |-> "sealed", key |-> k, label |-> "client->tracker", body |-> c]
  <2>1. f.fields \in TrackerHellos BY <1>3, FrameFields DEF sendRequest
  <2>2. k \in Keys BY <2>1, HelloType, HelloNames, KeyType
  <2>3. /\ call' = [call EXCEPT ![c].at = "sent", ![c].key = k]
        /\ wire' = wire \cup {m}
        /\ UNCHANGED <<clock, skew, pinned, handler>>
    BY <1>3 DEF sendRequest, seal, encrypt
  <2> HIDE DEF k
  <2>4. m \in Messages BY <2>2 DEF Messages
  <2> HIDE DEF m
  <2> DEFINE e == [call[c] EXCEPT !.at = "sent", !.key = k]
  <2>5. call' = [call EXCEPT ![c] = e] BY <2>3
  <2>6. call[c] \in CallState BY DEF TypeOK, CallState
  <2>7. e \in CallState BY <2>2, <2>6 DEF CallState
  <2> HIDE DEF e
  <2>8. call' \in [Calls -> CallState] BY <2>5, <2>7 DEF TypeOK, CallState
  <2> QED BY <2>3, <2>4, <2>8 DEF TypeOK, CallState
<1>4. ASSUME NEW c \in Calls, NEW f \in wire, receiveReply(c, f) PROVE TypeOK'
  BY <1>4 DEF TypeOK, receiveReply
<1>5. ASSUME NEW h \in Handlers, dropHandler(h) PROVE TypeOK'
  BY <1>5 DEF TypeOK, dropHandler
<1>6. ASSUME NEW h \in Handlers, NEW f \in wire, accept(h, f) PROVE TypeOK'
  <2> DEFINE mine == helloFields(h, clock)
             text == transcript(f.fields, mine)
             k == sessionKey(h, f.fields.public, text)
             signature == ed25519Sign(h \in pinned, text)
             m == [type |-> "signed", fields |-> mine, signature |-> signature]
  <2>1. f.fields \in ClientHellos BY <1>6, FrameFields DEF accept
  <2>2. mine \in TrackerHellos /\ mine.public = h
    BY DEF TypeOK, helloFields, TrackerHellos
  <2>3. text \in Transcripts /\ k \in Keys
    <3> HIDE DEF mine
    <3> QED BY <2>1, <2>2, KeyType
  <2>4. /\ handler' = [handler EXCEPT ![h].at = "request", ![h].key = k]
        /\ wire' = wire \cup {m}
        /\ UNCHANGED <<clock, skew, pinned, call>>
    BY <1>6 DEF accept
  <2> HIDE DEF mine, text, k
  <2>5. (h \in pinned) \in BOOLEAN OBVIOUS
  <2>6. signature \in BOOLEAN \X Transcripts BY <2>3, <2>5 DEF ed25519Sign
  <2> HIDE DEF signature
  <2>7. m \in Messages BY <2>2, <2>6 DEF Messages
  <2> HIDE DEF m
  <2> DEFINE e == [handler[h] EXCEPT !.at = "request", !.key = k]
  <2>8. handler' = [handler EXCEPT ![h] = e] BY <2>4
  <2>9. e \in HandlerState BY <2>3 DEF TypeOK, HandlerState
  <2> HIDE DEF e
  <2>10. handler' \in [Handlers -> HandlerState] BY <2>8, <2>9 DEF TypeOK, HandlerState
  <2> QED BY <2>4, <2>7, <2>10 DEF TypeOK, HandlerState
<1>7. ASSUME NEW h \in Handlers, NEW f \in wire, handle(h, f) PROVE TypeOK'
  <2> DEFINE m == [type |-> "sealed", key |-> f.key, label |-> "tracker->client",
                   body |-> f.body]
  <2>1. f.body \in Calls /\ f.key \in Keys /\ f.key = handler[h].key
    BY <1>7, FrameFields DEF handle, opens, decrypts
  <2>2. /\ handler' = [handler EXCEPT ![h].at = "replied", ![h].request = f.body]
        /\ wire' = wire \cup {m}
        /\ UNCHANGED <<clock, skew, pinned, call>>
    BY <1>7, <2>1 DEF handle, seal, encrypt
  <2>3. m \in Messages BY <2>1 DEF Messages
  <2> HIDE DEF m
  <2> DEFINE e == [handler[h] EXCEPT !.at = "replied", !.request = f.body]
  <2>4. handler' = [handler EXCEPT ![h] = e] BY <2>2
  <2>5. e \in HandlerState
    <3>1. handler[h] \in HandlerState BY DEF TypeOK, HandlerState
    <3>2. f.body \in Calls \cup {NoCall} BY <2>1
    <3> QED BY <3>1, <3>2 DEF HandlerState
  <2> HIDE DEF e
  <2>6. handler' \in [Handlers -> HandlerState] BY <2>4, <2>5 DEF TypeOK, HandlerState
  <2> QED BY <2>2, <2>3, <2>6 DEF TypeOK, HandlerState
<1>8. ASSUME NEW h \in Handlers, NEW f \in wire, refuseStale(h, f) PROVE TypeOK'
  <2>1. f.fields.public \in Calls BY <1>8, FrameFields DEF refuseStale
  <2> DEFINE e == [handler[h] EXCEPT !.at = "stale", !.when = clock,
                                     !.request = f.fields.public]
  <2>2. handler' = [handler EXCEPT ![h] = e] /\ UNCHANGED <<clock, skew, pinned, call, wire>>
    BY <1>8 DEF refuseStale
  <2>3. handler[h] \in HandlerState /\ clock \in 0 .. MaxTime BY DEF TypeOK, HandlerState
  <2>4. e \in HandlerState BY <2>1, <2>3 DEF HandlerState
  <2> HIDE DEF e
  <2>5. handler' \in [Handlers -> HandlerState] BY <2>2, <2>4 DEF TypeOK, HandlerState
  <2> QED BY <2>2, <2>5 DEF TypeOK, HandlerState
<1>9. CASE Tick
  BY <1>9 DEF TypeOK, Tick
<1>10. CASE UNCHANGED vars
  BY <1>10 DEF TypeOK, vars
<1> QED BY <1>1, <1>2, <1>3, <1>4, <1>5, <1>6, <1>7, <1>8, <1>9, <1>10 DEF Next

(* What a call has said stays: its hello once sent, and its key once it has   *)
(* asked.                                                                     *)
LEMMA CallsStable ==
    ASSUME TypeOK, [Next]_vars, NEW c \in Calls, Greeted(c)
    PROVE  /\ Greeted(c)'
           /\ call'[c].sent = call[c].sent
           /\ HasAsked(c) => HasAsked(c)' /\ call'[c].key = call[c].key
           /\ call'[c].at = "sent" /\ call[c].at # "sent" =>
                  \E f \in wire : sendRequest(c, f)
           /\ call'[c].at = "answered" /\ call[c].at # "answered" =>
                  \E f \in wire : receiveReply(c, f)
<1> USE DEF TypeOK, Greeted, HasAsked
<1>1. ASSUME NEW d \in Calls, sendHello(d) PROVE d # c /\ call'[c] = call[c]
  BY <1>1 DEF sendHello
<1>2. ASSUME NEW d \in Calls, failCall(d) PROVE
        call'[c] = call[c] \/ (call[c].at \in {"hello", "sent"} /\
                               call'[c] = [call[c] EXCEPT !.at = "failed"])
  BY <1>2 DEF failCall
<1>3. ASSUME NEW d \in Calls, NEW f \in wire, sendRequest(d, f) PROVE
        call'[c] = call[c] \/ (d = c /\ call[c].at = "hello" /\ call'[c].at = "sent" /\
                               call'[c].sent = call[c].sent)
  BY <1>3 DEF sendRequest
<1>4. ASSUME NEW d \in Calls, NEW f \in wire, receiveReply(d, f) PROVE
        call'[c] = call[c] \/ (d = c /\ call[c].at = "sent" /\
                               call'[c] = [call[c] EXCEPT !.at = "answered"])
  BY <1>4 DEF receiveReply
<1>5. ASSUME call' = call PROVE call'[c] = call[c]
  BY <1>5
<1>6. ASSUME NEW h \in Handlers, dropHandler(h) PROVE call' = call
  BY <1>6 DEF dropHandler
<1>7. ASSUME NEW h \in Handlers, NEW f \in wire, accept(h, f) \/ handle(h, f) \/ refuseStale(h, f)
      PROVE  call' = call
  BY <1>7 DEF accept, handle, refuseStale
<1>8. ASSUME Tick \/ UNCHANGED vars PROVE call' = call
  BY <1>8 DEF Tick, vars
<1> QED BY <1>1, <1>2, <1>3, <1>4, <1>5, <1>6, <1>7, <1>8 DEF Next

(* A call asks or is answered only after its hello. *)
LEMMA NotYet ==
    ASSUME TypeOK, [Next]_vars, NEW c \in Calls, call'[c].at \in {"sent", "answered"}
    PROVE  Greeted(c)
<1> SUFFICES ASSUME call[c].at = "start" PROVE FALSE
  BY DEF Greeted
<1> USE DEF TypeOK
<1>1. ASSUME NEW d \in Calls, sendHello(d) PROVE FALSE
  BY <1>1 DEF sendHello
<1>2. ASSUME NEW d \in Calls, failCall(d) PROVE FALSE
  BY <1>2 DEF failCall
<1>3. ASSUME NEW d \in Calls, NEW f \in wire, sendRequest(d, f) PROVE FALSE
  BY <1>3 DEF sendRequest
<1>4. ASSUME NEW d \in Calls, NEW f \in wire, receiveReply(d, f) PROVE FALSE
  BY <1>4 DEF receiveReply
<1>5. ASSUME call' = call PROVE FALSE
  BY <1>5
<1>6. ASSUME NEW h \in Handlers, dropHandler(h) PROVE call' = call
  BY <1>6 DEF dropHandler
<1>7. ASSUME NEW h \in Handlers, NEW f \in wire, accept(h, f) \/ handle(h, f) \/ refuseStale(h, f)
      PROVE  call' = call
  BY <1>7 DEF accept, handle, refuseStale
<1>8. ASSUME Tick \/ UNCHANGED vars PROVE call' = call
  BY <1>8 DEF Tick, vars
<1> QED BY <1>1, <1>2, <1>3, <1>4, <1>5, <1>6, <1>7, <1>8 DEF Next

(* Clocks aside, the clients' skews and the pinned key never change. *)
LEMMA Fixed ==
    ASSUME [Next]_vars
    PROVE  skew' = skew /\ pinned' = pinned
  BY DEF Next, vars, sendHello, failCall, sendRequest, receiveReply, dropHandler, accept,
         handle, refuseStale, Tick

(* What a handler has said stays: its key, once accept() is over, and its     *)
(* reply.                                                                     *)
LEMMA HandlersStable ==
    ASSUME TypeOK, [Next]_vars, NEW h \in Handlers
    PROVE  /\ Answering(h) => Answering(h)' /\ handler'[h].key = handler[h].key
           /\ handler[h].at = "replied" => handler'[h] = handler[h]
           /\ handler'[h].at = "request" /\ handler[h].at # "request" =>
                  \E f \in wire : accept(h, f)
           /\ handler'[h].at = "replied" /\ handler[h].at # "replied" =>
                  \E f \in wire : handle(h, f)
<1> USE DEF TypeOK, Answering
<1>1. ASSUME NEW i \in Handlers, dropHandler(i) PROVE
        handler'[h] = handler[h] \/ (handler[h].at \in {"accept", "request"} /\
                                     handler'[h] = [handler[h] EXCEPT !.at = "dropped"])
  BY <1>1 DEF dropHandler
<1>2. ASSUME NEW i \in Handlers, NEW f \in wire, accept(i, f) PROVE
        handler'[h] = handler[h] \/ (i = h /\ handler[h].at = "accept" /\ handler'[h].at = "request")
  BY <1>2 DEF accept
<1>3. ASSUME NEW i \in Handlers, NEW f \in wire, handle(i, f) PROVE
        handler'[h] = handler[h] \/ (i = h /\ handler[h].at = "request" /\
            handler'[h].at = "replied" /\ handler'[h].key = handler[h].key)
  BY <1>3 DEF handle
<1>4. ASSUME NEW i \in Handlers, NEW f \in wire, refuseStale(i, f) PROVE
        handler'[h] = handler[h] \/ (handler[h].at = "accept" /\ handler'[h].at = "stale")
  BY <1>4 DEF refuseStale
<1>5. ASSUME NEW c \in Calls, sendHello(c) \/ failCall(c) PROVE handler' = handler
  BY <1>5 DEF sendHello, failCall
<1>6. ASSUME NEW c \in Calls, NEW f \in wire, sendRequest(c, f) \/ receiveReply(c, f)
      PROVE  handler' = handler
  BY <1>6 DEF sendRequest, receiveReply
<1>7. ASSUME Tick \/ UNCHANGED vars PROVE handler' = handler
  BY <1>7 DEF Tick, vars
<1> QED BY <1>1, <1>2, <1>3, <1>4, <1>5, <1>6, <1>7 DEF Next

(* So a hello, once sent, stays the one its transcript needs. *)
LEMMA HelloStable ==
    ASSUME TypeOK, [Next]_vars, NEW c \in Calls, Greeted(c)
    PROVE  helloOf(c)' = helloOf(c)
  BY CallsStable, Fixed DEF helloOf

(* A frame that was true when it was sent is true whenever it arrives. *)
LEMMA OldFrames ==
    ASSUME TypeOK, TypeOK', Frames, [Next]_vars, NEW f \in wire
    PROVE  Frame(f)'
<1>1. HelloFrame(f)'
  BY CallsStable, HelloStable DEF Frames, Frame, HelloFrame
<1>2. SignedFrame(f)'
  <2> SUFFICES ASSUME f.type = "signed" PROVE SignedFrame(f)'
    BY DEF SignedFrame
  <2>1. PICK c \in Calls, h \in Handlers, t \in Int :
          /\ f.fields = helloFields(h, t)
          /\ Greeted(c) /\ Answering(h)
          /\ f.signature = <<h \in pinned, transcript(helloOf(c), f.fields)>>
          /\ handler[h].key = sessionKey(h, c, transcript(helloOf(c), f.fields))
    BY DEF Frames, Frame, SignedFrame
  <2>2. Greeted(c)' /\ helloOf(c)' = helloOf(c)
    BY <2>1, CallsStable, HelloStable
  <2>3. Answering(h)' /\ handler'[h].key = handler[h].key
    BY <2>1, HandlersStable
  <2>4. pinned' = pinned BY Fixed
  <2> QED BY <2>1, <2>2, <2>3, <2>4 DEF SignedFrame
<1>3. RequestFrame(f)'
  <2> SUFFICES ASSUME f.type = "sealed", f.label = "client->tracker" PROVE RequestFrame(f)'
    BY DEF RequestFrame
  <2>1. /\ f.body \in Calls /\ HasAsked(f.body) /\ f.key = call[f.body].key
        /\ \E h \in Handlers : Agreed(f.key, helloOf(f.body), h)
    BY DEF Frames, Frame, RequestFrame
  <2>2. Greeted(f.body) BY <2>1 DEF HasAsked, Greeted
  <2>3. HasAsked(f.body)' /\ call'[f.body].key = call[f.body].key
    BY <2>1, <2>2, CallsStable
  <2>4. \E h \in Handlers : Agreed(f.key, helloOf(f.body)', h)
    BY <2>1, <2>2, HelloStable
  <2> QED BY <2>1, <2>3, <2>4 DEF RequestFrame
<1>4. ReplyFrame(f)'
  BY HandlersStable DEF Frames, Frame, ReplyFrame
<1> QED BY <1>1, <1>2, <1>3, <1>4 DEF Frame

(* accept() makes a handler's key from a hello its call really sent. *)
LEMMA AcceptAgrees ==
    ASSUME TypeOK, TypeOK', Frames, [Next]_vars,
           NEW h \in Handlers, NEW f \in wire, accept(h, f)
    PROVE  \E c \in Calls :
              /\ Greeted(c)' /\ Answering(h)'
              /\ f.fields = helloOf(c)'
              /\ f.fields.public = c
              /\ handler'[h].key =
                    sessionKey(h, c, transcript(helloOf(c)', helloFields(h, clock)))
              /\ Agreed(handler'[h].key, helloOf(c)', h)
<1> DEFINE c == f.fields.public
<1>1. c \in Calls /\ Greeted(c) /\ f.fields = helloOf(c)
  BY DEF accept, Frames, Frame, HelloFrame
<1>2. Greeted(c)' /\ helloOf(c)' = helloOf(c)
  BY <1>1, CallsStable, HelloStable
<1>3. handler'[h].key = sessionKey(h, c, transcript(f.fields, helloFields(h, clock)))
      /\ handler'[h].at = "request"
  BY DEF accept, TypeOK
<1>4. clock \in Int BY DEF TypeOK
<1>5. Agreed(handler'[h].key, helloOf(c)', h)
  BY <1>1, <1>2, <1>3, <1>4 DEF Agreed
<1>6. Answering(h)' BY <1>3 DEF Answering
<1> QED BY <1>1, <1>2, <1>3, <1>5, <1>6

(* sendRequest() goes on only with the answer of a pinned handler to this     *)
(* call's own hello, and has that handler's key.                              *)
LEMMA RequestAgrees ==
    ASSUME TypeOK, TypeOK', Frames, [Next]_vars,
           NEW c \in Calls, NEW f \in wire, sendRequest(c, f)
    PROVE  \E h \in pinned : Agreed(call'[c].key, helloOf(c)', h)
<1>1. f.type = "signed" /\ ed25519Verify(TRUE, transcript(helloOf(c), f.fields), f.signature)
  BY DEF sendRequest
<1>2. PICK d \in Calls, h \in Handlers, t \in Int :
        /\ f.fields = helloFields(h, t)
        /\ f.signature = <<h \in pinned, transcript(helloOf(d), f.fields)>>
  BY <1>1 DEF Frames, Frame, SignedFrame
<1>3. f.signature = <<TRUE, transcript(helloOf(c), f.fields)>>
  BY <1>1 DEF ed25519Verify
<1>4. h \in pinned
  <2> DEFINE A == transcript(helloOf(d), f.fields)
             B == transcript(helloOf(c), f.fields)
  <2>1. <<h \in pinned, A>> = <<TRUE, B>> BY <1>2, <1>3, Zenon
  <2> HIDE DEF A, B
  <2>2. (h \in pinned) = TRUE BY <2>1, Zenon
  <2> QED BY <2>2, Zenon
<1>5. call'[c].key = sessionKey(c, h, transcript(helloOf(c), f.fields))
  <2>1. f.fields.public = h BY <1>2 DEF helloFields
  <2> QED BY <2>1 DEF sendRequest, TypeOK
<1>6. call'[c].key = sessionKey(h, c, transcript(helloOf(c), helloFields(h, t)))
  BY <1>2, <1>5, SameKey
<1>7. Greeted(c) BY DEF Greeted, sendRequest
<1>8. Agreed(call'[c].key, helloOf(c), h)
  BY <1>6, HelloNames DEF Agreed
<1> QED BY <1>4, <1>7, <1>8, HelloStable

(* handle() opens only a request sealed by the handler's own partner. *)
LEMMA HandleAgrees ==
    ASSUME TypeOK, TypeOK', Frames, HandlerKeys, [Next]_vars,
           NEW h \in Handlers, NEW f \in wire, handle(h, f)
    PROVE  /\ handler'[h].request = f.body
           /\ f.body \in Calls /\ HasAsked(f.body)'
           /\ handler'[h].key = call'[f.body].key
           /\ Agreed(handler'[h].key, helloOf(f.body)', h)
           /\ handler'[h].key = handler[h].key
           /\ handler'[h].at = "replied"
<1>1. /\ handler[h].at = "request" /\ f.type = "sealed" /\ f.label = "client->tracker"
      /\ f.key = handler[h].key
  BY DEF handle, opens, decrypts
<1>2. /\ handler'[h].request = f.body /\ handler'[h].key = handler[h].key
      /\ handler'[h].at = "replied"
  BY DEF handle, TypeOK
<1>3. /\ f.body \in Calls /\ HasAsked(f.body) /\ f.key = call[f.body].key
      /\ \E i \in Handlers : Agreed(f.key, helloOf(f.body), i)
  BY <1>1 DEF Frames, Frame, RequestFrame
<1>4. PICK c \in Calls : Agreed(handler[h].key, helloOf(c), h)
  BY <1>1 DEF HandlerKeys
<1>5. Agreed(handler[h].key, helloOf(f.body), h)
  BY <1>1, <1>3, <1>4, AgreedOnce, HelloNames
<1>6. Greeted(f.body) BY <1>3 DEF HasAsked, Greeted
<1>7. /\ HasAsked(f.body)' /\ helloOf(f.body)' = helloOf(f.body)
      /\ call'[f.body].key = call[f.body].key
  BY <1>3, <1>6, CallsStable, HelloStable
<1> QED BY <1>1, <1>2, <1>3, <1>5, <1>7

(* Every frame a step adds is true. *)
LEMMA FramesStep ==
    ASSUME Inv, TypeOK', [Next]_vars
    PROVE  Frames'
<1> SUFFICES ASSUME NEW f \in wire', f \notin wire PROVE Frame(f)'
  BY OldFrames DEF Frames, Inv
<1>1. ASSUME NEW c \in Calls, sendHello(c) PROVE Frame(f)'
  <2>1. f = [type |-> "hello", fields |-> helloFields(c, clock + skew[c])]
    BY <1>1 DEF sendHello, ClientTime
  <2>2. call'[c].sent = clock /\ call'[c].at = "hello" /\ skew' = skew
    BY <1>1 DEF sendHello, Inv, TypeOK
  <2>3. f.fields = helloOf(c)' /\ f.fields.public = c
    BY <2>1, <2>2 DEF helloOf, helloFields
  <2> QED BY <2>1, <2>2, <2>3
          DEF Frame, HelloFrame, SignedFrame, RequestFrame, ReplyFrame, Greeted
<1>2. ASSUME NEW c \in Calls, NEW g \in wire, sendRequest(c, g) PROVE Frame(f)'
  <2>1. f = [type |-> "sealed", key |-> call'[c].key, label |-> "client->tracker", body |-> c]
    BY <1>2 DEF sendRequest, seal, encrypt, Inv, TypeOK
  <2>2. \E h \in pinned : Agreed(call'[c].key, helloOf(c)', h)
    BY <1>2, RequestAgrees DEF Inv
  <2>3. \E h \in Handlers : Agreed(call'[c].key, helloOf(c)', h)
    BY <2>2 DEF Inv, TypeOK
  <2>4. HasAsked(c)' BY <1>2 DEF sendRequest, HasAsked, Inv, TypeOK
  <2> QED BY <2>1, <2>3, <2>4 DEF Frame, HelloFrame, SignedFrame, RequestFrame, ReplyFrame
<1>3. ASSUME NEW h \in Handlers, NEW g \in wire, accept(h, g) PROVE Frame(f)'
  <2>1. f = [type |-> "signed", fields |-> helloFields(h, clock),
             signature |-> <<h \in pinned, transcript(g.fields, helloFields(h, clock))>>]
    BY <1>3 DEF accept, ed25519Sign
  <2>2. PICK c \in Calls : /\ Greeted(c)' /\ Answering(h)'
                           /\ g.fields = helloOf(c)'
                           /\ handler'[h].key = sessionKey(h, c,
                                  transcript(helloOf(c)', helloFields(h, clock)))
    BY <1>3, AcceptAgrees DEF Inv
  <2>3. pinned' = pinned /\ clock \in Int BY Fixed DEF Inv, TypeOK
  <2>4. /\ f.type = "signed" /\ f.fields = helloFields(h, clock)
        /\ f.signature = <<h \in pinned', transcript(helloOf(c)', f.fields)>>
    BY <2>1, <2>2, <2>3
  <2>5. SignedFrame(f)'
    BY <2>2, <2>3, <2>4 DEF SignedFrame
  <2> QED BY <2>4, <2>5 DEF Frame, HelloFrame, RequestFrame, ReplyFrame
<1>4. ASSUME NEW h \in Handlers, NEW g \in wire, handle(h, g) PROVE Frame(f)'
  <2>1. f = [type |-> "sealed", key |-> handler[h].key, label |-> "tracker->client",
             body |-> g.body]
    BY <1>4 DEF handle, seal, encrypt
  <2>2. handler'[h].at = "replied" /\ handler'[h].key = handler[h].key
    BY <1>4, HandleAgrees DEF Inv
  <2> QED BY <2>1, <2>2 DEF Frame, HelloFrame, SignedFrame, RequestFrame, ReplyFrame
<1>5. ASSUME wire' = wire PROVE Frame(f)'
  BY <1>5
<1>6. ASSUME NEW c \in Calls, failCall(c) \/ (\E g \in wire : receiveReply(c, g))
      PROVE  wire' = wire
  BY <1>6 DEF failCall, receiveReply
<1>7. ASSUME NEW h \in Handlers, dropHandler(h) \/ (\E g \in wire : refuseStale(h, g))
      PROVE  wire' = wire
  BY <1>7 DEF dropHandler, refuseStale
<1>8. ASSUME Tick \/ UNCHANGED vars PROVE wire' = wire
  BY <1>8 DEF Tick, vars
<1> QED BY <1>1, <1>2, <1>3, <1>4, <1>5, <1>6, <1>7, <1>8 DEF Next

(* Every step keeps the invariant. *)
LEMMA InvStep ==
    ASSUME Inv, [Next]_vars
    PROVE  Inv'
<1> USE DEF Inv
<1>1. TypeOK' BY TypesStep
<1>2. Frames' BY <1>1, FramesStep
<1>3. CallKeys'
  <2> SUFFICES ASSUME NEW c \in Calls, call'[c].at \in {"sent", "answered"}
               PROVE  \E h \in pinned' : Agreed(call'[c].key, helloOf(c)', h)
    BY DEF CallKeys
  <2>0. pinned' = pinned BY Fixed
  <2>1. Greeted(c) BY NotYet
  <2>2. CASE \E f \in wire : sendRequest(c, f)
    BY <1>1, <2>0, <2>2, RequestAgrees
  <2>3. CASE call[c].at \in {"sent", "answered"}
    <3>1. HasAsked(c) BY <2>3 DEF HasAsked
    <3>2. call'[c].key = call[c].key BY <2>1, <3>1, CallsStable
    <3> QED BY <2>0, <2>1, <2>3, <3>2, HelloStable DEF CallKeys
  <2>4. ASSUME NEW f \in wire, receiveReply(c, f) PROVE call[c].at = "sent"
    BY <2>4 DEF receiveReply
  <2> QED BY <2>1, <2>2, <2>3, <2>4, CallsStable
<1>4. HandlerKeys'
  <2> SUFFICES ASSUME NEW h \in Handlers, handler'[h].at \in {"request", "replied"}
               PROVE  \E c \in Calls : Greeted(c)' /\ Agreed(handler'[h].key, helloOf(c)', h)
    BY DEF HandlerKeys
  <2>1. CASE \E f \in wire : accept(h, f)
    BY <1>1, <2>1, AcceptAgrees
  <2>2. CASE handler[h].at \in {"request", "replied"}
    <3>1. handler'[h].key = handler[h].key BY <2>2, HandlersStable DEF Answering
    <3> QED BY <2>2, <3>1, CallsStable, HelloStable DEF HandlerKeys
  <2>3. ASSUME NEW f \in wire, handle(h, f) PROVE handler[h].at = "request"
    BY <2>3 DEF handle
  <2> QED BY <2>1, <2>2, <2>3, HandlersStable
<1>5. Handled'
  <2> SUFFICES ASSUME NEW h \in Handlers, handler'[h].at = "replied"
               PROVE  (/\ handler[h].request \in Calls
                       /\ HasAsked(handler[h].request)
                       /\ handler[h].key = call[handler[h].request].key
                       /\ Agreed(handler[h].key, helloOf(handler[h].request), h))'
    BY DEF Handled
  <2>1. CASE \E f \in wire : handle(h, f)
    <3>1. PICK f \in wire : handle(h, f) BY <2>1
    <3> QED BY <1>1, <3>1, HandleAgrees DEF HasAsked, helloOf
  <2>2. CASE handler[h].at = "replied"
    <3> DEFINE c == handler[h].request
    <3>1. handler'[h] = handler[h] BY <2>2, HandlersStable
    <3>2. /\ c \in Calls /\ HasAsked(c) /\ handler[h].key = call[c].key
          /\ Agreed(handler[h].key, helloOf(c), h)
      BY <2>2 DEF Handled
    <3>3. Greeted(c) BY <3>2 DEF HasAsked, Greeted
    <3>4. /\ call'[c].at \in {"sent", "answered", "failed"} /\ call'[c].key = call[c].key
          /\ call'[c].sent = call[c].sent
      BY <3>2, <3>3, CallsStable DEF HasAsked
    <3>5. skew' = skew BY Fixed
    <3> QED BY <3>1, <3>2, <3>4, <3>5 DEF HasAsked, helloOf
  <2> QED BY <2>1, <2>2, HandlersStable
<1>6. ReplyIsOwn'
  <2> SUFFICES ASSUME NEW c \in Calls, call'[c].at = "answered"
               PROVE  \E h \in pinned' : handler'[h].at = "replied" /\ handler'[h].request = c
    BY DEF ReplyIsOwn
  <2>0. pinned' = pinned /\ pinned \subseteq Handlers BY Fixed DEF TypeOK
  <2>1. CASE call[c].at = "answered"
    BY <2>0, <2>1, HandlersStable DEF ReplyIsOwn
  <2>2. ASSUME NEW f \in wire, receiveReply(c, f)
        PROVE  \E h \in pinned' : handler'[h].at = "replied" /\ handler'[h].request = c
    <3>1. /\ call[c].at = "sent" /\ f.type = "sealed" /\ f.label = "tracker->client"
          /\ f.key = call[c].key
      BY <2>2 DEF receiveReply, opens, decrypts
    <3>2. PICK i \in pinned : Agreed(call[c].key, helloOf(c), i)
      BY <3>1 DEF CallKeys
    <3>3. PICK h \in Handlers : handler[h].at = "replied" /\ handler[h].key = call[c].key
      BY <3>1 DEF Frames, Frame, ReplyFrame
    <3>4. Agreed(call[c].key, helloOf(handler[h].request), h)
      BY <3>3 DEF Handled
    <3>5. handler[h].request = c /\ h = i
      BY <3>2, <3>4, AgreedOnce, HelloNames
    <3> QED BY <2>0, <3>3, <3>5, HandlersStable
  <2>3. Greeted(c) BY NotYet
  <2> QED BY <2>1, <2>2, <2>3, CallsStable
<1> QED BY <1>1, <1>2, <1>3, <1>4, <1>5, <1>6

-----------------------------------------------------------------------------
(* The theorems. *)

(* Every frame and every key of a run is accounted for: Inv holds always. *)
THEOREM KeysNameTheirEnds == Spec => []Inv
<1>1. Init => Inv
  <2> SUFFICES ASSUME Init PROVE Inv OBVIOUS
  <2>1. TypeOK BY TypesInit
  <2>2. Frames BY DEF Init, Frames
  <2>3. ASSUME NEW c \in Calls PROVE call[c].at = "start"
    BY DEF Init
  <2>4. ASSUME NEW h \in Handlers PROVE handler[h].at = "accept"
    BY DEF Init
  <2> QED BY <2>1, <2>2, <2>3, <2>4 DEF Inv, CallKeys, HandlerKeys, Handled, ReplyIsOwn
<1>2. Inv /\ [Next]_vars => Inv'
  BY InvStep
<1> QED BY <1>1, <1>2, PTL DEF Spec

(* Every frame and every key in use is well formed: keys are made of a        *)
(* client's hello and a tracker's, however frames are delivered.              *)
THEOREM TypeCorrect == Spec => []TypeOK
<1>1. Inv => TypeOK
  BY DEF Inv
<1> QED BY <1>1, KeysNameTheirEnds, PTL

(* No request is handled twice, by however many handlers and with however     *)
(* many frames delivered again: the handler's key names the call, and the     *)
(* call's key names the handler.                                              *)
THEOREM NoReplayIsHandled == Spec => []HandledOnce
<1>1. Inv => HandledOnce
  <2> SUFFICES ASSUME Inv, NEW h \in Handlers, handler[h].at = "replied"
               PROVE  /\ HasAsked(handler[h].request)
                      /\ \A i \in Handlers \ {h} : handler[i].at = "replied" =>
                             handler[i].request # handler[h].request
    BY DEF HandledOnce, HasAsked
  <2>1. HasAsked(handler[h].request) BY DEF Inv, Handled
  <2>2. ASSUME NEW i \in Handlers \ {h}, handler[i].at = "replied",
               handler[i].request = handler[h].request
        PROVE  FALSE
    <3>1. handler[i].key = handler[h].key BY <2>2 DEF Inv, Handled
    <3> QED BY <2>2, <3>1, AgreedOnce DEF Inv, Handled
  <2> QED BY <2>1, <2>2
<1> QED BY <1>1, KeysNameTheirEnds, PTL

(* A reply that a call returns was made by a pinned handler that handled this *)
(* very request.                                                              *)
THEOREM RepliesAreOwn == Spec => []ReplyIsOwn
<1>1. Inv => ReplyIsOwn BY DEF Inv
<1> QED BY <1>1, KeysNameTheirEnds, PTL
=============================================================================
