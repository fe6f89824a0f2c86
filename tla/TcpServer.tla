----------------------------- MODULE TcpServer ------------------------------
(***************************************************************************)
(* The accept loop both servers run (common/net/tcp_server.cpp): one       *)
(* thread in serve(), a detached thread per connection, and stop() from    *)
(* another thread.  idle_ is a condition variable: a thread asleep on it   *)
(* wakes only when notified (or spuriously).  A connection's thread        *)
(* receives and answers length-prefixed frames (common/net/net.cpp) from a *)
(* client that sends when it likes, a byte at a time or never.             *)
(***************************************************************************)
EXTENDS Naturals

CONSTANTS
    Conns,      \* the connections clients open
    Header,     \* bytes of a frame's length field
    MaxFrame,   \* MAX_FRAME, the longest payload accepted
    Rounds      \* frames a handler answers: 1 at a peer, 2 at the tracker

ASSUME FrameAssumption ==
    Header \in Nat \ {0} /\ MaxFrame \in Nat /\ Rounds \in Nat \ {0}

VARIABLES
    stopping,   \* stopping_
    pc,         \* where serve() is
    listening,  \* the listener is open
    conn,       \* connection -> its life: unborn, queued, accepted, header, body, ended ...
    need,       \* connection -> bytes receiveAll() still waits for
    round,      \* connection -> frames answered
    active      \* active_

vars == <<stopping, pc, listening, conn, need, round, active>>

Init ==
    /\ stopping = FALSE
    /\ pc = "loop"
    /\ listening = TRUE
    /\ conn = [c \in Conns |-> "unborn"]
    /\ need = [c \in Conns |-> Header]
    /\ round = [c \in Conns |-> 0]
    /\ active = 0

-----------------------------------------------------------------------------
(* Faulty variants, used only to show that the properties can fail. *)

(* The connection is not counted when its thread starts. *)
spawn_uncounted ==
    /\ pc = "spawn"
    /\ conn' = [c \in Conns |-> IF conn[c] = "accepted" THEN "header" ELSE conn[c]]
    /\ pc' = "loop"
    /\ UNCHANGED <<stopping, listening, need, round, active>>

(* A socket without a timeout: recv() waits as long as the client likes. *)
recvFails_noTimeout(c) == FALSE /\ UNCHANGED vars

(* poll() without a timeout: it returns only with a connection. *)
poll_noTimeout ==
    /\ pc = "poll"
    /\ \E c \in Conns : conn[c] = "queued"
    /\ pc' = "accept"
    /\ UNCHANGED <<stopping, listening, conn, need, round, active>>

-----------------------------------------------------------------------------
(* A client connects while the listener is open, or is turned away. *)
connect(c) ==
    /\ conn[c] = "unborn"
    /\ conn' = [conn EXCEPT ![c] = IF listening THEN "queued" ELSE "refused"]
    /\ UNCHANGED <<stopping, pc, listening, need, round, active>>

stop ==
    /\ ~stopping
    /\ stopping' = TRUE
    /\ UNCHANGED <<pc, listening, conn, need, round, active>>

Queued == {c \in Conns : conn[c] = "queued"}

(* The head of the loop. *)
checkStopping ==
    /\ pc = "loop"
    /\ pc' = IF stopping THEN "close" ELSE "poll"
    /\ UNCHANGED <<stopping, listening, conn, need, round, active>>

(* poll() returns with a connection, also when stop() was called meanwhile;  *)
(* or it times out, or is interrupted.                                       *)
poll ==
    /\ pc = "poll"
    /\ \/ Queued # {} /\ pc' = "accept"
       \/ pc' = "loop"
    /\ UNCHANGED <<stopping, listening, conn, need, round, active>>

(* accept() returns a connection; or it was interrupted (EINTR), or the       *)
(* client has gone (ECONNABORTED), and the loop goes on.                      *)
acceptOne ==
    /\ pc = "accept"
    /\ \E c \in Queued :
          \/ conn' = [conn EXCEPT ![c] = "accepted"] /\ pc' = "spawn"
          \/ conn' = [conn EXCEPT ![c] = "aborted"] /\ pc' = "loop"
          \/ UNCHANGED conn /\ pc' = "loop"
    /\ UNCHANGED <<stopping, listening, need, round, active>>

(* Any other error of accept() (out of descriptors, say) ends the loop. *)
acceptError ==
    /\ pc = "accept"
    /\ pc' = "close"
    /\ UNCHANGED <<stopping, listening, conn, need, round, active>>

(* Counts the connection, then starts its thread. *)
spawn ==
    /\ pc = "spawn"
    /\ active' = active + 1
    /\ conn' = [c \in Conns |-> IF conn[c] = "accepted" THEN "header" ELSE conn[c]]
    /\ pc' = "loop"
    /\ UNCHANGED <<stopping, listening, need, round>>

-----------------------------------------------------------------------------
(* The thread of a connection: handler_() *)

Receiving(c) == conn[c] \in {"header", "body"} /\ need[c] > 0

(* recv() returns some of the bytes receiveAll() waits for, *)
recv(c) ==
    /\ Receiving(c)
    /\ \E n \in 1 .. need[c] : need' = [need EXCEPT ![c] = @ - n]
    /\ UNCHANGED <<stopping, pc, listening, conn, round, active>>

(* or the client closes, or the socket's timeout passes without any. *)
recvFails(c) ==
    /\ Receiving(c)
    /\ conn' = [conn EXCEPT ![c] = "handled"]
    /\ UNCHANGED <<stopping, pc, listening, need, round, active>>

(* receiveFrame() has the length, whatever the client says it is, *)
frameLength(c) ==
    /\ conn[c] = "header" /\ need[c] = 0
    /\ \E n \in 0 .. MaxFrame + 1 :
          IF n > MaxFrame
          THEN conn' = [conn EXCEPT ![c] = "handled"] /\ UNCHANGED need
          ELSE conn' = [conn EXCEPT ![c] = "body"] /\ need' = [need EXCEPT ![c] = n]
    /\ UNCHANGED <<stopping, pc, listening, round, active>>

(* and the whole payload: the handler answers it and waits for the next, or,  *)
(* after the last, or when sending fails, returns and closes the socket;      *)
answer(c) ==
    /\ conn[c] = "body" /\ need[c] = 0
    /\ round' = [round EXCEPT ![c] = @ + 1]
    /\ \/ /\ round[c] + 1 < Rounds
          /\ conn' = [conn EXCEPT ![c] = "header"]
          /\ need' = [need EXCEPT ![c] = Header]
       \/ conn' = [conn EXCEPT ![c] = "handled"] /\ UNCHANGED need
    /\ UNCHANGED <<stopping, pc, listening, active>>

(* then, with the lock, the thread uncounts itself and wakes serve(). *)
retire(c) ==
    /\ conn[c] = "handled"
    /\ conn' = [conn EXCEPT ![c] = "ended"]
    /\ active' = active - 1
    /\ pc' = IF pc = "asleep" THEN "wait" ELSE pc
    /\ UNCHANGED <<stopping, listening, need, round>>

(* Closing the listener resets the connections still queued on it. *)
closeListener ==
    /\ pc = "close"
    /\ listening' = FALSE
    /\ conn' = [c \in Conns |-> IF conn[c] = "queued" THEN "refused" ELSE conn[c]]
    /\ pc' = "wait"
    /\ UNCHANGED <<stopping, need, round, active>>

(* idle_.wait(): checks the predicate with the lock held, sleeps if false. *)
waitIdle ==
    /\ pc = "wait"
    /\ pc' = IF active = 0 THEN "returned" ELSE "asleep"
    /\ UNCHANGED <<stopping, listening, conn, need, round, active>>

handle(c) == recvFails(c) \/ frameLength(c) \/ answer(c) \/ retire(c)
serve == checkStopping \/ poll \/ acceptOne \/ acceptError \/ spawn \/ closeListener \/ waitIdle

Next ==
    \/ serve
    \/ stop
    \/ \E c \in Conns : connect(c) \/ recv(c) \/ handle(c)

Spec == Init /\ [][Next]_vars

(* The serving thread runs, and so do the handlers' between two recv() calls; *)
(* a recv() that gets nothing fails after the socket's timeout.  Clients need *)
(* not send anything.                                                         *)
FairSpec ==
    /\ Spec
    /\ WF_vars(serve)
    /\ \A c \in Conns : WF_vars(handle(c))

-----------------------------------------------------------------------------
(* Types of the loop's state. *)
TypeOK ==
    /\ stopping \in BOOLEAN
    /\ pc \in {"loop", "poll", "accept", "spawn", "close", "wait", "asleep", "returned"}
    /\ listening \in BOOLEAN
    /\ conn \in [Conns -> {"unborn", "queued", "refused", "accepted", "aborted", "header",
                           "body", "handled", "ended"}]
    /\ need \in [Conns -> Nat]
    /\ round \in [Conns -> 0 .. Rounds]
    /\ active \in Nat

Alive == {c \in Conns : conn[c] \in {"header", "body", "handled"}}

(* Once serve() has returned no handler thread is left that could still use   *)
(* the server, the tracker's state or the shared files, which their owner is  *)
(* about to destroy.                                                          *)
NoThreadOutlivesServe == pc = "returned" => Alive = {}

(* serve() returns after stop(), and after an error of accept(), however      *)
(* slowly the clients of the open connections send and whatever arrives.      *)
StopReturns == stopping \/ pc = "close" ~> pc = "returned"

(* No connection is accepted and forgotten: each is served to its end, or     *)
(* given up when its client stalls, and its thread retires.                   *)
AcceptedIsHandled == \A c \in Conns : conn[c] = "accepted" ~> conn[c] = "ended"
=============================================================================
