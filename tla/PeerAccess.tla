----------------------------- MODULE PeerAccess -----------------------------
(***************************************************************************)
(* Peers serving pieces to whoever shows a ticket (client/peer,            *)
(* common/peer_ticket), composed with the tracker's promise (GroupAccess)  *)
(* and with clocks that differ by up to MaxSkew seconds.                   *)
(*                                                                         *)
(* A peer decides alone: from the ticket in the request, its own peer key, *)
(* its own clock and the files it shares at that moment.  It never asks    *)
(* the tracker.  Requests travel over TCP connections of their own, so     *)
(* they arrive late, not at all, or (when recorded and sent again) twice.  *)
(***************************************************************************)
EXTENDS GroupAccess, FiniteSets

CONSTANTS
    Window,     \* WINDOW_SECONDS of isFreshTimestamp
    MaxSkew,    \* how far a peer's clock may be from the tracker's
    MaxTime,    \* bound: the clock stops here
    MaxHeld,    \* bound: tickets in the hands of downloaders
    MaxInFlight \* bound: requests on the network

ASSUME ClockAssumption ==
    /\ Window \in Int
    /\ MaxSkew \in Nat
    /\ MaxTime \in Nat

VARIABLES
    clock,      \* the tracker's clock, seconds
    skew,       \* peer -> its clock minus the tracker's
    held,       \* SeederAccess entries downloaders have received
    network,    \* requests sent and not lost
    shared,     \* peer -> the (group, file) pairs in its SharedFiles
    answer,     \* what respond() returned in this step, and to which request
    lastMember, \* history: group -> user -> the last instant of membership
    listed      \* history: the (peer, group, file) the tracker has ever listed

history == <<lastMember, listed>>
vars == <<members, seeders, issued, clock, skew, held, network, shared, answer, lastMember, listed>>

Never == -1

(* A request frame: the ticket in clear, the rest encrypted under a key.     *)
(* "sent" is history: the tracker's clock when the frame was made.           *)
Requests == [ticket : Tickets, key : Peers \X Tickets, stamp : Int, sent : Int]

NoAnswer == [reply |-> "none"]

Init ==
    /\ AccessInit
    /\ clock = 0
    /\ skew \in [Peers -> -MaxSkew .. MaxSkew]
    /\ held = {}
    /\ network = {}
    /\ shared = [p \in Peers |-> {}]
    /\ answer = NoAnswer
    /\ lastMember = [g \in Groups |-> [u \in Users |-> Never]]
    /\ listed = {}

-----------------------------------------------------------------------------
PeerTime(p) == clock + skew[p]

Silent == answer' = NoAnswer

(* History: the members after the step are members now, and the peers listed *)
(* after the step have been listed.                                          *)
Record ==
    /\ lastMember' = [g \in Groups |-> [u \in Users |->
          IF u \in members'[g] THEN clock' ELSE lastMember[g][u]]]
    /\ listed' = listed \cup {x \in Peers \X Groups \X Files :
                                \E u \in Users : seeders'[x[2]][x[3]][u] = x[1]}

-----------------------------------------------------------------------------
(* Faulty variants, used only to show that the properties can fail. *)

(* A ticket still works in the second it expires. *)
expired_late(t, now) == now > t.expires

(* The past of a request is bounded, its future not tolerated at all. *)
isFreshTimestamp_noFuture(stamp, now) == stamp <= now /\ now - stamp <= Window

(* The key is checked against the ticket, not against this peer's own key. *)
Admits_anyPeerKey(p, r) ==
    /\ PeerTime(p) < r.ticket.expires
    /\ r.key[2] = r.ticket
    /\ r.stamp <= PeerTime(p) + Window /\ PeerTime(p) - r.stamp <= Window
    /\ <<r.ticket.group, r.ticket.file>> \in shared[p]

(* The HMAC's key and message are swapped when the frame is sealed. *)
makeRequest_swapped(a, t, q) ==
    /\ Cardinality(network) < MaxInFlight
    /\ network' = network \cup {[ticket |-> t, key |-> <<a.key[2], a.key[1]>>,
                                 stamp |-> clock + skew[q], sent |-> clock]}
    /\ answer' = NoAnswer
    /\ UNCHANGED <<accessVars, clock, skew, held, shared, history>>

-----------------------------------------------------------------------------
(* A step of the tracker; what it issues reaches the downloader that asked. *)
TrackerStep ==
    /\ AccessNext
    /\ held' = held \cup issued'
    /\ \A a \in issued' : a.ticket.expires = clock + Lifetime
    /\ Cardinality(held') <= MaxHeld
    /\ UNCHANGED <<clock, skew, network, shared>>
    /\ Silent /\ Record

Tick ==
    /\ clock < MaxTime
    /\ clock' = clock + 1
    /\ UNCHANGED <<accessVars, skew, held, network, shared>>
    /\ Silent /\ Record

(* A downloader forgets a ticket (its download ended or was renewed). *)
Forget(a) ==
    /\ held' = held \ {a}
    /\ Silent
    /\ UNCHANGED <<accessVars, clock, skew, network, shared, history>>

(* makeRequest(): under any key somebody holds, with the ticket it belongs to *)
(* or another, its expiry as issued or moved, stamped by the clock of the     *)
(* sender (peer q's machine).                                                 *)
makeRequest(a, t, q) ==
    /\ Cardinality(network) < MaxInFlight
    /\ network' = network \cup {[ticket |-> t, key |-> a.key, stamp |-> PeerTime(q),
                                 sent |-> clock]}
    /\ Silent
    /\ UNCHANGED <<accessVars, clock, skew, held, shared, history>>

(* The connection breaks, or the frame is dropped after its answer. *)
Lose(r) ==
    /\ network' = network \ {r}
    /\ Silent
    /\ UNCHANGED <<accessVars, clock, skew, held, shared, history>>

(* uploadFile(), a download, stop_share, leave_group and logout change what a *)
(* client shares without the tracker's view having to agree.                  *)
ShareLocally(p, g, f) ==
    /\ shared' = [shared EXCEPT ![p] = @ \cup {<<g, f>>}]
    /\ Silent
    /\ UNCHANGED <<accessVars, clock, skew, held, network, history>>

UnshareLocally(p, g, f) ==
    /\ shared' = [shared EXCEPT ![p] = @ \ {<<g, f>>}]
    /\ Silent
    /\ UNCHANGED <<accessVars, clock, skew, held, network, history>>

expired(t, now) == now >= t.expires
isFreshTimestamp(stamp, now) == stamp <= now + Window /\ now - stamp <= Window

(* Every refusal before the request is known to be genuine is the same. *)
Admits(p, r) ==
    /\ ~expired(r.ticket, PeerTime(p))
    /\ r.key = TicketKey(p, r.ticket)
    /\ isFreshTimestamp(r.stamp, PeerTime(p))
    /\ <<r.ticket.group, r.ticket.file>> \in shared[p]

(* PeerServer::respond(); a genuine request is served when the piece is       *)
(* available and readable.  The frame may be delivered again.                 *)
respond(p, r, readable) ==
    /\ answer' = [reply |-> IF ~Admits(p, r) THEN "DENIED"
                            ELSE IF readable THEN "REPLY" ELSE "UNAVAILABLE",
                  peer |-> p, request |-> r]
    /\ UNCHANGED <<accessVars, clock, skew, held, network, shared, history>>

Next ==
    \/ TrackerStep
    \/ Tick
    \/ \E a \in held : Forget(a)
    \/ \E a, b \in held, stretch \in 0 .. 1, q \in Peers :
         makeRequest(a, [b.ticket EXCEPT !.expires = @ + stretch], q)
    \/ \E r \in network : Lose(r)
    \/ \E p \in Peers, g \in Groups, f \in Files :
         ShareLocally(p, g, f) \/ UnshareLocally(p, g, f)
    \/ \E p \in Peers, r \in network, readable \in BOOLEAN : respond(p, r, readable)

Spec == Init /\ [][Next]_vars

-----------------------------------------------------------------------------
Served == answer.reply = "REPLY"

(* The types of the clocks, tickets and requests. *)
TypeOK ==
    /\ members \in [Groups -> SUBSET Users]
    /\ seeders \in [Groups -> [Files -> [Users -> Peers \cup {NoPeer}]]]
    /\ issued \subseteq AccessRecords
    /\ clock \in 0 .. MaxTime
    /\ skew \in [Peers -> -MaxSkew .. MaxSkew]
    /\ held \subseteq AccessRecords
    /\ network \subseteq Requests
    /\ shared \in [Peers -> SUBSET (Groups \X Files)]
    /\ answer \in {NoAnswer} \cup [reply : {"DENIED", "REPLY", "UNAVAILABLE"},
                                   peer : Peers, request : Requests]
    /\ lastMember \in [Groups -> [Users -> Int]]
    /\ listed \subseteq Peers \X Groups \X Files

(* Access ends with membership: a peer serves a ticket's user only within     *)
(* Lifetime (plus the skew of its clock) of an instant at which that user was *)
(* a member of the ticket's group, however often and whenever the request is  *)
(* delivered.                                                                 *)
AccessEndsWithMembership ==
    Served => LET t == answer.request.ticket
              IN  clock - lastMember[t.group][t.user] < Lifetime + MaxSkew

(* Whoever serves a file of a group was listed for it by the tracker, now or  *)
(* earlier, whatever ticket, key and frame reach it: respond() finds in the   *)
(* ticket's key that the ticket was issued for this very peer.                *)
ServedByListedSeeder ==
    Served => LET t == answer.request.ticket
              IN  <<answer.peer, t.group, t.file>> \in listed

(* A genuine request is not refused: when the peer shares the file, the       *)
(* ticket has more than the skew left to live, and the request is young       *)
(* enough for two skewed clocks, the peer does not answer DENIED.             *)
GenuineNotDenied ==
    answer.reply = "DENIED" =>
        LET r == answer.request
        IN  ~ /\ r.key = TicketKey(answer.peer, r.ticket)
              /\ <<r.ticket.group, r.ticket.file>> \in shared[answer.peer]
              /\ clock + MaxSkew < r.ticket.expires
              /\ clock - r.sent <= Window - 2 * MaxSkew
=============================================================================
