---------------------------- MODULE GroupAccess -----------------------------
(***************************************************************************)
(* What the tracker promises about access, whatever commands and sessions  *)
(* realise it: groups have members, members offer files, and only a        *)
(* current member is issued tickets, one for every offer of the file and   *)
(* each good for Lifetime seconds.  TrackerState implements this           *)
(* (TrackerRefinement); PeerAccess builds the peers' side on top of it.    *)
(***************************************************************************)
EXTENDS Integers

CONSTANTS
    Users, Groups, Files,
    Peers,      \* a running client: its peer server's address and its peer key
    Times,      \* the instants at which the tracker may issue a ticket
    Lifetime,   \* PeerTicket::LIFETIME_SECONDS
    NoPeer

ASSUME AccessAssumption ==
    /\ NoPeer \notin Peers
    /\ Times \subseteq Int
    /\ Lifetime \in Int

VARIABLES
    members,    \* group -> its members
    seeders,    \* group -> file -> user -> the peer that serves it
    issued      \* the SeederAccess entries the last command returned

accessVars == <<members, seeders, issued>>

Tickets == [user : Users, group : Groups, file : Files, expires : Int]
AccessRecords == [peer : Peers, ticket : Tickets, key : Peers \X Tickets]

(* HMAC(peer key, ticket): known to whoever got it from the tracker, and to  *)
(* the peer.                                                                 *)
TicketKey(p, t) == <<p, t>>

AccessInit ==
    /\ members = [g \in Groups |-> {}]
    /\ seeders = [g \in Groups |-> [f \in Files |-> [u \in Users |-> NoPeer]]]
    /\ issued = {}

(* Somebody becomes a member: a new group's creator, an accepted request. *)
Enrol(g, u) ==
    /\ members' = [members EXCEPT ![g] = @ \cup {u}]
    /\ issued' = {}
    /\ UNCHANGED seeders

(* Membership ends, and with it everything the user offers in the group. *)
Expel(g, u) ==
    /\ u \in members[g]
    /\ members' = [members EXCEPT ![g] = @ \ {u}]
    /\ seeders' = [seeders EXCEPT ![g] = [f \in Files |-> [@[f] EXCEPT ![u] = NoPeer]]]
    /\ issued' = {}

Offer(g, f, u, p) ==
    /\ u \in members[g]
    /\ seeders' = [seeders EXCEPT ![g][f][u] = p]
    /\ issued' = {}
    /\ UNCHANGED members

(* One user stops offering one file, or (logging out) everything. *)
Withdraw(u, S) ==
    /\ seeders' = [g \in Groups |-> [f \in Files |->
          IF <<g, f>> \in S THEN [seeders[g][f] EXCEPT ![u] = NoPeer] ELSE seeders[g][f]]]
    /\ issued' = {}
    /\ UNCHANGED members

Issue(g, f, u, now) ==
    LET ticket == [user |-> u, group |-> g, file |-> f, expires |-> now + Lifetime]
        online == {v \in Users : seeders[g][f][v] # NoPeer}
    IN  /\ u \in members[g]
        /\ online # {}
        /\ issued' = {[peer |-> seeders[g][f][v], ticket |-> ticket,
                       key |-> TicketKey(seeders[g][f][v], ticket)] : v \in online}
        /\ UNCHANGED <<members, seeders>>

(* A command that concerns no membership, offer or ticket. *)
Other ==
    /\ issued' = {}
    /\ UNCHANGED <<members, seeders>>

(* The tracker process starts again, empty. *)
Reset ==
    /\ members' = [g \in Groups |-> {}]
    /\ seeders' = [g \in Groups |-> [f \in Files |-> [u \in Users |-> NoPeer]]]
    /\ issued' = {}

AccessNext ==
    \/ Other
    \/ Reset
    \/ \E u \in Users :
         \/ Withdraw(u, Groups \X Files)
         \/ \E g \in Groups :
              \/ Enrol(g, u)
              \/ Expel(g, u)
              \/ \E f \in Files :
                   \/ Withdraw(u, {<<g, f>>})
                   \/ \E p \in Peers : Offer(g, f, u, p)
                   \/ \E now \in Times : Issue(g, f, u, now)

AccessSpec == AccessInit /\ [][AccessNext]_accessVars
=============================================================================
