-------------------------- MODULE PeerAccessProofs --------------------------
(* Proofs about PeerAccess, for any users, peers, lifetimes, windows, skews   *)
(* and bounds.                                                                *)
EXTENDS PeerAccess, TLAPS

(* The tracker's part of the state. *)
AccessTyped ==
    /\ members \in [Groups -> SUBSET Users]
    /\ seeders \in [Groups -> [Files -> [Users -> Peers \cup {NoPeer}]]]
    /\ issued \subseteq AccessRecords

(* A key that somebody may have: its ticket ends within Lifetime of an        *)
(* instant of membership, and its peer was listed for the ticket's file.      *)
Earned(k) ==
    /\ k[2].expires <= lastMember[k[2].group][k[2].user] + Lifetime
    /\ <<k[1], k[2].group, k[2].file>> \in listed

(* Every key in a downloader's hands or on the network was earned, *)
KeysEarned ==
    /\ \A a \in held : Earned(a.key)
    /\ \A r \in network : Earned(r.key)

(* nobody was a member in the future, *)
MembersInPast == \A g \in Groups, u \in Users : lastMember[g][u] <= clock

(* and a request is stamped by a clock that was near the tracker's. *)
StampsNear ==
    \A r \in network : /\ r.sent <= clock
                       /\ r.sent - MaxSkew <= r.stamp
                       /\ r.stamp <= r.sent + MaxSkew

Promise == AccessEndsWithMembership /\ ServedByListedSeeder /\ GenuineNotDenied

Inv == TypeOK /\ KeysEarned /\ MembersInPast /\ StampsNear /\ Promise

-----------------------------------------------------------------------------
(* Steps of the tracker keep its part of the state well typed. *)
LEMMA AccessType ==
  ASSUME AccessTyped, AccessNext PROVE AccessTyped'
<1> USE DEF AccessTyped
<1>1. CASE Other \/ Reset
  BY <1>1 DEF Other, Reset
<1>2. ASSUME NEW u \in Users, NEW S, Withdraw(u, S) PROVE AccessTyped'
  BY <1>2 DEF Withdraw
<1>3. ASSUME NEW g \in Groups, NEW u \in Users, Enrol(g, u) PROVE AccessTyped'
  BY <1>3 DEF Enrol
<1>4. ASSUME NEW g \in Groups, NEW u \in Users, Expel(g, u) PROVE AccessTyped'
  BY <1>4 DEF Expel
<1>5. ASSUME NEW g \in Groups, NEW f \in Files, NEW u \in Users, NEW p \in Peers,
             Offer(g, f, u, p)
      PROVE  AccessTyped'
  BY <1>5 DEF Offer
<1>6. ASSUME NEW g \in Groups, NEW f \in Files, NEW u \in Users, NEW now \in Times,
             Issue(g, f, u, now)
      PROVE  AccessTyped'
  <2> DEFINE ticket == [user |-> u, group |-> g, file |-> f, expires |-> now + Lifetime]
  <2>1. ticket \in Tickets
    BY AccessAssumption DEF Tickets
  <2>2. \A v \in Users : seeders[g][f][v] # NoPeer => seeders[g][f][v] \in Peers
    OBVIOUS
  <2> HIDE DEF ticket
  <2>3. \A v \in Users : seeders[g][f][v] # NoPeer =>
           [peer |-> seeders[g][f][v], ticket |-> ticket,
            key |-> TicketKey(seeders[g][f][v], ticket)] \in AccessRecords
    BY <2>1, <2>2 DEF AccessRecords, TicketKey
  <2> QED
    BY <1>6, <2>3 DEF Issue, ticket
<1> QED
  BY <1>1, <1>2, <1>3, <1>4, <1>5, <1>6 DEF AccessNext

(* What a step issues is for a member and an offer, both still there after it. *)
LEMMA IssuedToMembers ==
  ASSUME AccessTyped, AccessNext, NEW a \in issued'
  PROVE  /\ a.key = TicketKey(a.peer, a.ticket)
         /\ a.ticket.user \in members'[a.ticket.group]
         /\ \E v \in Users : seeders'[a.ticket.group][a.ticket.file][v] = a.peer
<1>1. PICK g \in Groups, f \in Files, u \in Users, now \in Times : Issue(g, f, u, now)
  BY DEF AccessNext, Other, Reset, Withdraw, Enrol, Expel, Offer
<1> DEFINE ticket == [user |-> u, group |-> g, file |-> f, expires |-> now + Lifetime]
<1>2. PICK v \in Users : a = [peer |-> seeders[g][f][v], ticket |-> ticket,
                              key |-> TicketKey(seeders[g][f][v], ticket)]
  BY <1>1 DEF Issue
<1> QED
  BY <1>1, <1>2 DEF Issue

(* Membership and listings, once recorded, only move forward. *)
LEMMA RecordMonotone ==
  ASSUME TypeOK, MembersInPast, Record, clock <= clock', clock' \in Int
  PROVE  /\ \A g \in Groups, u \in Users : lastMember[g][u] <= lastMember'[g][u]
         /\ \A g \in Groups, u \in Users : lastMember'[g][u] <= clock'
         /\ lastMember' \in [Groups -> [Users -> Int]]
         /\ listed \subseteq listed'
         /\ listed' \subseteq Peers \X Groups \X Files
BY DEF TypeOK, MembersInPast, Record

(* A key stays earned. *)
LEMMA EarnedMonotone ==
  ASSUME TypeOK, NEW k \in Peers \X Tickets, Earned(k),
         lastMember' \in [Groups -> [Users -> Int]],
         \A g \in Groups, u \in Users : lastMember[g][u] <= lastMember'[g][u],
         listed \subseteq listed'
  PROVE  Earned(k)'
<1>1. k[2].group \in Groups /\ k[2].user \in Users /\ k[2].expires \in Int
  BY DEF Tickets
<1> QED
  BY <1>1, AccessAssumption DEF Earned, TypeOK

-----------------------------------------------------------------------------
(* A step of the tracker. *)
LEMMA TrackerStepInv ==
  ASSUME Inv, TrackerStep PROVE Inv'
<1> USE DEF Inv
<1>1. AccessTyped
  BY DEF TypeOK, AccessTyped
<1>2. AccessTyped'
  BY <1>1, AccessType DEF TrackerStep
<1>3. clock' = clock /\ clock \in Int
  BY DEF TrackerStep, TypeOK
<1>4. /\ \A g \in Groups, u \in Users : lastMember[g][u] <= lastMember'[g][u]
      /\ \A g \in Groups, u \in Users : lastMember'[g][u] <= clock'
      /\ lastMember' \in [Groups -> [Users -> Int]]
      /\ listed \subseteq listed'
      /\ listed' \subseteq Peers \X Groups \X Files
  BY <1>3, RecordMonotone DEF TrackerStep
<1>5. TypeOK'
  BY <1>2, <1>3, <1>4 DEF TrackerStep, TypeOK, AccessTyped, Silent
<1>6. \A a \in held : a.key \in Peers \X Tickets
  BY DEF TypeOK, AccessRecords
<1>7. \A r \in network : r.key \in Peers \X Tickets
  BY DEF TypeOK, Requests
<1>8. ASSUME NEW a \in issued' PROVE Earned(a.key)'
  <2>1. a \in AccessRecords
    BY <1>2 DEF AccessTyped
  <2>2. /\ a.peer \in Peers /\ a.ticket.group \in Groups /\ a.ticket.user \in Users
        /\ a.ticket.file \in Files
    BY <2>1 DEF AccessRecords, Tickets
  <2>3. /\ a.key = <<a.peer, a.ticket>>
        /\ a.ticket.user \in members'[a.ticket.group]
        /\ \E v \in Users : seeders'[a.ticket.group][a.ticket.file][v] = a.peer
    BY <1>1, IssuedToMembers DEF TrackerStep, TicketKey
  <2>4. lastMember'[a.ticket.group][a.ticket.user] = clock
    BY <1>3, <2>2, <2>3 DEF TrackerStep, Record
  <2>5. <<a.peer, a.ticket.group, a.ticket.file>> \in listed'
    BY <2>2, <2>3 DEF TrackerStep, Record
  <2>6. a.ticket.expires = clock + Lifetime
    BY DEF TrackerStep
  <2> QED
    BY <1>3, <2>3, <2>4, <2>5, <2>6, AccessAssumption DEF Earned
<1>9. KeysEarned'
  BY <1>4, <1>6, <1>7, <1>8, EarnedMonotone DEF KeysEarned, TrackerStep
<1>10. MembersInPast' /\ StampsNear' /\ Promise'
  BY <1>4 DEF MembersInPast, StampsNear, TrackerStep, Silent, NoAnswer, Promise, Served,
     AccessEndsWithMembership, ServedByListedSeeder, GenuineNotDenied
<1> QED
  BY <1>5, <1>9, <1>10

(* Time passes. *)
LEMMA TickInv ==
  ASSUME Inv, Tick PROVE Inv'
<1> USE DEF Inv
<1>1. clock' = clock + 1 /\ clock \in Int /\ clock' \in 0 .. MaxTime
  BY ClockAssumption DEF Tick, TypeOK
<1>2. /\ \A g \in Groups, u \in Users : lastMember[g][u] <= lastMember'[g][u]
      /\ \A g \in Groups, u \in Users : lastMember'[g][u] <= clock'
      /\ lastMember' \in [Groups -> [Users -> Int]]
      /\ listed \subseteq listed'
      /\ listed' \subseteq Peers \X Groups \X Files
  BY <1>1, RecordMonotone DEF Tick
<1>3. TypeOK'
  BY <1>1, <1>2 DEF Tick, TypeOK, accessVars, Silent
<1>4. \A a \in held : a.key \in Peers \X Tickets
  BY DEF TypeOK, AccessRecords
<1>5. \A r \in network : r.key \in Peers \X Tickets
  BY DEF TypeOK, Requests
<1>6. KeysEarned'
  BY <1>2, <1>4, <1>5, EarnedMonotone DEF KeysEarned, Tick
<1>7. \A r \in network : r.sent \in Int
  BY DEF TypeOK, Requests
<1>8. StampsNear'
  BY <1>1, <1>7 DEF StampsNear, Tick
<1>9. MembersInPast' /\ Promise'
  BY <1>2 DEF MembersInPast, Tick, Silent, NoAnswer, Promise, Served,
     AccessEndsWithMembership, ServedByListedSeeder, GenuineNotDenied
<1> QED
  BY <1>3, <1>6, <1>8, <1>9

(* A request is made with a key that somebody holds. *)
LEMMA RequestInv ==
  ASSUME Inv, NEW a \in held, NEW b \in held, NEW stretch \in 0 .. 1, NEW q \in Peers,
         makeRequest(a, [b.ticket EXCEPT !.expires = @ + stretch], q)
  PROVE  Inv'
<1> USE DEF Inv
<1> DEFINE r == [ticket |-> [b.ticket EXCEPT !.expires = @ + stretch], key |-> a.key,
                 stamp |-> PeerTime(q), sent |-> clock]
<1>1. a \in AccessRecords /\ b \in AccessRecords
  BY DEF TypeOK
<1>2. [b.ticket EXCEPT !.expires = @ + stretch] \in Tickets
  BY <1>1 DEF AccessRecords, Tickets
<1>3. /\ clock \in Int /\ PeerTime(q) \in Int
      /\ clock - MaxSkew <= PeerTime(q) /\ PeerTime(q) <= clock + MaxSkew
  BY ClockAssumption DEF PeerTime, TypeOK
<1>4. r \in Requests
  BY <1>1, <1>2, <1>3 DEF Requests, AccessRecords
<1>5. network' = network \cup {r}
  BY DEF makeRequest
<1>6. /\ r.key = a.key /\ r.sent = clock /\ r.stamp = PeerTime(q)
  OBVIOUS
<1> HIDE DEF r
<1>7. TypeOK'
  BY <1>4, <1>5 DEF TypeOK, makeRequest, accessVars, history, Silent
<1>8. KeysEarned'
  BY <1>5, <1>6 DEF KeysEarned, Earned, makeRequest, history
<1>9. StampsNear'
  BY <1>3, <1>5, <1>6 DEF StampsNear, makeRequest
<1>10. MembersInPast' /\ Promise'
  BY DEF MembersInPast, makeRequest, history, Silent, NoAnswer, Promise, Served,
     AccessEndsWithMembership, ServedByListedSeeder, GenuineNotDenied
<1> QED
  BY <1>7, <1>8, <1>9, <1>10

(* A peer serves within a member's time, at a listed seeder, and refuses no   *)
(* genuine request.                                                           *)
LEMMA RespondInv ==
  ASSUME Inv, NEW p \in Peers, NEW r \in network, NEW readable \in BOOLEAN,
         respond(p, r, readable)
  PROVE  Inv'
<1> USE DEF Inv
<1>1. /\ answer'.request = r /\ answer'.peer = p
      /\ answer'.reply = IF ~Admits(p, r) THEN "DENIED"
                         ELSE IF readable THEN "REPLY" ELSE "UNAVAILABLE"
      /\ answer' \in [reply : {"DENIED", "REPLY", "UNAVAILABLE"}, peer : Peers,
                      request : Requests]
  BY DEF respond, TypeOK
<1>2. /\ r.ticket \in Tickets /\ r.stamp \in Int /\ r.sent \in Int
  BY DEF TypeOK, Requests
<1>3. r.ticket.group \in Groups /\ r.ticket.user \in Users /\ r.ticket.expires \in Int
  BY <1>2 DEF Tickets
<1>4. /\ clock \in Int /\ PeerTime(p) \in Int
      /\ clock - MaxSkew <= PeerTime(p) /\ PeerTime(p) <= clock + MaxSkew
  BY ClockAssumption DEF PeerTime, TypeOK
<1>5. /\ UNCHANGED <<members, seeders, issued, clock, skew, held, network, shared,
                     lastMember, listed>>
  BY DEF respond, accessVars, history
<1>6. TypeOK'
  BY <1>1, <1>5 DEF TypeOK
<1>7. KeysEarned' /\ MembersInPast' /\ StampsNear'
  BY <1>5 DEF KeysEarned, Earned, MembersInPast, StampsNear
<1>8. ASSUME Served'
      PROVE  AccessEndsWithMembership' /\ ServedByListedSeeder'
  <2>1. Admits(p, r)
    BY <1>1, <1>8 DEF Served
  <2>2. r.key[1] = p /\ r.key[2] = r.ticket /\ Earned(r.key)
    BY <2>1 DEF Admits, TicketKey, KeysEarned
  <2>3. PeerTime(p) < r.ticket.expires
    BY <1>3, <1>4, <2>1 DEF Admits, expired
  <2>4. lastMember[r.ticket.group][r.ticket.user] \in Int
    BY <1>3 DEF TypeOK
  <2>5. clock - lastMember[r.ticket.group][r.ticket.user] < Lifetime + MaxSkew
    BY <1>3, <1>4, <2>2, <2>3, <2>4, AccessAssumption, ClockAssumption DEF Earned
  <2> QED
    BY <1>1, <1>5, <2>2, <2>5 DEF AccessEndsWithMembership, ServedByListedSeeder, Earned
<1>9. ASSUME answer'.reply = "DENIED"
      PROVE  GenuineNotDenied'
  <2>1. ~Admits(p, r)
    BY <1>1, <1>9
  <2>2. ASSUME r.key = TicketKey(p, r.ticket),
               <<r.ticket.group, r.ticket.file>> \in shared[p],
               clock + MaxSkew < r.ticket.expires,
               clock - r.sent <= Window - 2 * MaxSkew
        PROVE  FALSE
    <3>1. ~expired(r.ticket, PeerTime(p))
      BY <1>3, <1>4, <2>2, ClockAssumption DEF expired
    <3>2. isFreshTimestamp(r.stamp, PeerTime(p))
      BY <1>2, <1>4, <2>2, ClockAssumption DEF isFreshTimestamp, StampsNear
    <3> QED
      BY <2>1, <2>2, <3>1, <3>2 DEF Admits
  <2> QED
    BY <1>1, <1>5, <2>2 DEF GenuineNotDenied, TicketKey
<1>10. Promise'
  BY <1>8, <1>9 DEF Promise, AccessEndsWithMembership, ServedByListedSeeder, GenuineNotDenied,
     Served
<1> QED
  BY <1>6, <1>7, <1>10

(* Tickets are forgotten, frames lost, files shared and not shared any more. *)
LEMMA LocalInv ==
  ASSUME Inv,
         \/ \E a \in held : Forget(a)
         \/ \E r \in network : Lose(r)
         \/ \E p \in Peers, g \in Groups, f \in Files :
              ShareLocally(p, g, f) \/ UnshareLocally(p, g, f)
  PROVE  Inv'
<1> USE DEF Inv
<1>1. /\ UNCHANGED <<members, seeders, issued, clock, skew, lastMember, listed>>
      /\ held' \subseteq held /\ network' \subseteq network
      /\ answer' = NoAnswer
  BY DEF Forget, Lose, ShareLocally, UnshareLocally, accessVars, history, Silent
<1>2. shared' \in [Peers -> SUBSET (Groups \X Files)]
  BY DEF Forget, Lose, ShareLocally, UnshareLocally, TypeOK
<1>3. TypeOK'
  BY <1>1, <1>2 DEF TypeOK
<1>4. KeysEarned' /\ MembersInPast' /\ StampsNear'
  BY <1>1 DEF KeysEarned, Earned, MembersInPast, StampsNear
<1>5. Promise'
  BY <1>1 DEF NoAnswer, Promise, Served, AccessEndsWithMembership, ServedByListedSeeder,
     GenuineNotDenied
<1> QED
  BY <1>3, <1>4, <1>5

-----------------------------------------------------------------------------
(* The inductive invariant: keys travel only after the tracker has given them *)
(* to a member for a listed seeder.                                           *)
THEOREM KeysAreEarned == Spec => []Inv
<1>1. Init => Inv
  <2> SUFFICES ASSUME Init PROVE Inv
    OBVIOUS
  <2>1. TypeOK
    BY ClockAssumption DEF Init, AccessInit, TypeOK, Never
  <2>2. KeysEarned /\ MembersInPast /\ StampsNear
    BY DEF Init, KeysEarned, MembersInPast, StampsNear, Never
  <2>3. Promise
    BY DEF Init, NoAnswer, Promise, Served, AccessEndsWithMembership, ServedByListedSeeder,
       GenuineNotDenied
  <2> QED
    BY <2>1, <2>2, <2>3 DEF Inv
<1>2. Inv /\ [Next]_vars => Inv'
  <2> SUFFICES ASSUME Inv, [Next]_vars PROVE Inv'
    OBVIOUS
  <2>1. CASE UNCHANGED vars
    BY <2>1 DEF vars, Inv, TypeOK, KeysEarned, Earned, MembersInPast, StampsNear, Promise, Served,
       AccessEndsWithMembership, ServedByListedSeeder, GenuineNotDenied
  <2>2. CASE Next
    BY <2>2, TrackerStepInv, TickInv, RequestInv, RespondInv, LocalInv DEF Next
  <2> QED
    BY <2>1, <2>2
<1> QED
  BY <1>1, <1>2, PTL DEF Spec

(* Clocks, tickets, requests and answers keep their types. *)
THEOREM TypeCorrect == Spec => []TypeOK
<1>1. Inv => TypeOK
  BY DEF Inv
<1> QED
  BY <1>1, KeysAreEarned, PTL

(* No peer serves anybody later than a ticket's life and its clock's skew     *)
(* after the end of the membership, for any lifetime, window and skew.        *)
THEOREM FormerMembersLoseAccess == Spec => []AccessEndsWithMembership
<1>1. Inv => AccessEndsWithMembership
  BY DEF Inv, Promise
<1> QED
  BY <1>1, KeysAreEarned, PTL

(* Only a seeder that the tracker listed for the file serves it. *)
THEOREM OnlyListedSeedersServe == Spec => []ServedByListedSeeder
<1>1. Inv => ServedByListedSeeder
  BY DEF Inv, Promise
<1> QED
  BY <1>1, KeysAreEarned, PTL

(* No genuine and young request is denied, for any skew of the two clocks. *)
THEOREM HonestAdmitted == Spec => []GenuineNotDenied
<1>1. Inv => GenuineNotDenied
  BY DEF Inv, Promise
<1> QED
  BY <1>1, KeysAreEarned, PTL
=============================================================================
