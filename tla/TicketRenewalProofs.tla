------------------------ MODULE TicketRenewalProofs -------------------------
(***************************************************************************)
(* That a download keeps reaching the seeders that stay listed, for any    *)
(* users, endpoints, lifetimes, margins, delays and clocks, however long   *)
(* it lasts and whoever comes and goes in between.                         *)
(***************************************************************************)
EXTENDS TicketRenewal, FiniteSetTheorems, TLAPS

-----------------------------------------------------------------------------
(* The inductive invariant. *)

ListedAt(e) == {u \in Listed : listing[u].endpoint = e}

(* The listings at the endpoint have changed at the time or later. *)
ChangedSince(e, time) == changed[e] # Never /\ changed[e] >= time

(* An access is what the tracker lists at its endpoint, unless the listings   *)
(* there have changed since it was issued; it was not issued in the future.   *)
Current(a) ==
    /\ a.expires <= clock + Lifetime
    /\ \/ ChangedSince(a.endpoint, a.expires - Lifetime)
       \/ \E u \in ListedAt(a.endpoint) : listing[u].key = a.key

PlacesCurrent == \A i \in DOMAIN seeders : Current(seeders[i])

(* A request is under way only during a download, for no longer than Delay. *)
RequestTypes ==
    request # Idle =>
        /\ seeders # <<>>
        /\ request.lost \in BOOLEAN
        /\ request.since \in Nat
        /\ request.since <= clock
        /\ clock <= request.since + Delay

(* Unless a renewal was lost, the request's access had its margin left when   *)
(* it was sent, or was new then, or the tracker listed nobody at its endpoint *)
(* to renew it by.                                                            *)
RequestCurrent ==
    request # Idle =>
        /\ Current(request.access)
        /\ \/ request.lost
           \/ request.access.expires >= request.since + mySkew + Margin
           \/ request.access.expires = request.since + Lifetime
           \/ ListedAt(request.access.endpoint) = {}
           \/ ChangedSince(request.access.endpoint, request.since)

Inv == TypeOK /\ RequestTypes /\ PlacesCurrent /\ RequestCurrent

-----------------------------------------------------------------------------
(* Answers of the tracker. *)

(* A set of places has a last one. *)
LEMMA LastPlace ==
  ASSUME NEW n \in Nat, NEW T \in SUBSET (1 .. n), T # {}
  PROVE  \E k \in T : \A j \in T : j <= k
<1> DEFINE U == {n - k : k \in T}
<1>1. U \subseteq Nat /\ U # {}
  <2>1. \A k \in T : n - k \in Nat
    OBVIOUS
  <2> QED
    BY <2>1
<1>2. \E x \in U : \A y \in U : ~(<<y, x>> \in OpToRel(<, Nat))
  BY <1>1, NatLessThanWellFounded, WFMin
<1>3. PICK x \in U : \A y \in U : ~(y < x)
  BY <1>1, <1>2 DEF OpToRel
<1>4. PICK k \in T : x = n - k
  OBVIOUS
<1>5. \A j \in T : j <= k
  <2> SUFFICES ASSUME NEW j \in T PROVE j <= k
    OBVIOUS
  <2>1. n - j \in U
    OBVIOUS
  <2> QED
    BY <1>3, <1>4, <2>1
<1> QED
  BY <1>4, <1>5

(* download_file answers with well-typed accesses, new ones, for listed       *)
(* clients, and with one for each of them.                                    *)
LEMMA FreshCurrent ==
  ASSUME TypeOK
  PROVE  /\ \A a \in fresh : a \in Access /\ a.expires = clock + Lifetime
                             /\ \E u \in ListedAt(a.endpoint) : listing[u].key = a.key
         /\ \A u \in Listed : \E a \in fresh : a.endpoint = listing[u].endpoint
<1>1. \A u \in Listed : u \in Users /\ listing[u] \in [endpoint : Endpoints, key : Nat]
  BY DEF TypeOK, Listed
<1>2. clock + Lifetime \in Nat
  BY MarginAssumption, BoundAssumption DEF TypeOK
<1>3. ASSUME NEW a \in fresh
      PROVE  /\ a \in Access /\ a.expires = clock + Lifetime
             /\ \E u \in ListedAt(a.endpoint) : listing[u].key = a.key
  <2>1. PICK u \in Listed : a = [endpoint |-> listing[u].endpoint, key |-> listing[u].key,
                                expires |-> clock + Lifetime]
    BY DEF fresh
  <2> QED
    BY <1>1, <1>2, <2>1 DEF Access, ListedAt
<1>4. ASSUME NEW u \in Listed PROVE \E a \in fresh : a.endpoint = listing[u].endpoint
  <2>1. [endpoint |-> listing[u].endpoint, key |-> listing[u].key,
         expires |-> clock + Lifetime] \in fresh
    BY DEF fresh
  <2> QED
    BY <2>1
<1> QED
  BY <1>3, <1>4

(* The list has finitely many of them, so an answer is a sequence. *)
LEMMA FreshFinite == IsFiniteSet(fresh) /\ Cardinality(fresh) \in Nat
<1>1. IsFiniteSet(Listed)
  BY BoundAssumption, FS_Subset DEF Listed
<1> DEFINE access(u) == [endpoint |-> listing[u].endpoint, key |-> listing[u].key,
                         expires |-> clock + Lifetime]
           f == [u \in Listed |-> access(u)]
<1>2. f \in [Listed -> fresh] /\ \A a \in fresh : \E u \in Listed : f[u] = a
  BY DEF fresh
<1>3. f \in Surjection(Listed, fresh)
  BY <1>2 DEF Surjection
<1>4. IsFiniteSet(fresh)
  BY <1>1, <1>3, FS_Surjection
<1> QED
  BY <1>4, FS_CardinalityType

(* A renewed place has a new access for the same endpoint; one that is not    *)
(* renewed is at an endpoint where nobody is listed.                          *)
LEMMA Renewed ==
  ASSUME TypeOK, NEW answer \in sorted(fresh), NEW current, NEW k
  PROVE  \/ /\ update(current, k, answer) \in fresh
            /\ update(current, k, answer).endpoint = current.endpoint
         \/ /\ update(current, k, answer) = current
            /\ ListedAt(current.endpoint) = {}
<1> DEFINE matches == {j \in DOMAIN answer : answer[j].endpoint = current.endpoint}
<1>1. /\ answer \in [1 .. Cardinality(fresh) -> fresh]
      /\ \A a \in fresh : \E j \in DOMAIN answer : answer[j] = a
  BY DEF sorted
<1>2. CASE matches = {}
  <2>1. ListedAt(current.endpoint) = {}
    BY <1>1, <1>2, FreshCurrent DEF ListedAt
  <2> QED
    BY <1>2, <2>1 DEF update
<1>3. CASE matches # {}
  <2> DEFINE last == CHOOSE j \in matches : \A i \in matches : i <= j
  <2>1. \E j \in matches : \A i \in matches : i <= j
    <3>1. matches \in SUBSET (1 .. Cardinality(fresh))
      BY <1>1
    <3> HIDE DEF matches
    <3> QED
      BY <1>3, <3>1, FreshFinite, LastPlace
  <2>2. last \in matches
    BY <2>1
  <2>3. update(current, k, answer) = answer[last]
    BY <1>3 DEF update
  <2> QED
    BY <1>1, <2>2, <2>3
<1> QED
  BY <1>2, <1>3

-----------------------------------------------------------------------------
(* The steps. *)

(* Nothing is under way initially. *)
LEMMA InvInit == Init => Inv
<1> SUFFICES ASSUME Init PROVE Inv
  OBVIOUS
<1>1. TypeOK
  BY MarginAssumption, BoundAssumption DEF Init, TypeOK
<1> QED
  BY <1>1 DEF Init, Inv, RequestTypes, PlacesCurrent, RequestCurrent

(* The endpoint's listings stay as they are. *)
Untouched(e) ==
    /\ ListedAt(e)' = ListedAt(e)
    /\ \A u \in ListedAt(e) : listing'[u] = listing[u]
    /\ changed'[e] = changed[e]

(* While the clock stands, a change of the list is noted at the endpoints it  *)
(* concerns, and no access is the worse for it.                               *)
LEMMA StaysCurrent ==
  ASSUME TypeOK, clock' = clock, NEW a \in Access, Current(a),
         Untouched(a.endpoint) \/ changed'[a.endpoint] = clock
  PROVE  Current(a)'
<1>1. CASE Untouched(a.endpoint)
  BY <1>1 DEF Untouched, Current, ChangedSince
<1>2. CASE changed'[a.endpoint] = clock
  <2>1. /\ clock \in Nat /\ a.expires \in Nat /\ Lifetime \in Nat
        /\ a.expires - Lifetime <= clock
    BY MarginAssumption, BoundAssumption DEF TypeOK, Access, Current
  <2> QED
    BY <1>2, <2>1 DEF Current, ChangedSince, Never
<1> QED
  BY <1>1, <1>2

(* A change of one user's listing is noted at both its endpoints. *)
LEMMA ChangesNoted ==
  ASSUME TypeOK, seeders # <<>>, NEW u \in Users, NEW E \in SUBSET Endpoints,
         NEW new \in {None} \cup [endpoint : E, key : Nat],
         listing' = [listing EXCEPT ![u] = new], Touch(E \cup At(u)), NEW e \in Endpoints
  PROVE  Untouched(e) \/ changed'[e] = clock
<1>1. CASE e \in E \cup At(u)
  BY <1>1 DEF Touch
<1>2. CASE e \notin E \cup At(u)
  <2>1. changed'[e] = changed[e]
    BY <1>2 DEF Touch
  <2>2. \A v \in Users : v # u => listing'[v] = listing[v]
    BY DEF TypeOK
  <2>3. listing'[u] = new /\ u \notin ListedAt(e)
    BY <1>2 DEF TypeOK, ListedAt, Listed, At
  <2>4. u \notin ListedAt(e)'
    BY <1>2, <2>3 DEF ListedAt, Listed
  <2>5. ListedAt(e)' = ListedAt(e)
    BY <2>2, <2>3, <2>4 DEF ListedAt, Listed
  <2> QED
    BY <2>1, <2>2, <2>3, <2>5 DEF Untouched, ListedAt, Listed
<1> QED
  BY <1>1, <1>2

(* So a change of the list keeps the invariant. *)
LEMMA ListStep ==
  ASSUME Inv, TypeOK', NEW u \in Users, NEW E \in SUBSET Endpoints,
         NEW new \in {None} \cup [endpoint : E, key : Nat],
         listing' = [listing EXCEPT ![u] = new], Touch(E \cup At(u)),
         UNCHANGED <<clock, mySkew, seeders, request>>
  PROVE  Inv'
<1> USE DEF Inv
<1>1. RequestTypes'
  BY DEF RequestTypes, Idle
<1>2. PlacesCurrent'
  <2> SUFFICES ASSUME NEW i \in DOMAIN seeders PROVE Current(seeders[i])'
    BY DEF PlacesCurrent
  <2>1. seeders # <<>> /\ seeders[i] \in Access /\ Current(seeders[i])
    BY DEF PlacesCurrent, TypeOK
  <2>2. Untouched(seeders[i].endpoint) \/ changed'[seeders[i].endpoint] = clock
    BY <2>1, ChangesNoted DEF Access
  <2> QED
    BY <2>1, <2>2, StaysCurrent
<1>3. RequestCurrent'
  <2> SUFFICES ASSUME request # Idle PROVE RequestCurrent'
    BY DEF RequestCurrent, Idle
  <2> DEFINE a == request.access
  <2>1. seeders # <<>> /\ a \in Access /\ Current(a) /\ request.since \in Nat
          /\ request.since <= clock
    BY DEF RequestCurrent, RequestTypes, TypeOK
  <2>2. Untouched(a.endpoint) \/ changed'[a.endpoint] = clock
    BY <2>1, ChangesNoted DEF Access
  <2>3. Current(a)'
    BY <2>1, <2>2, StaysCurrent
  <2>4. CASE Untouched(a.endpoint)
    BY <2>3, <2>4 DEF RequestCurrent, Untouched, ChangedSince
  <2>5. CASE changed'[a.endpoint] = clock
    <3>1. clock \in Nat
      BY DEF TypeOK
    <3>2. ChangedSince(a.endpoint, request.since)'
      BY <2>1, <2>5, <3>1 DEF ChangedSince, Never
    <3> QED
      BY <2>3, <3>2 DEF RequestCurrent
  <2> QED
    BY <2>2, <2>4, <2>5
<1> QED
  BY <1>1, <1>2, <1>3

(* The types survive every step. *)
LEMMA TypeStep == Inv /\ [Next]_vars => TypeOK'
<1> SUFFICES ASSUME Inv, [Next]_vars PROVE TypeOK'
  OBVIOUS
<1> USE MarginAssumption, BoundAssumption
<1>0. TypeOK /\ clock \in Nat
  BY DEF Inv, TypeOK
<1>1. ASSUME NEW E \in SUBSET Endpoints, Touch(E)
      PROVE  changed' \in [Endpoints -> Nat \cup {Never}]
  BY <1>0, <1>1 DEF TypeOK, Touch
<1>2. ASSUME NEW u \in Users, NEW e \in Endpoints, startClient(u, e) PROVE TypeOK'
  <2>1. {e} \cup At(u) \in SUBSET Endpoints
    BY <1>0 DEF TypeOK, At
  <2>2. changed' \in [Endpoints -> Nat \cup {Never}]
    BY <1>1, <1>2, <2>1 DEF startClient
  <2>3. starts' \in 0 .. MaxStarts /\ starts' \in Nat
    BY <1>0, <1>2 DEF TypeOK, startClient
  <2>4. /\ running' \in [Endpoints -> Nat \cup {None}]
        /\ listing' \in [Users -> {None} \cup [endpoint : Endpoints, key : Nat]]
    BY <1>0, <1>2, <2>3 DEF TypeOK, startClient
  <2> QED
    BY <1>0, <1>2, <2>2, <2>3, <2>4 DEF TypeOK, startClient, Idle
<1>3. ASSUME NEW u \in Users, unlist(u) PROVE TypeOK'
  <2>1. At(u) \in SUBSET Endpoints
    BY <1>0 DEF TypeOK, At
  <2>2. changed' \in [Endpoints -> Nat \cup {Never}]
    BY <1>1, <1>3, <2>1 DEF unlist
  <2>3. listing' \in [Users -> {None} \cup [endpoint : Endpoints, key : Nat]]
    BY <1>0, <1>3 DEF TypeOK, unlist
  <2> QED
    BY <1>0, <1>3, <2>2, <2>3 DEF TypeOK, unlist, Idle
<1>4. CASE Tick
  BY <1>0, <1>4 DEF TypeOK, Tick, Idle
<1>5. CASE start
  <2>1. \A i \in DOMAIN seeders' : seeders'[i] \in Access
    BY <1>0, <1>5, FreshCurrent DEF start, sorted
  <2> QED
    BY <1>0, <1>5, <2>1 DEF TypeOK, start, Idle
<1>6. CASE respond
  BY <1>0, <1>6 DEF TypeOK, respond
<1>7. ASSUME NEW i \in DOMAIN seeders, seederAt(i) PROVE TypeOK'
  <2>1. DOMAIN seeders' = DOMAIN seeders /\ \A k \in DOMAIN seeders' : seeders'[k] \in Access
    <3>1. CASE UNCHANGED seeders
      BY <1>0, <3>1 DEF TypeOK
    <3>2. ASSUME NEW answer \in sorted(fresh),
                 seeders' = [k \in DOMAIN seeders |-> update(seeders[k], k, answer)]
          PROVE  DOMAIN seeders' = DOMAIN seeders /\ \A k \in DOMAIN seeders' : seeders'[k] \in Access
      <4>1. \A k \in DOMAIN seeders : update(seeders[k], k, answer) \in fresh \cup {seeders[k]}
        BY <1>0, Renewed
      <4> QED
        BY <1>0, <3>2, <4>1, FreshCurrent DEF TypeOK
    <3> QED
      BY <1>7, <3>1, <3>2 DEF seederAt
  <2>2. request'.access \in Access
    BY <1>7, <2>1 DEF seederAt
  <2> QED
    BY <1>0, <1>7, <2>1, <2>2 DEF TypeOK, seederAt
<1>8. CASE UNCHANGED vars
  BY <1>0, <1>8 DEF TypeOK, vars, Idle
<1> QED
  BY <1>2, <1>3, <1>4, <1>5, <1>6, <1>7, <1>8 DEF Next

(* Time passes: what was issued or noted stays so. *)
LEMMA TickStep ==
  ASSUME Inv, TypeOK', Tick PROVE Inv'
<1>1. /\ clock \in Nat /\ clock' = clock + 1
      /\ UNCHANGED <<mySkew, listing, seeders, request, changed>>
      /\ seeders # <<>> /\ (request # Idle => clock < request.since + Delay)
  BY DEF Inv, TypeOK, Tick
<1>2. ASSUME NEW a \in Access, Current(a) PROVE Current(a)'
  BY <1>1, <1>2, MarginAssumption DEF Current, ChangedSince, ListedAt, Listed, Access
<1>3. RequestTypes'
  BY <1>1, MarginAssumption DEF Inv, RequestTypes, Idle
<1>4. PlacesCurrent'
  <2> SUFFICES ASSUME NEW i \in DOMAIN seeders PROVE Current(seeders[i])'
    BY <1>1 DEF PlacesCurrent
  <2>1. seeders[i] \in Access /\ Current(seeders[i])
    BY DEF Inv, PlacesCurrent, TypeOK
  <2> QED
    BY <1>1, <1>2, <2>1
<1>5. RequestCurrent'
  <2> SUFFICES ASSUME request # Idle PROVE RequestCurrent'
    BY <1>1 DEF RequestCurrent, Idle
  <2>1. request.access \in Access /\ Current(request.access)
    BY DEF Inv, RequestCurrent, TypeOK
  <2>2. Current(request.access)'
    BY <1>1, <1>2, <2>1
  <2> QED
    BY <1>1, <2>2 DEF Inv, RequestCurrent, ChangedSince, ListedAt, Listed
<1> QED
  BY <1>3, <1>4, <1>5 DEF Inv

(* A new access is current. *)
LEMMA NewIsCurrent ==
  ASSUME TypeOK, NEW a \in fresh PROVE Current(a)
BY FreshCurrent, MarginAssumption, BoundAssumption DEF Current, TypeOK

(* What is current stays so while clock and list stay. *)
LEMMA StillCurrent ==
  ASSUME UNCHANGED <<clock, listing, changed>>, NEW a, Current(a) PROVE Current(a)'
BY DEF Current, ChangedSince, ListedAt, Listed

(* locate() at the start. *)
LEMMA StartStep ==
  ASSUME Inv, TypeOK', start PROVE Inv'
<1>1. \A i \in DOMAIN seeders' : seeders'[i] \in fresh
  BY DEF start, sorted
<1>2. UNCHANGED <<clock, listing, changed, request>> /\ seeders = <<>>
  BY DEF start
<1>3. request = Idle
  BY <1>2 DEF Inv, RequestTypes
<1>4. PlacesCurrent'
  <2> SUFFICES ASSUME NEW i \in DOMAIN seeders' PROVE Current(seeders[i])'
    BY DEF PlacesCurrent
  <2>1. PICK a \in fresh : a = seeders'[i]
    BY <1>1
  <2>2. Current(a)'
    BY <1>2, NewIsCurrent, StillCurrent DEF Inv
  <2> QED
    BY <2>1, <2>2 DEF Current
<1> QED
  BY <1>2, <1>3, <1>4 DEF Inv, RequestTypes, RequestCurrent, Idle

(* seederAt() changes the places only for the better, *)
LEMMA PlacesStep ==
  ASSUME Inv, TypeOK', NEW i \in DOMAIN seeders, seederAt(i)
  PROVE  /\ UNCHANGED <<clock, mySkew, listing, changed>>
         /\ DOMAIN seeders' = DOMAIN seeders
         /\ \A k \in DOMAIN seeders : seeders'[k] \in fresh \/ seeders'[k] = seeders[k]
         /\ PlacesCurrent'
<1>1. UNCHANGED <<clock, mySkew, listing, changed>> /\ TypeOK
  BY DEF seederAt, Inv
<1>2. /\ DOMAIN seeders' = DOMAIN seeders
      /\ \A k \in DOMAIN seeders : seeders'[k] \in fresh \/ seeders'[k] = seeders[k]
  <2>1. CASE UNCHANGED seeders
    BY <2>1
  <2>2. ASSUME NEW answer \in sorted(fresh),
               seeders' = [k \in DOMAIN seeders |-> update(seeders[k], k, answer)]
        PROVE  /\ DOMAIN seeders' = DOMAIN seeders
               /\ \A k \in DOMAIN seeders : seeders'[k] \in fresh \/ seeders'[k] = seeders[k]
    <3>1. \A k \in DOMAIN seeders : update(seeders[k], k, answer) \in fresh \cup {seeders[k]}
      BY <1>1, Renewed
    <3> QED
      BY <2>2, <3>1
  <2> QED
    BY <2>1, <2>2 DEF seederAt
<1>3. PlacesCurrent'
  <2> SUFFICES ASSUME NEW k \in DOMAIN seeders PROVE Current(seeders[k])'
    BY <1>2 DEF PlacesCurrent
  <2>1. PICK a : a = seeders'[k] /\ Current(a)
    BY <1>1, <1>2, NewIsCurrent DEF Inv, PlacesCurrent
  <2>2. Current(a)'
    BY <1>1, <2>1, StillCurrent
  <2> QED
    BY <2>1, <2>2 DEF Current
<1> QED
  BY <1>1, <1>2, <1>3

(* and sends a request with what is then at its place. *)
LEMMA SeederAtStep ==
  ASSUME Inv, TypeOK', NEW i \in DOMAIN seeders, seederAt(i) PROVE Inv'
<1> USE MarginAssumption
<1>1. /\ UNCHANGED <<clock, mySkew, listing, changed>>
      /\ DOMAIN seeders' = DOMAIN seeders
      /\ PlacesCurrent'
      /\ TypeOK /\ clock \in Nat /\ mySkew \in Int
  BY PlacesStep DEF Inv, TypeOK
<1>2. PICK lost \in BOOLEAN :
        /\ lost => nearsEnd(seeders[i])
        /\ IF nearsEnd(seeders[i]) /\ ~lost
           THEN \E answer \in sorted(fresh) :
                  seeders' = [k \in DOMAIN seeders |-> update(seeders[k], k, answer)]
           ELSE UNCHANGED seeders
        /\ request' = [at |-> "sent", access |-> seeders'[i], since |-> clock, lost |-> lost]
  BY DEF seederAt
<1>3. RequestTypes'
  BY <1>1, <1>2 DEF RequestTypes, Idle
<1>4. PICK a \in Access : a = seeders'[i]
  BY <1>1 DEF TypeOK
<1>5. Current(a)'
  BY <1>1, <1>4 DEF PlacesCurrent, Current
<1>6. \/ lost
      \/ a.expires >= clock + mySkew + Margin
      \/ a.expires = clock + Lifetime
      \/ ListedAt(a.endpoint) = {}
  <2>1. CASE ~nearsEnd(seeders[i])
    <3>1. a = seeders[i] /\ a.expires \in Nat
      BY <1>2, <1>4, <2>1 DEF Access
    <3> QED
      BY <1>1, <2>1, <3>1 DEF nearsEnd
  <2>2. ASSUME NEW answer \in sorted(fresh),
               seeders' = [k \in DOMAIN seeders |-> update(seeders[k], k, answer)]
        PROVE  a.expires = clock + Lifetime \/ ListedAt(a.endpoint) = {}
    <3>1. a = update(seeders[i], i, answer)
      BY <1>4, <2>2
    <3>2. CASE a \in fresh
      BY <1>1, <3>2, FreshCurrent
    <3>3. CASE a = seeders[i] /\ ListedAt(seeders[i].endpoint) = {}
      BY <3>3
    <3>4. \/ update(seeders[i], i, answer) \in fresh
          \/ /\ update(seeders[i], i, answer) = seeders[i]
             /\ ListedAt(seeders[i].endpoint) = {}
      BY <1>1, Renewed
    <3> QED
      BY <3>1, <3>2, <3>3, <3>4
  <2> QED
    BY <1>2, <2>1, <2>2
<1>7. ListedAt(a.endpoint)' = ListedAt(a.endpoint)
  BY <1>1 DEF ListedAt, Listed
<1>8. RequestCurrent'
  <2>1. request'.access = a /\ request'.since = clock /\ request'.lost = lost
    BY <1>2, <1>4
  <2>2. Current(request.access)'
    BY <1>5, <2>1 DEF Current
  <2>3. ListedAt(a.endpoint) = {} => ListedAt(request.access.endpoint)' = {}
    BY <1>7, <2>1 DEF ListedAt
  <2> QED
    BY <1>1, <1>6, <2>1, <2>2, <2>3 DEF RequestCurrent
<1> QED
  BY <1>1, <1>3, <1>8 DEF Inv

(* Every step keeps the invariant. *)
LEMMA InvStep == Inv /\ [Next]_vars => Inv'
<1> SUFFICES ASSUME Inv, [Next]_vars PROVE Inv'
  OBVIOUS
<1>0. TypeOK'
  BY TypeStep
<1>1. ASSUME NEW u \in Users, NEW e \in Endpoints, startClient(u, e) PROVE Inv'
  <2>1. starts' \in Nat
    BY <1>1, BoundAssumption DEF startClient, Inv, TypeOK
  <2>2. [endpoint |-> e, key |-> starts'] \in {None} \cup [endpoint : {e}, key : Nat]
    BY <2>1
  <2>3. /\ listing' = [listing EXCEPT ![u] = [endpoint |-> e, key |-> starts']]
        /\ Touch({e} \cup At(u)) /\ UNCHANGED <<clock, mySkew, seeders, request>>
    BY <1>1 DEF startClient
  <2> QED
    BY <1>0, <2>2, <2>3, ListStep
<1>2. ASSUME NEW u \in Users, unlist(u) PROVE Inv'
  <2>1. /\ listing' = [listing EXCEPT ![u] = None]
        /\ Touch({} \cup At(u)) /\ UNCHANGED <<clock, mySkew, seeders, request>>
    <3>1. {} \cup At(u) = At(u)
      OBVIOUS
    <3> QED
      BY <1>2, <3>1 DEF unlist
  <2> QED
    BY <1>0, <2>1, ListStep
<1>3. CASE Tick
  BY <1>0, <1>3, TickStep
<1>4. CASE start
  BY <1>0, <1>4, StartStep
<1>5. ASSUME UNCHANGED <<clock, mySkew, listing, seeders, changed>>, request' \in {request, Idle}
      PROVE  Inv'
  BY <1>0, <1>5 DEF Inv, RequestTypes, PlacesCurrent, RequestCurrent, Current, ChangedSince,
                    ListedAt, Listed, Idle
<1>6. CASE respond
  BY <1>5, <1>6 DEF respond
<1>7. ASSUME NEW i \in DOMAIN seeders, seederAt(i) PROVE Inv'
  BY <1>0, <1>7, SeederAtStep
<1>8. CASE UNCHANGED vars
  BY <1>5, <1>8 DEF vars
<1> QED
  BY <1>1, <1>2, <1>3, <1>4, <1>6, <1>7, <1>8 DEF Next

(* Every access of a download, at its place or in a request under way, is     *)
(* what the tracker lists at its endpoint or was so at its issue, and leaves  *)
(* seederAt() with time for the request.                                      *)
THEOREM AccessesStayCurrent == Spec => []Inv
BY InvInit, InvStep, PTL DEF Spec

(* The clocks, lists, accesses and requests keep their types. *)
THEOREM TypeCorrect == Spec => []TypeOK
<1>1. Inv => TypeOK
  BY DEF Inv
<1> QED
  BY <1>1, AccessesStayCurrent, PTL

-----------------------------------------------------------------------------
(* The decision of the seeder. *)

(* A client that is alone at its endpoint in the list is the one listed. *)
LEMMA OneIsListed ==
  ASSUME NEW e, OneListed(e) PROVE \E u : ListedAt(e) = {u}
<1>1. IsFiniteSet(ListedAt(e))
  BY BoundAssumption, FS_Subset DEF ListedAt, Listed
<1> QED
  BY <1>1, FS_Singleton DEF OneListed, ListedAt

(* The margin is enough: a ticket that left with it, or new, is still valid   *)
(* at the seeder, and one that is older than a change of the listing by more  *)
(* than the bound has been renewed since.                                     *)
LEMMA MarginEnough ==
  ASSUME Inv, request # Idle, ~request.lost,
         ListedAt(request.access.endpoint) # {},
         ~ /\ changed[request.access.endpoint] # Never
           /\ clock - changed[request.access.endpoint] <= Lifetime - Margin + MaxSkew + Delay
  PROVE  /\ clock + theirSkew < request.access.expires
         /\ ~ChangedSince(request.access.endpoint, request.access.expires - Lifetime)
<1> DEFINE a == request.access
           c == changed[a.endpoint]
<1>1. /\ Lifetime \in Nat /\ Margin \in Nat /\ MaxSkew \in Nat /\ Delay \in Nat
      /\ 2 * MaxSkew + Delay < Margin /\ Margin <= Lifetime
  BY MarginAssumption
<1>2. /\ clock \in Nat /\ mySkew \in Int /\ theirSkew \in Int
      /\ -MaxSkew <= mySkew /\ mySkew <= MaxSkew /\ -MaxSkew <= theirSkew /\ theirSkew <= MaxSkew
      /\ a.endpoint \in Endpoints /\ a.expires \in Nat /\ c \in Nat \cup {Never}
  BY <1>1, BoundAssumption DEF Inv, TypeOK, Access
<1>3. request.since \in Nat /\ request.since <= clock /\ clock <= request.since + Delay
  BY DEF Inv, RequestTypes
<1>4. c # Never => c \in Nat /\ clock - c > Lifetime - Margin + MaxSkew + Delay
  BY <1>1, <1>2
<1>5. ~ChangedSince(a.endpoint, request.since)
  BY <1>1, <1>2, <1>3, <1>4 DEF ChangedSince
<1>6. \/ a.expires >= request.since + mySkew + Margin
      \/ a.expires = request.since + Lifetime
  BY <1>5 DEF Inv, RequestCurrent
<1>7. clock + theirSkew < a.expires
  BY <1>1, <1>2, <1>3, <1>6
<1>8. ~ChangedSince(a.endpoint, a.expires - Lifetime)
  <2> SUFFICES ASSUME c # Never, c >= a.expires - Lifetime PROVE FALSE
    BY DEF ChangedSince
  <2> QED
    BY <1>1, <1>2, <1>3, <1>4, <1>6
<1> QED
  BY <1>7, <1>8

(* A download goes on reaching its seeders: a request to a running client     *)
(* that is alone in the list at its endpoint is denied only after a renewal   *)
(* without an answer, or within the bound of a change of its listing,         *)
(* however long the download lasts and however other seeders come and go.     *)
THEOREM SeedersStayReachable == Spec => ListedSeederServes
<1> DEFINE e == request.access.endpoint
           Denied == request # Idle /\ ~admits(request.access)
           Excused == \/ request.lost
                      \/ ~OneListed(e)
                      \/ \E u \in Listed : listing[u].endpoint = e /\ running[e] # listing[u].key
                      \/ /\ changed[e] # Never
                         /\ clock - changed[e] <= Lifetime - Margin + MaxSkew + Delay
<1>1. Inv /\ Denied => Excused
  <2> SUFFICES ASSUME Inv, request # Idle, ~Excused PROVE admits(request.access)
    OBVIOUS
  <2>1. PICK u : ListedAt(e) = {u}
    BY OneIsListed
  <2>2. clock + theirSkew < request.access.expires
          /\ ~ChangedSince(e, request.access.expires - Lifetime)
    BY <2>1, MarginEnough
  <2>3. listing[u].key = request.access.key
    BY <2>1, <2>2 DEF Inv, RequestCurrent, Current
  <2>4. running[e] = listing[u].key
    BY <2>1 DEF ListedAt
  <2> QED
    BY <2>2, <2>3, <2>4 DEF admits
<1>2. Inv => [request # Idle /\ request' = Idle /\ ~admits(request.access) => Excused]_vars
  BY <1>1
<1> QED
  BY <1>2, AccessesStayCurrent, PTL DEF ListedSeederServes

=============================================================================
