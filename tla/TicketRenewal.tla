--------------------------- MODULE TicketRenewal ----------------------------
(***************************************************************************)
(* A download that outlives its tickets (Download::seederAt): the seeders  *)
(* it was given at its start keep their places in seeders_, and when a     *)
(* ticket nears its end all of them are replaced by what the tracker lists *)
(* at the same endpoint now.  Meanwhile clients of other users crash,      *)
(* start again with a new peer key, and come and go in the tracker's list. *)
(* One request is followed from seederAt() to the seeder's decision.       *)
(***************************************************************************)
EXTENDS Integers, FiniteSets

CONSTANTS
    Users, Endpoints,
    Lifetime,   \* PeerTicket::LIFETIME_SECONDS
    Margin,     \* TICKET_MARGIN_SECONDS
    MaxSkew,    \* how far the downloader's and the seeders' clocks are from the tracker's
    Delay,      \* longest time from seederAt() to the seeder's check
    MaxTime,    \* bound: the clock stops here
    MaxStarts,  \* bound: clients started
    None

(* The margin pays for clocks that differ and for the request's way. *)
ASSUME MarginAssumption ==
    /\ {Lifetime, Margin, MaxSkew, Delay} \subseteq Nat
    /\ 2 * MaxSkew + Delay < Margin
    /\ Margin <= Lifetime

ASSUME BoundAssumption == IsFiniteSet(Users) /\ MaxTime \in Nat /\ MaxStarts \in Nat

VARIABLES
    clock,      \* the tracker's clock
    mySkew,     \* the downloader's clock minus the tracker's
    theirSkew,  \* the seeders' clocks minus the tracker's
    starts,     \* clients started so far; each makes a new peer key
    running,    \* endpoint -> the peer key of the last client to listen there, or None
    listing,    \* SharedFile::seeders of the file: user -> endpoint and key, or None
    seeders,    \* seeders_, empty before the download starts
    request,    \* the request under way, from seederAt() to the seeder's answer
    changed     \* history: endpoint -> when its listings last changed during the download

vars == <<clock, mySkew, theirSkew, starts, running, listing, seeders, request, changed>>

Idle == [at |-> "idle"]
Never == -1

Init ==
    /\ clock = 0
    /\ mySkew \in -MaxSkew .. MaxSkew
    /\ theirSkew \in -MaxSkew .. MaxSkew
    /\ starts = 0
    /\ running = [e \in Endpoints |-> None]
    /\ listing = [u \in Users |-> None]
    /\ seeders = <<>>
    /\ request = Idle
    /\ changed = [e \in Endpoints |-> Never]

Listed == {u \in Users : listing[u] # None}

(* What download_file answers now: an access for every listed seeder, and    *)
(* the orders its text may be sorted in (keys are random).                   *)
fresh == {[endpoint |-> listing[u].endpoint, key |-> listing[u].key,
           expires |-> clock + Lifetime] : u \in Listed}
sorted(S) == {s \in [1 .. Cardinality(S) -> S] : \A a \in S : \E i \in DOMAIN s : s[i] = a}

-----------------------------------------------------------------------------
(* Faulty variants, used only to show that the properties can fail. *)

(* The new answer replaces the old one place by place. *)
update_byPlace(current, i, answer) == IF i \in DOMAIN answer THEN answer[i] ELSE current

(* A seeder that is not listed any more loses its address. *)
update_clears(current, i, answer) ==
    IF \E k \in DOMAIN answer : answer[k].endpoint = current.endpoint THEN current
    ELSE [current EXCEPT !.endpoint = None]

-----------------------------------------------------------------------------
(* The seeders' side and the tracker's list. *)

(* History: listings at these endpoints change. *)
Touch(E) ==
    changed' = [e \in Endpoints |-> IF e \in E /\ seeders # <<>> THEN clock ELSE changed[e]]
At(u) == IF listing[u] = None THEN {} ELSE {listing[u].endpoint}

(* A client of user u starts at an endpoint and registers its share.  One     *)
(* that listened there before has died, without telling the tracker.          *)
startClient(u, e) ==
    /\ starts < MaxStarts
    /\ starts' = starts + 1
    /\ running' = [running EXCEPT ![e] = starts']
    /\ listing' = [listing EXCEPT ![u] = [endpoint |-> e, key |-> starts']]
    /\ Touch({e} \cup At(u))
    /\ UNCHANGED <<clock, mySkew, theirSkew, seeders, request>>

(* A listing ends with stop_share, logout or the membership. *)
unlist(u) ==
    /\ listing[u] # None
    /\ listing' = [listing EXCEPT ![u] = None]
    /\ Touch(At(u))
    /\ UNCHANGED <<clock, mySkew, theirSkew, starts, running, seeders, request>>

(* Time passes during a download, but no request is under way for longer     *)
(* than Delay.                                                               *)
Tick ==
    /\ clock < MaxTime
    /\ seeders # <<>>
    /\ request # Idle => clock < request.since + Delay
    /\ clock' = clock + 1
    /\ UNCHANGED <<mySkew, theirSkew, starts, running, listing, seeders, request, changed>>

-----------------------------------------------------------------------------
(* DownloadManager::start(): locate() fills seeders_. *)
start ==
    /\ seeders = <<>>
    /\ fresh # {}
    /\ seeders' \in sorted(fresh)
    /\ UNCHANGED <<clock, mySkew, theirSkew, starts, running, listing, request, changed>>

nearsEnd(access) == access.expires - (clock + mySkew) < Margin

(* The nested loop of seederAt(): the last access with the same endpoint. *)
update(current, i, answer) ==
    LET matches == {k \in DOMAIN answer : answer[k].endpoint = current.endpoint}
    IN  IF matches = {} THEN current
        ELSE answer[CHOOSE k \in matches : \A j \in matches : j <= k]

(* seederAt(): with little time left the tracker is asked, which may answer   *)
(* or not; then the request leaves with what is at the place.                 *)
seederAt(i) ==
    /\ request = Idle
    /\ \E lost \in (IF nearsEnd(seeders[i]) THEN BOOLEAN ELSE {FALSE}) :
          /\ IF nearsEnd(seeders[i]) /\ ~lost
             THEN \E answer \in sorted(fresh) :
                    seeders' = [k \in DOMAIN seeders |-> update(seeders[k], k, answer)]
             ELSE UNCHANGED seeders
          /\ request' = [at |-> "sent", access |-> seeders'[i], since |-> clock, lost |-> lost]
    /\ UNCHANGED <<clock, mySkew, theirSkew, starts, running, listing, changed>>

(* PeerServer::respond() at the endpoint: the ticket has time left, and its   *)
(* key was made from this client's peer key.                                  *)
admits(access) ==
    /\ clock + theirSkew < access.expires
    /\ running[access.endpoint] = access.key

(* Admitted or denied; after either the worker goes on to another request. *)
respond ==
    /\ request # Idle
    /\ request' = Idle
    /\ UNCHANGED <<clock, mySkew, theirSkew, starts, running, listing, seeders, changed>>

Next ==
    \/ \E u \in Users, e \in Endpoints : startClient(u, e)
    \/ \E u \in Users : unlist(u)
    \/ Tick \/ start \/ respond
    \/ \E i \in DOMAIN seeders : seederAt(i)

Spec == Init /\ [][Next]_vars

-----------------------------------------------------------------------------
Access == [endpoint : Endpoints, key : Nat, expires : Nat]

(* Types of the clocks, lists and accesses. *)
TypeOK ==
    /\ clock \in 0 .. MaxTime
    /\ {mySkew, theirSkew} \subseteq -MaxSkew .. MaxSkew
    /\ starts \in 0 .. MaxStarts
    /\ running \in [Endpoints -> Nat \cup {None}]
    /\ listing \in [Users -> {None} \cup [endpoint : Endpoints, key : Nat]]
    /\ \A i \in DOMAIN seeders : seeders[i] \in Access
    /\ request # Idle => request.access \in Access
    /\ changed \in [Endpoints -> Nat \cup {Never}]

OneListed(e) == Cardinality({u \in Listed : listing[u].endpoint = e}) = 1

(* A download goes on reaching its seeders: a request to a client that is     *)
(* running and alone in the tracker's list at its endpoint is denied only     *)
(* when the tracker did not answer a renewal, or shortly after the listing    *)
(* changed (the client started again with a new key); the old ticket is in    *)
(* use no longer than until its margin.  How other seeders come and go, in    *)
(* whatever order the tracker lists them, does not matter.                    *)
ListedSeederServes ==
    [][request # Idle /\ request' = Idle /\ ~admits(request.access) =>
          LET e == request.access.endpoint
          IN  \/ request.lost
              \/ ~OneListed(e)
              \/ \E u \in Listed : listing[u].endpoint = e /\ running[e] # listing[u].key
              \/ /\ changed[e] # Never
                 /\ clock - changed[e] <= Lifetime - Margin + MaxSkew + Delay]_vars
=============================================================================
