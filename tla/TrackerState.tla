---------------------------- MODULE TrackerState ----------------------------
(***************************************************************************)
(* The tracker's data and every command that reads or changes it           *)
(* (tracker/state/tracker_state.cpp).  apply() holds one mutex for the     *)
(* whole command, so a command is one atomic step whatever connection      *)
(* thread runs it.  Everything lives in memory: a restart empties it.      *)
(*                                                                         *)
(* The maps of the C++ are total functions whose "no entry" value is one   *)
(* of the No... constants.  File metadata is one opaque value (two are     *)
(* equal when FileMetadata::sameContent is true), a stored password is the *)
(* password it verifies (password::verify is PBKDF2 then a comparison),    *)
(* and a ticket's key is the pair it is an HMAC of.                        *)
(***************************************************************************)
EXTENDS Integers

CONSTANTS
    Users, Passwords, Sessions, Groups, Files, Contents,
    Peers,              \* a client's peer server: its endpoint and peer key
    Times,              \* what ApplyContext::now can read
    Lifetime,           \* PeerTicket::LIFETIME_SECONDS
    NoUser, NoPassword, NoSession, NoContent, NoPeer

ASSUME NullAssumption ==
    /\ NoUser \notin Users
    /\ NoPassword \notin Passwords
    /\ NoSession \notin Sessions
    /\ NoContent \notin Contents
    /\ NoPeer \notin Peers

ASSUME TimeAssumption == Times \subseteq Int /\ Lifetime \in Int

VARIABLES
    users,      \* users_: user -> stored password
    sessions,   \* sessions_: session -> user; NoSession is the ID 0
    owner,      \* Group::owner; NoUser where the group does not exist
    members,    \* Group::members
    pending,    \* Group::pending
    metadata,   \* Group::files[name].metadata; NoContent where not listed
    seeders,    \* Group::files[name].seeders: user -> Seeder
    reply       \* the CommandResult of the last command

groupVars == <<owner, members, pending, metadata, seeders>>
vars == <<users, sessions, owner, members, pending, metadata, seeders, reply>>

SessionIds == Sessions \cup {NoSession}

(* PeerTicket: who may fetch which file until when. *)
Tickets == [user : Users, group : Groups, file : Files, expires : Int]

(* SeederAccess: a seeder, a ticket for it, and HMAC(seeder's key, ticket). *)
AccessRecords == [peer : Peers, ticket : Tickets, key : Peers \X Tickets]

CommandResults == [status : {"none", "OK", "ERR", "META"}, session : SessionIds,
                   access : SUBSET AccessRecords]

NoSeeders == [u \in Users |-> NoPeer]

Empty ==
    /\ users = [u \in Users |-> NoPassword]
    /\ sessions = [s \in SessionIds |-> NoUser]
    /\ owner = [g \in Groups |-> NoUser]
    /\ members = [g \in Groups |-> {}]
    /\ pending = [g \in Groups |-> {}]
    /\ metadata = [g \in Groups |-> [f \in Files |-> NoContent]]
    /\ seeders = [g \in Groups |-> [f \in Files |-> NoSeeders]]

Init ==
    /\ Empty
    /\ reply = [status |-> "none", session |-> NoSession, access |-> {}]

-----------------------------------------------------------------------------
Answer(status, s) == reply' = [status |-> status, session |-> s, access |-> {}]

(* Request::reply("ERR ..."): nothing changes and the caller keeps its session. *)
Refuse(s) == Answer("ERR", s) /\ UNCHANGED <<users, sessions, groupVars>>

userOf(s) == sessions[s]

-----------------------------------------------------------------------------
(* Faulty variants of definitions below, each with one slip of the kind the  *)
(* code could contain.  No specification uses them; they serve to show that  *)
(* every property here can fail.                                             *)

(* Commands that need a login run without one. *)
loggedIn_anybody(s) == TRUE

(* Every member passes for the owner. *)
isOwner_anyMember(s, g) == userOf(s) \in members[g]

(* The shares stay when a session or a membership ends. *)
removeSharesOf_nothing(u, G) == UNCHANGED <<metadata, seeders>>

-----------------------------------------------------------------------------
loggedIn(s) == userOf(s) # NoUser
findGroup(g) == owner[g] # NoUser
isOwner(s, g) == findGroup(g) /\ owner[g] = userOf(s)
isMember(s, g) == findGroup(g) /\ userOf(s) \in members[g]

(* Group::removeSharesOf(u), in every group of G: u stops seeding, and files *)
(* left without a seeder disappear.                                          *)
removeSharesOf(u, G) ==
    LET left == [g \in Groups |-> [f \in Files |->
                    IF g \in G THEN [seeders[g][f] EXCEPT ![u] = NoPeer]
                    ELSE seeders[g][f]]]
    IN  /\ seeders' = left
        /\ metadata' = [g \in Groups |-> [f \in Files |->
                IF g \in G /\ left[g][f] = NoSeeders THEN NoContent
                ELSE metadata[g][f]]]

(* password::hash() fails without a salt; verify() tells whether the stored  *)
(* hash was made from this password.                                         *)
hash(secret, saltOk) == IF saltOk THEN secret ELSE NoPassword
verify(secret, stored) == stored = secret

(* PeerTicket::key(): an HMAC, so a value for each peer key and ticket. *)
key(peer, ticket) == <<peer, ticket>>

-----------------------------------------------------------------------------
(* Faulty variants of commands. *)

(* A session that is logged in may log in again. *)
login_again(s, name, secret, newSession) ==
    LET id == IF s = NoSession THEN newSession ELSE s
    IN  IF users[name] # NoPassword /\ verify(secret, users[name]) /\ id # NoSession
        THEN /\ sessions' = [sessions EXCEPT ![id] = name]
             /\ Answer("OK", id)
             /\ UNCHANGED <<users, groupVars>>
        ELSE Refuse(s)

(* The request stays pending after it is accepted. *)
acceptRequest_keepsRequest(s, g, u) ==
    IF loggedIn(s) /\ isOwner(s, g) /\ u \in pending[g]
    THEN /\ members' = [members EXCEPT ![g] = @ \cup {u}]
         /\ Answer("OK", s)
         /\ UNCHANGED <<users, sessions, owner, pending, metadata, seeders>>
    ELSE Refuse(s)

(* Later uploads may replace the metadata. *)
uploadFile_noMatch(s, g, f, m, p) ==
    IF loggedIn(s) /\ isMember(s, g) /\ m # NoContent
    THEN /\ metadata' = [metadata EXCEPT ![g][f] = m]
         /\ seeders' = [seeders EXCEPT ![g][f][userOf(s)] = p]
         /\ Answer("OK", s)
         /\ UNCHANGED <<users, sessions, owner, members, pending>>
    ELSE Refuse(s)

(* The last seeder stops and the file stays listed. *)
stopShare_keepsFile(s, g, f) ==
    IF loggedIn(s) /\ findGroup(g) /\ seeders[g][f][userOf(s)] # NoPeer
    THEN /\ seeders' = [seeders EXCEPT ![g][f][userOf(s)] = NoPeer]
         /\ Answer("OK", s)
         /\ UNCHANGED <<users, sessions, owner, members, pending, metadata>>
    ELSE Refuse(s)

-----------------------------------------------------------------------------
(* The commands.  s is the session the caller sent; saltOk, keyOk and        *)
(* newSession are what the random generator and OpenSSL returned.            *)

createUser(s, name, secret, saltOk) ==
    IF users[name] = NoPassword /\ hash(secret, saltOk) # NoPassword
    THEN /\ users' = [users EXCEPT ![name] = hash(secret, saltOk)]
         /\ Answer("OK", s)
         /\ UNCHANGED <<sessions, groupVars>>
    ELSE Refuse(s)

(* A caller that sent a nonzero session the tracker does not know keeps it.  *)
(* A secret of NoPassword stands for one that is nobody's password.          *)
login(s, name, secret, newSession) ==
    LET id == IF s = NoSession THEN newSession ELSE s
    IN  IF loggedIn(s) \/ users[name] = NoPassword \/ ~verify(secret, users[name])
        THEN Refuse(s)
        ELSE IF s = NoSession /\ (id = NoSession \/ loggedIn(id))
        THEN Refuse(NoSession)
        ELSE /\ sessions' = [sessions EXCEPT ![id] = name]
             /\ Answer("OK", id)
             /\ UNCHANGED <<users, groupVars>>

(* Ends this session, and stops every share of its user. *)
logout(s) ==
    IF loggedIn(s)
    THEN /\ removeSharesOf(userOf(s), Groups)
         /\ sessions' = [sessions EXCEPT ![s] = NoUser]
         /\ Answer("OK", NoSession)
         /\ UNCHANGED <<users, owner, members, pending>>
    ELSE Refuse(s)

createGroup(s, g) ==
    IF loggedIn(s) /\ ~findGroup(g)
    THEN /\ owner' = [owner EXCEPT ![g] = userOf(s)]
         /\ members' = [members EXCEPT ![g] = @ \cup {userOf(s)}]
         /\ Answer("OK", s)
         /\ UNCHANGED <<users, sessions, pending, metadata, seeders>>
    ELSE Refuse(s)

joinGroup(s, g) ==
    IF loggedIn(s) /\ findGroup(g) /\ userOf(s) \notin members[g] \cup pending[g]
    THEN /\ pending' = [pending EXCEPT ![g] = @ \cup {userOf(s)}]
         /\ Answer("OK", s)
         /\ UNCHANGED <<users, sessions, owner, members, metadata, seeders>>
    ELSE Refuse(s)

leaveGroup(s, g) ==
    IF loggedIn(s) /\ ~isOwner(s, g) /\ isMember(s, g)
    THEN /\ members' = [members EXCEPT ![g] = @ \ {userOf(s)}]
         /\ removeSharesOf(userOf(s), {g})
         /\ Answer("OK", s)
         /\ UNCHANGED <<users, sessions, owner, pending>>
    ELSE Refuse(s)

acceptRequest(s, g, u) ==
    IF loggedIn(s) /\ isOwner(s, g) /\ u \in pending[g]
    THEN /\ pending' = [pending EXCEPT ![g] = @ \ {u}]
         /\ members' = [members EXCEPT ![g] = @ \cup {u}]
         /\ Answer("OK", s)
         /\ UNCHANGED <<users, sessions, owner, metadata, seeders>>
    ELSE Refuse(s)

removeMember(s, g, u) ==
    IF loggedIn(s) /\ isOwner(s, g) /\ u # owner[g] /\ u \in members[g]
    THEN /\ members' = [members EXCEPT ![g] = @ \ {u}]
         /\ removeSharesOf(u, {g})
         /\ Answer("OK", s)
         /\ UNCHANGED <<users, sessions, owner, pending>>
    ELSE Refuse(s)

(* The first upload fixes the metadata; m is NoContent when an argument does *)
(* not parse or is invalid.                                                  *)
uploadFile(s, g, f, m, p) ==
    IF /\ loggedIn(s) /\ isMember(s, g) /\ m # NoContent
       /\ metadata[g][f] \in {NoContent, m}
    THEN /\ metadata' = [metadata EXCEPT ![g][f] = m]
         /\ seeders' = [seeders EXCEPT ![g][f][userOf(s)] = p]
         /\ Answer("OK", s)
         /\ UNCHANGED <<users, sessions, owner, members, pending>>
    ELSE Refuse(s)

(* A fresh ticket for every seeder, or an error if one key cannot be made. *)
downloadFile(s, g, f, now, keyOk) ==
    LET ticket == [user |-> userOf(s), group |-> g, file |-> f,
                   expires |-> now + Lifetime]
        online == {u \in Users : seeders[g][f][u] # NoPeer}
    IN  IF loggedIn(s) /\ isMember(s, g) /\ online # {} /\ keyOk
        THEN /\ reply' = [status |-> "META", session |-> s,
                          access |-> {[peer |-> seeders[g][f][u], ticket |-> ticket,
                                       key |-> key(seeders[g][f][u], ticket)] : u \in online}]
             /\ UNCHANGED <<users, sessions, groupVars>>
        ELSE Refuse(s)

(* Membership is not asked for: being a seeder is. *)
stopShare(s, g, f) ==
    IF loggedIn(s) /\ findGroup(g) /\ seeders[g][f][userOf(s)] # NoPeer
    THEN LET left == [seeders[g][f] EXCEPT ![userOf(s)] = NoPeer]
         IN  /\ seeders' = [seeders EXCEPT ![g][f] = left]
             /\ metadata' = [metadata EXCEPT ![g][f] =
                                IF left = NoSeeders THEN NoContent ELSE @]
             /\ Answer("OK", s)
             /\ UNCHANGED <<users, sessions, owner, members, pending>>
    ELSE Refuse(s)

(* list_groups, list_requests and list_files read the state and change nothing. *)
Query(s, mayRead) ==
    IF loggedIn(s) /\ mayRead
    THEN Answer("OK", s) /\ UNCHANGED <<users, sessions, groupVars>>
    ELSE Refuse(s)

listGroups(s) == Query(s, TRUE)
listRequests(s, g) == Query(s, isOwner(s, g))
listFiles(s, g) == Query(s, isMember(s, g))

(* The part of apply() before the handler: an empty line, an unknown command *)
(* and a wrong number of arguments are refused.                              *)
badCommand(s) == Refuse(s)

(* main() starts every tracker process with an empty TrackerState. *)
restart ==
    /\ users' = [u \in Users |-> NoPassword]
    /\ sessions' = [s \in SessionIds |-> NoUser]
    /\ owner' = [g \in Groups |-> NoUser]
    /\ members' = [g \in Groups |-> {}]
    /\ pending' = [g \in Groups |-> {}]
    /\ metadata' = [g \in Groups |-> [f \in Files |-> NoContent]]
    /\ seeders' = [g \in Groups |-> [f \in Files |-> NoSeeders]]
    /\ reply' = [status |-> "none", session |-> NoSession, access |-> {}]

-----------------------------------------------------------------------------
apply(s) ==
    \/ badCommand(s)
    \/ \E u \in Users, pw \in Passwords, saltOk \in BOOLEAN : createUser(s, u, pw, saltOk)
    \/ \E u \in Users, pw \in Passwords \cup {NoPassword}, id \in SessionIds :
         login(s, u, pw, id)
    \/ logout(s)
    \/ listGroups(s)
    \/ \E g \in Groups :
         \/ createGroup(s, g)
         \/ joinGroup(s, g)
         \/ leaveGroup(s, g)
         \/ listRequests(s, g)
         \/ listFiles(s, g)
         \/ \E u \in Users : acceptRequest(s, g, u)
         \/ \E u \in Users : removeMember(s, g, u)
         \/ \E f \in Files, m \in Contents \cup {NoContent}, p \in Peers :
               uploadFile(s, g, f, m, p)
         \/ \E f \in Files, now \in Times, keyOk \in BOOLEAN :
               downloadFile(s, g, f, now, keyOk)
         \/ \E f \in Files : stopShare(s, g, f)

Next ==
    \/ \E s \in SessionIds : apply(s)
    \/ restart

Spec == Init /\ [][Next]_vars

-----------------------------------------------------------------------------
(* The type of the three maps and of the last CommandResult. *)
TypeOK ==
    /\ users \in [Users -> Passwords \cup {NoPassword}]
    /\ sessions \in [SessionIds -> Users \cup {NoUser}]
    /\ owner \in [Groups -> Users \cup {NoUser}]
    /\ members \in [Groups -> SUBSET Users]
    /\ pending \in [Groups -> SUBSET Users]
    /\ metadata \in [Groups -> [Files -> Contents \cup {NoContent}]]
    /\ seeders \in [Groups -> [Files -> [Users -> Peers \cup {NoPeer}]]]
    /\ reply \in CommandResults

Seeds(u, g, f) == seeders[g][f][u] # NoPeer

(* The session ID 0, which every logged-out client sends, never belongs to a *)
(* user: login() must refuse a generated ID of 0.                            *)
AnonymousLoggedOut == sessions[NoSession] = NoUser

(* Whoever is offered as a seeder is logged in on some session: logout() has *)
(* to drop the user's shares in every group, and login() must not overwrite  *)
(* the live session of somebody else.                                        *)
SeedersOnline ==
    \A g \in Groups, f \in Files, u \in Users :
        Seeds(u, g, f) => \E s \in SessionIds : sessions[s] = u

(* Only current members are offered as seeders: leave_group and              *)
(* remove_member drop the shares with the membership.                        *)
SeedersAreMembers ==
    \A g \in Groups, f \in Files, u \in Users : Seeds(u, g, f) => u \in members[g]

(* Whoever the tracker offers as a seeder can be one: online on some session  *)
(* and a member, whatever the user's other sessions, the owner or a restart   *)
(* did since the upload.                                                      *)
SeedersBacked == SeedersOnline /\ SeedersAreMembers

(* A file is listed exactly while somebody seeds it. *)
ListedIffSeeded ==
    \A g \in Groups, f \in Files :
        (metadata[g][f] # NoContent) <=> \E u \in Users : Seeds(u, g, f)

(* Group records stay coherent: the owner of a group is one of its members,  *)
(* nobody is a member and pending at once, and a group that does not exist   *)
(* has neither members nor requests.                                         *)
GroupsCoherent ==
    \A g \in Groups :
        /\ members[g] \cap pending[g] = {}
        /\ findGroup(g) => owner[g] \in members[g]
        /\ ~findGroup(g) => members[g] = {} /\ pending[g] = {}

(* Every name in a session, a membership or a request is a created user. *)
KnownUsers ==
    LET known == {u \in Users : users[u] # NoPassword}
    IN  /\ \A s \in SessionIds : loggedIn(s) => userOf(s) \in known
        /\ \A g \in Groups : members[g] \cup pending[g] \subseteq known

(* As long as a file stays listed its metadata does not change, so seeders   *)
(* of one listing always hold the same content.                              *)
MetadataFixed ==
    [][\A g \in Groups, f \in Files :
          metadata[g][f] # NoContent /\ metadata'[g][f] # NoContent
             => metadata'[g][f] = metadata[g][f]]_vars

(* Somebody enters an existing group only after asking, and only by a command *)
(* sent on a session of the group's owner.                                    *)
OwnerAdmits ==
    [][\A g \in Groups, u \in Users :
          findGroup(g) /\ u \in members'[g] \ members[g]
             => u \in pending[g] /\ sessions[reply'.session] = owner[g]]_vars

(* A member, once admitted, is put out only by its own command or by the     *)
(* owner's: no command of a third user touches a membership.                 *)
OnlySelfOrOwnerRemoves ==
    [][\A g \in Groups, u \in Users :
          u \in members[g] \ members'[g] /\ owner'[g] # NoUser
             => sessions[reply'.session] \in {u, owner[g]}]_vars

(* A live session keeps its user until it logs out: login() can neither take  *)
(* over a session nor change who it belongs to.                               *)
SessionsNotTakenOver ==
    [][\A s \in SessionIds :
          loggedIn(s) /\ sessions'[s] # NoUser => sessions'[s] = sessions[s]]_vars
=============================================================================
