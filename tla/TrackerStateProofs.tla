------------------------- MODULE TrackerStateProofs -------------------------
(***************************************************************************)
(* Proofs about TrackerState, for any users, sessions, groups and files:   *)
(* its invariants, what no step does, and that it implements GroupAccess.  *)
(***************************************************************************)
EXTENDS TrackerRefinement, TLAPS

-----------------------------------------------------------------------------
(* Facts about the parts the handlers are made of.                           *)

(* Request::reply() gives a well-typed CommandResult. *)
LEMMA AnswerType ==
  ASSUME NEW status \in {"OK", "ERR"}, NEW s \in SessionIds, Answer(status, s)
  PROVE  reply' \in CommandResults
BY DEF Answer, CommandResults

(* An error reply keeps the tracker well typed. *)
LEMMA RefuseType ==
  ASSUME TypeOK, NEW s \in SessionIds, Refuse(s)
  PROVE  TypeOK'
<1>1. reply' \in CommandResults
  BY AnswerType DEF Refuse
<1> QED
  BY <1>1 DEF Refuse, groupVars, TypeOK

(* removeSharesOf() keeps the file tables well typed. *)
LEMMA RemoveSharesType ==
  ASSUME TypeOK, NEW u \in Users, NEW G, removeSharesOf(u, G)
  PROVE  /\ seeders' \in [Groups -> [Files -> [Users -> Peers \cup {NoPeer}]]]
         /\ metadata' \in [Groups -> [Files -> Contents \cup {NoContent}]]
<1>1. \A g \in Groups, f \in Files :
         [seeders[g][f] EXCEPT ![u] = NoPeer] \in [Users -> Peers \cup {NoPeer}]
  BY DEF TypeOK
<1>2. \A g \in Groups, f \in Files : seeders[g][f] \in [Users -> Peers \cup {NoPeer}]
  BY DEF TypeOK
<1>3. \A g \in Groups, f \in Files : metadata[g][f] \in Contents \cup {NoContent}
  BY DEF TypeOK
<1> QED
  BY <1>1, <1>2, <1>3 DEF removeSharesOf

(* A session the tracker knows belongs to a user. *)
LEMMA UserOfType ==
  ASSUME TypeOK, NEW s \in SessionIds, loggedIn(s)
  PROVE  userOf(s) \in Users
BY DEF TypeOK, loggedIn, userOf

(* Adding somebody to one group's set, or removing them, keeps a map of sets. *)
LEMMA AddUserType ==
  ASSUME NEW F \in [Groups -> SUBSET Users], NEW g \in Groups, NEW u \in Users
  PROVE  [F EXCEPT ![g] = @ \cup {u}] \in [Groups -> SUBSET Users]
OBVIOUS

LEMMA DropUserType ==
  ASSUME NEW F \in [Groups -> SUBSET Users], NEW g \in Groups, NEW u
  PROVE  [F EXCEPT ![g] = @ \ {u}] \in [Groups -> SUBSET Users]
OBVIOUS

(* Writing one entry of the file tables keeps their type. *)
LEMMA FileEntryType ==
  ASSUME NEW S, NEW F \in [Groups -> [Files -> S]], NEW g \in Groups, NEW f \in Files,
         NEW v \in S
  PROVE  [F EXCEPT ![g][f] = v] \in [Groups -> [Files -> S]]
OBVIOUS

-----------------------------------------------------------------------------
(* Every command keeps the tracker's maps well typed. *)
LEMMA ApplyType ==
  ASSUME TypeOK, NEW s \in SessionIds, apply(s)
  PROVE  TypeOK'
<1>0. /\ owner \in [Groups -> Users \cup {NoUser}]
      /\ members \in [Groups -> SUBSET Users]
      /\ pending \in [Groups -> SUBSET Users]
      /\ metadata \in [Groups -> [Files -> Contents \cup {NoContent}]]
      /\ seeders \in [Groups -> [Files -> [Users -> Peers \cup {NoPeer}]]]
  BY DEF TypeOK
<1>1. CASE badCommand(s)
  BY <1>1, RefuseType DEF badCommand
<1>2. ASSUME NEW u \in Users, NEW pw \in Passwords, NEW ok \in BOOLEAN,
             createUser(s, u, pw, ok)
      PROVE  TypeOK'
  BY <1>2, RefuseType, AnswerType DEF createUser, hash, TypeOK, groupVars
<1>3. ASSUME NEW u \in Users, NEW pw \in Passwords \cup {NoPassword},
             NEW id \in SessionIds, login(s, u, pw, id)
      PROVE  TypeOK'
  <2>1. CASE Refuse(s) \/ Refuse(NoSession)
    BY <2>1, RefuseType DEF SessionIds
  <2>2. CASE ~(Refuse(s) \/ Refuse(NoSession))
    BY <1>3, <2>2, AnswerType DEF login, verify, TypeOK, groupVars
  <2> QED
    BY <2>1, <2>2
<1>4. CASE logout(s)
  <2>1. CASE Refuse(s)
    BY <2>1, RefuseType
  <2>2. CASE ~Refuse(s)
    <3>1. loggedIn(s) /\ reply' \in CommandResults
      BY <1>4, <2>2, AnswerType DEF logout, SessionIds
    <3>2. sessions' \in [SessionIds -> Users \cup {NoUser}]
      BY <1>4, <2>2 DEF logout, TypeOK
    <3> QED
      BY <1>4, <2>2, <3>1, <3>2, RemoveSharesType, UserOfType DEF logout, TypeOK
  <2> QED
    BY <2>1, <2>2
<1>5. ASSUME NEW mayRead, Query(s, mayRead) PROVE TypeOK'
  BY <1>5, AnswerType, RefuseType DEF Query, TypeOK, groupVars
<1>6. ASSUME NEW g \in Groups, createGroup(s, g)
      PROVE  TypeOK'
  <2>1. CASE Refuse(s)
    BY <2>1, RefuseType
  <2>2. CASE ~Refuse(s)
    <3>1. userOf(s) \in Users /\ reply' \in CommandResults
      BY <1>6, <2>2, UserOfType, AnswerType DEF createGroup
    <3>2. members' = [members EXCEPT ![g] = @ \cup {userOf(s)}]
      BY <1>6, <2>2 DEF createGroup
    <3>3. members' \in [Groups -> SUBSET Users]
      BY <1>0, <3>1, <3>2, AddUserType
    <3>4. owner' \in [Groups -> Users \cup {NoUser}]
      BY <1>6, <2>2, <1>0, <3>1 DEF createGroup
    <3> QED
      BY <1>6, <2>2, <3>1, <3>2, <3>3, <3>4 DEF createGroup, TypeOK
  <2> QED
    BY <2>1, <2>2
<1>7. ASSUME NEW g \in Groups, joinGroup(s, g)
      PROVE  TypeOK'
  <2>1. CASE Refuse(s)
    BY <2>1, RefuseType
  <2>2. CASE ~Refuse(s)
    <3>1. userOf(s) \in Users /\ reply' \in CommandResults
      BY <1>7, <2>2, UserOfType, AnswerType DEF joinGroup
    <3>2. pending' = [pending EXCEPT ![g] = @ \cup {userOf(s)}]
      BY <1>7, <2>2 DEF joinGroup
    <3>3. pending' \in [Groups -> SUBSET Users]
      BY <1>0, <3>1, <3>2, AddUserType
    <3> QED
      BY <1>7, <2>2, <3>1, <3>2, <3>3 DEF joinGroup, TypeOK
  <2> QED
    BY <2>1, <2>2
<1>8. ASSUME NEW g \in Groups, leaveGroup(s, g)
      PROVE  TypeOK'
  <2>1. CASE Refuse(s)
    BY <2>1, RefuseType
  <2>2. CASE ~Refuse(s)
    <3>1. userOf(s) \in Users /\ reply' \in CommandResults
      BY <1>8, <2>2, UserOfType, AnswerType DEF leaveGroup
    <3>2. members' = [members EXCEPT ![g] = @ \ {userOf(s)}]
      BY <1>8, <2>2 DEF leaveGroup
    <3>3. members' \in [Groups -> SUBSET Users]
      BY <1>0, <3>1, <3>2, DropUserType
    <3>4. /\ seeders' \in [Groups -> [Files -> [Users -> Peers \cup {NoPeer}]]]
         /\ metadata' \in [Groups -> [Files -> Contents \cup {NoContent}]]
      BY <1>8, <2>2, <3>1, RemoveSharesType DEF leaveGroup
    <3> QED
      BY <1>8, <2>2, <3>1, <3>2, <3>3, <3>4 DEF leaveGroup, TypeOK
  <2> QED
    BY <2>1, <2>2
<1>9. ASSUME NEW g \in Groups, NEW u \in Users, acceptRequest(s, g, u)
      PROVE  TypeOK'
  <2>1. CASE Refuse(s)
    BY <2>1, RefuseType
  <2>2. CASE ~Refuse(s)
    <3>1. reply' \in CommandResults
      BY <1>9, <2>2, AnswerType DEF acceptRequest
    <3>2. members' = [members EXCEPT ![g] = @ \cup {u}]
      BY <1>9, <2>2 DEF acceptRequest
    <3>3. members' \in [Groups -> SUBSET Users]
      BY <1>0, <3>1, <3>2, AddUserType
    <3>4. pending' = [pending EXCEPT ![g] = @ \ {u}]
      BY <1>9, <2>2 DEF acceptRequest
    <3>5. pending' \in [Groups -> SUBSET Users]
      BY <1>0, <3>1, <3>4, DropUserType
    <3> QED
      BY <1>9, <2>2, <3>1, <3>2, <3>3, <3>4, <3>5 DEF acceptRequest, TypeOK
  <2> QED
    BY <2>1, <2>2
<1>10. ASSUME NEW g \in Groups, NEW u \in Users, removeMember(s, g, u)
      PROVE  TypeOK'
  <2>1. CASE Refuse(s)
    BY <2>1, RefuseType
  <2>2. CASE ~Refuse(s)
    <3>1. reply' \in CommandResults
      BY <1>10, <2>2, AnswerType DEF removeMember
    <3>2. members' = [members EXCEPT ![g] = @ \ {u}]
      BY <1>10, <2>2 DEF removeMember
    <3>3. members' \in [Groups -> SUBSET Users]
      BY <1>0, <3>1, <3>2, DropUserType
    <3>4. /\ seeders' \in [Groups -> [Files -> [Users -> Peers \cup {NoPeer}]]]
         /\ metadata' \in [Groups -> [Files -> Contents \cup {NoContent}]]
      BY <1>10, <2>2, <3>1, RemoveSharesType DEF removeMember
    <3> QED
      BY <1>10, <2>2, <3>1, <3>2, <3>3, <3>4 DEF removeMember, TypeOK
  <2> QED
    BY <2>1, <2>2
<1>11. ASSUME NEW g \in Groups, NEW f \in Files, NEW m \in Contents \cup {NoContent},
             NEW p \in Peers, uploadFile(s, g, f, m, p)
      PROVE  TypeOK'
  <2>1. CASE Refuse(s)
    BY <2>1, RefuseType
  <2>2. CASE ~Refuse(s)
    <3>1. userOf(s) \in Users /\ reply' \in CommandResults
      BY <1>11, <2>2, UserOfType, AnswerType DEF uploadFile
    <3>2. [seeders[g][f] EXCEPT ![userOf(s)] = p] \in [Users -> Peers \cup {NoPeer}]
      BY <1>0, <3>1
    <3>3. seeders' = [seeders EXCEPT ![g][f] = [seeders[g][f] EXCEPT ![userOf(s)] = p]]
      BY <1>11, <2>2, <1>0 DEF uploadFile
    <3>4. seeders' \in [Groups -> [Files -> [Users -> Peers \cup {NoPeer}]]]
      BY <1>0, <3>2, <3>3, FileEntryType
    <3>5. metadata' = [metadata EXCEPT ![g][f] = m]
      BY <1>11, <2>2 DEF uploadFile
    <3>6. metadata' \in [Groups -> [Files -> Contents \cup {NoContent}]]
      BY <1>0, <3>5, FileEntryType
    <3> QED
      BY <1>11, <2>2, <3>1, <3>2, <3>3, <3>4, <3>5, <3>6 DEF uploadFile, TypeOK
  <2> QED
    BY <2>1, <2>2
<1>12. ASSUME NEW g \in Groups, NEW f \in Files, NEW now \in Times, NEW ok \in BOOLEAN,
              downloadFile(s, g, f, now, ok)
       PROVE  TypeOK'
  <2>1. CASE Refuse(s)
    BY <2>1, RefuseType
  <2>2. CASE ~Refuse(s)
    <3> DEFINE t == [user |-> userOf(s), group |-> g, file |-> f, expires |-> now + Lifetime]
    <3>1. t \in Tickets
      BY <1>12, <2>2, TimeAssumption, UserOfType DEF downloadFile, key, Tickets
    <3>2. \A u \in Users : seeders[g][f][u] # NoPeer => seeders[g][f][u] \in Peers
      BY DEF TypeOK
    <3>3. reply' \in CommandResults
      BY <1>12, <2>2, <3>1, <3>2 DEF downloadFile, key, AccessRecords, CommandResults
    <3> QED
      BY <1>12, <2>2, <3>3 DEF downloadFile, key, groupVars, TypeOK
  <2> QED
    BY <2>1, <2>2
<1>13. ASSUME NEW g \in Groups, NEW f \in Files, stopShare(s, g, f)
      PROVE  TypeOK'
  <2>1. CASE Refuse(s)
    BY <2>1, RefuseType
  <2>2. CASE ~Refuse(s)
    <3>1. userOf(s) \in Users /\ reply' \in CommandResults
      BY <1>13, <2>2, UserOfType, AnswerType DEF stopShare
    <3>2. [seeders[g][f] EXCEPT ![userOf(s)] = NoPeer] \in [Users -> Peers \cup {NoPeer}]
      BY <1>0, <3>1
    <3>3. seeders' = [seeders EXCEPT ![g][f] = [seeders[g][f] EXCEPT ![userOf(s)] = NoPeer]]
      BY <1>13, <2>2 DEF stopShare
    <3>4. seeders' \in [Groups -> [Files -> [Users -> Peers \cup {NoPeer}]]]
      BY <1>0, <3>2, <3>3, FileEntryType
    <3> DEFINE v == IF [seeders[g][f] EXCEPT ![userOf(s)] = NoPeer] = NoSeeders
                    THEN NoContent ELSE metadata[g][f]
    <3>5. metadata' = [metadata EXCEPT ![g][f] = v]
      BY <1>13, <2>2 DEF stopShare
    <3>6. v \in Contents \cup {NoContent}
      BY <1>0
    <3>7. metadata' \in [Groups -> [Files -> Contents \cup {NoContent}]]
      BY <1>0, <3>5, <3>6, FileEntryType
    <3> QED
      BY <1>13, <2>2, <3>1, <3>4, <3>7 DEF stopShare, TypeOK
  <2> QED
    BY <2>1, <2>2
<1> QED
  BY <1>1, <1>2, <1>3, <1>4, <1>5, <1>6, <1>7, <1>8, <1>9, <1>10, <1>11, <1>12, <1>13
     DEF apply, listGroups, listRequests, listFiles

(* Every step keeps the tracker's maps well typed. *)
LEMMA TypeStep ==
  ASSUME TypeOK, [Next]_vars
  PROVE  TypeOK'
<1>1. CASE restart
  BY <1>1 DEF restart, NoSeeders, TypeOK, SessionIds, CommandResults
<1>2. CASE UNCHANGED vars
  BY <1>2 DEF vars, TypeOK
<1> QED
  BY <1>1, <1>2, ApplyType DEF Next

LEMMA TypeInit ==
  ASSUME Init
  PROVE  TypeOK
BY DEF Init, Empty, TypeOK, NoSeeders, SessionIds, CommandResults

(* Every command handler and a restart keep the tracker's maps well typed. *)
THEOREM TypeCorrect == Spec => []TypeOK
<1>1. Init => TypeOK
  BY TypeInit
<1>2. TypeOK /\ [Next]_vars => TypeOK'
  BY TypeStep
<1> QED
  BY <1>1, <1>2, PTL DEF Spec

-----------------------------------------------------------------------------
(* Nothing but the reply changes. *)
Quiet == UNCHANGED <<users, sessions, groupVars>>

(* One of the ten commands that can change the tracker's data. *)
Effective(s) ==
    \/ \E u \in Users, pw \in Passwords, ok \in BOOLEAN : createUser(s, u, pw, ok)
    \/ \E u \in Users, pw \in Passwords \cup {NoPassword}, id \in SessionIds :
         login(s, u, pw, id)
    \/ logout(s)
    \/ \E g \in Groups :
         \/ createGroup(s, g)
         \/ joinGroup(s, g)
         \/ leaveGroup(s, g)
         \/ \E u \in Users : acceptRequest(s, g, u) \/ removeMember(s, g, u)
         \/ \E f \in Files :
              \/ \E m \in Contents \cup {NoContent}, p \in Peers : uploadFile(s, g, f, m, p)
              \/ stopShare(s, g, f)

(* Refused commands and queries are quiet; every other step is a restart or  *)
(* one of the commands above.                                                *)
LEMMA QuietOrEffective ==
  ASSUME [Next]_vars, ~Quiet, ~restart
  PROVE  \E s \in SessionIds : Effective(s)
<1>1. ~UNCHANGED vars
  BY DEF vars, Quiet, groupVars
<1>2. \A s : ~Refuse(s)
  BY DEF Refuse, Quiet
<1>3. \A s, mayRead : ~Query(s, mayRead)
  BY <1>2 DEF Query, Quiet
<1>4. \A s, g, f, now, ok : ~downloadFile(s, g, f, now, ok)
  BY <1>2 DEF downloadFile, key, Quiet
<1>5. PICK s \in SessionIds : apply(s)
  BY <1>1 DEF Next
<1> QED
  BY <1>2, <1>3, <1>4, <1>5 DEF apply, Effective, badCommand, listGroups, listRequests, listFiles

(* Only login and logout change the sessions. *)
LEMMA SessionsFrame ==
  ASSUME NEW s, Effective(s)
  PROVE  \/ UNCHANGED sessions
         \/ logout(s)
         \/ \E u \in Users, pw \in Passwords \cup {NoPassword}, id \in SessionIds :
              login(s, u, pw, id)
<1>1. \A u, pw, ok : createUser(s, u, pw, ok) => UNCHANGED sessions
  BY DEF createUser, hash, Refuse
<1>2. \A g : createGroup(s, g) \/ joinGroup(s, g) \/ leaveGroup(s, g) => UNCHANGED sessions
  BY DEF createGroup, joinGroup, leaveGroup, Refuse
<1>3. \A g, u : acceptRequest(s, g, u) \/ removeMember(s, g, u) => UNCHANGED sessions
  BY DEF acceptRequest, removeMember, Refuse
<1>4. \A g, f : /\ \A m, p : uploadFile(s, g, f, m, p) => UNCHANGED sessions
                /\ stopShare(s, g, f) => UNCHANGED sessions
  BY DEF uploadFile, stopShare, Refuse
<1> QED
  BY <1>1, <1>2, <1>3, <1>4 DEF Effective

(* No step logs session 0 in: login() refuses to hand out the ID 0. *)
LEMMA AnonymousStep ==
  ASSUME TypeOK, AnonymousLoggedOut, [Next]_vars
  PROVE  AnonymousLoggedOut'
<1>1. CASE Quiet
  BY <1>1 DEF Quiet, AnonymousLoggedOut
<1>2. CASE restart
  BY <1>2 DEF restart, AnonymousLoggedOut, SessionIds
<1>3. CASE ~Quiet /\ ~restart
  <2>0. PICK s \in SessionIds : Effective(s)
    BY <1>3, QuietOrEffective
  <2>1. ASSUME NEW u \in Users, NEW pw \in Passwords \cup {NoPassword},
               NEW id \in SessionIds, login(s, u, pw, id)
        PROVE  AnonymousLoggedOut'
    BY <1>3, <2>1 DEF login, verify, Refuse, Quiet, AnonymousLoggedOut, TypeOK, SessionIds
  <2>2. CASE logout(s)
    BY <1>3, <2>2 DEF logout, Refuse, Quiet, AnonymousLoggedOut, TypeOK, SessionIds
  <2>3. CASE UNCHANGED sessions
    BY <2>3 DEF AnonymousLoggedOut
  <2> QED
    BY <2>0, <2>1, <2>2, <2>3, SessionsFrame
<1> QED
  BY <1>1, <1>2, <1>3

(* The commands that change a group's owner, members or requests. *)
LEMMA GroupsFrame ==
  ASSUME NEW s, Effective(s)
  PROVE  \/ UNCHANGED <<owner, members, pending>>
         \/ \E g \in Groups : createGroup(s, g) \/ joinGroup(s, g) \/ leaveGroup(s, g)
         \/ \E g \in Groups, u \in Users : acceptRequest(s, g, u) \/ removeMember(s, g, u)
<1>1. \A u, pw, x : /\ createUser(s, u, pw, x) => UNCHANGED <<owner, members, pending>>
                    /\ login(s, u, pw, x) => UNCHANGED <<owner, members, pending>>
  BY DEF createUser, hash, login, verify, Refuse, groupVars
<1>2. logout(s) => UNCHANGED <<owner, members, pending>>
  BY DEF logout, Refuse, groupVars
<1>3. \A g, f : /\ \A m, p : uploadFile(s, g, f, m, p) => UNCHANGED <<owner, members, pending>>
                /\ stopShare(s, g, f) => UNCHANGED <<owner, members, pending>>
  BY DEF uploadFile, stopShare, Refuse, groupVars
<1> QED
  BY <1>1, <1>2, <1>3 DEF Effective

(* Group records stay coherent: an owner can neither leave nor be removed,   *)
(* and accept_request moves a user from the requests to the members.         *)
LEMMA GroupsStep ==
  ASSUME TypeOK, GroupsCoherent, [Next]_vars
  PROVE  GroupsCoherent'
<1>0. /\ owner \in [Groups -> Users \cup {NoUser}]
      /\ members \in [Groups -> SUBSET Users]
      /\ pending \in [Groups -> SUBSET Users]
  BY DEF TypeOK
<1>1. CASE Quiet
  BY <1>1 DEF Quiet, groupVars, GroupsCoherent, findGroup
<1>2. CASE restart
  BY <1>2 DEF restart, GroupsCoherent, findGroup
<1>3. CASE ~Quiet /\ ~restart
  <2>0. PICK s \in SessionIds : Effective(s)
    BY <1>3, QuietOrEffective
  <2>r. ~Refuse(s)
    BY <1>3 DEF Refuse, Quiet
  <2>1. CASE UNCHANGED <<owner, members, pending>>
    BY <2>1 DEF GroupsCoherent, findGroup
  <2>2. ASSUME NEW g \in Groups, createGroup(s, g) PROVE GroupsCoherent'
    BY <2>r, <2>2 DEF createGroup, GroupsCoherent, findGroup, TypeOK, loggedIn
  <2>3. ASSUME NEW g \in Groups, joinGroup(s, g) PROVE GroupsCoherent'
    <3>1. /\ owner' = owner /\ members' = members
          /\ pending' = [pending EXCEPT ![g] = @ \cup {userOf(s)}]
          /\ findGroup(g) /\ userOf(s) \notin members[g]
      BY <2>r, <2>3 DEF joinGroup
    <3> QED
      BY <1>0, <3>1 DEF GroupsCoherent, findGroup
  <2>4. ASSUME NEW g \in Groups, leaveGroup(s, g) PROVE GroupsCoherent'
    <3>1. /\ owner' = owner /\ pending' = pending
          /\ members' = [members EXCEPT ![g] = @ \ {userOf(s)}]
          /\ findGroup(g) /\ userOf(s) # owner[g]
      BY <2>r, <2>4 DEF leaveGroup, isOwner, isMember
    <3> QED
      BY <1>0, <3>1 DEF GroupsCoherent, findGroup
  <2>5. ASSUME NEW g \in Groups, NEW u \in Users, acceptRequest(s, g, u)
        PROVE  GroupsCoherent'
    <3>1. /\ owner' = owner
          /\ members' = [members EXCEPT ![g] = @ \cup {u}]
          /\ pending' = [pending EXCEPT ![g] = @ \ {u}]
          /\ findGroup(g)
      BY <2>r, <2>5 DEF acceptRequest, isOwner
    <3> QED
      BY <1>0, <3>1 DEF GroupsCoherent, findGroup
  <2>6. ASSUME NEW g \in Groups, NEW u \in Users, removeMember(s, g, u)
        PROVE  GroupsCoherent'
    <3>1. /\ owner' = owner /\ pending' = pending
          /\ members' = [members EXCEPT ![g] = @ \ {u}]
          /\ findGroup(g) /\ u # owner[g]
      BY <2>r, <2>6 DEF removeMember, isOwner
    <3> QED
      BY <1>0, <3>1 DEF GroupsCoherent, findGroup
  <2> QED
    BY <2>0, <2>1, <2>2, <2>3, <2>4, <2>5, <2>6, GroupsFrame
<1> QED
  BY <1>1, <1>2, <1>3

(* Only create_user changes the users, and it forgets none. *)
LEMMA UsersGrow ==
  ASSUME TypeOK, NEW s, Effective(s), NEW u \in Users, users[u] # NoPassword
  PROVE  users'[u] # NoPassword
<1>1. \A n \in Users, pw \in Passwords : \A ok :
         createUser(s, n, pw, ok) => users'[u] # NoPassword
  BY NullAssumption DEF createUser, hash, Refuse, TypeOK
<1>2. \A n, pw, id : login(s, n, pw, id) => UNCHANGED users
  BY DEF login, verify, Refuse
<1>3. logout(s) => UNCHANGED users
  BY DEF logout, Refuse
<1>4. \A g : createGroup(s, g) \/ joinGroup(s, g) \/ leaveGroup(s, g) => UNCHANGED users
  BY DEF createGroup, joinGroup, leaveGroup, Refuse
<1>5. \A g, n : acceptRequest(s, g, n) \/ removeMember(s, g, n) => UNCHANGED users
  BY DEF acceptRequest, removeMember, Refuse
<1>6. \A g, f : /\ \A m, p : uploadFile(s, g, f, m, p) => UNCHANGED users
                /\ stopShare(s, g, f) => UNCHANGED users
  BY DEF uploadFile, stopShare, Refuse
<1> QED
  BY <1>1, <1>2, <1>3, <1>4, <1>5, <1>6 DEF Effective

(* Sessions, memberships and requests keep naming created users. *)
LEMMA KnownUsersStep ==
  ASSUME TypeOK, TypeOK', KnownUsers, [Next]_vars
  PROVE  KnownUsers'
<1>0. /\ members \in [Groups -> SUBSET Users]
      /\ pending \in [Groups -> SUBSET Users]
  BY DEF TypeOK
<1>1. CASE Quiet
  BY <1>1 DEF Quiet, groupVars, KnownUsers, loggedIn, userOf
<1>2. CASE restart
  BY <1>2 DEF restart, KnownUsers, loggedIn, userOf
<1>3. CASE ~Quiet /\ ~restart
  <2>0. PICK s \in SessionIds : Effective(s)
    BY <1>3, QuietOrEffective
  <2>r. ~Refuse(s) /\ ~Refuse(NoSession)
    BY <1>3 DEF Refuse, Quiet
  <2>k. \A u \in Users : users[u] # NoPassword => users'[u] # NoPassword
    BY <2>0, UsersGrow
  <2>1. \A t \in SessionIds : sessions'[t] # NoUser => users'[sessions'[t]] # NoPassword
    <3>1. CASE UNCHANGED sessions
      BY <3>1, <2>k DEF KnownUsers, loggedIn, userOf, TypeOK
    <3>2. CASE logout(s)
      BY <2>r, <3>2, <2>k DEF logout, KnownUsers, loggedIn, userOf, TypeOK
    <3>3. ASSUME NEW u \in Users, NEW pw \in Passwords \cup {NoPassword},
                 NEW id \in SessionIds, login(s, u, pw, id)
          PROVE  \A t \in SessionIds :
                   sessions'[t] # NoUser => users'[sessions'[t]] # NoPassword
      BY <2>r, <3>3, <2>k DEF login, verify, KnownUsers, loggedIn, userOf, TypeOK
    <3> QED
      BY <2>0, <3>1, <3>2, <3>3, SessionsFrame
  <2>2. ASSUME NEW g \in Groups, NEW u \in members'[g] \cup pending'[g]
        PROVE  u \in Users /\ users[u] # NoPassword
    <3>1. CASE u \in members[g] \cup pending[g]
      BY <3>1 DEF KnownUsers, TypeOK
    <3>2. CASE u = userOf(s) /\ loggedIn(s)
      BY <3>2 DEF KnownUsers, loggedIn, userOf, TypeOK
    <3>3. ASSUME NEW h \in Groups, createGroup(s, h) \/ joinGroup(s, h) \/ leaveGroup(s, h)
          PROVE  u \in members[g] \cup pending[g] \/ (u = userOf(s) /\ loggedIn(s))
      <4>1. CASE createGroup(s, h)
        BY <1>0, <2>r, <2>2, <4>1 DEF createGroup
      <4>2. CASE joinGroup(s, h)
        BY <1>0, <2>r, <2>2, <4>2 DEF joinGroup
      <4>3. CASE leaveGroup(s, h)
        BY <1>0, <2>r, <2>2, <4>3 DEF leaveGroup
      <4> QED
        BY <3>3, <4>1, <4>2, <4>3
    <3>4. ASSUME NEW h \in Groups, NEW n \in Users,
                 acceptRequest(s, h, n) \/ removeMember(s, h, n)
          PROVE  u \in members[g] \cup pending[g]
      <4>1. CASE acceptRequest(s, h, n)
        BY <1>0, <2>r, <2>2, <4>1 DEF acceptRequest
      <4>2. CASE removeMember(s, h, n)
        BY <1>0, <2>r, <2>2, <4>2 DEF removeMember
      <4> QED
        BY <3>4, <4>1, <4>2
    <3> QED
      BY <2>0, <2>2, <3>1, <3>2, <3>3, <3>4, GroupsFrame
  <2>3. \A t \in SessionIds : sessions'[t] \in Users \cup {NoUser}
    BY DEF TypeOK
  <2> QED
    BY <2>1, <2>2, <2>3, <2>k DEF KnownUsers, loggedIn, userOf
<1> QED
  BY <1>1, <1>2, <1>3

-----------------------------------------------------------------------------
(* removeSharesOf() stops exactly one user's shares in the given groups. *)
LEMMA RemoveSharesSeeds ==
  ASSUME TypeOK, NEW u \in Users, NEW G, removeSharesOf(u, G),
         NEW v \in Users, NEW g \in Groups, NEW f \in Files
  PROVE  Seeds(v, g, f)' <=> Seeds(v, g, f) /\ ~(v = u /\ g \in G)
<1>1. seeders[g][f] \in [Users -> Peers \cup {NoPeer}]
  BY DEF TypeOK
<1>2. seeders'[g][f] = IF g \in G THEN [seeders[g][f] EXCEPT ![u] = NoPeer]
                       ELSE seeders[g][f]
  BY DEF removeSharesOf
<1> QED
  BY <1>1, <1>2 DEF Seeds

(* It lists exactly the files that still have a seeder. *)
LEMMA RemoveSharesListed ==
  ASSUME TypeOK, TypeOK', ListedIffSeeded, NEW u \in Users, NEW G, removeSharesOf(u, G)
  PROVE  ListedIffSeeded'
<1> SUFFICES ASSUME NEW g \in Groups, NEW f \in Files
             PROVE  (metadata'[g][f] # NoContent) <=> \E v \in Users : Seeds(v, g, f)'
  BY DEF ListedIffSeeded
<1>1. seeders'[g][f] \in [Users -> Peers \cup {NoPeer}]
  BY DEF TypeOK
<1>2. (seeders'[g][f] = NoSeeders) <=> ~ \E v \in Users : Seeds(v, g, f)'
  BY <1>1 DEF NoSeeders, Seeds
<1>3. metadata'[g][f] = IF g \in G /\ seeders'[g][f] = NoSeeders THEN NoContent
                        ELSE metadata[g][f]
  BY DEF removeSharesOf
<1>4. (metadata[g][f] # NoContent) <=> \E v \in Users : Seeds(v, g, f)
  BY DEF ListedIffSeeded
<1>5. \A v \in Users : Seeds(v, g, f)' <=> Seeds(v, g, f) /\ ~(v = u /\ g \in G)
  BY RemoveSharesSeeds
<1> QED
  BY <1>2, <1>3, <1>4, <1>5

(* The commands that change the file tables. *)
LEMMA SharesFrame ==
  ASSUME NEW s, Effective(s)
  PROVE  \/ UNCHANGED <<metadata, seeders>>
         \/ logout(s)
         \/ \E g \in Groups : leaveGroup(s, g)
         \/ \E g \in Groups, u \in Users : removeMember(s, g, u)
         \/ \E g \in Groups, f \in Files :
              \/ \E m \in Contents \cup {NoContent}, p \in Peers : uploadFile(s, g, f, m, p)
              \/ stopShare(s, g, f)
<1>1. \A u, pw, x : /\ createUser(s, u, pw, x) => UNCHANGED <<metadata, seeders>>
                    /\ login(s, u, pw, x) => UNCHANGED <<metadata, seeders>>
  BY DEF createUser, hash, login, verify, Refuse, groupVars
<1>2. \A g : createGroup(s, g) \/ joinGroup(s, g) => UNCHANGED <<metadata, seeders>>
  BY DEF createGroup, joinGroup, Refuse, groupVars
<1>3. \A g, u : acceptRequest(s, g, u) => UNCHANGED <<metadata, seeders>>
  BY DEF acceptRequest, Refuse, groupVars
<1> QED
  BY <1>1, <1>2, <1>3 DEF Effective

(* A share that appears is the caller's own, in a group the caller is in. *)
LEMMA NewShare ==
  ASSUME TypeOK, NEW s \in SessionIds, Effective(s), ~Refuse(s),
         NEW v \in Users, NEW h \in Groups, NEW e \in Files, Seeds(v, h, e)'
  PROVE  \/ Seeds(v, h, e)
         \/ /\ loggedIn(s) /\ v = userOf(s) /\ v \in members[h]
            /\ UNCHANGED <<sessions, members>>
<1>0. seeders \in [Groups -> [Files -> [Users -> Peers \cup {NoPeer}]]]
  BY DEF TypeOK
<1>1. CASE UNCHANGED <<metadata, seeders>>
  BY <1>1 DEF Seeds
<1>2. CASE logout(s)
  BY <1>2, RemoveSharesSeeds, UserOfType DEF logout
<1>3. ASSUME NEW g \in Groups, leaveGroup(s, g) PROVE Seeds(v, h, e)
  BY <1>3, RemoveSharesSeeds, UserOfType DEF leaveGroup
<1>4. ASSUME NEW g \in Groups, NEW u \in Users, removeMember(s, g, u) PROVE Seeds(v, h, e)
  BY <1>4, RemoveSharesSeeds DEF removeMember
<1>5. ASSUME NEW g \in Groups, NEW f \in Files, NEW m, NEW p, uploadFile(s, g, f, m, p)
      PROVE  \/ Seeds(v, h, e)
             \/ /\ loggedIn(s) /\ v = userOf(s) /\ v \in members[h]
                /\ UNCHANGED <<sessions, members>>
  <2>1. /\ seeders' = [seeders EXCEPT ![g][f][userOf(s)] = p]
        /\ loggedIn(s) /\ userOf(s) \in members[g] /\ UNCHANGED <<sessions, members>>
    BY <1>5 DEF uploadFile, isMember
  <2> QED
    BY <1>0, <2>1 DEF Seeds
<1>6. ASSUME NEW g \in Groups, NEW f \in Files, stopShare(s, g, f) PROVE Seeds(v, h, e)
  <2>1. seeders' = [seeders EXCEPT ![g][f] = [seeders[g][f] EXCEPT ![userOf(s)] = NoPeer]]
    BY <1>6 DEF stopShare
  <2> QED
    BY <1>0, <2>1 DEF Seeds
<1> QED
  BY <1>1, <1>2, <1>3, <1>4, <1>5, <1>6, SharesFrame

(* Seeders stay logged in: a session that ends takes all its user's shares   *)
(* with it, and a login never replaces a live session.                       *)
LEMMA SeedersOnlineStep ==
  ASSUME TypeOK, SeedersOnline, [Next]_vars
  PROVE  SeedersOnline'
<1>1. CASE Quiet
  BY <1>1 DEF Quiet, groupVars, SeedersOnline, Seeds
<1>2. CASE restart
  BY <1>2 DEF restart, SeedersOnline, Seeds, NoSeeders
<1>3. CASE ~Quiet /\ ~restart
  <2>0. PICK s \in SessionIds : Effective(s)
    BY <1>3, QuietOrEffective
  <2>r. ~Refuse(s) /\ ~Refuse(NoSession)
    BY <1>3 DEF Refuse, Quiet
  <2> SUFFICES ASSUME NEW g \in Groups, NEW f \in Files, NEW u \in Users, Seeds(u, g, f)'
               PROVE  \E t \in SessionIds : sessions'[t] = u
    BY DEF SeedersOnline
  <2>1. CASE u = userOf(s) /\ UNCHANGED sessions
    BY <2>1 DEF userOf
  <2>2. CASE Seeds(u, g, f)
    <3>1. PICK t \in SessionIds : sessions[t] = u
      BY <2>2 DEF SeedersOnline
    <3>2. u # NoUser
      BY NullAssumption
    <3>3. CASE logout(s)
      <4>1. u # userOf(s)
        BY <2>r, <3>3, RemoveSharesSeeds, UserOfType DEF logout
      <4> QED
        BY <2>r, <3>1, <3>3, <4>1 DEF logout, userOf, TypeOK
    <3>4. ASSUME NEW n \in Users, NEW pw \in Passwords \cup {NoPassword},
                 NEW id \in SessionIds, login(s, n, pw, id)
          PROVE  sessions'[t] = u
      BY <2>r, <3>1, <3>2, <3>4 DEF login, verify, loggedIn, userOf, TypeOK
    <3> QED
      BY <2>0, <3>1, <3>3, <3>4, SessionsFrame
  <2> QED
    BY <2>0, <2>1, <2>2, <2>r, NewShare
<1> QED
  BY <1>1, <1>2, <1>3

(* Seeders stay members: whoever loses a membership loses the shares. *)
LEMMA SeedersAreMembersStep ==
  ASSUME TypeOK, SeedersAreMembers, [Next]_vars
  PROVE  SeedersAreMembers'
<1>0. members \in [Groups -> SUBSET Users]
  BY DEF TypeOK
<1>1. CASE Quiet
  BY <1>1 DEF Quiet, groupVars, SeedersAreMembers, Seeds
<1>2. CASE restart
  BY <1>2 DEF restart, SeedersAreMembers, Seeds, NoSeeders
<1>3. CASE ~Quiet /\ ~restart
  <2>0. PICK s \in SessionIds : Effective(s)
    BY <1>3, QuietOrEffective
  <2>r. ~Refuse(s)
    BY <1>3 DEF Refuse, Quiet
  <2> SUFFICES ASSUME NEW g \in Groups, NEW f \in Files, NEW u \in Users, Seeds(u, g, f)'
               PROVE  u \in members'[g]
    BY DEF SeedersAreMembers
  <2>1. CASE u \in members[g] /\ UNCHANGED members
    BY <2>1
  <2>2. CASE Seeds(u, g, f)
    <3>1. u \in members[g]
      BY <2>2 DEF SeedersAreMembers
    <3>2. ASSUME NEW h \in Groups, createGroup(s, h) \/ joinGroup(s, h)
          PROVE  u \in members'[g]
      BY <1>0, <2>r, <3>1, <3>2 DEF createGroup, joinGroup
    <3>3. ASSUME NEW h \in Groups, leaveGroup(s, h) PROVE u \in members'[g]
      <4>1. ~(u = userOf(s) /\ g \in {h})
        BY <2>r, <3>3, RemoveSharesSeeds, UserOfType DEF leaveGroup
      <4> QED
        BY <1>0, <2>r, <3>1, <3>3, <4>1 DEF leaveGroup
    <3>4. ASSUME NEW h \in Groups, NEW n \in Users, acceptRequest(s, h, n)
          PROVE  u \in members'[g]
      BY <1>0, <2>r, <3>1, <3>4 DEF acceptRequest
    <3>5. ASSUME NEW h \in Groups, NEW n \in Users, removeMember(s, h, n)
          PROVE  u \in members'[g]
      <4>1. ~(u = n /\ g \in {h})
        BY <2>r, <3>5, RemoveSharesSeeds DEF removeMember
      <4> QED
        BY <1>0, <2>r, <3>1, <3>5, <4>1 DEF removeMember
    <3> QED
      BY <2>0, <3>1, <3>2, <3>3, <3>4, <3>5, GroupsFrame
  <2> QED
    BY <2>0, <2>1, <2>2, <2>r, NewShare
<1> QED
  BY <1>1, <1>2, <1>3

(* Files stay listed exactly while they have a seeder. *)
LEMMA ListedStep ==
  ASSUME TypeOK, TypeOK', ListedIffSeeded, [Next]_vars
  PROVE  ListedIffSeeded'
<1>0. /\ seeders \in [Groups -> [Files -> [Users -> Peers \cup {NoPeer}]]]
      /\ metadata \in [Groups -> [Files -> Contents \cup {NoContent}]]
  BY DEF TypeOK
<1>1. CASE Quiet
  BY <1>1 DEF Quiet, groupVars, ListedIffSeeded, Seeds
<1>2. CASE restart
  BY <1>2 DEF restart, ListedIffSeeded, Seeds, NoSeeders
<1>3. CASE ~Quiet /\ ~restart
  <2>0. PICK s \in SessionIds : Effective(s)
    BY <1>3, QuietOrEffective
  <2>r. ~Refuse(s)
    BY <1>3 DEF Refuse, Quiet
  <2>1. CASE UNCHANGED <<metadata, seeders>>
    BY <2>1 DEF ListedIffSeeded, Seeds
  <2>2. CASE logout(s)
    BY <2>r, <2>2, RemoveSharesListed, UserOfType DEF logout
  <2>3. ASSUME NEW g \in Groups, leaveGroup(s, g) PROVE ListedIffSeeded'
    BY <2>r, <2>3, RemoveSharesListed, UserOfType DEF leaveGroup
  <2>4. ASSUME NEW g \in Groups, NEW u \in Users, removeMember(s, g, u)
        PROVE  ListedIffSeeded'
    BY <2>r, <2>4, RemoveSharesListed DEF removeMember
  <2>5. ASSUME NEW g \in Groups, NEW f \in Files, NEW m \in Contents \cup {NoContent},
               NEW p \in Peers, uploadFile(s, g, f, m, p)
        PROVE  ListedIffSeeded'
    <3>1. /\ seeders' = [seeders EXCEPT ![g][f][userOf(s)] = p]
          /\ metadata' = [metadata EXCEPT ![g][f] = m]
          /\ userOf(s) \in Users /\ m # NoContent /\ p # NoPeer
      BY <2>r, <2>5, UserOfType, NullAssumption DEF uploadFile
    <3>2. metadata'[g][f] = m /\ seeders'[g][f][userOf(s)] = p
      BY <1>0, <3>1
    <3>3. \A h \in Groups, e \in Files :
             (h # g \/ e # f) => /\ seeders'[h][e] = seeders[h][e]
                                 /\ metadata'[h][e] = metadata[h][e]
      BY <1>0, <3>1
    <3> QED
      BY <3>1, <3>2, <3>3 DEF ListedIffSeeded, Seeds
  <2>6. ASSUME NEW g \in Groups, NEW f \in Files, stopShare(s, g, f)
        PROVE  ListedIffSeeded'
    <3> DEFINE left == [seeders[g][f] EXCEPT ![userOf(s)] = NoPeer]
    <3>1. /\ seeders' = [seeders EXCEPT ![g][f] = left]
          /\ metadata' = [metadata EXCEPT ![g][f] =
                             IF left = NoSeeders THEN NoContent ELSE @]
          /\ seeders[g][f][userOf(s)] # NoPeer /\ userOf(s) \in Users
      BY <2>r, <2>6, UserOfType DEF stopShare
    <3>2. (left = NoSeeders) <=> \A v \in Users : left[v] = NoPeer
      <4>1. left \in [Users -> Peers \cup {NoPeer}]
        BY <1>0
      <4> HIDE DEF left
      <4> QED
        BY <4>1 DEF NoSeeders
    <3>3. metadata[g][f] # NoContent
      BY <3>1 DEF ListedIffSeeded, Seeds
    <3> HIDE DEF left
    <3>4. /\ seeders'[g][f] = left
          /\ metadata'[g][f] = IF left = NoSeeders THEN NoContent ELSE metadata[g][f]
      BY <1>0, <3>1
    <3>5. \A h \in Groups, e \in Files :
             (h # g \/ e # f) => /\ seeders'[h][e] = seeders[h][e]
                                 /\ metadata'[h][e] = metadata[h][e]
      BY <1>0, <3>1
    <3> QED
      BY <3>2, <3>3, <3>4, <3>5 DEF ListedIffSeeded, Seeds
  <2> QED
    BY <2>0, <2>1, <2>2, <2>3, <2>4, <2>5, <2>6, SharesFrame
<1> QED
  BY <1>1, <1>2, <1>3

-----------------------------------------------------------------------------
(* The invariant the safety theorems rest on.  Each part is kept by every    *)
(* step from the part itself and the types, except that the parts speak of   *)
(* one another's variables: a share is worth what the membership and the     *)
(* session behind it are.                                                    *)
Inv == /\ TypeOK /\ AnonymousLoggedOut /\ GroupsCoherent /\ KnownUsers
       /\ SeedersOnline /\ SeedersAreMembers /\ ListedIffSeeded

(* The tracker's data stays consistent under every sequence of commands and   *)
(* restarts, whatever session IDs the callers send.                           *)
THEOREM Consistent == Spec => []Inv
<1>1. Init => Inv
  <2> SUFFICES ASSUME Init PROVE Inv
    OBVIOUS
  <2>1. TypeOK
    BY TypeInit
  <2> QED
    BY <2>1 DEF Init, Empty, Inv, AnonymousLoggedOut, GroupsCoherent, KnownUsers,
                SeedersOnline, SeedersAreMembers, ListedIffSeeded, Seeds, NoSeeders,
                SessionIds, findGroup, loggedIn, userOf
<1>2. Inv /\ [Next]_vars => Inv'
  <2> SUFFICES ASSUME Inv, [Next]_vars PROVE Inv'
    OBVIOUS
  <2>1. TypeOK'
    BY TypeStep DEF Inv
  <2> QED
    BY <2>1, AnonymousStep, GroupsStep, KnownUsersStep, SeedersOnlineStep,
       SeedersAreMembersStep, ListedStep DEF Inv
<1> QED
  BY <1>1, <1>2, PTL DEF Spec

(* A seeder the tracker offers is logged in and a member of the group, at     *)
(* any time: logout, leave_group and remove_member leave no share behind.     *)
THEOREM SharesBacked == Spec => []SeedersBacked
<1>1. Inv => SeedersBacked
  BY DEF Inv, SeedersBacked
<1> QED
  BY <1>1, Consistent, PTL

(* A listed file always has a seeder, and a seeded file is always listed. *)
THEOREM FilesListed == Spec => []ListedIffSeeded
<1>1. Inv => ListedIffSeeded
  BY DEF Inv
<1> QED
  BY <1>1, Consistent, PTL

(* An owner never loses membership of its group, and nobody is both a member  *)
(* and waiting to become one.                                                 *)
THEOREM GroupsStayCoherent == Spec => []GroupsCoherent
<1>1. Inv => GroupsCoherent
  BY DEF Inv
<1> QED
  BY <1>1, Consistent, PTL

(* A client without a session is never taken for a user. *)
THEOREM AnonymousNeverUser == Spec => []AnonymousLoggedOut
<1>1. Inv => AnonymousLoggedOut
  BY DEF Inv
<1> QED
  BY <1>1, Consistent, PTL

-----------------------------------------------------------------------------
(* While a file stays listed, no command changes its metadata: uploads have  *)
(* to match it, and a change needs every seeder gone first.                  *)
THEOREM MetadataNeverChanges == Spec => MetadataFixed
<1>1. ASSUME TypeOK, [Next]_vars, NEW g \in Groups, NEW f \in Files,
             metadata[g][f] # NoContent, metadata'[g][f] # NoContent
      PROVE  metadata'[g][f] = metadata[g][f]
  <2>0. metadata \in [Groups -> [Files -> Contents \cup {NoContent}]]
    BY <1>1 DEF TypeOK
  <2>1. CASE Quiet
    BY <2>1 DEF Quiet, groupVars
  <2>2. CASE restart
    BY <1>1, <2>2 DEF restart
  <2>3. CASE ~Quiet /\ ~restart
    <3>0. PICK s \in SessionIds : Effective(s)
      BY <1>1, <2>3, QuietOrEffective
    <3>r. ~Refuse(s)
      BY <2>3 DEF Refuse, Quiet
    <3>1. ASSUME NEW u, NEW G, removeSharesOf(u, G) PROVE metadata'[g][f] = metadata[g][f]
      BY <1>1, <3>1 DEF removeSharesOf
    <3>2. ASSUME NEW h \in Groups, NEW e \in Files, NEW m, NEW p, uploadFile(s, h, e, m, p)
          PROVE  metadata'[g][f] = metadata[g][f]
      BY <1>1, <2>0, <3>r, <3>2 DEF uploadFile
    <3>3. ASSUME NEW h \in Groups, NEW e \in Files, stopShare(s, h, e)
          PROVE  metadata'[g][f] = metadata[g][f]
      BY <1>1, <2>0, <3>r, <3>3 DEF stopShare
    <3> QED
      BY <3>0, <3>r, <3>1, <3>2, <3>3, SharesFrame DEF logout, leaveGroup, removeMember
  <2> QED
    BY <2>1, <2>2, <2>3
<1>2. TypeOK /\ [Next]_vars =>
        [\A g \in Groups, f \in Files :
            metadata[g][f] # NoContent /\ metadata'[g][f] # NoContent
               => metadata'[g][f] = metadata[g][f]]_vars
  BY <1>1
<1> QED
  BY <1>2, TypeCorrect, PTL DEF Spec, MetadataFixed

(* No login takes over a live session or changes whose it is. *)
THEOREM SessionsStayTheirs == Spec => SessionsNotTakenOver
<1>1. ASSUME TypeOK, [Next]_vars, NEW t \in SessionIds, loggedIn(t), sessions'[t] # NoUser
      PROVE  sessions'[t] = sessions[t]
  <2>1. CASE Quiet
    BY <2>1 DEF Quiet
  <2>2. CASE restart
    BY <1>1, <2>2 DEF restart
  <2>3. CASE ~Quiet /\ ~restart
    <3>0. PICK s \in SessionIds : Effective(s)
      BY <1>1, <2>3, QuietOrEffective
    <3>r. ~Refuse(s) /\ ~Refuse(NoSession)
      BY <2>3 DEF Refuse, Quiet
    <3>1. CASE logout(s)
      BY <1>1, <3>r, <3>1 DEF logout, TypeOK
    <3>2. ASSUME NEW n \in Users, NEW pw, NEW id \in SessionIds, login(s, n, pw, id)
          PROVE  sessions'[t] = sessions[t]
      BY <1>1, <3>r, <3>2 DEF login, verify, loggedIn, userOf, TypeOK
    <3> QED
      BY <3>0, <3>1, <3>2, SessionsFrame
  <2> QED
    BY <2>1, <2>2, <2>3
<1>2. TypeOK /\ [Next]_vars =>
        [\A s \in SessionIds :
            loggedIn(s) /\ sessions'[s] # NoUser => sessions'[s] = sessions[s]]_vars
  BY <1>1
<1> QED
  BY <1>2, TypeCorrect, PTL DEF Spec, SessionsNotTakenOver

(* Membership of an existing group is given by its owner, to users who asked. *)
THEOREM OwnerAlwaysAdmits == Spec => OwnerAdmits
<1>1. ASSUME TypeOK, [Next]_vars, NEW g \in Groups, NEW u \in Users, findGroup(g),
             u \in members'[g] \ members[g]
      PROVE  u \in pending[g] /\ sessions[reply'.session] = owner[g]
  <2>0. members \in [Groups -> SUBSET Users]
    BY <1>1 DEF TypeOK
  <2>1. ~Quiet /\ ~restart
    BY <1>1 DEF Quiet, groupVars, restart
  <2>2. PICK s \in SessionIds : Effective(s)
    BY <1>1, <2>1, QuietOrEffective
  <2>3. ~Refuse(s)
    BY <2>1 DEF Refuse, Quiet
  <2>4. ASSUME NEW h \in Groups, createGroup(s, h) \/ joinGroup(s, h) \/ leaveGroup(s, h)
        PROVE  FALSE
    BY <1>1, <2>0, <2>3, <2>4 DEF createGroup, joinGroup, leaveGroup
  <2>5. ASSUME NEW h \in Groups, NEW n \in Users, removeMember(s, h, n) PROVE FALSE
    BY <1>1, <2>0, <2>3, <2>5 DEF removeMember
  <2>6. PICK h \in Groups, n \in Users : acceptRequest(s, h, n)
    BY <1>1, <2>2, <2>4, <2>5, GroupsFrame
  <2>7. /\ isOwner(s, h) /\ n \in pending[h] /\ reply'.session = s
        /\ members' = [members EXCEPT ![h] = @ \cup {n}]
    BY <2>3, <2>6 DEF acceptRequest, Answer
  <2>8. h = g /\ n = u
    BY <1>1, <2>0, <2>7
  <2> QED
    BY <2>7, <2>8 DEF isOwner, userOf
<1>2. TypeOK /\ [Next]_vars =>
        [\A g \in Groups, u \in Users :
            findGroup(g) /\ u \in members'[g] \ members[g]
               => u \in pending[g] /\ sessions[reply'.session] = owner[g]]_vars
  BY <1>1
<1> QED
  BY <1>2, TypeCorrect, PTL DEF Spec, OwnerAdmits

(* A membership ends only by a command on a session of the member or of the   *)
(* group's owner (or with the whole state, at a restart).                     *)
THEOREM MembersOnlyLeaveOrAreRemoved == Spec => OnlySelfOrOwnerRemoves
<1>1. ASSUME TypeOK, [Next]_vars, NEW g \in Groups, NEW u \in Users,
             u \in members[g] \ members'[g], owner'[g] # NoUser
      PROVE  sessions[reply'.session] \in {u, owner[g]}
  <2>0. members \in [Groups -> SUBSET Users]
    BY <1>1 DEF TypeOK
  <2>1. ~Quiet /\ ~restart
    BY <1>1 DEF Quiet, groupVars, restart
  <2>2. PICK s \in SessionIds : Effective(s)
    BY <1>1, <2>1, QuietOrEffective
  <2>3. ~Refuse(s)
    BY <2>1 DEF Refuse, Quiet
  <2>4. ASSUME NEW h \in Groups, createGroup(s, h) \/ joinGroup(s, h) PROVE FALSE
    BY <1>1, <2>0, <2>3, <2>4 DEF createGroup, joinGroup
  <2>5. ASSUME NEW h \in Groups, NEW n \in Users, acceptRequest(s, h, n) PROVE FALSE
    BY <1>1, <2>0, <2>3, <2>5 DEF acceptRequest
  <2>6. ASSUME NEW h \in Groups, leaveGroup(s, h)
        PROVE  sessions[reply'.session] = u
    BY <1>1, <2>0, <2>3, <2>6 DEF leaveGroup, Answer, userOf
  <2>7. ASSUME NEW h \in Groups, NEW n \in Users, removeMember(s, h, n)
        PROVE  sessions[reply'.session] = owner[g]
    <3>1. /\ isOwner(s, h) /\ reply'.session = s
          /\ members' = [members EXCEPT ![h] = @ \ {n}]
      BY <2>3, <2>7 DEF removeMember, Answer
    <3>2. h = g
      BY <1>1, <2>0, <3>1
    <3> QED
      BY <3>1, <3>2 DEF isOwner, userOf
  <2> QED
    BY <1>1, <2>2, <2>4, <2>5, <2>6, <2>7, GroupsFrame
<1>2. TypeOK /\ [Next]_vars =>
        [\A g \in Groups, u \in Users :
            u \in members[g] \ members'[g] /\ owner'[g] # NoUser
               => sessions[reply'.session] \in {u, owner[g]}]_vars
  BY <1>1
<1> QED
  BY <1>2, TypeCorrect, PTL DEF Spec, OnlySelfOrOwnerRemoves

-----------------------------------------------------------------------------
(* TrackerState implements GroupAccess. *)

(* A reply without tickets. *)
LEMMA NothingIssued ==
  ASSUME NEW status, NEW s, Answer(status, s) PROVE reply'.access = {}
BY DEF Answer

(* A command that touches neither members nor seeders and issues nothing is   *)
(* allowed.                                                                   *)
LEMMA OtherStep ==
  ASSUME NEW status, NEW s, Answer(status, s), UNCHANGED <<members, seeders>>
  PROVE  Access!AccessNext
BY NothingIssued DEF Access!AccessNext, Access!Other

(* So is every refusal. *)
LEMMA RefusedStep ==
  ASSUME NEW s, Refuse(s) PROVE Access!AccessNext
BY OtherStep DEF Refuse, groupVars

(* removeSharesOf() in one group is what Expel does to the offers; *)
LEMMA RemovedFromGroup ==
  ASSUME TypeOK, NEW u \in Users, NEW g \in Groups, removeSharesOf(u, {g})
  PROVE  seeders' = [seeders EXCEPT ![g] = [f \in Files |-> [@[f] EXCEPT ![u] = NoPeer]]]
<1>1. seeders' = [h \in Groups |-> [f \in Files |->
                    IF h \in {g} THEN [seeders[h][f] EXCEPT ![u] = NoPeer] ELSE seeders[h][f]]]
  BY DEF removeSharesOf
<1>2. seeders \in [Groups -> [Files -> [Users -> Peers \cup {NoPeer}]]]
  BY DEF TypeOK
<1>3. \A h \in Groups : h # g => seeders'[h] = seeders[h]
  BY <1>1, <1>2
<1>4. seeders'[g] = [f \in Files |-> [seeders[g][f] EXCEPT ![u] = NoPeer]]
  BY <1>1
<1> QED
  BY <1>1, <1>2, <1>3, <1>4

(* in every group it withdraws all of them. *)
LEMMA RemovedEverywhere ==
  ASSUME NEW u \in Users, removeSharesOf(u, Groups)
  PROVE  seeders' = [g \in Groups |-> [f \in Files |->
            IF <<g, f>> \in Groups \X Files THEN [seeders[g][f] EXCEPT ![u] = NoPeer]
            ELSE seeders[g][f]]]
BY DEF removeSharesOf

-----------------------------------------------------------------------------
(* One lemma for each kind of command. *)

(* A new group's owner and an accepted request enrol somebody. *)
LEMMA EnrolStep ==
  ASSUME TypeOK, NEW s \in SessionIds, NEW g \in Groups,
         createGroup(s, g) \/ \E u \in Users : acceptRequest(s, g, u)
  PROVE  Access!AccessNext
<1>1. CASE Refuse(s)
  BY <1>1, RefusedStep
<1>2. CASE ~Refuse(s)
  <2>1. \E u \in Users : /\ members' = [members EXCEPT ![g] = @ \cup {u}]
                         /\ Answer("OK", s)
                         /\ UNCHANGED seeders
    BY <1>2, UserOfType DEF createGroup, acceptRequest
  <2>2. \E u \in Users : Access!Enrol(g, u)
    BY <2>1, NothingIssued DEF Access!Enrol
  <2> QED
    BY <2>2 DEF Access!AccessNext
<1> QED
  BY <1>1, <1>2

(* Leaving and being removed expel somebody, and take the shares along. *)
LEMMA ExpelStep ==
  ASSUME TypeOK, NEW s \in SessionIds, NEW g \in Groups,
         leaveGroup(s, g) \/ \E u \in Users : removeMember(s, g, u)
  PROVE  Access!AccessNext
<1>1. CASE Refuse(s)
  BY <1>1, RefusedStep
<1>2. CASE ~Refuse(s)
  <2>1. PICK u \in Users : /\ u \in members[g]
                           /\ members' = [members EXCEPT ![g] = @ \ {u}]
                           /\ removeSharesOf(u, {g})
                           /\ Answer("OK", s)
    BY <1>2, UserOfType DEF leaveGroup, removeMember, isMember
  <2>2. Access!Expel(g, u)
    BY <2>1, NothingIssued, RemovedFromGroup DEF Access!Expel
  <2> QED
    BY <2>2 DEF Access!AccessNext
<1> QED
  BY <1>1, <1>2

(* An accepted upload is an offer by a member. *)
LEMMA OfferStep ==
  ASSUME TypeOK, NEW s \in SessionIds, NEW g \in Groups, NEW f \in Files,
         NEW m, NEW p \in Peers, uploadFile(s, g, f, m, p)
  PROVE  Access!AccessNext
<1>1. CASE Refuse(s)
  BY <1>1, RefusedStep
<1>2. CASE ~Refuse(s)
  <2>1. /\ userOf(s) \in members[g] /\ userOf(s) \in Users
        /\ seeders' = [seeders EXCEPT ![g][f][userOf(s)] = p]
        /\ members' = members
        /\ Answer("OK", s)
    BY <1>2, UserOfType DEF uploadFile, isMember
  <2>2. Access!Offer(g, f, userOf(s), p)
    BY <2>1, NothingIssued DEF Access!Offer
  <2> QED
    BY <2>1, <2>2 DEF Access!AccessNext
<1> QED
  BY <1>1, <1>2

(* stop_share withdraws one offer, *)
LEMMA WithdrawOneStep ==
  ASSUME TypeOK, NEW s \in SessionIds, NEW g \in Groups, NEW f \in Files, stopShare(s, g, f)
  PROVE  Access!AccessNext
<1>1. CASE Refuse(s)
  BY <1>1, RefusedStep
<1>2. CASE ~Refuse(s)
  <2> DEFINE u == userOf(s)
             left == [seeders[g][f] EXCEPT ![u] = NoPeer]
  <2>1. /\ u \in Users
        /\ seeders' = [seeders EXCEPT ![g][f] = left]
        /\ members' = members
        /\ Answer("OK", s)
    BY <1>2, UserOfType DEF stopShare
  <2>2. seeders \in [Groups -> [Files -> [Users -> Peers \cup {NoPeer}]]]
    BY DEF TypeOK
  <2> HIDE DEF u, left
  <2>3. /\ seeders' = [h \in Groups |-> seeders'[h]]
        /\ \A h \in Groups : seeders'[h] = [k \in Files |-> seeders'[h][k]]
        /\ \A h \in Groups, k \in Files :
              seeders'[h][k] = IF <<h, k>> \in {<<g, f>>} THEN left ELSE seeders[h][k]
    BY <2>1, <2>2
  <2>4. seeders' = [h \in Groups |-> [k \in Files |->
                      IF <<h, k>> \in {<<g, f>>} THEN [seeders[h][k] EXCEPT ![u] = NoPeer]
                      ELSE seeders[h][k]]]
    BY <2>3 DEF left
  <2>5. Access!Withdraw(u, {<<g, f>>})
    BY <2>1, <2>4, NothingIssued DEF Access!Withdraw
  <2> QED
    BY <2>1, <2>5 DEF Access!AccessNext
<1> QED
  BY <1>1, <1>2

(* logout all of them. *)
LEMMA WithdrawAllStep ==
  ASSUME TypeOK, NEW s \in SessionIds, logout(s)
  PROVE  Access!AccessNext
<1>1. CASE Refuse(s)
  BY <1>1, RefusedStep
<1>2. CASE ~Refuse(s)
  <2>1. /\ userOf(s) \in Users /\ removeSharesOf(userOf(s), Groups)
        /\ members' = members
        /\ Answer("OK", NoSession)
    BY <1>2, UserOfType DEF logout
  <2>2. Access!Withdraw(userOf(s), Groups \X Files)
    BY <2>1, NothingIssued, RemovedEverywhere DEF Access!Withdraw
  <2> QED
    BY <2>1, <2>2 DEF Access!AccessNext
<1> QED
  BY <1>1, <1>2

(* download_file issues a ticket for every offer to a member. *)
LEMMA IssueStep ==
  ASSUME TypeOK, NEW s \in SessionIds, NEW g \in Groups, NEW f \in Files,
         NEW now \in Times, NEW keyOk, downloadFile(s, g, f, now, keyOk)
  PROVE  Access!AccessNext
<1>1. CASE Refuse(s)
  BY <1>1, RefusedStep
<1>2. CASE ~Refuse(s)
  <2>1. userOf(s) \in Users
    BY <1>2, UserOfType DEF downloadFile
  <2>2. Access!Issue(g, f, userOf(s), now)
    BY <1>2 DEF downloadFile, isMember, groupVars, key, Access!Issue, Access!TicketKey
  <2> QED
    BY <2>1, <2>2 DEF Access!AccessNext
<1> QED
  BY <1>1, <1>2

(* Accounts, sessions, requests and listings. *)
LEMMA UnrelatedStep ==
  ASSUME NEW s \in SessionIds,
         \/ badCommand(s)
         \/ \E u, pw, ok : createUser(s, u, pw, ok) \/ login(s, u, pw, ok)
         \/ \E g : joinGroup(s, g)
         \/ \E mayRead : Query(s, mayRead)
  PROVE  Access!AccessNext
<1>1. CASE \E t : Refuse(t)
  BY <1>1, RefusedStep
<1>2. CASE ~ \E t : Refuse(t)
  <2>1. ASSUME NEW u, NEW pw, NEW ok, createUser(s, u, pw, ok)
        PROVE  Answer("OK", s) /\ UNCHANGED <<members, seeders>>
    BY <1>2, <2>1 DEF createUser, groupVars
  <2>2. ASSUME NEW u, NEW pw, NEW id, login(s, u, pw, id)
        PROVE  \E t : Answer("OK", t) /\ UNCHANGED <<members, seeders>>
    BY <1>2, <2>2 DEF login, groupVars
  <2>3. ASSUME NEW g, joinGroup(s, g)
        PROVE  Answer("OK", s) /\ UNCHANGED <<members, seeders>>
    BY <1>2, <2>3 DEF joinGroup
  <2>4. ASSUME NEW mayRead, Query(s, mayRead)
        PROVE  Answer("OK", s) /\ UNCHANGED <<members, seeders>>
    BY <1>2, <2>4 DEF Query, groupVars
  <2> QED
    BY <1>2, <2>1, <2>2, <2>3, <2>4, OtherStep DEF badCommand
<1> QED
  BY <1>1, <1>2

(* A restart empties everything. *)
LEMMA ResetStep ==
  ASSUME restart PROVE Access!AccessNext
BY DEF restart, NoSeeders, Access!AccessNext, Access!Reset

(* The tracker keeps the access promise: whatever it is asked, in any order,  *)
(* on any session, each command is a step that GroupAccess allows.            *)
THEOREM TrackerKeepsPromise == Spec => ImplementsAccess
<1>1. Init => Access!AccessInit
  BY DEF Init, Empty, NoSeeders, Access!AccessInit
<1>2. TypeOK /\ [Next]_vars => [Access!AccessNext]_(Access!accessVars)
  <2> SUFFICES ASSUME TypeOK, [Next]_vars PROVE [Access!AccessNext]_(Access!accessVars)
    OBVIOUS
  <2>1. CASE UNCHANGED vars
    BY <2>1 DEF vars, Access!accessVars
  <2>2. CASE restart
    BY <2>2, ResetStep
  <2>3. ASSUME NEW s \in SessionIds, apply(s) PROVE Access!AccessNext
    BY <2>3, UnrelatedStep, EnrolStep, ExpelStep, OfferStep, WithdrawOneStep, WithdrawAllStep,
       IssueStep
    DEF apply, listGroups, listRequests, listFiles
  <2> QED
    BY <2>1, <2>2, <2>3 DEF Next
<1> QED
  BY <1>1, <1>2, TypeCorrect, PTL DEF Spec, ImplementsAccess, Access!AccessSpec
=============================================================================
