------------------------- MODULE ClientSharesProofs -------------------------
(***************************************************************************)
(* One client between its tracker and its peers, for any users, sessions,  *)
(* groups, files and peers, and any number of downloads and late requests: *)
(* what the tracker lists from the client belongs to one of its live       *)
(* sessions, and is served.                                                *)
(***************************************************************************)
EXTENDS ClientShares, TLAPS

-----------------------------------------------------------------------------
(* The inductive invariant. *)

Seeds(u, g, f) == seeders[g][f][u] # NoPeer

(* What the client relies on in the tracker. *)
TrackerOK ==
    /\ sessions \in [SessionIds -> Users \cup {NoUser}]
    /\ metadata \in [Groups -> [Files -> Contents \cup {NoContent}]]
    /\ seeders \in [Groups -> [Files -> [Users -> Peers \cup {NoPeer}]]]
    /\ sessions[NoSession] = NoUser
    /\ \A g \in Groups, f \in Files : (\E u \in Users : Seeds(u, g, f)) => metadata[g][f] # NoContent

(* The client sends only session IDs the tracker gave it. *)
OwnSessions ==
    /\ session \in mine \cup {NoSession}
    /\ \A r \in late : r.session \in mine \cup {NoSession}

(* As long as every request is answered, one session is live at most. *)
OneSession ==
    ~gaveUp => late = {} /\ \A s \in mine : s # session => sessions[s] = NoUser

Ending == prompt.op \in {"stop_share", "leave_group", "logout"}

(* A share that is being ended is not listed any more, and nothing lists it    *)
(* again before it is removed from SharedFiles.                                *)
EndedShares ==
    Ending /\ ~overlap =>
        /\ ~Downloading(prompt)
        /\ ~gaveUp => \A g \in Groups, f \in Files : Ends(prompt, g, f) => ~Listed(g, f)

(* A download thread publishes before it registers. *)
Published == {"share", "fetch", "reshare", "readd"}

DownloadServed ==
    ~overlap => \A t \in Threads : download[t].at \in Published =>
        shared[download[t].group][download[t].file] # "none"

(* A listing is served, or an accepted upload is about to serve it. *)
ListingBacked ==
    ~gaveUp /\ ~overlap => \A g \in Groups, f \in Files :
        Listed(g, f) => \/ shared[g][f] # "none"
                        \/ prompt.op = "upload_file" /\ prompt.group = g /\ prompt.file = f

Tracked == TrackerOK /\ OwnSessions /\ ListedOnOwnSession /\ OneSession
Served == EndedShares /\ DownloadServed /\ ListingBacked
Inv == TypeOK /\ Tracked /\ Served

-----------------------------------------------------------------------------
(* What a command does to sessions and listings: nothing, *)
Calm(s) == reply'.session = s /\ UNCHANGED <<sessions, metadata, seeders>>

(* a login on a free ID, *)
SignsIn(s, u, id) ==
    /\ id # NoSession /\ sessions[id] = NoUser
    /\ s # NoSession => id = s
    /\ sessions' = [sessions EXCEPT ![id] = u]
    /\ reply'.session = id
    /\ UNCHANGED <<metadata, seeders>>

(* the end of u's shares of the files in D, *)
Drops(u, D) ==
    LET left == [g \in Groups |-> [f \in Files |->
                    IF <<g, f>> \in D THEN [seeders[g][f] EXCEPT ![u] = NoPeer]
                    ELSE seeders[g][f]]]
    IN  /\ seeders' = left
        /\ metadata' = [g \in Groups |-> [f \in Files |->
                IF <<g, f>> \in D /\ left[g][f] = [v \in Users |-> NoPeer] THEN NoContent
                ELSE metadata[g][f]]]

(* a logout with all of them, *)
SignsOut(s) ==
    /\ sessions[s] \in Users
    /\ Drops(sessions[s], Groups \X Files)
    /\ sessions' = [sessions EXCEPT ![s] = NoUser]
    /\ reply'.session = NoSession

(* or a new share. *)
Adds(s, g, f, m, p) ==
    /\ sessions[s] \in Users
    /\ metadata' = [metadata EXCEPT ![g][f] = m]
    /\ seeders' = [seeders EXCEPT ![g][f] = [seeders[g][f] EXCEPT ![sessions[s]] = p]]
    /\ reply'.session = s /\ reply'.status = "OK"
    /\ UNCHANGED sessions

Effect(s) ==
    \/ Calm(s)
    \/ \E u \in Users, id \in SessionIds : SignsIn(s, u, id)
    \/ \E u \in Users, D \in SUBSET (Groups \X Files) :
          Drops(u, D) /\ reply'.session = s /\ UNCHANGED sessions
    \/ SignsOut(s)
    \/ \E g \in Groups, f \in Files, m \in Contents, p \in Peers : Adds(s, g, f, m, p)

(* An error has no effect. *)
LEMMA RefuseCalm ==
    ASSUME NEW s, Tracker!Refuse(s)
    PROVE  Calm(s) /\ reply'.status = "ERR"
  BY DEF Tracker!Refuse, Tracker!Answer, Tracker!groupVars, Calm

(* removeSharesOf() in the groups of G drops the files of those groups. *)
LEMMA RemoveDrops ==
    ASSUME NEW u, NEW G, Tracker!removeSharesOf(u, G)
    PROVE  Drops(u, (Groups \cap G) \X Files)
<1>1. \A g \in Groups, f \in Files : <<g, f>> \in (Groups \cap G) \X Files <=> g \in G OBVIOUS
<1> QED BY <1>1 DEF Tracker!removeSharesOf, Drops, Tracker!NoSeeders

(* login() uses a free ID. *)
LEMMA LoginEffect ==
    ASSUME NEW s \in SessionIds, NEW u \in Users, NEW pw, NEW id \in SessionIds,
           Tracker!login(s, u, pw, id)
    PROVE  Calm(s) \/ \E i \in SessionIds : SignsIn(s, u, i)
<1>1. CASE Tracker!Refuse(s) BY <1>1, RefuseCalm
<1>2. CASE s = NoSession /\ Tracker!Refuse(NoSession) BY <1>2, RefuseCalm
<1>3. CASE ~Tracker!Refuse(s) /\ ~(s = NoSession /\ Tracker!Refuse(NoSession))
  <2> DEFINE i == IF s = NoSession THEN id ELSE s
  <2>1. /\ sessions[s] = NoUser
        /\ ~(s = NoSession /\ (i = NoSession \/ sessions[i] # NoUser))
        /\ sessions' = [sessions EXCEPT ![i] = u]
        /\ Tracker!Answer("OK", i) /\ UNCHANGED <<metadata, seeders>>
    BY <1>3 DEF Tracker!login, Tracker!loggedIn, Tracker!userOf, Tracker!groupVars
  <2>2. reply'.session = i BY <2>1 DEF Tracker!Answer
  <2>3. i \in SessionIds /\ i # NoSession /\ sessions[i] = NoUser /\ (s # NoSession => i = s)
    BY <2>1
  <2> QED BY <2>1, <2>2, <2>3 DEF SignsIn
<1> QED BY <1>1, <1>2, <1>3

(* logout() ends the caller's session and all its user's shares. *)
LEMMA LogoutEffect ==
    ASSUME TrackerOK, NEW s \in SessionIds, Tracker!logout(s)
    PROVE  \/ Calm(s) /\ reply'.status = "ERR"
           \/ SignsOut(s)
<1>1. CASE Tracker!Refuse(s) BY <1>1, RefuseCalm
<1>2. CASE ~Tracker!Refuse(s)
  <2>1. /\ sessions[s] # NoUser /\ Tracker!removeSharesOf(sessions[s], Groups)
        /\ sessions' = [sessions EXCEPT ![s] = NoUser] /\ Tracker!Answer("OK", NoSession)
    BY <1>2 DEF Tracker!logout, Tracker!loggedIn, Tracker!userOf
  <2>2. reply'.session = NoSession BY <2>1 DEF Tracker!Answer
  <2>3. sessions[s] \in Users BY <2>1 DEF TrackerOK
  <2>4. Groups \cap Groups = Groups OBVIOUS
  <2>5. Drops(sessions[s], Groups \X Files) BY <2>1, <2>4, RemoveDrops
  <2> QED BY <2>1, <2>2, <2>3, <2>5 DEF SignsOut
<1> QED BY <1>1, <1>2

(* leave_group drops the caller's shares in the group. *)
LEMMA LeaveEffect ==
    ASSUME TrackerOK, NEW s \in SessionIds, NEW g \in Groups, Tracker!leaveGroup(s, g)
    PROVE  \/ Calm(s) /\ reply'.status = "ERR"
           \/ /\ sessions[s] \in Users /\ Drops(sessions[s], {g} \X Files)
              /\ reply'.session = s /\ UNCHANGED sessions
<1>1. CASE Tracker!Refuse(s) BY <1>1, RefuseCalm
<1>2. CASE ~Tracker!Refuse(s)
  <2>1. /\ sessions[s] # NoUser /\ Tracker!removeSharesOf(sessions[s], {g})
        /\ UNCHANGED sessions /\ Tracker!Answer("OK", s)
    BY <1>2 DEF Tracker!leaveGroup, Tracker!loggedIn, Tracker!userOf
  <2>2. reply'.session = s BY <2>1 DEF Tracker!Answer
  <2>3. sessions[s] \in Users BY <2>1 DEF TrackerOK
  <2>4. Groups \cap {g} = {g} OBVIOUS
  <2>5. Drops(sessions[s], {g} \X Files) BY <2>1, <2>4, RemoveDrops
  <2> QED BY <2>1, <2>2, <2>3, <2>5
<1> QED BY <1>1, <1>2

(* stop_share drops the caller's share of the file. *)
LEMMA StopEffect ==
    ASSUME TrackerOK, NEW s \in SessionIds, NEW g \in Groups, NEW f \in Files,
           Tracker!stopShare(s, g, f)
    PROVE  \/ Calm(s) /\ reply'.status = "ERR"
           \/ /\ sessions[s] \in Users /\ Drops(sessions[s], {<<g, f>>})
              /\ reply'.session = s /\ UNCHANGED sessions
<1>1. CASE Tracker!Refuse(s) BY <1>1, RefuseCalm
<1>2. CASE ~Tracker!Refuse(s)
  <2> DEFINE left == [seeders[g][f] EXCEPT ![sessions[s]] = NoPeer]
  <2>1. /\ sessions[s] # NoUser
        /\ seeders' = [seeders EXCEPT ![g][f] = left]
        /\ metadata' = [metadata EXCEPT ![g][f] =
                           IF left = [v \in Users |-> NoPeer] THEN NoContent ELSE metadata[g][f]]
        /\ UNCHANGED sessions /\ Tracker!Answer("OK", s)
    BY <1>2 DEF Tracker!stopShare, Tracker!loggedIn, Tracker!userOf, Tracker!NoSeeders
  <2>2. reply'.session = s BY <2>1 DEF Tracker!Answer
  <2>3. sessions[s] \in Users BY <2>1 DEF TrackerOK
  <2> DEFINE rest == [h \in Groups |-> [e \in Files |->
                        IF <<h, e>> \in {<<g, f>>} THEN [seeders[h][e] EXCEPT ![sessions[s]] = NoPeer]
                        ELSE seeders[h][e]]]
  <2>4. seeders' = rest BY <2>1 DEF TrackerOK
  <2>5. metadata' = [h \in Groups |-> [e \in Files |->
            IF <<h, e>> \in {<<g, f>>} /\ rest[h][e] = [v \in Users |-> NoPeer] THEN NoContent
            ELSE metadata[h][e]]]
    BY <2>1 DEF TrackerOK
  <2> QED BY <2>1, <2>2, <2>3, <2>4, <2>5 DEF Drops
<1> QED BY <1>1, <1>2

(* remove_member drops that user's shares in the group. *)
LEMMA RemoveMemberEffect ==
    ASSUME TrackerOK, NEW s \in SessionIds, NEW g \in Groups, NEW u \in Users,
           Tracker!removeMember(s, g, u)
    PROVE  Calm(s) \/ (Drops(u, {g} \X Files) /\ reply'.session = s /\ UNCHANGED sessions)
<1>1. CASE Tracker!Refuse(s) BY <1>1, RefuseCalm
<1>2. CASE ~Tracker!Refuse(s)
  <2>1. /\ Tracker!removeSharesOf(u, {g}) /\ UNCHANGED sessions /\ Tracker!Answer("OK", s)
    BY <1>2 DEF Tracker!removeMember
  <2>2. reply'.session = s BY <2>1 DEF Tracker!Answer
  <2>3. Groups \cap {g} = {g} OBVIOUS
  <2>4. Drops(u, {g} \X Files) BY <2>1, <2>3, RemoveDrops
  <2> QED BY <2>1, <2>2, <2>4
<1> QED BY <1>1, <1>2

(* upload_file lists the caller. *)
LEMMA UploadEffect ==
    ASSUME TrackerOK, NEW s \in SessionIds, NEW g \in Groups, NEW f \in Files,
           NEW m \in Contents \cup {NoContent}, NEW p, Tracker!uploadFile(s, g, f, m, p)
    PROVE  \/ Calm(s) /\ reply'.status = "ERR"
           \/ m \in Contents /\ Adds(s, g, f, m, p)
<1>1. CASE Tracker!Refuse(s) BY <1>1, RefuseCalm
<1>2. CASE ~Tracker!Refuse(s)
  <2>1. /\ sessions[s] # NoUser /\ m # NoContent
        /\ metadata' = [metadata EXCEPT ![g][f] = m]
        /\ seeders' = [seeders EXCEPT ![g][f][sessions[s]] = p]
        /\ UNCHANGED sessions /\ Tracker!Answer("OK", s)
    BY <1>2 DEF Tracker!uploadFile, Tracker!loggedIn, Tracker!userOf
  <2>2. reply'.session = s /\ reply'.status = "OK" BY <2>1 DEF Tracker!Answer
  <2>3. sessions[s] \in Users BY <2>1 DEF TrackerOK
  <2>4. seeders' = [seeders EXCEPT ![g][f] = [seeders[g][f] EXCEPT ![sessions[s]] = p]]
    BY <2>1, <2>3 DEF TrackerOK
  <2> QED BY <2>1, <2>2, <2>3, <2>4 DEF Adds
<1> QED BY <1>1, <1>2

(* download_file changes nothing, and answers for a listed file only. *)
LEMMA LocateEffect ==
    ASSUME TrackerOK, NEW s \in SessionIds, NEW g \in Groups, NEW f \in Files, NEW now, NEW ok,
           Tracker!downloadFile(s, g, f, now, ok)
    PROVE  Calm(s) /\ (reply'.status = "ERR" \/ metadata[g][f] \in Contents)
<1>1. CASE Tracker!Refuse(s) BY <1>1, RefuseCalm
<1>2. CASE ~Tracker!Refuse(s)
  <2>1. /\ {u \in Users : seeders[g][f][u] # NoPeer} # {}
        /\ reply'.session = s /\ UNCHANGED <<sessions, metadata, seeders>>
    BY <1>2 DEF Tracker!downloadFile, Tracker!groupVars
  <2>2. metadata[g][f] \in Contents BY <2>1 DEF TrackerOK, Seeds
  <2> QED BY <2>1, <2>2 DEF Calm
<1> QED BY <1>1, <1>2

(* The other commands change neither sessions nor listings. *)
LEMMA CalmCommands ==
    ASSUME NEW s \in SessionIds, NEW g, NEW u, NEW pw, NEW ok, NEW mayRead
    PROVE  /\ Tracker!badCommand(s) => Calm(s)
           /\ Tracker!createUser(s, u, pw, ok) => Calm(s)
           /\ Tracker!createGroup(s, g) => Calm(s)
           /\ Tracker!joinGroup(s, g) => Calm(s)
           /\ Tracker!acceptRequest(s, g, u) => Calm(s)
           /\ Tracker!Query(s, mayRead) => Calm(s)
<1> USE RefuseCalm DEF Tracker!Answer, Tracker!groupVars
<1>1. Tracker!badCommand(s) => Calm(s) BY DEF Tracker!badCommand
<1>2. Tracker!createUser(s, u, pw, ok) => Calm(s) BY DEF Tracker!createUser, Calm
<1>3. Tracker!createGroup(s, g) => Calm(s) BY DEF Tracker!createGroup, Calm
<1>4. Tracker!joinGroup(s, g) => Calm(s) BY DEF Tracker!joinGroup, Calm
<1>5. Tracker!acceptRequest(s, g, u) => Calm(s) BY DEF Tracker!acceptRequest, Calm
<1>6. Tracker!Query(s, mayRead) => Calm(s) BY DEF Tracker!Query, Calm
<1> QED BY <1>1, <1>2, <1>3, <1>4, <1>5, <1>6

(* Every command is one of the effects. *)
LEMMA ApplyEffect ==
    ASSUME TrackerOK, NEW s \in SessionIds, Tracker!apply(s)
    PROVE  Effect(s)
<1>1. CASE Tracker!badCommand(s) BY <1>1, CalmCommands DEF Effect
<1>2. ASSUME NEW u \in Users, NEW pw \in Passwords, NEW ok \in BOOLEAN,
             Tracker!createUser(s, u, pw, ok)
      PROVE  Effect(s)
  BY <1>2, CalmCommands DEF Effect
<1>3. ASSUME NEW u \in Users, NEW pw \in Passwords \cup {NoPassword}, NEW id \in SessionIds,
             Tracker!login(s, u, pw, id)
      PROVE  Effect(s)
  BY <1>3, LoginEffect DEF Effect
<1>4. CASE Tracker!logout(s) BY <1>4, LogoutEffect DEF Effect
<1>5. CASE Tracker!listGroups(s) BY <1>5, CalmCommands DEF Effect, Tracker!listGroups
<1>13. ASSUME NEW g \in Groups, Tracker!listRequests(s, g) \/ Tracker!listFiles(s, g)
       PROVE  Effect(s)
  BY <1>13, CalmCommands DEF Effect, Tracker!listRequests, Tracker!listFiles
<1>6. ASSUME NEW g \in Groups, Tracker!createGroup(s, g) \/ Tracker!joinGroup(s, g)
      PROVE  Effect(s)
  BY <1>6, CalmCommands DEF Effect
<1>7. ASSUME NEW g \in Groups, Tracker!leaveGroup(s, g) PROVE Effect(s)
  <2>1. {g} \X Files \in SUBSET (Groups \X Files) OBVIOUS
  <2> QED BY <1>7, <2>1, LeaveEffect DEF Effect
<1>8. ASSUME NEW g \in Groups, NEW u \in Users, Tracker!acceptRequest(s, g, u) PROVE Effect(s)
  BY <1>8, CalmCommands DEF Effect
<1>9. ASSUME NEW g \in Groups, NEW u \in Users, Tracker!removeMember(s, g, u) PROVE Effect(s)
  <2>1. {g} \X Files \in SUBSET (Groups \X Files) OBVIOUS
  <2> QED BY <1>9, <2>1, RemoveMemberEffect DEF Effect
<1>10. ASSUME NEW g \in Groups, NEW f \in Files, NEW m \in Contents \cup {NoContent},
              NEW p \in Peers, Tracker!uploadFile(s, g, f, m, p)
       PROVE  Effect(s)
  BY <1>10, UploadEffect DEF Effect
<1>11. ASSUME NEW g \in Groups, NEW f \in Files, NEW now \in Times, NEW ok \in BOOLEAN,
              Tracker!downloadFile(s, g, f, now, ok)
       PROVE  Effect(s)
  BY <1>11, LocateEffect DEF Effect
<1>12. ASSUME NEW g \in Groups, NEW f \in Files, Tracker!stopShare(s, g, f) PROVE Effect(s)
  <2>1. {<<g, f>>} \in SUBSET (Groups \X Files) OBVIOUS
  <2> QED BY <1>12, <2>1, StopEffect DEF Effect
<1>14. ASSUME NEW g \in Groups,
              \/ Tracker!createGroup(s, g)
              \/ Tracker!joinGroup(s, g)
              \/ Tracker!leaveGroup(s, g)
              \/ Tracker!listRequests(s, g)
              \/ Tracker!listFiles(s, g)
              \/ \E u \in Users : Tracker!acceptRequest(s, g, u)
              \/ \E u \in Users : Tracker!removeMember(s, g, u)
              \/ \E f \in Files, m \in Contents \cup {NoContent}, p \in Peers :
                    Tracker!uploadFile(s, g, f, m, p)
              \/ \E f \in Files, now \in Times, ok \in BOOLEAN :
                    Tracker!downloadFile(s, g, f, now, ok)
              \/ \E f \in Files : Tracker!stopShare(s, g, f)
       PROVE  Effect(s)
  BY <1>6, <1>7, <1>8, <1>9, <1>10, <1>11, <1>12, <1>13, <1>14, Zenon
<1> QED BY <1>1, <1>2, <1>3, <1>4, <1>5, <1>14, Zenon
        DEF Tracker!apply, Tracker!SessionIds, SessionIds

(* What is left after shares were dropped: the others, *)
LEMMA DropsSeeders ==
    ASSUME TrackerOK, NEW u \in Users, NEW D, Drops(u, D)
    PROVE  /\ seeders' \in [Groups -> [Files -> [Users -> Peers \cup {NoPeer}]]]
           /\ \A g \in Groups, f \in Files, v \in Users :
                 seeders'[g][f][v] \in {NoPeer, seeders[g][f][v]}
           /\ \A g \in Groups, f \in Files : <<g, f>> \in D => seeders'[g][f][u] = NoPeer
<1>1. \A g \in Groups, f \in Files : seeders[g][f] \in [Users -> Peers \cup {NoPeer}]
  BY DEF TrackerOK
<1>2. \A g \in Groups, f \in Files :
        [seeders[g][f] EXCEPT ![u] = NoPeer] \in [Users -> Peers \cup {NoPeer}]
  BY <1>1
<1>3. seeders' = [g \in Groups |-> [f \in Files |->
                       IF <<g, f>> \in D THEN [seeders[g][f] EXCEPT ![u] = NoPeer]
                       ELSE seeders[g][f]]]
  BY DEF Drops
<1>4. seeders' \in [Groups -> [Files -> [Users -> Peers \cup {NoPeer}]]] BY <1>1, <1>2, <1>3
<1>5. ASSUME NEW g \in Groups, NEW f \in Files
      PROVE  /\ \A v \in Users : seeders'[g][f][v] \in {NoPeer, seeders[g][f][v]}
             /\ <<g, f>> \in D => seeders'[g][f][u] = NoPeer
  <2>1. seeders'[g][f] = IF <<g, f>> \in D THEN [seeders[g][f] EXCEPT ![u] = NoPeer]
                         ELSE seeders[g][f]
    BY <1>3
  <2> QED BY <1>1, <2>1
<1> QED BY <1>4, <1>5

(* and a file is listed while it has a seeder. *)
LEMMA DropsListed ==
    ASSUME TrackerOK, NEW u \in Users, NEW D, Drops(u, D)
    PROVE  /\ metadata' \in [Groups -> [Files -> Contents \cup {NoContent}]]
           /\ \A g \in Groups, f \in Files :
                 (\E v \in Users : seeders'[g][f][v] # NoPeer) => metadata'[g][f] # NoContent
<1>1. \A g \in Groups, f \in Files : metadata[g][f] \in Contents \cup {NoContent}
  BY DEF TrackerOK
<1>2. metadata' = [g \in Groups |-> [f \in Files |->
                IF <<g, f>> \in D /\ seeders'[g][f] = [v \in Users |-> NoPeer] THEN NoContent
                ELSE metadata[g][f]]]
  BY DEF Drops
<1>3. metadata' \in [Groups -> [Files -> Contents \cup {NoContent}]] BY <1>1, <1>2
<1>4. ASSUME NEW g \in Groups, NEW f \in Files, NEW v \in Users, seeders'[g][f][v] # NoPeer
      PROVE  metadata'[g][f] # NoContent
  <2>1. seeders'[g][f] # [w \in Users |-> NoPeer] BY <1>4
  <2>2. metadata'[g][f] = metadata[g][f] BY <1>2, <2>1
  <2>3. seeders[g][f][v] # NoPeer BY <1>4, DropsSeeders
  <2> QED BY <2>2, <2>3 DEF TrackerOK, Seeds
<1> QED BY <1>3, <1>4

(* How an effect of a command on session s changes sessions and listings:    *)
(* a session that ends takes its user's shares along, a new share is the     *)
(* caller's, a new session is the one in the reply.                          *)
Orderly(s) ==
    /\ reply'.session \in SessionIds
    /\ \A x \in SessionIds : sessions[x] # NoUser =>
         \/ sessions'[x] = sessions[x]
         \/ \A g \in Groups, f \in Files : seeders'[g][f][sessions[x]] = NoPeer
    /\ \A g \in Groups, f \in Files, v \in Users :
         seeders'[g][f][v] # NoPeer /\ seeders'[g][f][v] # seeders[g][f][v] =>
            sessions[s] = v /\ sessions' = sessions
    /\ \A x \in SessionIds : sessions[x] = NoUser /\ x # reply'.session => sessions'[x] = NoUser
    /\ s # NoSession /\ s # reply'.session => sessions'[s] = NoUser
    /\ \A x \in SessionIds : x # s /\ sessions[x] # NoUser => sessions'[x] = sessions[x]

(* Every effect is orderly and keeps the tracker's own invariants. *)
LEMMA EffectOrderly ==
    ASSUME TrackerOK, NEW s \in SessionIds, Effect(s)
    PROVE  TrackerOK' /\ Orderly(s)
<1>1. CASE Calm(s) BY <1>1 DEF Calm, TrackerOK, Orderly, Seeds
<1>2. ASSUME NEW u \in Users, NEW id \in SessionIds, SignsIn(s, u, id)
      PROVE  TrackerOK' /\ Orderly(s)
  <2>1. /\ id # NoSession /\ sessions[id] = NoUser /\ (s # NoSession => id = s)
        /\ sessions' = [sessions EXCEPT ![id] = u] /\ reply'.session = id
        /\ UNCHANGED <<metadata, seeders>>
    BY <1>2 DEF SignsIn
  <2>2. sessions' \in [SessionIds -> Users \cup {NoUser}] BY <2>1 DEF TrackerOK
  <2>3. NoSession \in SessionIds BY DEF SessionIds
  <2>4. TrackerOK' BY <2>1, <2>2, <2>3 DEF TrackerOK, Seeds
  <2> QED BY <2>1, <2>4 DEF TrackerOK, Orderly
<1>3. ASSUME NEW u \in Users, NEW D \in SUBSET (Groups \X Files), Drops(u, D),
             reply'.session = s, UNCHANGED sessions
      PROVE  TrackerOK' /\ Orderly(s)
  <2>1. TrackerOK' BY <1>3, DropsSeeders, DropsListed DEF TrackerOK, Seeds
  <2>2. \A g \in Groups, f \in Files, v \in Users :
          seeders'[g][f][v] \in {NoPeer, seeders[g][f][v]}
    BY <1>3, DropsSeeders
  <2> QED BY <1>3, <2>1, <2>2 DEF Orderly
<1>4. CASE SignsOut(s)
  <2> DEFINE u == sessions[s]
  <2>1. /\ u \in Users /\ Drops(u, Groups \X Files)
        /\ sessions' = [sessions EXCEPT ![s] = NoUser] /\ reply'.session = NoSession
    BY <1>4 DEF SignsOut
  <2>3. sessions' \in [SessionIds -> Users \cup {NoUser}] BY <2>1 DEF TrackerOK
  <2>4. NoSession \in SessionIds BY DEF SessionIds
  <2>5. sessions'[NoSession] = NoUser /\ sessions'[s] = NoUser BY <2>1, <2>4 DEF TrackerOK
  <2>6. TrackerOK' BY <2>1, <2>3, <2>5, DropsSeeders, DropsListed DEF TrackerOK, Seeds
  <2>7. \A g \in Groups, f \in Files, v \in Users :
          seeders'[g][f][v] \in {NoPeer, seeders[g][f][v]}
    BY <2>1, DropsSeeders
  <2>8. \A x \in SessionIds : x # s => sessions'[x] = sessions[x] BY <2>1 DEF TrackerOK
  <2>9. \A g \in Groups, f \in Files : seeders'[g][f][sessions[s]] = NoPeer
    <3> HIDE DEF u
    <3>1. \A g \in Groups, f \in Files : <<g, f>> \in Groups \X Files => seeders'[g][f][u] = NoPeer
      BY <2>1, DropsSeeders
    <3>2. \A g \in Groups, f \in Files : seeders'[g][f][u] = NoPeer BY <3>1
    <3> QED BY <3>2 DEF u
  <2> QED BY <2>1, <2>4, <2>5, <2>6, <2>7, <2>8, <2>9 DEF Orderly
<1>5. ASSUME NEW g \in Groups, NEW f \in Files, NEW m \in Contents, NEW p \in Peers,
             Adds(s, g, f, m, p)
      PROVE  TrackerOK' /\ Orderly(s)
  <2> DEFINE row == [seeders[g][f] EXCEPT ![sessions[s]] = p]
  <2>1. /\ sessions[s] \in Users /\ reply'.session = s /\ sessions' = sessions
        /\ metadata' = [metadata EXCEPT ![g][f] = m]
        /\ seeders' = [seeders EXCEPT ![g][f] = row]
    BY <1>5 DEF Adds
  <2>2. /\ row \in [Users -> Peers \cup {NoPeer}]
        /\ \A v \in Users : v # sessions[s] => row[v] = seeders[g][f][v]
    BY <2>1 DEF TrackerOK
  <2> HIDE DEF row
  <2>3. /\ metadata' \in [Groups -> [Files -> Contents \cup {NoContent}]]
        /\ seeders' \in [Groups -> [Files -> [Users -> Peers \cup {NoPeer}]]]
    BY <2>1, <2>2 DEF TrackerOK
  <2>4. \A h \in Groups, e \in Files :
          /\ seeders'[h][e] = IF h = g /\ e = f THEN row ELSE seeders[h][e]
          /\ metadata'[h][e] = IF h = g /\ e = f THEN m ELSE metadata[h][e]
    BY <2>1 DEF TrackerOK
  <2>5. m # NoContent BY ClientAssumption
  <2>6. TrackerOK' BY <2>1, <2>3, <2>4, <2>5 DEF TrackerOK, Seeds
  <2>7. \A h \in Groups, e \in Files, v \in Users :
          v # sessions[s] => seeders'[h][e][v] = seeders[h][e][v]
    BY <2>2, <2>4
  <2> QED BY <2>1, <2>6, <2>7 DEF Orderly
<1> QED BY <1>1, <1>2, <1>3, <1>4, <1>5 DEF Effect

-----------------------------------------------------------------------------
(* This client's commands. *)

(* The arguments of a command are of their sets. *)
LEMMA CommandFields ==
    ASSUME NEW k \in Commands
    PROVE  /\ k.op \in {"create_user", "login", "accept_request", "remove_member"} => k.user \in Users
           /\ k.op \in {"create_group", "join_group", "leave_group", "accept_request",
                        "remove_member", "stop_share", "upload_file", "download_file"}
                => k.group \in Groups
           /\ k.op \in {"stop_share", "upload_file", "download_file"} => k.file \in Files
           /\ k.op = "upload_file" => k.content \in Contents
<1>1. CASE k \in Forwarded BY <1>1 DEF Forwarded
<1>2. CASE k \in Shares BY <1>2 DEF Shares
<1>3. CASE k \in Locates BY <1>3 DEF Locates
<1> QED BY <1>1, <1>2, <1>3 DEF Commands

(* Only an accepted upload of the file lists this client for it. *)
NewlyListed(k) ==
    \A g \in Groups, f \in Files, v \in Users :
        seeders'[g][f][v] = self =>
            \/ seeders[g][f][v] = self
            \/ k.op = "upload_file" /\ k.group = g /\ k.file = f /\ Accepted

(* An accepted stop_share, leave_group or logout drops the caller's shares. *)
EndsShares(s, k) ==
    Accepted /\ k.op \in {"stop_share", "leave_group", "logout"} =>
        /\ sessions[s] \in Users
        /\ \A g \in Groups, f \in Files : Ends(k, g, f) => seeders'[g][f][sessions[s]] = NoPeer

(* The parts of a command that matter to this client. *)
LEMMA HandleFacts ==
    ASSUME TrackerOK, NEW s \in SessionIds, NEW k \in Commands, handle(s, k)
    PROVE  /\ Effect(s) /\ NewlyListed(k) /\ EndsShares(s, k)
           /\ Accepted /\ k.op = "download_file" => metadata[k.group][k.file] \in Contents
<1> DEFINE Goal == /\ Effect(s) /\ NewlyListed(k) /\ EndsShares(s, k)
                   /\ Accepted /\ k.op = "download_file" => metadata[k.group][k.file] \in Contents
<1>0. NoPeer # self BY ClientAssumption
<1>1. ASSUME Calm(s), k.op \notin {"stop_share", "leave_group", "logout", "download_file"}
      PROVE  Goal
  BY <1>1 DEF Calm, Effect, NewlyListed, EndsShares
<1>2. ASSUME Calm(s), reply'.status = "ERR" PROVE Goal
  BY <1>2 DEF Calm, Effect, NewlyListed, EndsShares, Accepted
<1>3. ASSUME NEW u \in Users, NEW D, Drops(u, D) PROVE NewlyListed(k)
  <2>1. \A g \in Groups, f \in Files, v \in Users :
          seeders'[g][f][v] \in {NoPeer, seeders[g][f][v]}
    BY <1>3, DropsSeeders
  <2> QED BY <1>0, <2>1 DEF NewlyListed
<1>4. CASE k.op = "create_user" /\ \E pw \in Passwords, ok \in BOOLEAN :
              Tracker!createUser(s, k.user, pw, ok)
  <2>1. Calm(s) BY <1>4, CalmCommands
  <2> QED BY <1>1, <1>4, <2>1
<1>5. CASE k.op = "login" /\ \E pw \in Passwords \cup {NoPassword}, id \in SessionIds :
              Tracker!login(s, k.user, pw, id)
  <2>1. k.user \in Users BY <1>5, CommandFields
  <2>2. Calm(s) \/ \E i \in SessionIds : SignsIn(s, k.user, i) BY <1>5, <2>1, LoginEffect
  <2>3. ASSUME NEW i \in SessionIds, SignsIn(s, k.user, i) PROVE Goal
    <3>1. Effect(s) BY <2>1, <2>3 DEF Effect
    <3>2. NewlyListed(k) BY <2>3 DEF SignsIn, NewlyListed
    <3> QED BY <1>5, <3>1, <3>2 DEF EndsShares
  <2> QED BY <1>1, <1>5, <2>2, <2>3
<1>6. CASE k.op = "logout" /\ Tracker!logout(s)
  <2>1. (Calm(s) /\ reply'.status = "ERR") \/ SignsOut(s) BY <1>6, LogoutEffect
  <2>2. ASSUME SignsOut(s) PROVE Goal
    <3> DEFINE u == sessions[s]
    <3>1. u \in Users /\ Drops(u, Groups \X Files) BY <2>2 DEF SignsOut
    <3> HIDE DEF u
    <3>2. \A g \in Groups, f \in Files : <<g, f>> \in Groups \X Files => seeders'[g][f][u] = NoPeer
      BY <3>1, DropsSeeders
    <3>3. \A g \in Groups, f \in Files : seeders'[g][f][u] = NoPeer BY <3>2
    <3>4. EndsShares(s, k) BY <3>1, <3>3 DEF EndsShares, u
    <3> QED BY <1>3, <1>6, <2>2, <3>1, <3>4 DEF Effect
  <2> QED BY <1>2, <2>1, <2>2
<1>7. CASE k.op = "list_groups" /\ Tracker!listGroups(s)
  <2>1. Calm(s) BY <1>7, CalmCommands DEF Tracker!listGroups
  <2> QED BY <1>1, <1>7, <2>1
<1>8. CASE k.op = "create_group" /\ Tracker!createGroup(s, k.group)
  <2>1. Calm(s) BY <1>8, CalmCommands
  <2> QED BY <1>1, <1>8, <2>1
<1>9. CASE k.op = "join_group" /\ Tracker!joinGroup(s, k.group)
  <2>1. Calm(s) BY <1>9, CalmCommands
  <2> QED BY <1>1, <1>9, <2>1
<1>10. CASE k.op = "leave_group" /\ Tracker!leaveGroup(s, k.group)
  <2> DEFINE u == sessions[s]
             D == {k.group} \X Files
  <2>1. k.group \in Groups BY <1>10, CommandFields
  <2>2. \/ Calm(s) /\ reply'.status = "ERR"
        \/ u \in Users /\ Drops(u, D) /\ reply'.session = s /\ UNCHANGED sessions
    BY <1>10, <2>1, LeaveEffect
  <2>3. ASSUME u \in Users, Drops(u, D), reply'.session = s, UNCHANGED sessions PROVE Goal
    <3>1. D \in SUBSET (Groups \X Files) BY <2>1
    <3>2. \A g \in Groups, f \in Files : Ends(k, g, f) => <<g, f>> \in D BY <1>10 DEF Ends
    <3> HIDE DEF u, D
    <3>3. \A g \in Groups, f \in Files : <<g, f>> \in D => seeders'[g][f][u] = NoPeer
      BY <2>3, DropsSeeders
    <3>4. EndsShares(s, k) BY <2>3, <3>2, <3>3 DEF EndsShares, u
    <3>5. Effect(s) BY <2>3, <3>1 DEF Effect
    <3> QED BY <1>3, <1>10, <2>3, <3>4, <3>5
  <2> QED BY <1>2, <2>2, <2>3
<1>11. CASE k.op = "accept_request" /\ Tracker!acceptRequest(s, k.group, k.user)
  <2>1. Calm(s) BY <1>11, CalmCommands
  <2> QED BY <1>1, <1>11, <2>1
<1>12. CASE k.op = "remove_member" /\ Tracker!removeMember(s, k.group, k.user)
  <2> DEFINE D == {k.group} \X Files
  <2>1. k.group \in Groups /\ k.user \in Users BY <1>12, CommandFields
  <2>2. Calm(s) \/ (Drops(k.user, D) /\ reply'.session = s /\ UNCHANGED sessions)
    BY <1>12, <2>1, RemoveMemberEffect
  <2>3. ASSUME Drops(k.user, D), reply'.session = s, UNCHANGED sessions PROVE Goal
    <3>1. D \in SUBSET (Groups \X Files) BY <2>1
    <3> HIDE DEF D
    <3>2. Effect(s) BY <2>1, <2>3, <3>1 DEF Effect
    <3> QED BY <1>3, <1>12, <2>1, <2>3, <3>2 DEF EndsShares
  <2> QED BY <1>1, <1>12, <2>2, <2>3
<1>13. CASE k.op = "stop_share" /\ Tracker!stopShare(s, k.group, k.file)
  <2> DEFINE u == sessions[s]
             D == {<<k.group, k.file>>}
  <2>1. k.group \in Groups /\ k.file \in Files BY <1>13, CommandFields
  <2>2. \/ Calm(s) /\ reply'.status = "ERR"
        \/ u \in Users /\ Drops(u, D) /\ reply'.session = s /\ UNCHANGED sessions
    BY <1>13, <2>1, StopEffect
  <2>3. ASSUME u \in Users, Drops(u, D), reply'.session = s, UNCHANGED sessions PROVE Goal
    <3>1. D \in SUBSET (Groups \X Files) BY <2>1
    <3>2. \A g \in Groups, f \in Files : Ends(k, g, f) => <<g, f>> \in D BY <1>13 DEF Ends
    <3> HIDE DEF u, D
    <3>3. \A g \in Groups, f \in Files : <<g, f>> \in D => seeders'[g][f][u] = NoPeer
      BY <2>3, DropsSeeders
    <3>4. EndsShares(s, k) BY <2>3, <3>2, <3>3 DEF EndsShares, u
    <3>5. Effect(s) BY <2>3, <3>1 DEF Effect
    <3> QED BY <1>3, <1>13, <2>3, <3>4, <3>5
  <2> QED BY <1>2, <2>2, <2>3
<1>14. CASE k.op = "upload_file" /\ Tracker!uploadFile(s, k.group, k.file, k.content, self)
  <2> DEFINE g == k.group
             f == k.file
             m == k.content
  <2>1. g \in Groups /\ f \in Files /\ m \in Contents /\ self \in Peers
    BY <1>14, CommandFields, ClientAssumption
  <2> HIDE DEF g, f, m
  <2>2. (Calm(s) /\ reply'.status = "ERR") \/ Adds(s, g, f, m, self)
    BY <1>14, <2>1, UploadEffect DEF g, f, m
  <2>3. ASSUME Adds(s, g, f, m, self) PROVE Goal
    <3>1. Effect(s) BY <2>1, <2>3 DEF Effect
    <3> DEFINE row == [seeders[g][f] EXCEPT ![sessions[s]] = self]
    <3>2. seeders' = [seeders EXCEPT ![g][f] = row] BY <2>3 DEF Adds
    <3> HIDE DEF row
    <3>3. \A h \in Groups, e \in Files :
            h # g \/ e # f => seeders'[h][e] = seeders[h][e]
      BY <2>1, <3>2 DEF TrackerOK
    <3>4. Accepted BY <2>3 DEF Adds, Accepted
    <3>5. NewlyListed(k) BY <1>14, <3>3, <3>4 DEF NewlyListed, g, f
    <3> QED BY <1>14, <3>1, <3>5 DEF EndsShares
  <2> QED BY <1>2, <2>2, <2>3
<1>15. CASE k.op = "download_file" /\ \E now \in Times, ok \in BOOLEAN :
               Tracker!downloadFile(s, k.group, k.file, now, ok)
  <2>1. k.group \in Groups /\ k.file \in Files BY <1>15, CommandFields
  <2>2. Calm(s) /\ (reply'.status = "ERR" \/ metadata[k.group][k.file] \in Contents)
    BY <1>15, <2>1, LocateEffect
  <2>3. Effect(s) /\ NewlyListed(k) BY <2>2 DEF Effect, Calm, NewlyListed
  <2> QED BY <1>2, <1>15, <2>2, <2>3 DEF EndsShares
<1> QED BY <1>4, <1>5, <1>6, <1>7, <1>8, <1>9, <1>10, <1>11, <1>12, <1>13, <1>14, <1>15
        DEF handle

(* A command on a session of this client leaves it listed only on its own     *)
(* live sessions.                                                             *)
LEMMA CommandKeeps ==
    ASSUME TypeOK, Tracked, NEW s \in mine \cup {NoSession}, NEW k \in Commands, handle(s, k),
           Learn(reply'.session)
    PROVE  /\ s \in SessionIds /\ TrackerOK' /\ Orderly(s) /\ ListedOnOwnSession'
           /\ mine' \subseteq Sessions /\ mine \subseteq mine'
           /\ reply'.session \in mine' \cup {NoSession} /\ reply'.session \in SessionIds
           /\ mine' \subseteq mine \cup {reply'.session}
<1>1. s \in SessionIds /\ mine \subseteq Sessions BY DEF TypeOK, SessionIds
<1>2. TrackerOK BY DEF Tracked
<1>3. Effect(s) BY <1>1, <1>2, HandleFacts
<1>4. TrackerOK' /\ Orderly(s) BY <1>1, <1>2, <1>3, EffectOrderly
<1>5. reply'.session \in SessionIds BY <1>4 DEF Orderly
<1>6. mine' = mine \cup ({reply'.session} \ {NoSession}) BY DEF Learn
<1>7. ASSUME NEW g \in Groups, NEW f \in Files, NEW u \in Users, seeders'[g][f][u] = self
      PROVE  \E x \in mine' : sessions'[x] = u
  <2>1. self # NoPeer /\ u # NoUser BY ClientAssumption
  <2>2. CASE seeders[g][f][u] = self
    <3>1. PICK x \in mine : sessions[x] = u BY <2>2 DEF Tracked, ListedOnOwnSession
    <3>2. x \in SessionIds BY <1>1 DEF SessionIds
    <3>3. sessions'[x] = u BY <1>4, <1>7, <2>1, <3>1, <3>2 DEF Orderly
    <3> QED BY <1>6, <3>1, <3>3
  <2>3. CASE seeders[g][f][u] # self
    <3>1. sessions[s] = u /\ sessions' = sessions BY <1>4, <1>7, <2>1, <2>3 DEF Orderly
    <3>2. s # NoSession BY <1>2, <2>1, <3>1 DEF TrackerOK
    <3> QED BY <1>6, <3>1, <3>2
  <2> QED BY <2>2, <2>3
<1>8. ListedOnOwnSession' BY <1>7 DEF ListedOnOwnSession
<1> QED BY <1>1, <1>4, <1>5, <1>6, <1>8 DEF SessionIds

(* An answered request: the session is the tracker's, and what a command ended *)
(* is listed no more.                                                          *)
LEMMA AnsweredStep ==
    ASSUME TypeOK, Tracked, NEW k \in Commands, answered(k)
    PROVE  /\ Tracked' /\ session' \in SessionIds /\ mine' \subseteq Sessions
           /\ late' = late /\ NewlyListed(k)
           /\ Accepted /\ k.op = "download_file" => metadata[k.group][k.file] \in Contents
           /\ Accepted /\ k.op \in {"stop_share", "leave_group", "logout"} /\ ~gaveUp =>
                 \A g \in Groups, f \in Files : Ends(k, g, f) => ~(Listed(g, f)')
<1>1. /\ handle(session, k) /\ session' = reply'.session /\ Learn(reply'.session)
      /\ late' = late /\ session \in mine \cup {NoSession} /\ TrackerOK
  BY DEF answered, Tracked, OwnSessions
<1>2. gaveUp' = gaveUp BY DEF answered
<1>3. /\ session \in SessionIds /\ TrackerOK' /\ Orderly(session) /\ ListedOnOwnSession'
      /\ mine' \subseteq Sessions /\ mine \subseteq mine'
      /\ reply'.session \in mine' \cup {NoSession} /\ reply'.session \in SessionIds
      /\ mine' \subseteq mine \cup {reply'.session}
  BY <1>1, CommandKeeps
<1>4. OwnSessions' BY <1>1, <1>3 DEF Tracked, OwnSessions
<1>5. OneSession'
  <2> SUFFICES ASSUME ~gaveUp
               PROVE  late' = {} /\ \A x \in mine' : x # session' => sessions'[x] = NoUser
    BY <1>2 DEF OneSession
  <2>1. late = {} /\ \A x \in mine : x # session => sessions[x] = NoUser
    BY DEF Tracked, OneSession
  <2>2. ASSUME NEW x \in mine', x # session' PROVE sessions'[x] = NoUser
    <3>1. x \in mine /\ x \in Sessions /\ x \in SessionIds BY <1>1, <1>3, <2>2 DEF SessionIds
    <3>2. x # NoSession BY <3>1, ClientAssumption
    <3>3. CASE x = session BY <1>1, <1>3, <2>2, <3>2, <3>3 DEF Orderly
    <3>4. CASE x # session
      <4>1. sessions[x] = NoUser BY <2>1, <3>1, <3>4
      <4> QED BY <1>1, <1>3, <2>2, <3>1, <4>1 DEF Orderly
    <3> QED BY <3>3, <3>4
  <2> QED BY <1>1, <2>1, <2>2
<1>6. /\ NewlyListed(k) /\ EndsShares(session, k)
      /\ Accepted /\ k.op = "download_file" => metadata[k.group][k.file] \in Contents
  BY <1>1, <1>3, HandleFacts
<1>7. ASSUME Accepted, k.op \in {"stop_share", "leave_group", "logout"}, ~gaveUp,
             NEW g \in Groups, NEW f \in Files, Ends(k, g, f), NEW u \in Users,
             seeders'[g][f][u] = self
      PROVE  FALSE
  <2>1. sessions[session] \in Users /\ seeders'[g][f][sessions[session]] = NoPeer
    BY <1>6, <1>7 DEF EndsShares
  <2>2. self # NoPeer /\ u # NoUser BY ClientAssumption
  <2>3. seeders[g][f][u] = self BY <1>6, <1>7 DEF NewlyListed
  <2>4. PICK x \in mine : sessions[x] = u BY <2>3 DEF Tracked, ListedOnOwnSession
  <2>5. x = session BY <1>7, <2>2, <2>4 DEF Tracked, OneSession
  <2> QED BY <1>7, <2>1, <2>2, <2>4, <2>5
<1> QED BY <1>1, <1>3, <1>4, <1>5, <1>6, <1>7 DEF Tracked, Listed

(* An unanswered request changes nothing yet. *)
LEMMA UnansweredStep ==
    ASSUME TypeOK, Tracked, NEW k \in Commands, unanswered(k)
    PROVE  /\ Tracked' /\ session' \in SessionIds /\ mine' \subseteq Sessions /\ gaveUp'
           /\ late' \subseteq [session : SessionIds, command : Commands]
<1> DEFINE r == [session |-> session, command |-> k]
<1>1. /\ late' = late \cup {r} /\ session' = session /\ mine' = mine
      /\ UNCHANGED <<sessions, metadata, seeders>>
  BY DEF unanswered, trackerVars
<1>2. gaveUp' = TRUE BY DEF unanswered
<1>3. r \in [session : SessionIds, command : Commands] /\ r.session = session BY DEF TypeOK
<1> HIDE DEF r
<1>4. TrackerOK' BY <1>1 DEF Tracked, TrackerOK, Seeds
<1>5. OwnSessions' BY <1>1, <1>3 DEF Tracked, OwnSessions
<1>6. ListedOnOwnSession' BY <1>1 DEF Tracked, ListedOnOwnSession
<1>7. OneSession' BY <1>2 DEF OneSession
<1> QED BY <1>1, <1>2, <1>3, <1>4, <1>5, <1>6, <1>7 DEF Tracked, TypeOK

(* A step without a request. *)
LEMMA SilentStep ==
    ASSUME TypeOK, Tracked, UNCHANGED <<trackerVars, session, mine, gaveUp>>, late' \subseteq late
    PROVE  /\ Tracked' /\ session' \in SessionIds /\ mine' \subseteq Sessions
           /\ late' \subseteq [session : SessionIds, command : Commands]
<1>1. UNCHANGED <<sessions, metadata, seeders, session, mine>> BY DEF trackerVars
<1>2. gaveUp' = gaveUp OBVIOUS
<1>3. TrackerOK' BY <1>1 DEF Tracked, TrackerOK, Seeds
<1>4. OwnSessions' BY <1>1 DEF Tracked, OwnSessions
<1>5. ListedOnOwnSession' BY <1>1 DEF Tracked, ListedOnOwnSession
<1>6. OneSession' BY <1>1, <1>2 DEF Tracked, OneSession
<1> QED BY <1>1, <1>3, <1>4, <1>5, <1>6 DEF Tracked, TypeOK

(* A request, answered or not. *)
LEMMA RequestStep ==
    ASSUME TypeOK, Tracked, NEW k \in Commands, answered(k) \/ unanswered(k)
    PROVE  /\ Tracked' /\ session' \in SessionIds /\ mine' \subseteq Sessions
           /\ late' \subseteq [session : SessionIds, command : Commands]
           /\ gaveUp' \in BOOLEAN /\ (gaveUp => gaveUp') /\ (~(gaveUp') => NewlyListed(k))
<1>1. CASE answered(k)
  <2>1. gaveUp' = gaveUp BY <1>1 DEF answered
  <2>2. gaveUp' \in BOOLEAN BY <2>1 DEF TypeOK
  <2> QED BY <1>1, <2>1, <2>2, AnsweredStep DEF TypeOK
<1>2. CASE unanswered(k)
  <2>1. gaveUp' = TRUE BY <1>2 DEF unanswered
  <2> QED BY <1>2, <2>1, UnansweredStep
<1> QED BY <1>1, <1>2

-----------------------------------------------------------------------------
(* The steps of the client. *)

(* A download that has started has a group, a file and a content. *)
LEMMA DownloadFields ==
    ASSUME TypeOK, NEW t \in Threads, download[t].at # "off"
    PROVE  /\ download[t] \in Downloads /\ download[t].group \in Groups
           /\ download[t].file \in Files /\ download[t].content \in Contents
<1>1. NoDownload.at = "off" BY DEF NoDownload
<1>2. download[t] \in Downloads BY <1>1 DEF TypeOK
<1> QED BY <1>2 DEF Downloads

(* Thread t goes from download[t] to e; the other threads stay. *)
Becomes(t, e) ==
    /\ download' \in [Threads -> {NoDownload} \cup Downloads]
    /\ download'[t] = e
    /\ \A v \in Threads \ {t} : download'[v] = download[v]

LEMMA OneBecomes ==
    ASSUME TypeOK, NEW t \in Threads, NEW e \in {NoDownload} \cup Downloads,
           download' = [download EXCEPT ![t] = e]
    PROVE  Becomes(t, e)
  BY DEF TypeOK, Becomes

(* A download keeps its group and file from one stage to the next. *)
LEMMA GotoFields ==
    ASSUME TypeOK, NEW t \in Threads, download[t].at # "off", NEW stage \in Stages,
           Goto(t, stage)
    PROVE  /\ Becomes(t, download'[t]) /\ download'[t].at = stage
           /\ download'[t].group = download[t].group /\ download'[t].file = download[t].file
<1> DEFINE e == [download[t] EXCEPT !.at = stage]
<1>1. e \in Downloads /\ e.at = stage /\ e.group = download[t].group /\ e.file = download[t].file
  BY DownloadFields DEF Downloads
<1>2. download' = [download EXCEPT ![t] = e] BY DEF Goto
<1> HIDE DEF e
<1>3. Becomes(t, e) BY <1>1, <1>2, OneBecomes
<1> QED BY <1>1, <1>3 DEF Becomes

(* A pending command at the prompt is one of the commands. *)
LEMMA PromptFields ==
    ASSUME TypeOK, prompt.op # "none" PROVE prompt \in Commands
  BY DEF TypeOK, Idle

(* forwardToTracker(): what was ended is remembered until mirror(). *)
LEMMA ForwardStep ==
    ASSUME Inv, NEW k \in Forwarded, forwardToTracker(k) PROVE Inv'
<1> USE DEF Inv, Served
<1>1. prompt = Idle /\ shared' = shared /\ download' = download BY DEF forwardToTracker
<1>2. k \in Commands /\ k.op # "upload_file" BY DEF Commands, Forwarded
<1>3. Idle.op = "none" BY DEF Idle
<1> DEFINE done == Accepted /\ k.op \in {"stop_share", "leave_group", "logout"}
<1>4. CASE /\ answered(k) /\ prompt' = (IF done THEN k ELSE Idle)
           /\ overlap' = (overlap \/ (done /\ Downloading(k)))
  <2>1. /\ prompt' = (IF done THEN k ELSE Idle)
        /\ overlap' = (overlap \/ (done /\ Downloading(k)))
    BY <1>4
  <2>2. overlap' \in BOOLEAN BY <2>1, Zenon
  <2>3. gaveUp' = gaveUp BY <1>4 DEF answered
  <2>4. Tracked' /\ NewlyListed(k) /\ (~gaveUp /\ done =>
            \A g \in Groups, f \in Files : Ends(k, g, f) => ~(Listed(g, f)'))
    BY <1>2, <1>4, AnsweredStep
  <2>5. TypeOK'
    <3>1. gaveUp' \in BOOLEAN BY <2>3 DEF TypeOK
    <3>2. /\ session' \in SessionIds /\ mine' \subseteq Sessions
          /\ late' \subseteq [session : SessionIds, command : Commands]
      BY <1>2, <1>4, RequestStep
    <3>3. prompt' \in {Idle} \cup Commands BY <1>2, <2>1
    <3> QED BY <1>1, <2>2, <3>1, <3>2, <3>3 DEF TypeOK
  <2>6. Ending' => prompt' = k /\ done BY <1>3, <2>1 DEF Ending
  <2>7. ~(overlap') => ~overlap /\ (done => ~Downloading(k)) BY <2>1
  <2> HIDE DEF done
  <2>8. EndedShares'
    <3> SUFFICES ASSUME Ending', ~(overlap')
                 PROVE  /\ ~(Downloading(prompt)')
                        /\ ~(gaveUp') => \A g \in Groups, f \in Files :
                              Ends(prompt, g, f)' => ~(Listed(g, f)')
      BY DEF EndedShares
    <3>1. ~(Downloading(prompt)') BY <1>1, <2>6, <2>7 DEF Downloading, At, Ends
    <3>2. \A g, f : Ends(prompt, g, f)' => Ends(k, g, f) BY <2>6 DEF Ends
    <3> QED BY <2>3, <2>4, <2>6, <3>1, <3>2
  <2>9. DownloadServed' BY <1>1, <2>7 DEF DownloadServed
  <2>10. ListingBacked'
    <3>1. \A g \in Groups, f \in Files : Listed(g, f)' => Listed(g, f)
      BY <1>2, <2>4 DEF NewlyListed, Listed
    <3> QED BY <1>1, <1>3, <2>3, <2>7, <3>1 DEF ListingBacked
  <2> QED BY <2>4, <2>5, <2>8, <2>9, <2>10
<1>5. CASE unanswered(k) /\ UNCHANGED <<prompt, overlap>>
  <2>1. gaveUp' = TRUE BY <1>5 DEF unanswered
  <2>2. Tracked' /\ session' \in SessionIds /\ mine' \subseteq Sessions
        /\ late' \subseteq [session : SessionIds, command : Commands]
    BY <1>2, <1>5, UnansweredStep
  <2>3. prompt' = prompt /\ overlap' = overlap BY <1>5
  <2>4. overlap' \in BOOLEAN BY <2>3 DEF TypeOK
  <2>5. TypeOK' BY <1>1, <2>1, <2>2, <2>3, <2>4 DEF TypeOK
  <2>6. ~(Ending') BY <1>1, <1>3, <2>3 DEF Ending
  <2>7. Served' BY <1>1, <2>1, <2>3, <2>6 DEF EndedShares, DownloadServed, ListingBacked
  <2> QED BY <2>2, <2>5, <2>7
<1> QED BY <1>4, <1>5 DEF forwardToTracker

(* uploadFile(): an accepted share is on its way to SharedFiles. *)
LEMMA UploadStep ==
    ASSUME Inv, NEW k \in Shares, uploadFile(k) PROVE Inv'
<1> USE DEF Inv, Served
<1>1. prompt = Idle /\ shared' = shared /\ download' = download /\ overlap' = overlap
  BY DEF uploadFile
<1>2. k \in Commands /\ k.op = "upload_file" BY DEF Commands, Shares
<1>3. Idle.op = "none" BY DEF Idle
<1>4. /\ Tracked' /\ session' \in SessionIds /\ mine' \subseteq Sessions
      /\ late' \subseteq [session : SessionIds, command : Commands]
      /\ gaveUp' \in BOOLEAN /\ (gaveUp => gaveUp') /\ (~(gaveUp') => NewlyListed(k))
  BY <1>2, RequestStep DEF uploadFile
<1>5. /\ prompt' \in {Idle, k}
      /\ ~(gaveUp') /\ Accepted => prompt' = k
  <2>1. CASE answered(k) /\ prompt' = IF Accepted THEN k ELSE Idle BY <2>1
  <2>2. CASE unanswered(k) /\ UNCHANGED prompt
    <3>1. gaveUp' BY <2>2 DEF unanswered
    <3> QED BY <1>1, <2>2, <3>1
  <2> QED BY <2>1, <2>2 DEF uploadFile
<1>6. overlap' \in BOOLEAN BY <1>1 DEF TypeOK
<1>7. TypeOK' BY <1>1, <1>2, <1>4, <1>5, <1>6 DEF TypeOK
<1>8. EndedShares' BY <1>2, <1>3, <1>5 DEF EndedShares, Ending
<1>9. DownloadServed' BY <1>1 DEF DownloadServed
<1>10. ListingBacked'
  <2> SUFFICES ASSUME ~(gaveUp'), ~(overlap'), NEW g \in Groups, NEW f \in Files, Listed(g, f)'
               PROVE  \/ shared'[g][f] # "none"
                      \/ prompt'.op = "upload_file" /\ prompt'.group = g /\ prompt'.file = f
    BY DEF ListingBacked
  <2>1. Listed(g, f) \/ (k.group = g /\ k.file = f /\ Accepted) BY <1>4 DEF NewlyListed, Listed
  <2>2. CASE Listed(g, f) BY <1>1, <1>3, <1>4, <2>2 DEF ListingBacked
  <2>3. CASE k.group = g /\ k.file = f /\ Accepted BY <1>2, <1>5, <2>3
  <2> QED BY <2>1, <2>2, <2>3
<1> QED BY <1>4, <1>7, <1>8, <1>9, <1>10

(* start(): a new download has nothing published yet. *)
LEMMA StartStep ==
    ASSUME Inv, NEW t \in Threads, NEW k \in Locates, start(t, k) PROVE Inv'
<1> USE DEF Inv, Served
<1>1. /\ prompt = Idle /\ shared' = shared /\ prompt' = prompt
      /\ overlap' = overlap
  BY DEF start
<1>2. /\ k \in Commands /\ k.op = "download_file" /\ k.group \in Groups /\ k.file \in Files
  BY DEF Commands, Locates
<1>3. Idle.op = "none" BY DEF Idle
<1>4. /\ Tracked' /\ session' \in SessionIds /\ mine' \subseteq Sessions
      /\ late' \subseteq [session : SessionIds, command : Commands]
      /\ gaveUp' \in BOOLEAN /\ (gaveUp => gaveUp') /\ (~(gaveUp') => NewlyListed(k))
  BY <1>2, RequestStep DEF start
<1>5. /\ download' \in [Threads -> {NoDownload} \cup Downloads]
      /\ \A v \in Threads : download'[v] = download[v] \/ download'[v].at = "prepare"
  <2> DEFINE d == [at |-> "prepare", group |-> k.group, file |-> k.file,
                   content |-> metadata[k.group][k.file]]
  <2>1. CASE answered(k) /\ Accepted /\ download' = [download EXCEPT ![t] = d]
    <3>1. metadata[k.group][k.file] \in Contents BY <1>2, <2>1, AnsweredStep
    <3>2. d \in Downloads /\ d.at = "prepare" BY <1>2, <3>1 DEF Downloads, Stages
    <3> HIDE DEF d
    <3>3. Becomes(t, d) BY <2>1, <3>2, OneBecomes
    <3> QED BY <3>2, <3>3 DEF Becomes
  <2>2. CASE UNCHANGED download BY <2>2 DEF TypeOK
  <2> QED BY <2>1, <2>2 DEF start
<1>6. overlap' \in BOOLEAN BY <1>1 DEF TypeOK
<1>7. TypeOK' BY <1>1, <1>4, <1>5, <1>6 DEF TypeOK
<1>8. EndedShares' BY <1>1, <1>3 DEF EndedShares, Ending
<1>9. DownloadServed' BY <1>1, <1>5 DEF DownloadServed, Published
<1>10. ListingBacked'
  <2>1. ~(gaveUp') => \A g \in Groups, f \in Files : Listed(g, f)' => Listed(g, f)
    BY <1>2, <1>4 DEF NewlyListed, Listed
  <2> QED BY <1>1, <1>4, <2>1 DEF ListingBacked
<1> QED BY <1>4, <1>7, <1>8, <1>9, <1>10

(* A download thread sends a request at a stage where a share it registers is *)
(* published.                                                                 *)
LEMMA ThreadRequest ==
    ASSUME Inv, NEW k \in Commands, answered(k) \/ unanswered(k),
           NEW t \in Threads, download[t].at # "off",
           k.op = "upload_file" => /\ k.group = download[t].group /\ k.file = download[t].file
                                   /\ download[t].at \in Published,
           UNCHANGED <<shared, prompt, overlap>>, Becomes(t, download'[t]),
           download'[t].group = download[t].group, download'[t].file = download[t].file,
           download'[t].at \in Published => download[t].at \in Published
    PROVE  Inv'
<1> USE DEF Inv, Served
<1>1. /\ Tracked' /\ session' \in SessionIds /\ mine' \subseteq Sessions
      /\ late' \subseteq [session : SessionIds, command : Commands]
      /\ gaveUp' \in BOOLEAN /\ (gaveUp => gaveUp') /\ (~(gaveUp') => NewlyListed(k))
  BY RequestStep
<1>2. overlap' \in BOOLEAN /\ overlap' = overlap BY DEF TypeOK
<1>3. TypeOK' BY <1>1, <1>2 DEF TypeOK, Becomes
<1>4. ASSUME ~(gaveUp'), NEW g \in Groups, NEW f \in Files, Listed(g, f)'
      PROVE  \/ Listed(g, f)
             \/ /\ g = download[t].group /\ f = download[t].file
                /\ download[t].at \in Published
  BY <1>1, <1>4 DEF NewlyListed, Listed
<1>5. EndedShares'
  <2> SUFFICES ASSUME Ending, ~overlap
               PROVE  /\ ~(Downloading(prompt)')
                      /\ ~(gaveUp') => \A g \in Groups, f \in Files :
                            Ends(prompt, g, f)' => ~(Listed(g, f)')
    BY <1>2 DEF EndedShares, Ending
  <2>1. ~Downloading(prompt) BY DEF EndedShares
  <2>2. ~Ends(prompt, download[t].group, download[t].file) BY <2>1 DEF Downloading, At
  <2>3. ~(Downloading(prompt)')
    <3>1. ASSUME NEW v \in Threads, download'[v].at # "off",
                 Ends(prompt, download'[v].group, download'[v].file)
          PROVE  FALSE
      <4>1. CASE v = t BY <2>2, <3>1, <4>1
      <4>2. CASE v # t BY <2>1, <3>1, <4>2 DEF Becomes, Downloading, At
      <4> QED BY <4>1, <4>2
    <3>2. \A g, f : Ends(prompt, g, f)' => Ends(prompt, g, f) BY DEF Ends
    <3> QED BY <3>1, <3>2 DEF Downloading, At, Ends
  <2>4. \A g, f : Ends(prompt, g, f)' => Ends(prompt, g, f) BY DEF Ends
  <2>5. ASSUME ~(gaveUp'), NEW g \in Groups, NEW f \in Files, Ends(prompt, g, f)', Listed(g, f)'
        PROVE  FALSE
    BY <1>1, <1>4, <2>2, <2>4, <2>5 DEF EndedShares
  <2> QED BY <2>3, <2>5
<1>6. DownloadServed' BY <1>2 DEF DownloadServed, Becomes
<1>7. ListingBacked'
  <2> SUFFICES ASSUME ~(gaveUp'), ~overlap, NEW g \in Groups, NEW f \in Files, Listed(g, f)'
               PROVE  \/ shared[g][f] # "none"
                      \/ prompt.op = "upload_file" /\ prompt.group = g /\ prompt.file = f
    BY <1>2 DEF ListingBacked
  <2>1. CASE Listed(g, f) BY <1>1, <2>1 DEF ListingBacked
  <2>2. CASE /\ g = download[t].group /\ f = download[t].file
             /\ download[t].at \in Published
    BY <2>2 DEF DownloadServed
  <2> QED BY <1>4, <2>1, <2>2
<1> QED BY <1>1, <1>3, <1>5, <1>6, <1>7

(* sharePart(), shareComplete() and the renewal of tickets. *)
LEMMA ThreadRequestSteps ==
    ASSUME Inv, NEW t \in Threads, sharePart(t) \/ shareComplete(t) \/ renew(t) PROVE Inv'
<1>0. TypeOK BY DEF Inv
<1>1. ASSUME download[t].at # "off"
      PROVE  /\ Share(t) \in Commands /\ Share(t).op = "upload_file"
             /\ Share(t).group = download[t].group /\ Share(t).file = download[t].file
  BY <1>0, <1>1, DownloadFields DEF Share, Commands, Shares
<1>2. CASE sharePart(t)
  <2>1. download[t].at = "share" /\ Goto(t, "fetch") /\ (answered(Share(t)) \/ unanswered(Share(t)))
        /\ UNCHANGED <<shared, prompt, overlap>>
    BY <1>2 DEF sharePart, At
  <2>2. "fetch" \in Stages BY DEF Stages
  <2>3. /\ Becomes(t, download'[t]) /\ download'[t].at = "fetch"
        /\ download'[t].group = download[t].group /\ download'[t].file = download[t].file
    BY <1>0, <2>1, <2>2, GotoFields
  <2>4. Share(t) \in Commands /\ Share(t).group = download[t].group /\ Share(t).file = download[t].file
    BY <1>1, <2>1
  <2> QED BY <2>1, <2>3, <2>4, ThreadRequest DEF Published
<1>3. CASE shareComplete(t)
  <2>1. download[t].at = "reshare" /\ Goto(t, "readd") /\ (answered(Share(t)) \/ unanswered(Share(t)))
        /\ UNCHANGED <<shared, prompt, overlap>>
    BY <1>3 DEF shareComplete, At
  <2>2. "readd" \in Stages BY DEF Stages
  <2>3. /\ Becomes(t, download'[t]) /\ download'[t].at = "readd"
        /\ download'[t].group = download[t].group /\ download'[t].file = download[t].file
    BY <1>0, <2>1, <2>2, GotoFields
  <2>4. Share(t) \in Commands /\ Share(t).group = download[t].group /\ Share(t).file = download[t].file
    BY <1>1, <2>1
  <2> QED BY <2>1, <2>3, <2>4, ThreadRequest DEF Published
<1>4. CASE renew(t)
  <2> DEFINE k == [op |-> "download_file", group |-> download[t].group, file |-> download[t].file]
  <2>1. /\ download[t].at \in {"add", "fetch"} /\ (answered(k) \/ unanswered(k))
        /\ UNCHANGED <<shared, prompt, download, overlap>>
    BY <1>4 DEF renew, At
  <2>2. k \in Commands /\ k.op # "upload_file"
    BY <1>0, <2>1, DownloadFields DEF Commands, Locates
  <2> HIDE DEF k
  <2>3. Becomes(t, download'[t]) BY <1>0, <2>1 DEF TypeOK, Becomes
  <2> QED BY <2>1, <2>2, <2>3, ThreadRequest DEF Published
<1> QED BY <1>2, <1>3, <1>4

(* mirror(): what it removes is not listed, and no running download's. *)
LEMMA MirrorStep ==
    ASSUME Inv, mirror PROVE Inv'
<1> USE DEF Inv, Served
<1>1. /\ Ending /\ prompt' = Idle
      /\ UNCHANGED <<trackerVars, session, download, late, mine>>
      /\ shared' = [g \in Groups |-> [f \in Files |->
                      IF Ends(prompt, g, f) THEN "none" ELSE shared[g][f]]]
  BY DEF mirror, history, Ending
<1>2. overlap' = overlap /\ gaveUp' = gaveUp BY DEF mirror, history
<1>3. Idle.op = "none" BY DEF Idle
<1>4. /\ Tracked' /\ session' \in SessionIds /\ mine' \subseteq Sessions
      /\ late' \subseteq [session : SessionIds, command : Commands]
  BY <1>1, <1>2, SilentStep
<1>5. overlap' \in BOOLEAN /\ gaveUp' \in BOOLEAN BY <1>2 DEF TypeOK
<1>6. \A g \in Groups, f \in Files : shared[g][f] \in {"none", "part", "whole"} BY DEF TypeOK
<1>7. shared' \in [Groups -> [Files -> {"none", "part", "whole"}]] BY <1>1, <1>6
<1>8. TypeOK' BY <1>1, <1>4, <1>5, <1>7 DEF TypeOK
<1>9. EndedShares' BY <1>1, <1>3 DEF EndedShares, Ending
<1>10. DownloadServed'
  <2> SUFFICES ASSUME ~overlap, NEW t \in Threads, download[t].at \in Published
               PROVE  shared'[download[t].group][download[t].file] # "none"
    BY <1>1, <1>2 DEF DownloadServed
  <2>0. download[t].at # "off" BY DEF Published
  <2>1. ~Ends(prompt, download[t].group, download[t].file)
    BY <1>1, <2>0 DEF EndedShares, Downloading, At
  <2>2. download[t].group \in Groups /\ download[t].file \in Files BY <2>0, DownloadFields
  <2> QED BY <1>1, <2>1, <2>2 DEF DownloadServed
<1>11. ListingBacked'
  <2> SUFFICES ASSUME ~gaveUp, ~overlap, NEW g \in Groups, NEW f \in Files, Listed(g, f)'
               PROVE  shared'[g][f] # "none"
    BY <1>2 DEF ListingBacked
  <2>1. Listed(g, f) BY <1>1 DEF Listed, trackerVars
  <2>2. ~Ends(prompt, g, f) BY <1>1, <2>1 DEF EndedShares
  <2>3. shared[g][f] # "none" BY <1>1, <2>1 DEF ListingBacked, Ending
  <2> QED BY <1>1, <2>2, <2>3
<1> QED BY <1>4, <1>8, <1>9, <1>10, <1>11

(* One entry of SharedFiles is set. *)
LEMMA SetEntry ==
    ASSUME TypeOK, NEW g \in Groups, NEW f \in Files, NEW what \in {"part", "whole"},
           shared' = [shared EXCEPT ![g][f] = what]
    PROVE  /\ shared' \in [Groups -> [Files -> {"none", "part", "whole"}]]
           /\ shared'[g][f] # "none"
           /\ \A h \in Groups, e \in Files : shared[h][e] # "none" => shared'[h][e] # "none"
<1>1. shared \in [Groups -> [Files -> {"none", "part", "whole"}]] BY DEF TypeOK
<1>2. shared' \in [Groups -> [Files -> {"none", "part", "whole"}]] BY <1>1
<1>3. \A h \in Groups, e \in Files :
        shared'[h][e] = IF h = g /\ e = f THEN what ELSE shared[h][e]
  BY <1>1
<1> QED BY <1>2, <1>3

(* addUploaded(): the accepted upload is served. *)
LEMMA AddUploadedStep ==
    ASSUME Inv, addUploaded PROVE Inv'
<1> USE DEF Inv, Served
<1>1. /\ prompt.op = "upload_file" /\ prompt' = Idle
      /\ UNCHANGED <<trackerVars, session, download, late, mine>>
      /\ shared' = [shared EXCEPT ![prompt.group][prompt.file] = "whole"]
  BY DEF addUploaded, history
<1>2. overlap' = overlap /\ gaveUp' = gaveUp BY DEF addUploaded, history
<1>3. Idle.op = "none" BY DEF Idle
<1>4. prompt.group \in Groups /\ prompt.file \in Files BY <1>1, PromptFields, CommandFields
<1>5. /\ shared' \in [Groups -> [Files -> {"none", "part", "whole"}]]
      /\ shared'[prompt.group][prompt.file] # "none"
      /\ \A h \in Groups, e \in Files : shared[h][e] # "none" => shared'[h][e] # "none"
  BY <1>1, <1>4, SetEntry
<1>6. /\ Tracked' /\ session' \in SessionIds /\ mine' \subseteq Sessions
      /\ late' \subseteq [session : SessionIds, command : Commands]
  BY <1>1, <1>2, SilentStep
<1>7. overlap' \in BOOLEAN /\ gaveUp' \in BOOLEAN BY <1>2 DEF TypeOK
<1>8. TypeOK' BY <1>1, <1>5, <1>6, <1>7 DEF TypeOK
<1>9. EndedShares' BY <1>1, <1>3 DEF EndedShares, Ending
<1>10. DownloadServed'
  <2>1. \A t \in Threads : download[t].at # "off" =>
          download[t].group \in Groups /\ download[t].file \in Files
    BY DownloadFields
  <2> QED BY <1>1, <1>2, <1>5, <2>1 DEF DownloadServed, Published
<1>11. ListingBacked'
  <2>1. \A g \in Groups, f \in Files : Listed(g, f)' => Listed(g, f)
    BY <1>1 DEF Listed, trackerVars
  <2> QED BY <1>2, <1>5, <2>1 DEF ListingBacked
<1> QED BY <1>6, <1>8, <1>9, <1>10, <1>11

(* A step of a download thread without a request: it may add to SharedFiles   *)
(* and go on, or end.                                                         *)
LEMMA ThreadStep ==
    ASSUME Inv, UNCHANGED <<trackerVars, session, prompt, late, history>>,
           NEW t \in Threads, download[t].at # "off", Becomes(t, download'[t]),
           shared' \in [Groups -> [Files -> {"none", "part", "whole"}]],
           \A g \in Groups, f \in Files : shared[g][f] # "none" => shared'[g][f] # "none",
           \/ download'[t].at = "off"
           \/ download'[t].group = download[t].group /\ download'[t].file = download[t].file,
           download'[t].at \in Published =>
               \/ download[t].at \in Published
               \/ shared'[download[t].group][download[t].file] # "none"
    PROVE  Inv'
<1> USE DEF Inv, Served
<1>1. prompt' = prompt /\ seeders' = seeders /\ UNCHANGED <<trackerVars, session, late, mine>>
  BY DEF history, trackerVars
<1>2. overlap' = overlap /\ gaveUp' = gaveUp BY DEF history
<1>3. /\ Tracked' /\ session' \in SessionIds /\ mine' \subseteq Sessions
      /\ late' \subseteq [session : SessionIds, command : Commands]
  BY <1>1, <1>2, SilentStep
<1>4. overlap' \in BOOLEAN /\ gaveUp' \in BOOLEAN BY <1>2 DEF TypeOK
<1>5. TypeOK' BY <1>1, <1>3, <1>4 DEF TypeOK, Becomes
<1>6. \A g \in Groups, f \in Files : Listed(g, f)' => Listed(g, f) BY <1>1 DEF Listed
<1>7. EndedShares'
  <2>1. \A g, f : Ends(prompt, g, f)' => Ends(prompt, g, f) BY <1>1 DEF Ends
  <2>2. Downloading(prompt)' => Downloading(prompt)
    <3>1. ASSUME NEW v \in Threads, download'[v].at # "off",
                 Ends(prompt, download'[v].group, download'[v].file)
          PROVE  /\ download[v].at # "off"
                 /\ Ends(prompt, download[v].group, download[v].file)
      <4>1. CASE v = t BY <3>1, <4>1
      <4>2. CASE v # t BY <3>1, <4>2 DEF Becomes
      <4> QED BY <4>1, <4>2
    <3> QED BY <1>1, <3>1 DEF Downloading, At, Ends
  <2> QED BY <1>1, <1>2, <1>6, <2>1, <2>2 DEF EndedShares, Ending
<1>8. DownloadServed'
  <2> SUFFICES ASSUME ~overlap, NEW v \in Threads, download'[v].at \in Published
               PROVE  shared'[download'[v].group][download'[v].file] # "none"
    BY <1>2 DEF DownloadServed
  <2>1. CASE v = t
    <3>1. download[t].group \in Groups /\ download[t].file \in Files BY DownloadFields
    <3> QED BY <2>1, <3>1 DEF DownloadServed, Published
  <2>2. CASE v # t
    <3>1. download'[v] = download[v] BY <2>2 DEF Becomes
    <3>2. download[v].group \in Groups /\ download[v].file \in Files
      BY <3>1, DownloadFields DEF Published
    <3> QED BY <3>1, <3>2 DEF DownloadServed
  <2> QED BY <2>1, <2>2
<1>9. ListingBacked' BY <1>1, <1>2, <1>6 DEF ListingBacked
<1> QED BY <1>3, <1>5, <1>7, <1>8, <1>9

(* A thread that ends. *)
LEMMA Ended ==
    ASSUME TypeOK, NEW t \in Threads, End(t)
    PROVE  Becomes(t, download'[t]) /\ download'[t].at = "off"
<1>1. Becomes(t, NoDownload) BY OneBecomes DEF End
<1> QED BY <1>1 DEF Becomes, NoDownload

(* prepare(), fetched() and the two additions to SharedFiles. *)
LEMMA ThreadSteps ==
    ASSUME Inv, NEW t \in Threads, prepare(t) \/ fetched(t) \/ addPart(t) \/ addComplete(t)
    PROVE  Inv'
<1>0. TypeOK BY DEF Inv
<1>1. shared' = shared =>
        /\ shared' \in [Groups -> [Files -> {"none", "part", "whole"}]]
        /\ \A g \in Groups, f \in Files : shared[g][f] # "none" => shared'[g][f] # "none"
  BY <1>0 DEF TypeOK
<1>3. CASE prepare(t)
  <2>1. /\ download[t].at = "prepare" /\ (Goto(t, "add") \/ End(t))
        /\ shared' = shared /\ UNCHANGED <<trackerVars, session, prompt, late, history>>
    BY <1>3 DEF prepare, At
  <2>2. "add" \in Stages BY DEF Stages
  <2>3. CASE Goto(t, "add")
    <3>1. /\ Becomes(t, download'[t]) /\ download'[t].at = "add"
          /\ download'[t].group = download[t].group /\ download'[t].file = download[t].file
      BY <1>0, <2>1, <2>2, <2>3, GotoFields
    <3> QED BY <1>1, <2>1, <3>1, ThreadStep DEF Published
  <2>4. CASE End(t) BY <1>0, <1>1, <2>1, <2>4, Ended, ThreadStep DEF Published
  <2> QED BY <2>1, <2>3, <2>4
<1>4. CASE fetched(t)
  <2>1. /\ download[t].at = "fetch" /\ (Goto(t, "reshare") \/ End(t))
        /\ shared' = shared /\ UNCHANGED <<trackerVars, session, prompt, late, history>>
    BY <1>4 DEF fetched, At
  <2>2. "reshare" \in Stages BY DEF Stages
  <2>3. CASE Goto(t, "reshare")
    <3>1. /\ Becomes(t, download'[t]) /\ download'[t].at = "reshare"
          /\ download'[t].group = download[t].group /\ download'[t].file = download[t].file
      BY <1>0, <2>1, <2>2, <2>3, GotoFields
    <3> QED BY <1>1, <2>1, <3>1, ThreadStep DEF Published
  <2>4. CASE End(t) BY <1>0, <1>1, <2>1, <2>4, Ended, ThreadStep DEF Published
  <2> QED BY <2>1, <2>3, <2>4
<1>5. CASE addPart(t)
  <2>1. /\ download[t].at = "add" /\ Goto(t, "share")
        /\ shared' = [shared EXCEPT ![download[t].group][download[t].file] = "part"]
        /\ UNCHANGED <<trackerVars, session, prompt, late, history>>
    BY <1>5 DEF addPart, At
  <2>2. "share" \in Stages BY DEF Stages
  <2>3. /\ Becomes(t, download'[t]) /\ download'[t].at = "share"
        /\ download'[t].group = download[t].group /\ download'[t].file = download[t].file
    BY <1>0, <2>1, <2>2, GotoFields
  <2>4. download[t].group \in Groups /\ download[t].file \in Files BY <1>0, <2>1, DownloadFields
  <2>5. /\ shared' \in [Groups -> [Files -> {"none", "part", "whole"}]]
        /\ shared'[download[t].group][download[t].file] # "none"
        /\ \A h \in Groups, e \in Files : shared[h][e] # "none" => shared'[h][e] # "none"
    BY <1>0, <2>1, <2>4, SetEntry
  <2> QED BY <2>1, <2>3, <2>5, ThreadStep DEF Published
<1>6. CASE addComplete(t)
  <2>1. /\ download[t].at = "readd" /\ End(t)
        /\ shared' = [shared EXCEPT ![download[t].group][download[t].file] = "whole"]
        /\ UNCHANGED <<trackerVars, session, prompt, late, history>>
    BY <1>6 DEF addComplete, At
  <2>2. download[t].group \in Groups /\ download[t].file \in Files BY <1>0, <2>1, DownloadFields
  <2>3. /\ shared' \in [Groups -> [Files -> {"none", "part", "whole"}]]
        /\ \A h \in Groups, e \in Files : shared[h][e] # "none" => shared'[h][e] # "none"
    BY <1>0, <2>1, <2>2, SetEntry
  <2> QED BY <1>0, <2>1, <2>3, Ended, ThreadStep DEF Published
<1> QED BY <1>3, <1>4, <1>5, <1>6

(* A late request is applied: some request went unanswered before. *)
LEMMA ApplyLateStep ==
    ASSUME Inv, NEW r \in late, applyLate(r) PROVE Inv'
<1> USE DEF Inv, Served
<1>1. /\ handle(r.session, r.command) /\ late' = late \ {r} /\ Learn(reply'.session)
      /\ UNCHANGED <<session, shared, prompt, download>>
  BY DEF applyLate
<1>2. overlap' = overlap /\ gaveUp' = gaveUp BY DEF applyLate
<1>3. r.session \in mine \cup {NoSession} /\ r.command \in Commands
  BY DEF Tracked, OwnSessions, TypeOK
<1>4. /\ TrackerOK' /\ ListedOnOwnSession' /\ mine' \subseteq Sessions /\ mine \subseteq mine'
  BY <1>1, <1>3, CommandKeeps
<1>5. gaveUp BY DEF Tracked, OneSession
<1>6. OwnSessions' BY <1>1, <1>4 DEF Tracked, OwnSessions
<1>7. OneSession' BY <1>2, <1>5 DEF OneSession
<1>8. overlap' \in BOOLEAN /\ gaveUp' \in BOOLEAN BY <1>2 DEF TypeOK
<1>9. TypeOK' BY <1>1, <1>4, <1>8 DEF TypeOK
<1>10. EndedShares' BY <1>1, <1>2, <1>5 DEF EndedShares, Ending, Downloading, At, Ends
<1>11. DownloadServed' /\ ListingBacked' BY <1>1, <1>2, <1>5 DEF DownloadServed, ListingBacked
<1> QED BY <1>4, <1>6, <1>7, <1>9, <1>10, <1>11 DEF Tracked

(* What keeps the client's own state when only listings may go. *)
LEMMA OutsideStep ==
    ASSUME Inv, UNCHANGED <<session, shared, prompt, download, history>>, late' \subseteq late, Tracked',
           \A g \in Groups, f \in Files : Listed(g, f)' => Listed(g, f)
    PROVE  Inv'
<1> USE DEF Inv, Served
<1>1. UNCHANGED <<session, shared, prompt, download, mine>> BY DEF history
<1>2. overlap' = overlap /\ gaveUp' = gaveUp BY DEF history
<1>3. overlap' \in BOOLEAN /\ gaveUp' \in BOOLEAN BY <1>2 DEF TypeOK
<1>4. TypeOK' BY <1>1, <1>3 DEF TypeOK
<1>5. \A g, f : Ends(prompt, g, f)' <=> Ends(prompt, g, f) BY <1>1 DEF Ends
<1>6. Downloading(prompt)' <=> Downloading(prompt) BY <1>1 DEF Downloading, At, Ends
<1>7. EndedShares' BY <1>1, <1>2, <1>5, <1>6 DEF EndedShares, Ending
<1>8. DownloadServed' /\ ListingBacked' BY <1>1, <1>2 DEF DownloadServed, ListingBacked
<1> QED BY <1>4, <1>7, <1>8

(* A late request is lost. *)
LEMMA LoseLateStep ==
    ASSUME Inv, NEW r \in late, loseLate(r) PROVE Inv'
<1>1. /\ late' \subseteq late
      /\ UNCHANGED <<trackerVars, session, shared, prompt, download, history>>
  BY DEF loseLate
<1>2. UNCHANGED <<trackerVars, session, mine, gaveUp>> /\ seeders' = seeders
  BY <1>1 DEF history, trackerVars
<1>3. Tracked' BY <1>1, <1>2, SilentStep DEF Inv
<1>4. \A g \in Groups, f \in Files : Listed(g, f)' => Listed(g, f) BY <1>2 DEF Listed
<1> QED BY <1>1, <1>3, <1>4, OutsideStep

(* The other clients' commands and a restart end listings of this client only *)
(* with its sessions.                                                         *)
LEMMA OthersStep ==
    ASSUME Inv, others PROVE Inv'
<1>1. UNCHANGED <<session, shared, prompt, download, late, history>> BY DEF others
<1>2. mine' = mine /\ late' = late /\ session' = session BY <1>1 DEF history
<1>3. gaveUp' = gaveUp BY <1>1 DEF history
<1>4. mine \subseteq SessionIds /\ NoPeer # self /\ TrackerOK
  BY ClientAssumption DEF Inv, TypeOK, SessionIds, Tracked
<1>5. OwnSessions' BY <1>2 DEF Inv, Tracked, OwnSessions
<1>6. ASSUME NEW s \in SessionIds \ mine, Tracker!apply(s), reply'.session \notin mine,
             \A g \in Groups, f \in Files, u \in Users :
                seeders'[g][f][u] = self => seeders[g][f][u] = self
      PROVE  Inv'
  <2>1. Effect(s) BY <1>4, <1>6, ApplyEffect
  <2>2. TrackerOK' /\ Orderly(s) BY <1>4, <2>1, EffectOrderly
  <2>3. ASSUME NEW g \in Groups, NEW f \in Files, NEW u \in Users, seeders'[g][f][u] = self
        PROVE  \E x \in mine : sessions'[x] = u
    <3>1. PICK x \in mine : sessions[x] = u BY <1>6, <2>3 DEF Inv, Tracked, ListedOnOwnSession
    <3>2. u # NoUser BY ClientAssumption
    <3>3. sessions'[x] = u BY <1>4, <1>6, <2>2, <3>1, <3>2 DEF Orderly
    <3> QED BY <3>1, <3>3
  <2>4. ListedOnOwnSession' BY <1>2, <2>3 DEF ListedOnOwnSession
  <2>5. \A x \in mine : sessions[x] = NoUser => sessions'[x] = NoUser
    BY <1>4, <1>6, <2>2 DEF Orderly
  <2>6. OneSession' BY <1>2, <1>3, <2>5 DEF Inv, Tracked, OneSession
  <2>7. Tracked' BY <1>5, <2>2, <2>4, <2>6 DEF Tracked
  <2>8. \A g \in Groups, f \in Files : Listed(g, f)' => Listed(g, f) BY <1>6 DEF Listed
  <2> QED BY <1>1, <1>2, <2>7, <2>8, OutsideStep
<1>7. CASE Tracker!restart
  <2>1. /\ sessions' = [s \in SessionIds |-> NoUser]
        /\ metadata' = [g \in Groups |-> [f \in Files |-> NoContent]]
        /\ seeders' = [g \in Groups |-> [f \in Files |-> [u \in Users |-> NoPeer]]]
    BY <1>7 DEF Tracker!restart, Tracker!SessionIds, SessionIds, Tracker!NoSeeders
  <2>2. \A g \in Groups, f \in Files, u \in Users : seeders'[g][f][u] = NoPeer BY <2>1
  <2>3. NoSession \in SessionIds BY DEF SessionIds
  <2>4. TrackerOK' BY <2>1, <2>2, <2>3 DEF TrackerOK, Seeds
  <2>5. ListedOnOwnSession' BY <1>4, <2>2 DEF ListedOnOwnSession
  <2>6. OneSession' BY <1>2, <1>3, <1>4, <2>1 DEF Inv, Tracked, OneSession
  <2>7. Tracked' BY <1>5, <2>4, <2>5, <2>6 DEF Tracked
  <2>8. \A g \in Groups, f \in Files : Listed(g, f)' => Listed(g, f) BY <1>4, <2>2 DEF Listed
  <2> QED BY <1>1, <1>2, <2>7, <2>8, OutsideStep
<1> QED BY <1>6, <1>7 DEF others

-----------------------------------------------------------------------------
(* The theorems. *)

(* The client starts logged out, sharing nothing, with an empty tracker. *)
LEMMA InitInv == Init => Inv
<1> SUFFICES ASSUME Init PROVE Inv
  OBVIOUS
<1>1. /\ sessions = [s \in SessionIds |-> NoUser]
      /\ metadata = [g \in Groups |-> [f \in Files |-> NoContent]]
      /\ seeders = [g \in Groups |-> [f \in Files |-> [u \in Users |-> NoPeer]]]
  BY DEF Init, Tracker!Init, Tracker!Empty, Tracker!SessionIds, SessionIds, Tracker!NoSeeders
<1>2. /\ session = NoSession /\ shared = [g \in Groups |-> [f \in Files |-> "none"]]
      /\ prompt = Idle /\ download = [t \in Threads |-> NoDownload] /\ late = {} /\ mine = {}
  BY DEF Init
<1>3. overlap = FALSE /\ gaveUp = FALSE BY DEF Init
<1>4. \A g \in Groups, f \in Files, u \in Users : seeders[g][f][u] = NoPeer BY <1>1
<1>5. NoSession \in SessionIds /\ NoPeer # self BY ClientAssumption DEF SessionIds
<1>6. overlap \in BOOLEAN /\ gaveUp \in BOOLEAN BY <1>3, Zenon
<1>7. TypeOK BY <1>2, <1>5, <1>6 DEF TypeOK
<1>8. TrackerOK BY <1>1, <1>4, <1>5 DEF TrackerOK, Seeds
<1>9. OwnSessions /\ OneSession BY <1>2 DEF OwnSessions, OneSession
<1>10. ListedOnOwnSession BY <1>4, <1>5 DEF ListedOnOwnSession
<1>11. EndedShares /\ DownloadServed
  BY <1>2 DEF EndedShares, Ending, Idle, DownloadServed, NoDownload, Published
<1>12. ListingBacked BY <1>4, <1>5 DEF ListingBacked, Listed
<1> QED BY <1>7, <1>8, <1>9, <1>10, <1>11, <1>12 DEF Inv, Tracked, Served

(* Every listing of this client is on a live session the tracker made for it  *)
(* and, as long as requests are answered and no share is ended under a        *)
(* running download, served or about to be.                                   *)
THEOREM ListingsAccountedFor == Spec => []Inv
<1>1. Init => Inv BY InitInv
<1>2. Inv /\ [Next]_vars => Inv'
  <2> SUFFICES ASSUME Inv, [Next]_vars PROVE Inv'
    OBVIOUS
  <2>1. CASE UNCHANGED vars
    <3>1. UNCHANGED <<trackerVars, session, shared, prompt, download, history>> /\ late' \subseteq late
      BY <2>1 DEF vars, trackerVars, history
    <3>2. UNCHANGED <<trackerVars, session, mine, gaveUp>> /\ seeders' = seeders
      BY <2>1 DEF vars, trackerVars
    <3>3. Tracked' BY <3>1, <3>2, SilentStep DEF Inv
    <3>4. \A g \in Groups, f \in Files : Listed(g, f)' => Listed(g, f) BY <3>2 DEF Listed
    <3> QED BY <3>1, <3>3, <3>4, OutsideStep
  <2>2. CASE Next
    BY <2>2, ForwardStep, MirrorStep, UploadStep, AddUploadedStep, StartStep, ThreadSteps,
       ThreadRequestSteps, ApplyLateStep, LoseLateStep, OthersStep DEF Next, run
  <2> QED BY <2>1, <2>2
<1> QED BY <1>1, <1>2, PTL DEF Spec

(* The client's own state stays well typed. *)
THEOREM TypeCorrect == Spec => []TypeOK
<1>1. Inv => TypeOK BY DEF Inv
<1> QED BY <1>1, ListingsAccountedFor, PTL

(* Whenever this client is offered as a seeder, its user is logged in on a    *)
(* session made for this client: logout() takes the shares of every session   *)
(* of the user, and login() never reuses a live ID.                           *)
THEOREM ListedSessionsAreOwn == Spec => []ListedOnOwnSession
<1>1. Inv => ListedOnOwnSession BY DEF Inv, Tracked
<1> QED BY <1>1, ListingsAccountedFor, PTL

(* With the prompt idle and no download running, the tracker offers from this *)
(* client only what its peer server serves.                                   *)
THEOREM ListedSharesAreServed == Spec => []ListedIsServed
<1>1. Inv => ListedIsServed
  <2>1. Idle.op = "none" BY DEF Idle
  <2> QED BY <2>1 DEF Inv, Served, ListingBacked, ListedIsServed, Quiet
<1> QED BY <1>1, ListingsAccountedFor, PTL
=============================================================================
