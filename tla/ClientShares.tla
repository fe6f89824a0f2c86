---------------------------- MODULE ClientShares ----------------------------
(***************************************************************************)
(* One client process between the tracker and its peers: what it has the   *)
(* tracker list (tracker_client.cpp) against what its peer server offers   *)
(* (shared_files.cpp).  The prompt (client.cpp) and the download threads   *)
(* (download.cpp) all send requests and all change the shared files.       *)
(*                                                                         *)
(* TrackerClient's mutex makes a request, its reply and the new session    *)
(* one step; what the caller then does to SharedFiles is a later step.  A  *)
(* request may time out at the client and still be applied afterwards.     *)
(* The other clients are arbitrary commands on other sessions.             *)
(***************************************************************************)
EXTENDS Integers, FiniteSets

CONSTANTS
    Users, Passwords, Sessions, Groups, Files, Contents, Peers, Times, Lifetime,
    NoUser, NoPassword, NoSession, NoContent, NoPeer,
    Threads,    \* the download threads that may run at once
    self,       \* this process: its peer server and peer key
    MaxLate     \* bound: requests given up by the client that may still be applied

ASSUME ClientAssumption ==
    /\ self \in Peers /\ MaxLate \in Nat
    /\ NoUser \notin Users /\ NoSession \notin Sessions
    /\ NoContent \notin Contents /\ NoPeer \notin Peers

VARIABLES
    users, sessions, owner, members, pending, metadata, seeders, reply,   \* the tracker
    session,    \* session_
    shared,     \* SharedFiles: group -> file -> nothing, a .part file or a whole file
    prompt,     \* the answered command whose effect on SharedFiles is still to come
    download,   \* download thread -> where it is, and on what
    late,       \* requests given up and neither applied nor lost yet
    mine,       \* history: the session IDs the tracker made for this client
    overlap,    \* history: a share ended while a download of it was running
    gaveUp      \* history: some request got no answer

Tracker == INSTANCE TrackerState

trackerVars == <<users, sessions, owner, members, pending, metadata, seeders, reply>>
history == <<mine, overlap, gaveUp>>
vars == <<users, sessions, owner, members, pending, metadata, seeders, reply, session, shared,
          prompt, download, late, mine, overlap, gaveUp>>

SessionIds == Sessions \cup {NoSession}

(* The commands typed at the prompt that go to the tracker as they are, *)
Forwarded ==
    [op : {"create_user", "login"}, user : Users]
      \cup [op : {"logout", "list_groups"}]
      \cup [op : {"create_group", "join_group", "leave_group"}, group : Groups]
      \cup [op : {"accept_request", "remove_member"}, group : Groups, user : Users]
      \cup [op : {"stop_share"}, group : Groups, file : Files]

(* and the two that TrackerClient::share() and locate() build. *)
Shares == [op : {"upload_file"}, group : Groups, file : Files, content : Contents]
Locates == [op : {"download_file"}, group : Groups, file : Files]

Commands == Forwarded \cup Shares \cup Locates

Idle == [op |-> "none"]
NoDownload == [at |-> "off"]
Stages == {"prepare", "add", "share", "fetch", "reshare", "readd"}
Downloads == [at : Stages, group : Groups, file : Files, content : Contents]

Init ==
    /\ Tracker!Init
    /\ session = NoSession
    /\ shared = [g \in Groups |-> [f \in Files |-> "none"]]
    /\ prompt = Idle
    /\ download = [t \in Threads |-> NoDownload]
    /\ late = {}
    /\ mine = {}
    /\ overlap = FALSE
    /\ gaveUp = FALSE

-----------------------------------------------------------------------------
(* The tracker applies command k, sent with session ID s. *)
handle(s, k) ==
    \/ k.op = "create_user" /\ \E pw \in Passwords, saltOk \in BOOLEAN :
          Tracker!createUser(s, k.user, pw, saltOk)
    \/ k.op = "login" /\ \E pw \in Passwords \cup {NoPassword}, id \in SessionIds :
          Tracker!login(s, k.user, pw, id)
    \/ k.op = "logout" /\ Tracker!logout(s)
    \/ k.op = "list_groups" /\ Tracker!listGroups(s)
    \/ k.op = "create_group" /\ Tracker!createGroup(s, k.group)
    \/ k.op = "join_group" /\ Tracker!joinGroup(s, k.group)
    \/ k.op = "leave_group" /\ Tracker!leaveGroup(s, k.group)
    \/ k.op = "accept_request" /\ Tracker!acceptRequest(s, k.group, k.user)
    \/ k.op = "remove_member" /\ Tracker!removeMember(s, k.group, k.user)
    \/ k.op = "stop_share" /\ Tracker!stopShare(s, k.group, k.file)
    \/ k.op = "upload_file" /\ Tracker!uploadFile(s, k.group, k.file, k.content, self)
    \/ k.op = "download_file" /\ \E now \in Times, keyOk \in BOOLEAN :
          Tracker!downloadFile(s, k.group, k.file, now, keyOk)

Learn(id) == mine' = mine \cup ({id} \ {NoSession})

(* TrackerClient::request(): the reply's session replaces the stored one; *)
answered(k) ==
    /\ handle(session, k)
    /\ session' = reply'.session
    /\ Learn(reply'.session)
    /\ UNCHANGED <<late, gaveUp>>

(* without a reply the stored one stays, and the request may still arrive. *)
unanswered(k) ==
    /\ Cardinality(late) < MaxLate
    /\ late' = late \cup {[session |-> session, command |-> k]}
    /\ gaveUp' = TRUE
    /\ UNCHANGED <<trackerVars, session, mine>>

Accepted == reply'.status \in {"OK", "META"}

(* The shares that a successful stop_share, leave_group or logout ends. *)
Ends(k, g, f) ==
    \/ k.op = "logout"
    \/ k.op = "leave_group" /\ k.group = g
    \/ k.op = "stop_share" /\ k.group = g /\ k.file = f

At(t, stage) == download[t].at = stage
Goto(t, stage) == download' = [download EXCEPT ![t].at = stage]
End(t) == download' = [download EXCEPT ![t] = NoDownload]

Downloading(k) ==
    \E t \in Threads : ~At(t, "off") /\ Ends(k, download[t].group, download[t].file)

-----------------------------------------------------------------------------
(* Faulty variants, used only to show that the properties can fail. *)

(* SharedFiles is changed even when the tracker refused the command. *)
forwardToTracker_ignoresReply(k) ==
    /\ prompt = Idle
    /\ answered(k)
    /\ prompt' = IF k.op \in {"stop_share", "leave_group", "logout"} THEN k ELSE Idle
    /\ UNCHANGED <<shared, download, overlap>>

(* start() goes on although locate() failed, with the metadata it has not got. *)
start_ignoresReply(t, k) ==
    /\ prompt = Idle
    /\ At(t, "off")
    /\ \/ /\ answered(k)
          /\ download' = [download EXCEPT ![t] =
                 [at |-> "prepare", group |-> k.group, file |-> k.file,
                  content |-> metadata[k.group][k.file]]]
       \/ unanswered(k) /\ UNCHANGED download
    /\ UNCHANGED <<shared, prompt, overlap>>

-----------------------------------------------------------------------------
(* Client::forwardToTracker(), up to the reply. *)
forwardToTracker(k) ==
    /\ prompt = Idle
    /\ \/ /\ answered(k)
          /\ LET done == Accepted /\ k.op \in {"stop_share", "leave_group", "logout"}
             IN  /\ prompt' = IF done THEN k ELSE Idle
                 /\ overlap' = (overlap \/ (done /\ Downloading(k)))
       \/ unanswered(k) /\ UNCHANGED <<prompt, overlap>>
    /\ UNCHANGED <<shared, download>>

(* The rest of it: remove(), removeGroup() or clear(). *)
mirror ==
    /\ prompt.op \in {"stop_share", "leave_group", "logout"}
    /\ shared' = [g \in Groups |-> [f \in Files |->
                    IF Ends(prompt, g, f) THEN "none" ELSE shared[g][f]]]
    /\ prompt' = Idle
    /\ UNCHANGED <<trackerVars, session, download, late, history>>

(* Client::uploadFile(): the tracker first, *)
uploadFile(k) ==
    /\ prompt = Idle
    /\ \/ answered(k) /\ prompt' = IF Accepted THEN k ELSE Idle
       \/ unanswered(k) /\ UNCHANGED prompt
    /\ UNCHANGED <<shared, download, overlap>>

(* then, if it agreed, SharedFiles. *)
addUploaded ==
    /\ prompt.op = "upload_file"
    /\ shared' = [shared EXCEPT ![prompt.group][prompt.file] = "whole"]
    /\ prompt' = Idle
    /\ UNCHANGED <<trackerVars, session, download, late, history>>

-----------------------------------------------------------------------------
(* DownloadManager::start(): locate(), and a thread if the tracker agreed. *)
start(t, k) ==
    /\ prompt = Idle
    /\ At(t, "off")
    /\ \/ /\ answered(k)
          /\ IF Accepted
             THEN download' = [download EXCEPT ![t] =
                      [at |-> "prepare", group |-> k.group, file |-> k.file,
                       content |-> metadata[k.group][k.file]]]
             ELSE UNCHANGED download
       \/ unanswered(k) /\ UNCHANGED download
    /\ UNCHANGED <<shared, prompt, overlap>>

Share(t) == [op |-> "upload_file", group |-> download[t].group, file |-> download[t].file,
             content |-> download[t].content]

(* Download::run() ends at once when .part cannot be opened; *)
prepare(t) ==
    /\ At(t, "prepare")
    /\ Goto(t, "add") \/ End(t)
    /\ UNCHANGED <<trackerVars, session, shared, prompt, late, history>>

(* else it asks for bitmaps, publishes what .part holds, *)
addPart(t) ==
    /\ At(t, "add")
    /\ shared' = [shared EXCEPT ![download[t].group][download[t].file] = "part"]
    /\ Goto(t, "share")
    /\ UNCHANGED <<trackerVars, session, prompt, late, history>>

(* registers as a seeder, whatever the tracker says, *)
sharePart(t) ==
    /\ At(t, "share")
    /\ answered(Share(t)) \/ unanswered(Share(t))
    /\ Goto(t, "fetch")
    /\ UNCHANGED <<shared, prompt, overlap>>

(* seederAt(): asks for new tickets while fetching bitmaps and pieces, *)
renew(t) ==
    LET k == [op |-> "download_file", group |-> download[t].group, file |-> download[t].file]
    IN  /\ At(t, "add") \/ At(t, "fetch")
        /\ answered(k) \/ unanswered(k)
        /\ UNCHANGED <<shared, prompt, download, overlap>>

(* and ends: the file is in place, or the download failed or was cancelled. *)
fetched(t) ==
    /\ At(t, "fetch")
    /\ Goto(t, "reshare") \/ End(t)
    /\ UNCHANGED <<trackerVars, session, shared, prompt, late, history>>

(* complete(): tells the tracker again, whatever it says, *)
shareComplete(t) ==
    /\ At(t, "reshare")
    /\ answered(Share(t)) \/ unanswered(Share(t))
    /\ Goto(t, "readd")
    /\ UNCHANGED <<shared, prompt, overlap>>

(* and publishes the whole file. *)
addComplete(t) ==
    /\ At(t, "readd")
    /\ shared' = [shared EXCEPT ![download[t].group][download[t].file] = "whole"]
    /\ End(t)
    /\ UNCHANGED <<trackerVars, session, prompt, late, history>>

run(t) ==
    \/ prepare(t) \/ addPart(t) \/ sharePart(t) \/ renew(t) \/ fetched(t)
    \/ shareComplete(t) \/ addComplete(t)

-----------------------------------------------------------------------------
(* A request the client gave up on reaches TrackerState, or never does. *)
applyLate(r) ==
    /\ handle(r.session, r.command)
    /\ late' = late \ {r}
    /\ Learn(reply'.session)
    /\ UNCHANGED <<session, shared, prompt, download, overlap, gaveUp>>

loseLate(r) ==
    /\ late' = late \ {r}
    /\ UNCHANGED <<trackerVars, session, shared, prompt, download, history>>

(* Other clients use their own sessions (IDs are 63 random bits, so not one of *)
(* this client's) and announce their own peer servers; the tracker may restart. *)
(* Their commands that change nothing are left out.                             *)
others ==
    /\ \/ /\ \E s \in SessionIds \ mine : Tracker!apply(s)
          /\ <<users, sessions, owner, members, pending, metadata, seeders>>' #
                <<users, sessions, owner, members, pending, metadata, seeders>>
          /\ reply'.session \notin mine
          /\ \A g \in Groups, f \in Files, u \in Users :
                seeders'[g][f][u] = self => seeders[g][f][u] = self
       \/ Tracker!restart
    /\ UNCHANGED <<session, shared, prompt, download, late, history>>

Next ==
    \/ \E k \in Forwarded : forwardToTracker(k)
    \/ mirror
    \/ \E k \in Shares : uploadFile(k)
    \/ addUploaded
    \/ \E t \in Threads : (\E k \in Locates : start(t, k)) \/ run(t)
    \/ \E r \in late : applyLate(r) \/ loseLate(r)
    \/ others

Spec == Init /\ [][Next]_vars

-----------------------------------------------------------------------------
(* The types of the client's own state. *)
TypeOK ==
    /\ session \in SessionIds
    /\ shared \in [Groups -> [Files -> {"none", "part", "whole"}]]
    /\ prompt \in {Idle} \cup Commands
    /\ download \in [Threads -> {NoDownload} \cup Downloads]
    /\ late \subseteq [session : SessionIds, command : Commands]
    /\ mine \subseteq Sessions
    /\ overlap \in BOOLEAN /\ gaveUp \in BOOLEAN

Listed(g, f) == \E u \in Users : seeders[g][f][u] = self
Quiet == prompt = Idle /\ \A t \in Threads : At(t, "off")

(* Whenever this client is offered as a seeder, the user it is offered under  *)
(* is logged in on a session the tracker made for this client: no late        *)
(* request, lost reply, second session or restart leaves it listed after all  *)
(* of its sessions of that user have ended.                                   *)
ListedOnOwnSession ==
    \A g \in Groups, f \in Files, u \in Users :
        seeders[g][f][u] = self => \E s \in mine : sessions[s] = u

(* With the prompt idle and no download running, everything the tracker       *)
(* offers from this client is really served by it, unless a request went      *)
(* unanswered or a share was ended while its download was running.            *)
ListedIsServed ==
    Quiet /\ ~gaveUp /\ ~overlap =>
        \A g \in Groups, f \in Files : Listed(g, f) => shared[g][f] # "none"

(* PROJECT.md says of logout that it stops sharing all files: once it is      *)
(* done, and until the next login, the peer server offers none.               *)
LogoutStopsSharing ==
    prompt = Idle /\ session = NoSession /\ ~gaveUp =>
        \A g \in Groups, f \in Files : shared[g][f] = "none"
=============================================================================
