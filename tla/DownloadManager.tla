-------------------------- MODULE DownloadManager ---------------------------
(***************************************************************************)
(* Several downloads of one client (client/download/download_manager.cpp): *)
(* the prompt starts and cancels them and shuts the client down, each runs *)
(* on a thread of its own, and all of them publish what they hold through  *)
(* one SharedFiles entry per file name, from which the peer server's       *)
(* threads read.  What one download does inside fetchPieces() is in        *)
(* Download; here a worker's write and the following markAvailable() are   *)
(* two steps, by any number of workers.                                    *)
(***************************************************************************)
EXTENDS Naturals, Sequences

CONSTANTS
    Names,          \* the group's files
    Dests,          \* the destinations the user types
    Pieces,         \* the piece indices, the same for every file
    Handlers,       \* the peer server's connection threads
    MaxDownloads,   \* bound: how many downloads are started
    NoFile, NoEntry, NoData

(* The absence of a file is no content of one. *)
ASSUME NoFileAssumption == NoFile \notin [Pieces -> Names \cup {NoData}]

VARIABLES
    disk,       \* path -> NoFile, or for every piece the file whose bytes it holds
    shared,     \* SharedFiles: name -> path and available pieces, or NoEntry
    downloads,  \* downloads_ with the state of each download's thread
    prompt,     \* where the prompt thread is, with start()'s arguments
    handler,    \* peer server thread -> its step and its copy of an entry
    mixed       \* history: names whose downloads overlapped or whose destination was reused

vars == <<disk, shared, downloads, prompt, handler, mixed>>

Own(n) == <<"own", n>>       \* the copy the user uploads
Part(d) == <<"part", d>>     \* <destination>.part
Final(d) == <<"final", d>>   \* <destination>
Paths == ({"own"} \X Names) \cup ({"part", "final"} \X Dests)

Whole(n) == [p \in Pieces |-> n]
Blank == [p \in Pieces |-> NoData]
Entries == [path : Paths, available : SUBSET Pieces]

Ready == [at |-> "ready"]
Idle == [at |-> "idle"]

Init ==
    /\ disk = [f \in Paths |-> IF f[1] = "own" THEN Whole(f[2]) ELSE NoFile]
    /\ shared = [n \in Names |-> NoEntry]
    /\ downloads = <<>>
    /\ prompt = Ready
    /\ handler = [h \in Handlers |-> Idle]
    /\ mixed = {}

Started == DOMAIN downloads
finished(i) == downloads[i].at = "done"

-----------------------------------------------------------------------------
(* Faulty variants, used only to show that the properties can fail. *)

(* A piece is marked in an entry that was removed meanwhile. *)
markAvailable_unchecked(n, p) ==
    shared' = [shared EXCEPT ![n] = IF @ = NoEntry THEN [path |-> NoEntry, available |-> {p}]
                                    ELSE [path |-> @.path, available |-> @.available \cup {p}]]

(* Whatever an old .part file holds is taken to be verified. *)
matching_unhashed(file, n) == IF file = NoFile THEN {} ELSE Pieces

(* start() takes a download that was cancelled for one that is over. *)
beingDownloaded_cancelledIsOver(d) ==
    \E i \in Started : ~finished(i) /\ ~downloads[i].cancelled /\ downloads[i].dest = d

(* The destructor waits only for downloads that were not cancelled. *)
joined_uncancelled == \A i \in Started : finished(i) \/ downloads[i].cancelled

(* run() waits for every piece although cancelled workers have left. *)
workersDone_allPieces(i) ==
    downloads[i].unmarked = {} /\ downloads[i].verified = Pieces

-----------------------------------------------------------------------------
(* SharedFiles; every method is one step, under its lock. *)

add(n, path, available) ==
    shared' = [shared EXCEPT ![n] = [path |-> path, available |-> available]]

markAvailable(n, p) ==
    shared' = [shared EXCEPT ![n] = IF @ = NoEntry THEN NoEntry
                                    ELSE [path |-> @.path, available |-> @.available \cup {p}]]

(* The prompt's upload_file, once the tracker has agreed, and its stop_share *)
(* (leave_group and logout remove more names in the same way).               *)
upload(n) ==
    /\ prompt = Ready
    /\ add(n, Own(n), Pieces)
    /\ UNCHANGED <<disk, downloads, prompt, handler, mixed>>

stopShare(n) ==
    /\ prompt = Ready
    /\ shared' = [shared EXCEPT ![n] = NoEntry]
    /\ UNCHANGED <<disk, downloads, prompt, handler, mixed>>

-----------------------------------------------------------------------------
(* The prompt. *)

beingDownloaded(d) == \E i \in Started : ~finished(i) /\ downloads[i].dest = d

(* start(): a destination that exists is refused, *)
checkExists(n, d) ==
    /\ prompt = Ready
    /\ Len(downloads) < MaxDownloads
    /\ disk[Final(d)] = NoFile
    /\ prompt' = [at |-> "start", name |-> n, dest |-> d]
    /\ UNCHANGED <<disk, shared, downloads, handler, mixed>>

(* then, under mutex_, one that an unfinished download has. *)
checkList ==
    /\ prompt.at = "start"
    /\ ~beingDownloaded(prompt.dest)
    /\ prompt' = [prompt EXCEPT !.at = "locate"]
    /\ UNCHANGED <<disk, shared, downloads, handler, mixed>>

(* An unfinished download has it, or locate() fails. *)
refuse ==
    /\ \/ prompt.at = "start" /\ beingDownloaded(prompt.dest)
       \/ prompt.at = "locate"
    /\ prompt' = Ready
    /\ UNCHANGED <<disk, shared, downloads, handler, mixed>>

(* mutex_ is free while the tracker answers; with the answer the download is *)
(* added, without another look at the list or the disk, and gets its thread. *)
(* From then on two unfinished downloads of a name use one entry; a .part    *)
(* file left by another name is overwritten; and so is a file that appeared  *)
(* at the destination since checkExists.                                     *)
start ==
    /\ prompt.at = "locate"
    /\ downloads' = Append(downloads, [name |-> prompt.name, dest |-> prompt.dest,
                                       at |-> "prepare", cancelled |-> FALSE,
                                       verified |-> {}, unmarked |-> {}])
    /\ mixed' = mixed \cup
          {downloads[i].name : i \in {j \in Started :
              \/ downloads[j].name = prompt.name /\ ~finished(j)
              \/ /\ downloads[j].dest = prompt.dest
                 /\ downloads[j].name # prompt.name \/ disk[Final(prompt.dest)] # NoFile}}
    /\ prompt' = Ready
    /\ UNCHANGED <<disk, shared, handler>>

(* cancel(): the most recent unfinished download with the name. *)
cancel(n) ==
    LET named == {i \in Started : downloads[i].name = n /\ ~finished(i)}
    IN  /\ prompt = Ready
        /\ \E last \in named :
              /\ \A j \in named : j <= last
              /\ downloads' = [downloads EXCEPT ![last].cancelled = TRUE]
        /\ UNCHANGED <<disk, shared, prompt, handler, mixed>>

(* quit: ~DownloadManager() cancels every download, *)
quit ==
    /\ prompt = Ready
    /\ downloads' = [i \in Started |-> [downloads[i] EXCEPT !.cancelled = TRUE]]
    /\ prompt' = [at |-> "joining"]
    /\ UNCHANGED <<disk, shared, handler, mixed>>

joined == \A i \in Started : finished(i)

(* joins their threads, and only then ~PeerServer() calls stop(), *)
joinDownloads ==
    /\ prompt.at = "joining"
    /\ joined
    /\ prompt' = [at |-> "stopping"]
    /\ UNCHANGED <<disk, shared, downloads, handler, mixed>>

(* which the accept loop notices after its last poll(); *)
noticeStop ==
    /\ prompt.at = "stopping"
    /\ prompt' = [at |-> "draining"]
    /\ UNCHANGED <<disk, shared, downloads, handler, mixed>>

(* it waits for its threads, after which SharedFiles is destroyed. *)
stopServer ==
    /\ prompt.at = "draining"
    /\ \A h \in Handlers : handler[h] = Idle
    /\ prompt' = [at |-> "gone"]
    /\ UNCHANGED <<disk, shared, downloads, handler, mixed>>

-----------------------------------------------------------------------------
(* Download number i's thread and workers. *)

At(i, step) == downloads[i].at = step
Goto(i, step) == downloads' = [downloads EXCEPT ![i].at = step]
openForWriting(file) == IF file = NoFile THEN Blank ELSE file
matching(file, n) == {p \in Pieces : file # NoFile /\ file[p] = n}
torn(bytes, n) == IF bytes = n THEN n ELSE NoData
workersDone(i) == downloads[i].unmarked = {}

(* Opens .part and finds the pieces already there; one that cannot be read   *)
(* counts as missing.  An open may fail after it created the file.           *)
prepare(i) ==
    LET part == Part(downloads[i].dest)
        opened == [disk EXCEPT ![part] = openForWriting(@)]
    IN  /\ At(i, "prepare")
        /\ \/ /\ disk' = opened
              /\ \E V \in SUBSET matching(disk[part], downloads[i].name) :
                    downloads' = [downloads EXCEPT ![i].at = "publish", ![i].verified = V]
           \/ disk' \in {disk, opened} /\ Goto(i, "done")
        /\ UNCHANGED <<shared, prompt, handler, mixed>>

(* Replaces whatever entry the name had by the pieces found. *)
publishPartial(i) ==
    /\ At(i, "publish")
    /\ add(downloads[i].name, Part(downloads[i].dest), downloads[i].verified)
    /\ Goto(i, "fetch")
    /\ UNCHANGED <<disk, prompt, handler, mixed>>

(* A worker has a piece that matches its hash and writes it; one that was    *)
(* past its look at cancelled_ does so even after a cancel.  A failed write  *)
(* spoils the piece, unless the same bytes were there before.                *)
write(i, p) ==
    /\ At(i, "fetch")
    /\ p \notin downloads[i].verified
    /\ \/ /\ disk' = [disk EXCEPT ![Part(downloads[i].dest)][p] = downloads[i].name]
          /\ downloads' = [downloads EXCEPT ![i].verified = @ \cup {p},
                                            ![i].unmarked = @ \cup {p}]
       \/ /\ disk' = [disk EXCEPT ![Part(downloads[i].dest)][p] = torn(@, downloads[i].name)]
          /\ UNCHANGED downloads
    /\ UNCHANGED <<shared, prompt, handler, mixed>>

markVerified(i, p) ==
    /\ At(i, "fetch")
    /\ p \in downloads[i].unmarked
    /\ markAvailable(downloads[i].name, p)
    /\ downloads' = [downloads EXCEPT ![i].unmarked = @ \ {p}]
    /\ UNCHANGED <<disk, prompt, handler, mixed>>

(* The workers have ended: cancelled, a piece could not be had, or all there. *)
joinWorkers(i) ==
    /\ At(i, "fetch")
    /\ workersDone(i)
    /\ Goto(i, IF downloads[i].cancelled \/ downloads[i].verified # Pieces
               THEN "done" ELSE "hash")
    /\ UNCHANGED <<disk, shared, prompt, handler, mixed>>

(* The whole file's hash; it is wrong, or the file cannot be read, or goes on. *)
checkHash(i) ==
    LET part == disk[Part(downloads[i].dest)]
    IN  /\ At(i, "hash")
        /\ \/ part = Whole(downloads[i].name) /\ Goto(i, "rename")
           \/ Goto(i, "done")
        /\ UNCHANGED <<disk, shared, prompt, handler, mixed>>

(* rename() replaces a file that is at the destination. *)
rename(i) ==
    LET d == downloads[i].dest
    IN  /\ At(i, "rename")
        /\ \/ /\ disk' = [disk EXCEPT ![Final(d)] = disk[Part(d)], ![Part(d)] = NoFile]
              /\ Goto(i, "seed")
           \/ Goto(i, "done") /\ UNCHANGED disk
        /\ UNCHANGED <<shared, prompt, handler, mixed>>

publishComplete(i) ==
    /\ At(i, "seed")
    /\ add(downloads[i].name, Final(downloads[i].dest), Pieces)
    /\ Goto(i, "done")
    /\ UNCHANGED <<disk, prompt, handler, mixed>>

run(i) ==
    \/ prepare(i) \/ publishPartial(i) \/ joinWorkers(i)
    \/ checkHash(i) \/ rename(i) \/ publishComplete(i)
    \/ \E p \in Pieces : markVerified(i, p)

-----------------------------------------------------------------------------
(* A thread of the peer server has a connection; there are no new ones once  *)
(* it has noticed stop() (see TcpServer).                                    *)
accept(h) ==
    /\ handler[h] = Idle
    /\ prompt.at \notin {"draining", "gone"}
    /\ handler' = [handler EXCEPT ![h] = [at |-> "open"]]
    /\ UNCHANGED <<disk, shared, downloads, prompt, mixed>>

(* The client sends nothing in time, or is denied. *)
deny(h) ==
    /\ handler[h].at = "open"
    /\ handler' = [handler EXCEPT ![h] = Idle]
    /\ UNCHANGED <<disk, shared, downloads, prompt, mixed>>

(* PeerServer::respond() to a GET: a copy of the entry is taken, *)
find(h, n, p) ==
    /\ handler[h].at = "open"
    /\ shared[n] # NoEntry
    /\ p \in shared[n].available
    /\ handler' = [handler EXCEPT ![h] = [at |-> "read", name |-> n, piece |-> p,
                                          path |-> shared[n].path]]
    /\ UNCHANGED <<disk, shared, downloads, prompt, mixed>>

(* and the file it names is opened later, and may be gone; what is read is    *)
(* sent.                                                                      *)
read(h) ==
    /\ handler[h].at = "read"
    /\ handler' = [handler EXCEPT ![h] = Idle]
    /\ UNCHANGED <<disk, shared, downloads, prompt, mixed>>

respond(h) == deny(h) \/ read(h)

-----------------------------------------------------------------------------
destroy == joinDownloads \/ noticeStop \/ stopServer

Next ==
    \/ \E n \in Names : upload(n) \/ stopShare(n) \/ cancel(n)
    \/ \E n \in Names, d \in Dests : checkExists(n, d)
    \/ checkList \/ refuse \/ start \/ quit \/ destroy
    \/ \E i \in Started : run(i) \/ \E p \in Pieces : write(i, p)
    \/ \E h \in Handlers : accept(h) \/ respond(h) \/ \E n \in Names, p \in Pieces : find(h, n, p)

Spec == Init /\ [][Next]_vars

(* Threads are scheduled and their sockets time out, but no peer need ever   *)
(* send a piece: a write is not fair.                                        *)
FairSpec ==
    /\ Spec
    /\ WF_vars(destroy)
    /\ \A i \in 1 .. MaxDownloads : WF_vars(i \in Started /\ run(i))
    /\ \A h \in Handlers : WF_vars(respond(h))

-----------------------------------------------------------------------------
(* Types: an entry names a path and the pieces available there, and every    *)
(* download is in one of the stages of run().                                *)
TypeOK ==
    /\ disk \in [Paths -> {NoFile} \cup [Pieces -> Names \cup {NoData}]]
    /\ shared \in [Names -> {NoEntry} \cup Entries]
    /\ downloads \in Seq([name : Names, dest : Dests, cancelled : BOOLEAN,
                          at : {"prepare", "publish", "fetch", "hash", "rename", "seed", "done"},
                          verified : SUBSET Pieces, unmarked : SUBSET Pieces])
    /\ prompt.at \in {"ready", "start", "locate", "joining", "stopping", "draining",
                     "gone"}
    /\ \A h \in Handlers : handler[h].at \in {"idle", "open", "read"}
    /\ mixed \subseteq Names

(* Two threads never write one .part file.  start() looks at the list under   *)
(* mutex_, releases it, asks the tracker, and adds the download later without *)
(* a second look; running downloads write, rename and end meanwhile, a        *)
(* cancelled one goes on until its workers have left, and a new one may be    *)
(* for a destination used before.  Still unfinished downloads always have     *)
(* different destinations, because only the prompt adds to the list.          *)
OneWriterPerPart ==
    \A i, j \in Started : i # j /\ ~finished(i) /\ ~finished(j) =>
        downloads[i].dest # downloads[j].dest

(* The peer server sends a piece's own bytes although it reads the file after *)
(* releasing the lock on the entry, while downloads write, rename, end and    *)
(* start over.  Exempt are names whose downloads overlapped, or whose         *)
(* destination was used again for another file: for them EntryVerified fails. *)
SentVerified ==
    [][\A h \in Handlers :
          LET asked == handler[h]
          IN  asked.at = "read" /\ handler'[h] = Idle /\ disk[asked.path] # NoFile =>
                  disk[asked.path][asked.piece] = asked.name \/ asked.name \in mixed]_vars

(* No thread uses SharedFiles once the client has destroyed it. *)
NothingOutlivesClient ==
    prompt.at = "gone" =>
        /\ \A i \in Started : finished(i)
        /\ \A h \in Handlers : handler[h] = Idle

(* quit ends: the destructors cancel and join every download, wherever it is, *)
(* then the peer server.                                                      *)
QuitReturns == prompt.at = "joining" ~> prompt.at = "gone"

(* local_file.hpp says of available[i] that piece i is on disk and verified. *)
EntryVerified ==
    \A n \in {m \in Names : shared[m] # NoEntry} :
        LET file == disk[shared[n].path]
        IN  file # NoFile => \A p \in shared[n].available : file[p] = n
=============================================================================
