----------------------- MODULE DownloadManagerProofs ------------------------
(***************************************************************************)
(* What the download manager promises for any number of files,             *)
(* destinations, downloads and peer server threads: that a .part file has  *)
(* one writer, that nothing outlives the client, and that the peer server  *)
(* sends a piece's own bytes although it reads the file long after it      *)
(* looked at the entry.                                                    *)
(***************************************************************************)
EXTENDS DownloadManager, SequenceTheorems, TLAPS

Steps == {"prepare", "publish", "fetch", "hash", "rename", "seed", "done"}
Download == [name : Names, dest : Dests, cancelled : BOOLEAN, at : Steps,
             verified : SUBSET Pieces, unmarked : SUBSET Pieces]
File == [Pieces -> Names \cup {NoData}]

-----------------------------------------------------------------------------
(* The inductive invariant. *)

Types ==
    /\ disk \in [Paths -> {NoFile} \cup File]
    /\ shared \in [Names -> {NoEntry} \cup Entries]
    /\ downloads \in Seq(Download)
    /\ mixed \subseteq Names

PromptTypes ==
    /\ prompt.at \in {"ready", "start", "locate", "joining", "stopping", "draining",
                     "gone"}
    /\ prompt.at \in {"start", "locate"} =>
          prompt \in [at : {"start", "locate"}, name : Names, dest : Dests]

HandlerTypes ==
    /\ DOMAIN handler = Handlers
    /\ \A h \in Handlers :
         /\ handler[h].at \in {"idle", "open", "read"}
         /\ handler[h].at = "read" => /\ handler[h].name \in Names
                                      /\ handler[h].piece \in Pieces
                                      /\ handler[h].path \in Paths

(* The downloads to one destination follow one another, and only the last     *)
(* one's name is not mixed if they are for different files.                   *)
Serial ==
    \A i, j \in Started : i < j /\ downloads[i].dest = downloads[j].dest =>
        /\ finished(i)
        /\ downloads[i].name # downloads[j].name => downloads[i].name \in mixed

(* What start() saw in the list still holds when it adds the new download:    *)
(* the downloads there may end meanwhile, but none is added and none resumes. *)
Cleared == prompt.at = "locate" => ~beingDownloaded(prompt.dest)

(* Overlapping downloads of one name are accounted for, *)
Overlaps ==
    \A i, j \in Started : i # j /\ downloads[i].name = downloads[j].name
                            /\ ~finished(i) /\ ~finished(j) => downloads[i].name \in mixed

(* and so is a second download to where a first one's file is. *)
Retries ==
    \A i, j \in Started :
        /\ i < j /\ downloads[i].dest = downloads[j].dest
        /\ At(j, "prepare") /\ downloads[i].name \notin mixed
        => disk[Final(downloads[j].dest)] = NoFile

(* What a download knows about its files. *)
PartKnown(i) ==
    /\ downloads[i].at \in {"publish", "fetch", "hash", "rename"} =>
         /\ disk[Part(downloads[i].dest)] # NoFile
         /\ \A p \in downloads[i].verified :
              disk[Part(downloads[i].dest)][p] = downloads[i].name
    /\ At(i, "rename") => disk[Part(downloads[i].dest)] = Whole(downloads[i].name)
    /\ At(i, "seed") => disk[Final(downloads[i].dest)] = Whole(downloads[i].name)
    /\ downloads[i].unmarked \subseteq downloads[i].verified
    /\ downloads[i].at \in {"prepare", "publish"} => downloads[i].unmarked = {}
    /\ At(i, "prepare") => downloads[i].verified = {}

FilesKnown ==
    /\ \A n \in Names : disk[Own(n)] = Whole(n)
    /\ \A i \in Started : PartKnown(i)

(* While a download fetches, the entry of its name is the one it published,   *)
(* or one the user made since.                                                *)
EntryMine ==
    \A i \in Started :
        LET n == downloads[i].name
        IN  downloads[i].at \in {"fetch", "hash", "rename", "seed"} /\ n \notin mixed
              /\ shared[n] # NoEntry =>
                shared[n].path \in {Own(n), Part(downloads[i].dest)}

(* The pieces A of file n can be had at the path, now and until the last      *)
(* reader is done with it: download j left them there, and later ones to the  *)
(* same destination are for the same file and write only the same bytes.      *)
InPart(d, n, A) ==
    IF disk[Part(d)] = NoFile THEN disk[Final(d)] # NoFile
    ELSE \A p \in A : disk[Part(d)][p] = n

LeftBy(j, n, path, A) ==
    /\ downloads[j].name = n
    /\ \/ path = Final(downloads[j].dest) /\ disk[path] = Whole(n)
       \/ /\ path = Part(downloads[j].dest)
          /\ downloads[j].at \notin {"prepare", "publish"}
          /\ InPart(downloads[j].dest, n, A)

Served(n, path, A) == path = Own(n) \/ \E j \in Started : LeftBy(j, n, path, A)

EntriesServed ==
    \A n \in Names \ mixed, path \in Paths, A \in SUBSET Pieces :
        shared[n] # NoEntry /\ shared[n].path = path /\ shared[n].available = A =>
            Served(n, path, A)

CopiesServed ==
    \A h \in Handlers, n \in Names \ mixed, path \in Paths, p \in Pieces :
        /\ handler[h].at = "read" /\ handler[h].name = n
        /\ handler[h].path = path /\ handler[h].piece = p
        => Served(n, path, {p})

(* The order in which the client is taken down. *)
TakenDown ==
    /\ prompt.at \in {"stopping", "draining", "gone"} => \A i \in Started : finished(i)
    /\ prompt.at = "gone" => \A h \in Handlers : handler[h] = Idle

Safe == Types /\ PromptTypes /\ HandlerTypes /\ Cleared /\ TakenDown
Known == Serial /\ Overlaps /\ Retries /\ FilesKnown
Inv == Safe /\ Known /\ EntryMine /\ EntriesServed /\ CopiesServed

-----------------------------------------------------------------------------
(* Paths and lists. *)

(* The paths of own copies, .part files and destinations are all different. *)
LEMMA PathsDiffer ==
    ASSUME NEW n \in Names, NEW d \in Dests, NEW e \in Dests
    PROVE  /\ Own(n) \in Paths /\ Part(d) \in Paths /\ Final(d) \in Paths
           /\ Part(d) # Own(n) /\ Final(d) # Own(n) /\ Part(d) # Final(e)
           /\ Part(d) = Part(e) => d = e
           /\ Final(d) = Final(e) => d = e
  BY DEF Own, Part, Final, Paths

(* A download's fields have their types. *)
LEMMA Fields ==
    ASSUME Types, NEW i \in Started
    PROVE  /\ downloads[i] \in Download
           /\ downloads[i].name \in Names /\ downloads[i].dest \in Dests
           /\ downloads[i].at \in Steps
           /\ downloads[i].verified \in SUBSET Pieces /\ downloads[i].unmarked \in SUBSET Pieces
<1>1. Started = 1 .. Len(downloads) BY DEF Types, Started
<1>2. downloads[i] \in Download BY <1>1 DEF Types
<1> QED BY <1>2 DEF Download

(* Setting the fields of one download leaves the others alone. *)
LEMMA OneChanges ==
    ASSUME Types, NEW i \in Started, NEW e \in Download,
           downloads' = [downloads EXCEPT ![i] = e]
    PROVE  /\ downloads' \in Seq(Download)
           /\ Started' = Started
           /\ downloads'[i] = e
           /\ \A j \in Started : j # i => downloads'[j] = downloads[j]
<1>1. Started = 1 .. Len(downloads) /\ downloads \in Seq(Download) BY DEF Types, Started
<1>2. /\ downloads' \in Seq(Download) /\ Len(downloads') = Len(downloads)
      /\ \A j \in 1 .. Len(downloads) : downloads'[j] = IF j = i THEN e ELSE downloads[j]
  BY <1>1, ExceptSeq
<1>3. Started' = 1 .. Len(downloads') BY <1>2 DEF Started
<1> QED BY <1>1, <1>2, <1>3

(* What a step of download i's threads may do with the list: move i on, and   *)
(* change its sets of pieces.                                                 *)
Moves(i, step, V, U) ==
    /\ downloads' \in Seq(Download)
    /\ Started' = Started
    /\ downloads'[i].name = downloads[i].name /\ downloads'[i].dest = downloads[i].dest
    /\ downloads'[i].at = step
    /\ downloads'[i].verified = V /\ downloads'[i].unmarked = U
    /\ \A j \in Started : j # i => downloads'[j] = downloads[j]
    /\ mixed' = mixed

(* Setting only the stage. *)
LEMMA GotoMoves ==
    ASSUME Types, NEW i \in Started, NEW step \in Steps, Goto(i, step), mixed' = mixed
    PROVE  Moves(i, step, downloads[i].verified, downloads[i].unmarked)
<1> DEFINE e == [downloads[i] EXCEPT !.at = step]
<1>1. downloads' = [downloads EXCEPT ![i] = e] BY DEF Goto
<1>2. /\ e \in Download /\ e.at = step /\ e.verified = downloads[i].verified
      /\ e.name = downloads[i].name /\ e.dest = downloads[i].dest
      /\ e.unmarked = downloads[i].unmarked
  BY Fields DEF Download
<1> HIDE DEF e
<1> QED BY <1>1, <1>2, OneChanges DEF Moves

(* prepare(), when it can open the file. *)
LEMMA PrepareMoves ==
    ASSUME Types, NEW i \in Started, NEW V \in SUBSET Pieces, mixed' = mixed,
           downloads' = [downloads EXCEPT ![i].at = "publish", ![i].verified = V]
    PROVE  Moves(i, "publish", V, downloads[i].unmarked)
<1> DEFINE e == [downloads[i] EXCEPT !.at = "publish", !.verified = V]
<1>1. downloads' = [downloads EXCEPT ![i] = e] OBVIOUS
<1>2. /\ e \in Download /\ e.at = "publish" /\ e.verified = V
      /\ e.name = downloads[i].name /\ e.dest = downloads[i].dest
      /\ e.unmarked = downloads[i].unmarked
  BY Fields DEF Download, Steps
<1> HIDE DEF e
<1> QED BY <1>1, <1>2, OneChanges DEF Moves

(* write(), when the disk takes the piece. *)
LEMMA WriteMoves ==
    ASSUME Types, NEW i \in Started, NEW p \in Pieces, mixed' = mixed,
           downloads' = [downloads EXCEPT ![i].verified = @ \cup {p}, ![i].unmarked = @ \cup {p}]
    PROVE  Moves(i, downloads[i].at, downloads[i].verified \cup {p},
                 downloads[i].unmarked \cup {p})
<1> DEFINE V == downloads[i].verified \cup {p}
           U == downloads[i].unmarked \cup {p}
           e == [downloads[i] EXCEPT !.verified = V, !.unmarked = U]
<1>1. downloads' = [downloads EXCEPT ![i] = e] OBVIOUS
<1>2. V \in SUBSET Pieces /\ U \in SUBSET Pieces BY Fields
<1> HIDE DEF V, U
<1>3. /\ e \in Download /\ e.at = downloads[i].at /\ e.verified = V /\ e.unmarked = U
      /\ e.name = downloads[i].name /\ e.dest = downloads[i].dest
  BY <1>2, Fields DEF Download
<1> HIDE DEF e
<1>4. Moves(i, downloads[i].at, V, U) BY <1>1, <1>3, OneChanges DEF Moves
<1> QED BY <1>4 DEF V, U

(* markVerified(). *)
LEMMA MarkMoves ==
    ASSUME Types, NEW i \in Started, NEW p \in Pieces, mixed' = mixed,
           downloads' = [downloads EXCEPT ![i].unmarked = @ \ {p}]
    PROVE  Moves(i, downloads[i].at, downloads[i].verified, downloads[i].unmarked \ {p})
<1> DEFINE U == downloads[i].unmarked \ {p}
           e == [downloads[i] EXCEPT !.unmarked = U]
<1>1. downloads' = [downloads EXCEPT ![i] = e] OBVIOUS
<1>2. U \in SUBSET Pieces BY Fields
<1> HIDE DEF U
<1>3. /\ e \in Download /\ e.at = downloads[i].at /\ e.unmarked = U
      /\ e.verified = downloads[i].verified
      /\ e.name = downloads[i].name /\ e.dest = downloads[i].dest
  BY <1>2, Fields DEF Download
<1> HIDE DEF e
<1>4. Moves(i, downloads[i].at, downloads[i].verified, U) BY <1>1, <1>3, OneChanges DEF Moves
<1> QED BY <1>4 DEF U

-----------------------------------------------------------------------------
(* A step of one download keeps what the others and their readers rely on. *)

(* The step of a download touches only its own two files. *)
OwnFilesOnly(i) ==
    \A f \in Paths : f \notin {Part(downloads[i].dest), Final(downloads[i].dest)} =>
        disk'[f] = disk[f]

(* A destination has one unfinished download, and it is the last one. *)
LEMMA LastOfDest ==
    ASSUME Types, Serial, NEW i \in Started, NEW j \in Started, i # j, ~finished(i),
           downloads[i].dest = downloads[j].dest
    PROVE  j < i /\ finished(j)
<1>1. Started \subseteq Nat BY DEF Types, Started
<1> QED BY <1>1 DEF Serial

(* Nothing that is known of the other downloads is disturbed. *)
LEMMA KnownKept ==
    ASSUME Types, Known, NEW i \in Started, ~finished(i),
           NEW step \in Steps \ {"prepare"}, NEW V, NEW U, Moves(i, step, V, U),
           OwnFilesOnly(i), PartKnown(i)'
    PROVE  Known'
<1> USE DEF Known
<1>0. Started' = Started /\ Started \subseteq Nat BY DEF Moves, Types, Started
<1>1. Serial'
  BY <1>0, LastOfDest DEF Moves, Serial, finished
<1>2. Overlaps'
  BY <1>0 DEF Moves, Overlaps, finished
<1>3. Retries'
  <2> SUFFICES ASSUME NEW k \in Started, NEW j \in Started, k < j,
                      downloads'[k].dest = downloads'[j].dest, downloads'[j].at = "prepare",
                      downloads'[k].name \notin mixed'
               PROVE  disk'[Final(downloads'[j].dest)] = NoFile
    BY <1>0 DEF Retries, At
  <2>1. j # i /\ downloads'[j] = downloads[j] /\ ~finished(j)
    BY DEF Moves, finished
  <2>2. downloads[j].dest # downloads[i].dest
    BY <2>1, LastOfDest
  <2>3. downloads[k].dest = downloads[j].dest /\ downloads[k].name \notin mixed
    BY <2>1 DEF Moves
  <2>4. disk[Final(downloads[j].dest)] = NoFile
    BY <2>1, <2>3 DEF Retries, At
  <2>5. disk'[Final(downloads[j].dest)] = disk[Final(downloads[j].dest)]
    BY <2>2, Fields, PathsDiffer DEF OwnFilesOnly
  <2> QED BY <2>1, <2>4, <2>5
<1>4. \A n \in Names : disk'[Own(n)] = Whole(n)
  BY Fields, PathsDiffer DEF OwnFilesOnly, FilesKnown
<1>5. ASSUME NEW j \in Started, j # i PROVE PartKnown(j)'
  <2>1. downloads'[j] = downloads[j] BY <1>5 DEF Moves
  <2>2. CASE finished(j)
    BY <2>1, <2>2 DEF finished, FilesKnown, PartKnown, At
  <2>3. CASE ~finished(j)
    <3>1. downloads[j].dest # downloads[i].dest BY <1>5, <2>3, LastOfDest
    <3>2. /\ disk'[Part(downloads[j].dest)] = disk[Part(downloads[j].dest)]
          /\ disk'[Final(downloads[j].dest)] = disk[Final(downloads[j].dest)]
      BY <3>1, Fields, PathsDiffer DEF OwnFilesOnly
    <3> QED BY <2>1, <3>2 DEF FilesKnown, PartKnown, At
  <2> QED BY <2>2, <2>3
<1> QED BY <1>0, <1>1, <1>2, <1>3, <1>4, <1>5 DEF FilesKnown, Whole

(* What can be had at a path can still be had there after a step of download  *)
(* i, if i itself keeps the pieces of its file that its .part file has.       *)
LEMMA ServedKept ==
    ASSUME Types, Known, NEW i \in Started, ~finished(i),
           NEW step \in Steps, NEW V, NEW U, Moves(i, step, V, U), OwnFilesOnly(i),
           downloads[i].at \notin {"prepare", "publish"} => step \notin {"prepare", "publish"},
           disk'[Final(downloads[i].dest)] \in
               {disk[Final(downloads[i].dest)], Whole(downloads[i].name)},
           NEW n \in Names \ mixed, NEW path, NEW A, Served(n, path, A),
           /\ downloads[i].name = n /\ InPart(downloads[i].dest, n, A)
           /\ At(i, "prepare") => disk[Part(downloads[i].dest)] # NoFile
           => InPart(downloads[i].dest, n, A)'
    PROVE  Served(n, path, A)'
<1> USE DEF Known
<1>0. Started' = Started /\ Started \subseteq Nat BY DEF Moves, Types, Started
<1>1. CASE path = Own(n)
  BY <1>1 DEF Served
<1>2. ASSUME NEW j \in Started, LeftBy(j, n, path, A), downloads[j].dest # downloads[i].dest
      PROVE  LeftBy(j, n, path, A)'
  <2>1. j # i /\ downloads'[j] = downloads[j] BY <1>2 DEF Moves
  <2>2. /\ disk'[Part(downloads[j].dest)] = disk[Part(downloads[j].dest)]
        /\ disk'[Final(downloads[j].dest)] = disk[Final(downloads[j].dest)]
    BY <1>2, Fields, PathsDiffer DEF OwnFilesOnly
  <2>3. CASE path = Final(downloads[j].dest) /\ disk[path] = Whole(n)
    BY <1>2, <2>1, <2>2, <2>3 DEF LeftBy, Whole
  <2>4. CASE /\ path = Part(downloads[j].dest)
             /\ downloads[j].at \notin {"prepare", "publish"}
             /\ InPart(downloads[j].dest, n, A)
    BY <1>2, <2>1, <2>2, <2>4 DEF LeftBy, InPart
  <2> QED BY <1>2, <2>3, <2>4 DEF LeftBy
<1>3. ASSUME NEW j \in Started, LeftBy(j, n, path, A), downloads[j].dest = downloads[i].dest
      PROVE  LeftBy(j, n, path, A)'
  <2>1. /\ downloads[j].name = n /\ downloads'[j].name = n
        /\ downloads'[j].dest = downloads[i].dest
    BY <1>3 DEF LeftBy, Moves
  <2>2. j # i => j < i BY <1>3, LastOfDest
  <2>3. downloads[i].name = n
    BY <1>3, <2>1, <2>2 DEF Serial
  <2>4. CASE path = Final(downloads[j].dest) /\ disk[path] = Whole(n)
    BY <1>3, <2>1, <2>3, <2>4 DEF LeftBy, Whole
  <2>5. CASE /\ path = Part(downloads[j].dest)
             /\ downloads[j].at \notin {"prepare", "publish"}
             /\ InPart(downloads[j].dest, n, A)
    <3>1. At(i, "prepare") => disk[Part(downloads[i].dest)] # NoFile
      BY <1>3, <2>1, <2>2, <2>5 DEF At, Retries, InPart
    <3>2. InPart(downloads[i].dest, n, A)'
      BY <1>3, <2>3, <2>5, <3>1
    <3>3. downloads'[i].dest = downloads[i].dest /\ downloads'[i].at = step
      BY DEF Moves
    <3>4. InPart(downloads[j].dest, n, A)'
      BY <2>1, <3>2, <3>3 DEF InPart
    <3>5. downloads'[j].at \notin {"prepare", "publish"}
      BY <2>5, <3>3 DEF Moves
    <3> QED BY <1>3, <2>1, <2>5, <3>4, <3>5 DEF LeftBy
  <2> QED BY <1>3, <2>4, <2>5 DEF LeftBy
<1>4. ASSUME NEW j \in Started, LeftBy(j, n, path, A) PROVE LeftBy(j, n, path, A)'
  BY <1>2, <1>3, <1>4
<1> QED BY <1>0, <1>1, <1>4 DEF Served

(* What download i's step must do for pieces that are in its .part file,      *)
(* whoever looks for them.                                                    *)
KeepsPieces(i) ==
    \A n \in Names \ mixed, A \in SUBSET Pieces :
        /\ downloads[i].name = n /\ InPart(downloads[i].dest, n, A)
        /\ At(i, "prepare") => disk[Part(downloads[i].dest)] # NoFile
        => InPart(downloads[i].dest, n, A)'

Delivers == Known /\ EntryMine /\ EntriesServed /\ CopiesServed

(* A step of download i that does its part keeps the invariant. *)
LEMMA StepKept ==
    ASSUME Inv, NEW i \in Started, ~finished(i),
           NEW step \in Steps \ {"prepare"}, NEW V, NEW U, Moves(i, step, V, U),
           OwnFilesOnly(i), PartKnown(i)',
           downloads[i].at \notin {"prepare", "publish"} => step # "publish",
           disk'[Final(downloads[i].dest)] \in
               {disk[Final(downloads[i].dest)], Whole(downloads[i].name)},
           KeepsPieces(i),
           handler' = handler,
           \A m \in Names : m # downloads[i].name => shared'[m] = shared[m],
           downloads[i].name \notin mixed /\ shared'[downloads[i].name] # NoEntry =>
               /\ step \in {"fetch", "hash", "rename", "seed"} =>
                    shared'[downloads[i].name].path \in
                        {Own(downloads[i].name), Part(downloads[i].dest)}
               /\ \/ shared'[downloads[i].name] = shared[downloads[i].name]
                  \/ \A n \in Names, path \in Paths, A \in SUBSET Pieces :
                       /\ n = downloads[i].name
                       /\ shared'[n].path = path /\ shared'[n].available = A
                       => Served(n, path, A)'
    PROVE  Delivers'
<1> USE DEF Inv, Safe
<1>0. Started' = Started /\ mixed' = mixed /\ downloads[i].name \in Names
  BY Fields DEF Moves
<1>1. Known' BY KnownKept
<1>2. ASSUME NEW n \in Names \ mixed, NEW path, NEW A \in SUBSET Pieces, Served(n, path, A)
      PROVE  Served(n, path, A)'
  <2>1. /\ downloads[i].name = n /\ InPart(downloads[i].dest, n, A)
        /\ At(i, "prepare") => disk[Part(downloads[i].dest)] # NoFile
        => InPart(downloads[i].dest, n, A)'
    BY DEF KeepsPieces
  <2> QED BY <1>2, <2>1, ServedKept
<1>3. EntryMine'
  <2> SUFFICES ASSUME NEW j \in Started, downloads'[j].name \notin mixed,
                      downloads'[j].at \in {"fetch", "hash", "rename", "seed"},
                      shared'[downloads'[j].name] # NoEntry
               PROVE  shared'[downloads'[j].name].path \in
                          {Own(downloads'[j].name), Part(downloads'[j].dest)}
    BY <1>0 DEF EntryMine
  <2>1. CASE j = i BY <2>1 DEF Moves
  <2>2. CASE j # i
    <3>1. downloads'[j] = downloads[j] BY <2>2 DEF Moves
    <3>2. ~finished(j) BY <3>1 DEF finished
    <3>3. downloads[j].name # downloads[i].name
      BY <2>2, <3>1, <3>2 DEF Known, Overlaps
    <3>4. shared'[downloads[j].name] = shared[downloads[j].name]
      BY <3>3, Fields
    <3> QED BY <3>1, <3>4 DEF EntryMine
  <2> QED BY <2>1, <2>2
<1>4. EntriesServed'
  <2> SUFFICES ASSUME NEW n \in Names \ mixed, NEW path \in Paths, NEW A \in SUBSET Pieces,
                      shared'[n] # NoEntry, shared'[n].path = path, shared'[n].available = A
               PROVE  Served(n, path, A)'
    BY <1>0 DEF EntriesServed
  <2>1. CASE shared'[n] = shared[n]
    <3>1. Served(n, path, A) BY <2>1 DEF EntriesServed
    <3> QED BY <1>2, <3>1
  <2>2. CASE shared'[n] # shared[n]
    <3>1. n = downloads[i].name BY <2>2
    <3> QED BY <2>2, <3>1
  <2> QED BY <2>1, <2>2
<1>5. CopiesServed'
  <2> SUFFICES ASSUME NEW h \in Handlers, NEW n \in Names \ mixed, NEW path \in Paths,
                      NEW p \in Pieces, handler[h].at = "read", handler[h].name = n,
                      handler[h].path = path, handler[h].piece = p
               PROVE  Served(n, path, {p})'
    BY <1>0 DEF CopiesServed
  <2>1. Served(n, path, {p}) BY DEF CopiesServed
  <2> QED BY <1>2, <2>1
<1> QED BY <1>1, <1>3, <1>4, <1>5 DEF Delivers

(* A step that only moves download i to a later stage. *)
LEMMA QuietKept ==
    ASSUME Inv, NEW i \in Started, ~finished(i), NEW step \in {"hash", "rename", "done"},
           Goto(i, step), UNCHANGED <<disk, shared, handler, mixed>>,
           step # "done" => downloads[i].at \in {"fetch", "hash"},
           step = "rename" => disk[Part(downloads[i].dest)] = Whole(downloads[i].name)
    PROVE  Delivers'
<1> DEFINE V == downloads[i].verified
           U == downloads[i].unmarked
<1> USE DEF Inv, Safe
<1>0. step \in Steps BY DEF Steps
<1>1. Moves(i, step, V, U)
  BY <1>0, GotoMoves
<1>2. OwnFilesOnly(i) BY DEF OwnFilesOnly
<1>3. PartKnown(i)'
  <2>1. PartKnown(i) BY DEF Known, FilesKnown
  <2> QED BY <1>1, <2>1 DEF Moves, PartKnown, At, Whole
<1>4. KeepsPieces(i)
  <2>1. downloads'[i].dest = downloads[i].dest BY <1>1 DEF Moves
  <2> QED BY <2>1 DEF KeepsPieces, InPart, At
<1>5. ASSUME downloads[i].name \notin mixed, shared'[downloads[i].name] # NoEntry,
             step \in {"fetch", "hash", "rename", "seed"}
      PROVE  shared'[downloads[i].name].path \in
                 {Own(downloads[i].name), Part(downloads[i].dest)}
  BY <1>5 DEF EntryMine
<1> HIDE DEF V, U
<1> QED BY <1>0, <1>1, <1>2, <1>3, <1>4, <1>5, StepKept

(* prepare() keeps every piece of its file that an entry or a reader counts   *)
(* on, found or not.                                                          *)
LEMMA PrepareKept ==
    ASSUME Inv, NEW i \in Started, prepare(i)
    PROVE  Delivers' /\ Types'
<1> USE DEF Inv, Safe
<1> DEFINE d == downloads[i].dest
           n == downloads[i].name
<1>0. /\ d \in Dests /\ n \in Names /\ ~finished(i) /\ At(i, "prepare")
      /\ Part(d) \in Paths /\ Part(d) # Final(d)
      /\ UNCHANGED <<shared, handler, mixed>>
  BY Fields, PathsDiffer DEF prepare, At, finished
<1>1. ASSUME NEW step \in {"publish", "done"}, NEW V \in SUBSET matching(disk[Part(d)], n),
             Moves(i, step, V, downloads[i].unmarked),
             disk' = [disk EXCEPT ![Part(d)] = openForWriting(@)]
      PROVE  Delivers' /\ Types'
  <2>1. openForWriting(disk[Part(d)]) \in File
    BY <1>0 DEF openForWriting, Blank, Types, File
  <2>2. /\ disk'[Part(d)] = openForWriting(disk[Part(d)])
        /\ \A f \in Paths : f # Part(d) => disk'[f] = disk[f]
    BY <1>0, <1>1 DEF Types
  <2>3. disk'[Part(d)] # NoFile
    BY <2>1, <2>2, NoFileAssumption DEF File
  <2>4. \A p \in V : disk'[Part(d)][p] = n
    BY <2>2 DEF matching, openForWriting
  <2>5. disk[Part(d)] # NoFile => disk'[Part(d)] = disk[Part(d)]
    BY <2>2 DEF openForWriting
  <2>6. downloads[i].unmarked = {}
    BY <1>0 DEF Known, FilesKnown, PartKnown, At
  <2>7. PartKnown(i)'
    BY <1>1, <2>3, <2>4, <2>6 DEF PartKnown, Moves, At
  <2>8. KeepsPieces(i)
    <3>1. downloads'[i].dest = d BY <1>1 DEF Moves
    <3> QED BY <1>0, <2>3, <2>5, <3>1 DEF KeepsPieces, InPart
  <2>9. OwnFilesOnly(i) BY <2>2 DEF OwnFilesOnly
  <2>10. disk'[Final(d)] = disk[Final(d)]
    BY <1>0, <2>2, PathsDiffer
  <2>11. step \in Steps \ {"prepare"} BY DEF Steps
  <2>12. Delivers'
    BY <1>0, <1>1, <2>7, <2>8, <2>9, <2>10, <2>11, StepKept DEF At
  <2>13. disk' \in [Paths -> {NoFile} \cup File]
    BY <1>0, <1>1, <2>1 DEF Types
  <2> QED BY <1>0, <1>1, <2>12, <2>13 DEF Types, Moves
<1>2. CASE disk' = disk /\ Goto(i, "done")
  <2>1. Delivers' BY <1>0, <1>2, QuietKept
  <2>2. downloads' \in Seq(Download) BY <1>0, <1>2, GotoMoves DEF Steps, Moves
  <2> QED BY <1>0, <1>2, <2>1, <2>2 DEF Types
<1>3. CASE disk' = [disk EXCEPT ![Part(d)] = openForWriting(@)] /\ Goto(i, "done")
  <2>1. Moves(i, "done", downloads[i].verified, downloads[i].unmarked)
    BY <1>0, <1>3, GotoMoves DEF Steps
  <2>2. downloads[i].verified = {} BY <1>0 DEF Known, FilesKnown, PartKnown, At
  <2> QED BY <1>1, <1>3, <2>1, <2>2
<1>4. CASE /\ disk' = [disk EXCEPT ![Part(d)] = openForWriting(@)]
           /\ \E V \in SUBSET matching(disk[Part(d)], n) :
                 downloads' = [downloads EXCEPT ![i].at = "publish", ![i].verified = V]
  <2>1. PICK V \in SUBSET matching(disk[Part(d)], n) :
          downloads' = [downloads EXCEPT ![i].at = "publish", ![i].verified = V]
    BY <1>4
  <2>2. V \in SUBSET Pieces BY DEF matching
  <2>3. Moves(i, "publish", V, downloads[i].unmarked)
    BY <1>0, <2>1, <2>2, PrepareMoves
  <2> QED BY <1>1, <1>4, <2>3
<1> QED BY <1>2, <1>3, <1>4 DEF prepare

(* publishPartial() lists pieces that are in the file. *)
LEMMA PublishPartialKept ==
    ASSUME Inv, NEW i \in Started, publishPartial(i)
    PROVE  Delivers' /\ Types'
<1> USE DEF Inv, Safe
<1> DEFINE d == downloads[i].dest
           V == downloads[i].verified
           U == downloads[i].unmarked
           e == [path |-> Part(d), available |-> V]
<1>0. /\ d \in Dests /\ V \in SUBSET Pieces /\ downloads[i].name \in Names
      /\ ~finished(i) /\ At(i, "publish") /\ Part(d) \in Paths
      /\ UNCHANGED <<disk, handler, mixed>>
  BY Fields, PathsDiffer DEF publishPartial, At, finished
<1>1. Goto(i, "fetch") /\ shared' = [shared EXCEPT ![downloads[i].name] = e]
  BY DEF publishPartial, add
<1>2. Moves(i, "fetch", V, U)
  BY <1>0, <1>1, GotoMoves DEF Steps
<1>3. e \in Entries /\ e.path = Part(d) /\ e.available = V
  BY <1>0 DEF Entries
<1>4. /\ shared'[downloads[i].name] = e
      /\ \A m \in Names : m # downloads[i].name => shared'[m] = shared[m]
  BY <1>0, <1>1 DEF Types
<1>5. PartKnown(i) BY DEF Known, FilesKnown
<1>6. PartKnown(i)'
  BY <1>0, <1>2, <1>5 DEF PartKnown, At, Moves
<1>7. KeepsPieces(i)
  <2>1. downloads'[i].dest = d BY <1>2 DEF Moves
  <2> QED BY <1>0, <2>1 DEF KeepsPieces, InPart, At
<1>8. OwnFilesOnly(i) BY <1>0 DEF OwnFilesOnly
<1>9. ASSUME NEW n \in Names, NEW path \in Paths, NEW A \in SUBSET Pieces,
             n = downloads[i].name, shared'[n].path = path, shared'[n].available = A
      PROVE  Served(n, path, A)'
  <2>0. path = Part(d) /\ A = V BY <1>3, <1>4, <1>9
  <2>1. InPart(downloads[i].dest, n, A)
    BY <1>0, <1>5, <1>9, <2>0 DEF InPart, PartKnown, At
  <2>2. /\ downloads'[i].dest = d /\ downloads'[i].at = "fetch" /\ downloads'[i].name = n
        /\ downloads'[i].verified = A /\ i \in Started'
    BY <1>2, <1>9, <2>0 DEF Moves
  <2>3. InPart(downloads[i].dest, n, A)'
    BY <1>0, <2>1, <2>2 DEF InPart
  <2>4. LeftBy(i, n, path, A)'
    BY <2>0, <2>2, <2>3 DEF LeftBy
  <2> QED BY <2>2, <2>4 DEF Served
<1>10. "fetch" \in Steps \ {"prepare"} BY DEF Steps
<1> HIDE DEF e, V, U
<1>11. Delivers'
  BY <1>0, <1>2, <1>3, <1>4, <1>6, <1>7, <1>8, <1>9, <1>10, StepKept
<1>12. shared' \in [Names -> {NoEntry} \cup Entries]
  BY <1>0, <1>1, <1>3 DEF Types
<1> QED BY <1>0, <1>2, <1>11, <1>12 DEF Types, Moves

(* A write that fails spoils only a piece that was not there, and one that    *)
(* succeeds adds the piece.                                                   *)
LEMMA WriteKept ==
    ASSUME Inv, NEW i \in Started, NEW p \in Pieces, write(i, p)
    PROVE  Delivers' /\ Types'
<1> USE DEF Inv, Safe
<1> DEFINE d == downloads[i].dest
           n == downloads[i].name
           V == downloads[i].verified
           U == downloads[i].unmarked
<1>0. /\ d \in Dests /\ n \in Names /\ V \in SUBSET Pieces /\ U \in SUBSET Pieces
      /\ ~finished(i) /\ At(i, "fetch") /\ p \notin V
      /\ Part(d) \in Paths /\ Part(d) # Final(d)
      /\ UNCHANGED <<shared, handler, mixed>>
  BY Fields, PathsDiffer DEF write, At, finished
<1>1. PartKnown(i) BY DEF Known, FilesKnown
<1>2. disk[Part(d)] \in File
  BY <1>0, <1>1 DEF PartKnown, At, Types
<1>3. "fetch" \in Steps \ {"prepare"} BY DEF Steps
<1>4. ASSUME n \notin mixed, shared'[n] # NoEntry
      PROVE  shared'[n].path \in {Own(n), Part(d)}
  BY <1>0, <1>4 DEF EntryMine, At
<1>5. ASSUME NEW v \in Names \cup {NoData}, NEW W \in SUBSET Pieces, NEW X,
             Moves(i, "fetch", W, X), V \subseteq W, X \subseteq W,
             disk' = [disk EXCEPT ![Part(d)][p] = v], p \in W => v = n, W \subseteq V \cup {p},
             disk[Part(d)][p] = n => v = n
      PROVE  Delivers' /\ Types'
  <2>1. /\ disk'[Part(d)] = [disk[Part(d)] EXCEPT ![p] = v]
        /\ \A f \in Paths : f # Part(d) => disk'[f] = disk[f]
    BY <1>0, <1>5 DEF Types
  <2>2. disk'[Part(d)] \in File BY <1>2, <2>1 DEF File
  <2>3. disk'[Part(d)] # NoFile BY <2>2, NoFileAssumption DEF File
  <2>4. disk'[Part(d)][p] = v /\ \A q \in Pieces : q # p => disk'[Part(d)][q] = disk[Part(d)][q]
    BY <1>2, <2>1 DEF File
  <2>5. \A q \in W : disk'[Part(d)][q] = n
    BY <1>0, <1>1, <1>5, <2>4 DEF PartKnown, At
  <2>6. PartKnown(i)'
    BY <1>5, <2>3, <2>5 DEF PartKnown, Moves, At
  <2>7. KeepsPieces(i)
    <3>1. downloads'[i].dest = d BY <1>5 DEF Moves
    <3>2. \A q \in Pieces : disk[Part(d)][q] = n => disk'[Part(d)][q] = n BY <1>5, <2>4
    <3>3. disk[Part(d)] # NoFile BY <1>2, NoFileAssumption DEF File
    <3> QED BY <2>3, <3>1, <3>2, <3>3 DEF KeepsPieces, InPart
  <2>8. OwnFilesOnly(i) BY <2>1 DEF OwnFilesOnly
  <2>9. disk'[Final(d)] = disk[Final(d)] BY <1>0, <2>1, PathsDiffer
  <2>10. Delivers'
    BY <1>0, <1>3, <1>4, <1>5, <2>6, <2>7, <2>8, <2>9, StepKept
  <2>11. disk' \in [Paths -> {NoFile} \cup File]
    <3>1. disk' = [disk EXCEPT ![Part(d)] = disk'[Part(d)]]
      BY <1>5, <2>1
    <3> QED BY <1>0, <2>2, <3>1 DEF Types
  <2> QED BY <1>0, <1>5, <2>10, <2>11 DEF Types, Moves
<1>6. CASE /\ disk' = [disk EXCEPT ![Part(d)][p] = n]
           /\ downloads' = [downloads EXCEPT ![i].verified = @ \cup {p},
                                             ![i].unmarked = @ \cup {p}]
  <2>1. Moves(i, "fetch", V \cup {p}, U \cup {p})
    BY <1>0, <1>6, WriteMoves DEF At
  <2>2. U \subseteq V BY <1>1 DEF PartKnown
  <2>3. V \cup {p} \in SUBSET Pieces BY <1>0
  <2>4. V \subseteq V \cup {p} /\ U \cup {p} \subseteq V \cup {p}
    BY <2>2
  <2> HIDE DEF V, U
  <2> QED BY <1>0, <1>5, <1>6, <2>1, <2>3, <2>4
<1>7. CASE disk' = [disk EXCEPT ![Part(d)][p] = torn(@, n)] /\ UNCHANGED downloads
  <2>1. Moves(i, "fetch", V, U)
    BY <1>0, <1>7 DEF Moves, At, Types, Started
  <2>2. U \subseteq V BY <1>1 DEF PartKnown
  <2> DEFINE v == torn(disk[Part(d)][p], n)
  <2>3. v \in Names \cup {NoData} /\ (disk[Part(d)][p] = n => v = n) BY <1>0 DEF torn
  <2>4. disk' = [disk EXCEPT ![Part(d)][p] = v] BY <1>7
  <2> HIDE DEF V, U, v
  <2> QED BY <1>0, <1>5, <2>1, <2>2, <2>3, <2>4
<1> QED BY <1>6, <1>7 DEF write

(* markAvailable() adds a piece to the entry only where it is in the file the *)
(* entry names.                                                               *)
LEMMA MarkKept ==
    ASSUME Inv, NEW i \in Started, NEW p \in Pieces, markVerified(i, p)
    PROVE  Delivers' /\ Types'
<1> USE DEF Inv, Safe
<1> DEFINE d == downloads[i].dest
           m == downloads[i].name
           V == downloads[i].verified
           U == downloads[i].unmarked
<1>0. /\ d \in Dests /\ m \in Names /\ V \in SUBSET Pieces /\ U \in SUBSET Pieces
      /\ ~finished(i) /\ At(i, "fetch") /\ p \in U /\ Part(d) \in Paths
      /\ UNCHANGED <<disk, handler, mixed>>
  BY Fields, PathsDiffer DEF markVerified, At, finished
<1>1. Moves(i, "fetch", V, U \ {p})
  BY <1>0, MarkMoves DEF markVerified, At
<1>2. PartKnown(i) BY DEF Known, FilesKnown
<1>3. PartKnown(i)'
  BY <1>0, <1>1, <1>2 DEF PartKnown, At, Moves
<1>4. KeepsPieces(i)
  <2>1. downloads'[i].dest = d BY <1>1 DEF Moves
  <2> QED BY <1>0, <2>1 DEF KeepsPieces, InPart, At
<1>5. OwnFilesOnly(i) BY <1>0 DEF OwnFilesOnly
<1>6. shared' = [shared EXCEPT ![m] = IF @ = NoEntry THEN NoEntry
                                      ELSE [path |-> @.path,
                                            available |-> @.available \cup {p}]]
  BY DEF markVerified, markAvailable
<1>7. \A k \in Names : k # m => shared'[k] = shared[k]
  BY <1>0, <1>6 DEF Types
<1>8. shared[m] # NoEntry =>
        /\ shared[m] \in Entries
        /\ shared'[m] \in Entries /\ shared'[m].path = shared[m].path
        /\ shared'[m].available = shared[m].available \cup {p}
  <2> SUFFICES ASSUME shared[m] # NoEntry
               PROVE  /\ shared[m] \in Entries
                      /\ shared'[m] \in Entries /\ shared'[m].path = shared[m].path
                      /\ shared'[m].available = shared[m].available \cup {p}
    OBVIOUS
  <2>1. shared[m] \in Entries BY <1>0 DEF Types
  <2>2. shared[m].available \cup {p} \in SUBSET Pieces BY <2>1 DEF Entries
  <2>3. shared'[m] = [path |-> shared[m].path, available |-> shared[m].available \cup {p}]
    <3> DEFINE e == IF shared[m] = NoEntry THEN NoEntry
                    ELSE [path |-> shared[m].path, available |-> shared[m].available \cup {p}]
    <3>1. shared' = [shared EXCEPT ![m] = e] BY Zenon DEF markVerified, markAvailable
    <3>2. e = [path |-> shared[m].path, available |-> shared[m].available \cup {p}] OBVIOUS
    <3> HIDE DEF e
    <3>3. shared'[m] = e BY <1>0, <3>1 DEF Types
    <3> QED BY <3>2, <3>3
  <2> QED BY <2>1, <2>2, <2>3 DEF Entries
<1>9. shared[m] = NoEntry => shared'[m] = NoEntry
  BY <1>0, <1>6 DEF Types
<1>10. ASSUME m \notin mixed, shared'[m] # NoEntry
       PROVE  shared'[m].path \in {Own(m), Part(d)}
  BY <1>0, <1>8, <1>9, <1>10 DEF EntryMine, At
<1>11. ASSUME NEW n \in Names, NEW path \in Paths, NEW A \in SUBSET Pieces,
              n = m, m \notin mixed, shared'[m] # NoEntry,
              shared'[n].path = path, shared'[n].available = A
       PROVE  Served(n, path, A)'
  <2>1. CASE path = Own(n) BY <2>1 DEF Served
  <2>2. CASE path = Part(d)
    <3>1. /\ shared[n] # NoEntry /\ shared[n].path = path
          /\ shared[n].available \in SUBSET Pieces /\ A = shared[n].available \cup {p}
      BY <1>8, <1>9, <1>11 DEF Entries
    <3>2. Served(n, path, shared[n].available)
      BY <1>11, <3>1 DEF EntriesServed
    <3>3. PICK j \in Started : LeftBy(j, n, path, shared[n].available)
      BY <1>0, <2>2, <3>2, PathsDiffer DEF Served
    <3>4. downloads[j].dest = d
      BY <1>0, <2>2, <3>3, Fields, PathsDiffer DEF LeftBy
    <3>5. disk[Part(d)] # NoFile /\ disk[Part(d)][p] = n
      BY <1>0, <1>2, <1>11 DEF PartKnown, At
    <3>6. InPart(d, n, A)
      BY <1>0, <2>2, <3>1, <3>3, <3>4, <3>5, PathsDiffer DEF LeftBy, InPart
    <3>7. /\ downloads'[i].dest = d /\ downloads'[i].at = "fetch" /\ downloads'[i].name = n
          /\ downloads'[i].verified = V /\ i \in Started'
      BY <1>1, <1>11 DEF Moves
    <3>8. InPart(downloads[i].dest, n, A)'
      BY <1>0, <3>6, <3>7 DEF InPart
    <3>9. LeftBy(i, n, path, A)'
      BY <2>2, <3>7, <3>8 DEF LeftBy
    <3> QED BY <3>7, <3>9 DEF Served
  <2> QED BY <1>10, <1>11, <2>1, <2>2
<1>12. "fetch" \in Steps \ {"prepare"} BY DEF Steps
<1> HIDE DEF U, V
<1>13. Delivers'
  BY <1>0, <1>1, <1>3, <1>4, <1>5, <1>7, <1>10, <1>11, <1>12, StepKept
<1>14. shared' \in [Names -> {NoEntry} \cup Entries]
  <2>1. shared' = [shared EXCEPT ![m] = shared'[m]] /\ shared'[m] \in {NoEntry} \cup Entries
    BY <1>0, <1>6, <1>8, <1>9 DEF Types
  <2> QED BY <1>0, <2>1 DEF Types
<1> QED BY <1>0, <1>1, <1>13, <1>14 DEF Types, Moves

(* rename() moves a whole file, which readers of the .part file then miss. *)
LEMMA RenameKept ==
    ASSUME Inv, NEW i \in Started, rename(i)
    PROVE  Delivers' /\ Types'
<1> USE DEF Inv, Safe
<1> DEFINE d == downloads[i].dest
           m == downloads[i].name
           V == downloads[i].verified
           U == downloads[i].unmarked
<1>0. /\ d \in Dests /\ m \in Names /\ ~finished(i) /\ At(i, "rename")
      /\ Part(d) \in Paths /\ Final(d) \in Paths /\ Part(d) # Final(d)
      /\ UNCHANGED <<shared, handler, mixed>>
  BY Fields, PathsDiffer DEF rename, At, finished
<1>1. CASE Goto(i, "done") /\ UNCHANGED disk
  <2>1. Delivers' BY <1>0, <1>1, QuietKept
  <2>2. downloads' \in Seq(Download) BY <1>0, <1>1, GotoMoves DEF Steps, Moves
  <2> QED BY <1>0, <1>1, <2>1, <2>2 DEF Types
<1>2. CASE /\ disk' = [disk EXCEPT ![Final(d)] = disk[Part(d)], ![Part(d)] = NoFile]
           /\ Goto(i, "seed")
  <2>1. Moves(i, "seed", V, U) BY <1>0, <1>2, GotoMoves DEF Steps
  <2>2. PartKnown(i) BY DEF Known, FilesKnown
  <2>3. disk[Part(d)] = Whole(m) /\ disk[Part(d)] # NoFile
    BY <1>0, <2>2 DEF PartKnown, At
  <2>4. /\ disk'[Final(d)] = disk[Part(d)] /\ disk'[Part(d)] = NoFile
        /\ \A f \in Paths : f \notin {Part(d), Final(d)} => disk'[f] = disk[f]
    BY <1>0, <1>2 DEF Types
  <2>5. PartKnown(i)'
    <3>1. Whole(downloads[i].name)' = Whole(m) BY <2>1 DEF Moves, Whole
    <3> QED BY <2>1, <2>2, <2>3, <2>4, <3>1 DEF PartKnown, At, Moves
  <2>6. KeepsPieces(i)
    <3>1. downloads'[i].dest = d BY <2>1 DEF Moves
    <3> QED BY <1>0, <2>3, <2>4, <3>1 DEF KeepsPieces, InPart, At
  <2>7. OwnFilesOnly(i) BY <2>4 DEF OwnFilesOnly
  <2>8. ASSUME m \notin mixed, shared'[m] # NoEntry
        PROVE  shared'[m].path \in {Own(m), Part(d)}
    BY <1>0, <2>8 DEF EntryMine, At
  <2>9. "seed" \in Steps \ {"prepare"} BY DEF Steps
  <2>10. Delivers'
    <3> HIDE DEF U, V
    <3> QED BY <1>0, <2>1, <2>3, <2>4, <2>5, <2>6, <2>7, <2>8, <2>9, StepKept
  <2>11. disk' \in [Paths -> {NoFile} \cup File]
    BY <1>0, <1>2 DEF Types
  <2> QED BY <1>0, <2>1, <2>10, <2>11 DEF Types, Moves
<1> QED BY <1>1, <1>2 DEF rename

(* publishComplete() lists a file that is whole. *)
LEMMA PublishCompleteKept ==
    ASSUME Inv, NEW i \in Started, publishComplete(i)
    PROVE  Delivers' /\ Types'
<1> USE DEF Inv, Safe
<1> DEFINE d == downloads[i].dest
           m == downloads[i].name
           V == downloads[i].verified
           U == downloads[i].unmarked
           e == [path |-> Final(d), available |-> Pieces]
<1>0. /\ d \in Dests /\ m \in Names /\ ~finished(i) /\ At(i, "seed") /\ Final(d) \in Paths
      /\ UNCHANGED <<disk, handler, mixed>>
  BY Fields, PathsDiffer DEF publishComplete, At, finished
<1>1. Goto(i, "done") /\ shared' = [shared EXCEPT ![m] = e]
  BY DEF publishComplete, add
<1>2. Moves(i, "done", V, U)
  BY <1>0, <1>1, GotoMoves DEF Steps
<1>3. e \in Entries /\ e.path = Final(d) BY <1>0 DEF Entries
<1>4. /\ shared'[m] = e
      /\ \A k \in Names : k # m => shared'[k] = shared[k]
  BY <1>0, <1>1 DEF Types
<1>5. PartKnown(i) BY DEF Known, FilesKnown
<1>6. PartKnown(i)'
  BY <1>0, <1>2, <1>5 DEF PartKnown, At, Moves
<1>7. KeepsPieces(i)
  <2>1. downloads'[i].dest = d BY <1>2 DEF Moves
  <2> QED BY <1>0, <2>1 DEF KeepsPieces, InPart, At
<1>8. OwnFilesOnly(i) BY <1>0 DEF OwnFilesOnly
<1>9. ASSUME NEW n \in Names, NEW path \in Paths, NEW A \in SUBSET Pieces,
             n = m, shared'[n].path = path, shared'[n].available = A
      PROVE  Served(n, path, A)'
  <2>1. path = Final(d) BY <1>3, <1>4, <1>9
  <2>2. downloads'[i].dest = d /\ downloads'[i].name = n /\ i \in Started'
    BY <1>2, <1>9 DEF Moves
  <2>3. disk'[path] = Whole(n) BY <1>0, <1>5, <1>9, <2>1 DEF PartKnown, At
  <2>4. LeftBy(i, n, path, A)'
    BY <2>1, <2>2, <2>3 DEF LeftBy, Whole
  <2> QED BY <2>2, <2>4 DEF Served
<1>10. "done" \in Steps \ {"prepare"} BY DEF Steps
<1> HIDE DEF e, V, U
<1>11. Delivers'
  BY <1>0, <1>2, <1>3, <1>4, <1>6, <1>7, <1>8, <1>9, <1>10, StepKept
<1>12. shared' \in [Names -> {NoEntry} \cup Entries]
  BY <1>0, <1>1, <1>3 DEF Types
<1> QED BY <1>0, <1>2, <1>11, <1>12 DEF Types, Moves

(* Every step of run(). *)
LEMMA RunKept ==
    ASSUME Inv, NEW i \in Started, run(i)
    PROVE  Delivers' /\ Types'
<1> USE DEF Inv, Safe
<1>1. CASE joinWorkers(i)
  <2> DEFINE step == IF downloads[i].cancelled \/ downloads[i].verified # Pieces
                     THEN "done" ELSE "hash"
  <2>1. /\ Goto(i, step) /\ step \in {"done", "hash"} /\ At(i, "fetch") /\ ~finished(i)
        /\ UNCHANGED <<disk, shared, handler, mixed>>
    BY <1>1 DEF joinWorkers, At, finished
  <2> HIDE DEF step
  <2>2. Delivers' BY <2>1, QuietKept DEF At
  <2>3. downloads' \in Seq(Download) BY <2>1, GotoMoves DEF Steps, Moves
  <2> QED BY <2>1, <2>2, <2>3 DEF Types
<1>2. CASE checkHash(i)
  <2>1. /\ At(i, "hash") /\ ~finished(i) /\ UNCHANGED <<disk, shared, handler, mixed>>
        /\ \/ Goto(i, "done")
           \/ /\ Goto(i, "rename")
              /\ disk[Part(downloads[i].dest)] = Whole(downloads[i].name)
    BY <1>2 DEF checkHash, At, finished
  <2>2. Delivers' BY <2>1, QuietKept DEF At
  <2>3. downloads' \in Seq(Download) BY <2>1, GotoMoves DEF Steps, Moves
  <2> QED BY <2>1, <2>2, <2>3 DEF Types
<1> QED BY <1>1, <1>2, PrepareKept, PublishPartialKept, MarkKept, RenameKept,
           PublishCompleteKept DEF run

-----------------------------------------------------------------------------
(* The prompt and the peer server's threads. *)

(* The files and the stages of all downloads are as they were. *)
Undisturbed ==
    /\ disk' = disk /\ mixed' = mixed /\ Started' = Started
    /\ \A i \in Started :
         /\ downloads'[i].name = downloads[i].name /\ downloads'[i].dest = downloads[i].dest
         /\ downloads'[i].at = downloads[i].at
         /\ downloads'[i].verified = downloads[i].verified
         /\ downloads'[i].unmarked = downloads[i].unmarked

(* Then so is what is known about them and what can be had where. *)
LEMMA UndisturbedKept ==
    ASSUME Inv, Undisturbed
    PROVE  /\ Known'
           /\ \A n \in Names, path \in Paths, A \in SUBSET Pieces :
                Served(n, path, A) => Served(n, path, A)'
<1> USE DEF Inv, Undisturbed
<1>1. Serial' BY DEF Known, Serial, finished
<1>2. Overlaps' BY DEF Known, Overlaps, finished
<1>3. Retries' BY DEF Known, Retries, At
<1>4. \A n \in Names : disk'[Own(n)] = Whole(n) BY DEF Known, FilesKnown
<1>5. ASSUME NEW i \in Started PROVE PartKnown(i)'
  <2>1. PartKnown(i) BY DEF Known, FilesKnown
  <2> QED BY <2>1 DEF PartKnown, At, Whole
<1>6. FilesKnown' BY <1>4, <1>5 DEF FilesKnown, Whole
<1>7. ASSUME NEW n \in Names, NEW path \in Paths, NEW A \in SUBSET Pieces,
             NEW j \in Started, LeftBy(j, n, path, A)
      PROVE  LeftBy(j, n, path, A)'
  BY <1>7 DEF LeftBy, InPart, Whole
<1>8. ASSUME NEW n \in Names, NEW path \in Paths, NEW A \in SUBSET Pieces, Served(n, path, A)
      PROVE  Served(n, path, A)'
  BY <1>7, <1>8 DEF Served
<1> QED BY <1>1, <1>2, <1>3, <1>6, <1>8 DEF Known

(* Fewer pieces can be had wherever more can. *)
LEMMA ServedPart ==
    ASSUME NEW n, NEW path, NEW A, NEW p \in A, Served(n, path, A)
    PROVE  Served(n, path, {p})
<1>1. ASSUME NEW j \in Started, LeftBy(j, n, path, A) PROVE LeftBy(j, n, path, {p})
  BY <1>1 DEF LeftBy, InPart
<1> QED BY <1>1 DEF Served

(* Entries and readers' copies stay good when each is an old one, the user's  *)
(* own copy, or a copy of an entry.                                           *)
LEMMA UndisturbedDelivers ==
    ASSUME Inv, Undisturbed,
           \A n \in Names : \/ shared'[n] = shared[n]
                             \/ shared'[n] = NoEntry
                             \/ shared'[n].path = Own(n),
           \A h \in Handlers :
              \/ handler'[h] = handler[h]
              \/ handler'[h].at # "read"
              \/ \E n \in Names, p \in Pieces :
                   /\ shared[n] # NoEntry /\ p \in shared[n].available
                   /\ handler'[h] = [at |-> "read", name |-> n, piece |-> p,
                                     path |-> shared[n].path]
    PROVE  Delivers'
<1> USE DEF Inv, Safe
<1>1. Known' BY UndisturbedKept
<1>2. EntryMine'
  <2> SUFFICES ASSUME NEW i \in Started, downloads'[i].name \notin mixed,
                      downloads'[i].at \in {"fetch", "hash", "rename", "seed"},
                      shared'[downloads'[i].name] # NoEntry
               PROVE  shared'[downloads'[i].name].path \in
                          {Own(downloads'[i].name), Part(downloads'[i].dest)}
    BY DEF EntryMine, Undisturbed
  <2> QED BY Fields DEF EntryMine, Undisturbed
<1>3. EntriesServed'
  <2> SUFFICES ASSUME NEW n \in Names \ mixed, NEW path \in Paths, NEW A \in SUBSET Pieces,
                      shared'[n] # NoEntry, shared'[n].path = path, shared'[n].available = A
               PROVE  Served(n, path, A)'
    BY DEF EntriesServed, Undisturbed
  <2>1. CASE shared'[n] = shared[n] BY <2>1, UndisturbedKept DEF EntriesServed
  <2>2. CASE path = Own(n) BY <2>2 DEF Served
  <2> QED BY <2>1, <2>2
<1>4. CopiesServed'
  <2> SUFFICES ASSUME NEW h \in Handlers, NEW n \in Names \ mixed, NEW path \in Paths,
                      NEW p \in Pieces, handler'[h].at = "read", handler'[h].name = n,
                      handler'[h].path = path, handler'[h].piece = p
               PROVE  Served(n, path, {p})'
    BY DEF CopiesServed, Undisturbed
  <2>1. Served(n, path, {p})
    <3>1. CASE handler'[h] = handler[h] BY <3>1 DEF CopiesServed
    <3>2. CASE handler'[h] # handler[h]
      <4>0. PICK m \in Names, q \in Pieces :
              /\ shared[m] # NoEntry /\ q \in shared[m].available
              /\ handler'[h] = [at |-> "read", name |-> m, piece |-> q, path |-> shared[m].path]
        BY <3>2, Zenon
      <4>1. /\ shared[n] # NoEntry /\ p \in shared[n].available /\ path = shared[n].path
        BY <4>0
      <4>2. shared[n].available \in SUBSET Pieces BY <4>1 DEF Types, Entries
      <4>3. Served(n, path, shared[n].available) BY <4>1, <4>2 DEF EntriesServed
      <4> QED BY <4>1, <4>3, ServedPart
    <3> QED BY <3>1, <3>2
  <2>2. {p} \in SUBSET Pieces OBVIOUS
  <2> QED BY <2>1, <2>2, UndisturbedKept
<1> QED BY <1>1, <1>2, <1>3, <1>4 DEF Delivers

(* start() adds a download that nobody has to share a .part file with. *)
LEMMA StartKept ==
    ASSUME Inv, start
    PROVE  Delivers' /\ Types'
<1> USE DEF Inv, Safe
<1> DEFINE k == Len(downloads) + 1
           new == [name |-> prompt.name, dest |-> prompt.dest, at |-> "prepare",
                   cancelled |-> FALSE, verified |-> {}, unmarked |-> {}]
<1>1. /\ prompt.name \in Names /\ prompt.dest \in Dests
      /\ UNCHANGED <<disk, shared, handler>>
  BY DEF start, PromptTypes
<1>2. new \in Download
  BY <1>1 DEF Download, Steps
<1>3. downloads' = Append(downloads, new) BY DEF start
<1>4. /\ new.name = prompt.name /\ new.dest = prompt.dest /\ new.at = "prepare"
      /\ new.verified = {} /\ new.unmarked = {}
  OBVIOUS
<1> HIDE DEF new
<1>5. /\ downloads' \in Seq(Download) /\ Len(downloads') = k
      /\ \A i \in 1 .. Len(downloads) : downloads'[i] = downloads[i]
      /\ downloads'[k] = new
  BY <1>2, <1>3, AppendProperties DEF Types
<1>6. /\ Started = 1 .. Len(downloads) /\ Len(downloads) \in Nat
      /\ Started' = Started \cup {k} /\ k \notin Started
      /\ \A i \in Started : i < k
  BY <1>5 DEF Types, Started
<1>7. \A i \in Started : downloads'[i] = downloads[i] BY <1>5, <1>6
<1>8. \A j \in Started : downloads[j].dest = prompt.dest => finished(j)
  BY DEF start, Cleared, beingDownloaded
<1>9. /\ mixed \subseteq mixed'
      /\ \A j \in Started :
           \/ downloads[j].name = prompt.name /\ ~finished(j)
           \/ /\ downloads[j].dest = prompt.dest
              /\ downloads[j].name # prompt.name \/ disk[Final(prompt.dest)] # NoFile
           => downloads[j].name \in mixed'
  BY DEF start
<1>10. mixed' \subseteq Names
  BY Fields DEF start, Types
<1>11. Serial'
  <2> SUFFICES ASSUME NEW i \in Started', NEW j \in Started', i < j,
                      downloads'[i].dest = downloads'[j].dest
               PROVE  /\ downloads'[i].at = "done"
                      /\ downloads'[i].name # downloads'[j].name =>
                             downloads'[i].name \in mixed'
    BY DEF Serial, finished
  <2>1. i \in Started BY <1>6
  <2>2. CASE j = k
    BY <1>4, <1>5, <1>7, <1>8, <1>9, <2>1, <2>2 DEF finished
  <2>3. CASE j \in Started
    BY <1>7, <1>9, <2>1, <2>3 DEF Known, Serial, finished
  <2> QED BY <1>6, <2>2, <2>3
<1>12. Overlaps'
  <2> SUFFICES ASSUME NEW i \in Started', NEW j \in Started', i # j,
                      downloads'[i].name = downloads'[j].name,
                      downloads'[i].at # "done", downloads'[j].at # "done"
               PROVE  downloads'[i].name \in mixed'
    BY DEF Overlaps, finished
  <2>1. CASE i \in Started /\ j \in Started
    BY <1>7, <1>9, <2>1 DEF Known, Overlaps, finished
  <2>2. CASE i = k \/ j = k
    BY <1>4, <1>5, <1>6, <1>7, <1>9, <2>2 DEF finished
  <2> QED BY <1>6, <2>1, <2>2
<1>13. Retries'
  <2> SUFFICES ASSUME NEW i \in Started', NEW j \in Started', i < j,
                      downloads'[i].dest = downloads'[j].dest, downloads'[j].at = "prepare",
                      downloads'[i].name \notin mixed'
               PROVE  disk[Final(downloads'[j].dest)] = NoFile
    BY <1>1 DEF Retries, At
  <2>1. i \in Started BY <1>6
  <2>2. CASE j = k
    BY <1>4, <1>5, <1>7, <1>9, <2>1, <2>2
  <2>3. CASE j \in Started
    BY <1>7, <1>9, <2>1, <2>3 DEF Known, Retries, At
  <2> QED BY <1>6, <2>2, <2>3
<1>14. FilesKnown'
  <2>1. \A n \in Names : disk'[Own(n)] = Whole(n) BY <1>1 DEF Known, FilesKnown
  <2>2. ASSUME NEW i \in Started PROVE PartKnown(i)'
    <3>1. PartKnown(i) BY DEF Known, FilesKnown
    <3> QED BY <1>1, <1>7, <3>1 DEF PartKnown, At, Whole
  <2>3. ASSUME NEW i, i = k PROVE PartKnown(i)'
    <3>1. /\ downloads'[i].at = "prepare"
          /\ downloads'[i].verified = {} /\ downloads'[i].unmarked = {}
      BY <1>4, <1>5, <2>3
    <3> QED BY <3>1 DEF PartKnown, At
  <2> QED BY <1>6, <2>1, <2>2, <2>3 DEF FilesKnown, Whole
<1>15. ASSUME NEW n \in Names, NEW path, NEW A, Served(n, path, A)
       PROVE  Served(n, path, A)'
  <2>1. ASSUME NEW j \in Started, LeftBy(j, n, path, A) PROVE LeftBy(j, n, path, A)'
    <3>1. downloads'[j] = downloads[j] BY <1>7
    <3> QED BY <1>1, <2>1, <3>1 DEF LeftBy, InPart, Whole
  <2> QED BY <1>6, <1>15, <2>1 DEF Served
<1>16. EntryMine'
  <2> SUFFICES ASSUME NEW i \in Started', downloads'[i].name \notin mixed',
                      downloads'[i].at \in {"fetch", "hash", "rename", "seed"},
                      shared[downloads'[i].name] # NoEntry
               PROVE  shared[downloads'[i].name].path \in
                          {Own(downloads'[i].name), Part(downloads'[i].dest)}
    BY <1>1 DEF EntryMine
  <2>1. i \in Started BY <1>4, <1>5, <1>6
  <2> QED BY <1>7, <1>9, <2>1 DEF EntryMine
<1>17. EntriesServed' BY <1>1, <1>9, <1>15 DEF EntriesServed
<1>18. CopiesServed' BY <1>1, <1>9, <1>15 DEF CopiesServed
<1>19. Delivers' BY <1>11, <1>12, <1>13, <1>14, <1>16, <1>17, <1>18 DEF Delivers, Known
<1> QED BY <1>1, <1>5, <1>10, <1>19 DEF Types

(* No step of a download changes the list or a destination, so the one that   *)
(* start() saw free stays free.                                               *)
LEMMA DownloadKeepsCleared ==
    ASSUME Types, Cleared, NEW i \in Started, ~finished(i), prompt' = prompt,
           run(i) \/ \E p \in Pieces : write(i, p)
    PROVE  Cleared'
<1> DEFINE Kept == /\ Started' = Started /\ downloads'[i].dest = downloads[i].dest
                   /\ \A j \in Started : j # i => downloads'[j] = downloads[j]
<1>1. ASSUME NEW step \in Steps, Goto(i, step), mixed' = mixed PROVE Kept
  BY <1>1, GotoMoves DEF Moves
<1>2. ASSUME prepare(i) PROVE Kept
  <2>1. matching(disk[Part(downloads[i].dest)], downloads[i].name) \in SUBSET Pieces
    BY DEF matching
  <2> QED BY <1>1, <1>2, <2>1, PrepareMoves DEF prepare, Moves, Steps
<1>3. ASSUME publishPartial(i) PROVE Kept BY <1>1, <1>3 DEF publishPartial, Steps
<1>4. ASSUME joinWorkers(i) PROVE Kept BY <1>1, <1>4 DEF joinWorkers, Steps
<1>5. ASSUME checkHash(i) PROVE Kept BY <1>1, <1>5 DEF checkHash, Steps
<1>6. ASSUME rename(i) PROVE Kept BY <1>1, <1>6 DEF rename, Steps
<1>7. ASSUME publishComplete(i) PROVE Kept BY <1>1, <1>7 DEF publishComplete, Steps
<1>8. ASSUME NEW p \in Pieces, markVerified(i, p) PROVE Kept
  BY <1>8, MarkMoves DEF markVerified, Moves
<1>9. ASSUME NEW p \in Pieces, write(i, p) PROVE Kept
  BY <1>9, WriteMoves DEF write, Moves, Started
<1>10. Kept BY <1>2, <1>3, <1>4, <1>5, <1>6, <1>7, <1>8, <1>9 DEF run
<1> QED BY <1>10 DEF Cleared, beingDownloaded, finished

(* A step of a download leaves the prompt and the handlers alone, and there   *)
(* is none once the destructor has joined the threads.                        *)
LEMMA DownloadStep ==
    ASSUME Inv, NEW i \in Started, run(i) \/ \E p \in Pieces : write(i, p)
    PROVE  Inv'
<1> USE DEF Inv, Safe
<1>1. Delivers' /\ Types' BY RunKept, WriteKept
<1>2. UNCHANGED <<prompt, handler>> /\ ~finished(i)
  BY DEF run, prepare, publishPartial, joinWorkers, checkHash, rename, publishComplete,
         markVerified, write, At, finished
<1>3. prompt.at \notin {"stopping", "draining", "gone"} BY <1>2 DEF TakenDown
<1>4. PromptTypes' /\ HandlerTypes' /\ TakenDown'
  BY <1>2, <1>3 DEF PromptTypes, HandlerTypes, TakenDown
<1>5. Cleared' BY <1>2, DownloadKeepsCleared
<1> QED BY <1>1, <1>4, <1>5 DEF Delivers

(* Cancelling marks downloads and nothing else. *)
LEMMA CancelStep ==
    ASSUME Inv, NEW n \in Names, cancel(n)
    PROVE  Undisturbed /\ Types'
<1> USE DEF Inv, Safe
<1>1. PICK i \in Started : downloads' = [downloads EXCEPT ![i].cancelled = TRUE]
  BY DEF cancel
<1> DEFINE e == [downloads[i] EXCEPT !.cancelled = TRUE]
<1>2. downloads' = [downloads EXCEPT ![i] = e] BY <1>1
<1>3. /\ e \in Download /\ e.at = downloads[i].at /\ e.verified = downloads[i].verified
      /\ e.name = downloads[i].name /\ e.dest = downloads[i].dest
      /\ e.unmarked = downloads[i].unmarked
  BY Fields DEF Download
<1> HIDE DEF e
<1>4. UNCHANGED <<disk, shared, mixed>> BY DEF cancel
<1>5. Undisturbed BY <1>2, <1>3, <1>4, OneChanges DEF Undisturbed
<1>6. downloads' \in Seq(Download) BY <1>2, <1>3, OneChanges
<1> QED BY <1>4, <1>5, <1>6 DEF Types

(* quit marks all of them. *)
LEMMA QuitStep ==
    ASSUME Inv, quit
    PROVE  Undisturbed /\ Types'
<1> USE DEF Inv, Safe
<1>1. PICK N \in Nat : Started = 1 .. N /\ N = Len(downloads) BY DEF Types, Started
<1>2. downloads' = [i \in 1 .. N |-> [downloads[i] EXCEPT !.cancelled = TRUE]]
  BY <1>1 DEF quit
<1>3. ASSUME NEW i \in 1 .. N PROVE
        /\ [downloads[i] EXCEPT !.cancelled = TRUE] \in Download
        /\ downloads'[i] = [downloads[i] EXCEPT !.cancelled = TRUE]
        /\ downloads'[i].name = downloads[i].name /\ downloads'[i].dest = downloads[i].dest
        /\ downloads'[i].at = downloads[i].at
        /\ downloads'[i].verified = downloads[i].verified
        /\ downloads'[i].unmarked = downloads[i].unmarked
  BY <1>1, <1>2, Fields DEF Download
<1>4. DOMAIN downloads' = 1 .. N BY <1>2
<1>5. downloads' \in Seq(Download) BY <1>2, <1>3, <1>4
<1>6. Started' = Started BY <1>1, <1>4 DEF Started
<1>7. UNCHANGED <<disk, shared, mixed>> BY DEF quit
<1> QED BY <1>1, <1>3, <1>5, <1>6, <1>7 DEF Undisturbed, Types

(* The prompt's other steps: the user shares or stops sharing a file, a       *)
(* destination is looked at, and the client is taken down.                    *)
LEMMA PromptStep ==
    ASSUME Inv,
           \/ \E n \in Names : upload(n) \/ stopShare(n) \/ cancel(n)
           \/ \E n \in Names, d \in Dests : checkExists(n, d)
           \/ checkList \/ refuse \/ start \/ quit \/ destroy
    PROVE  Inv'
<1> USE DEF Inv, Safe
<1>1. ASSUME Undisturbed, Types', handler' = handler,
             \A n \in Names : shared'[n] \in {shared[n], NoEntry} \/ shared'[n].path = Own(n)
      PROVE  Delivers' /\ HandlerTypes'
  <2>1. Delivers'
    BY <1>1, UndisturbedDelivers
  <2>2. HandlerTypes' BY <1>1 DEF HandlerTypes
  <2> QED BY <2>1, <2>2
<1>2. ASSUME NEW n \in Names, upload(n) PROVE Inv'
  <2> DEFINE e == [path |-> Own(n), available |-> Pieces]
  <2>1. /\ shared' = [shared EXCEPT ![n] = e] /\ prompt.at = "ready"
        /\ UNCHANGED <<disk, downloads, prompt, handler, mixed>>
    BY <1>2 DEF upload, add, Ready
  <2>2. e \in Entries /\ e.path = Own(n)
    BY DEF Entries, Own, Paths
  <2> HIDE DEF e
  <2>3. Types' BY <2>1, <2>2 DEF Types
  <2>4. Undisturbed BY <2>1 DEF Undisturbed, Started
  <2>5. \A m \in Names : shared'[m] = shared[m] \/ shared'[m].path = Own(m)
    BY <2>1, <2>2 DEF Types
  <2>6. PromptTypes' /\ Cleared' /\ TakenDown'
    BY <2>1 DEF PromptTypes, Cleared, TakenDown
  <2> QED BY <1>1, <2>1, <2>3, <2>4, <2>5, <2>6 DEF Delivers
<1>3. ASSUME NEW n \in Names, stopShare(n) PROVE Inv'
  <2>1. /\ shared' = [shared EXCEPT ![n] = NoEntry] /\ prompt.at = "ready"
        /\ UNCHANGED <<disk, downloads, prompt, handler, mixed>>
    BY <1>3 DEF stopShare, Ready
  <2>2. Types' BY <2>1 DEF Types
  <2>3. Undisturbed BY <2>1 DEF Undisturbed, Started
  <2>4. \A m \in Names : shared'[m] \in {shared[m], NoEntry}
    BY <2>1 DEF Types
  <2>5. PromptTypes' /\ Cleared' /\ TakenDown'
    BY <2>1 DEF PromptTypes, Cleared, TakenDown
  <2> QED BY <1>1, <2>1, <2>2, <2>3, <2>4, <2>5 DEF Delivers
<1>4. ASSUME NEW n \in Names, cancel(n) PROVE Inv'
  <2>1. Undisturbed /\ Types' BY <1>4, CancelStep
  <2>2. prompt.at = "ready" /\ UNCHANGED <<shared, prompt, handler>>
    BY <1>4 DEF cancel, Ready
  <2>3. PromptTypes' /\ Cleared' /\ TakenDown'
    BY <2>2 DEF PromptTypes, Cleared, TakenDown
  <2> QED BY <1>1, <2>1, <2>2, <2>3 DEF Delivers
<1>5. CASE quit
  <2>1. Undisturbed /\ Types' BY <1>5, QuitStep
  <2>2. prompt'.at = "joining" /\ UNCHANGED <<shared, handler>>
    BY <1>5 DEF quit
  <2>3. PromptTypes' /\ Cleared' /\ TakenDown'
    BY <2>2 DEF PromptTypes, Cleared, TakenDown
  <2> QED BY <1>1, <2>1, <2>2, <2>3 DEF Delivers
<1>6. CASE start
  <2>1. Delivers' /\ Types' BY <1>6, StartKept
  <2>2. prompt'.at = "ready" /\ handler' = handler BY <1>6 DEF start, Ready
  <2>3. PromptTypes' /\ HandlerTypes' /\ Cleared' /\ TakenDown'
    BY <2>2 DEF PromptTypes, HandlerTypes, Cleared, TakenDown
  <2> QED BY <2>1, <2>3 DEF Delivers
<1>7. ASSUME UNCHANGED <<disk, shared, downloads, handler, mixed>>,
             PromptTypes', Cleared', TakenDown'
      PROVE  Inv'
  <2>1. Types' BY <1>7 DEF Types
  <2>2. Undisturbed BY <1>7 DEF Undisturbed, Started
  <2> QED BY <1>1, <1>7, <2>1, <2>2 DEF Delivers
<1>8. ASSUME NEW n \in Names, NEW d \in Dests, checkExists(n, d) PROVE Inv'
  <2>1. PromptTypes' /\ Cleared' /\ TakenDown'
    BY <1>8 DEF checkExists, PromptTypes, Cleared, TakenDown
  <2> QED BY <1>7, <1>8, <2>1 DEF checkExists
<1>9. CASE refuse
  <2>1. PromptTypes' /\ Cleared' /\ TakenDown'
    BY <1>9 DEF refuse, Ready, PromptTypes, Cleared, TakenDown
  <2> QED BY <1>7, <1>9, <2>1 DEF refuse
<1>10. CASE joinDownloads
  <2>1. PromptTypes' /\ Cleared' /\ TakenDown'
    BY <1>10 DEF joinDownloads, joined, finished, Started, PromptTypes, Cleared, TakenDown
  <2> QED BY <1>7, <1>10, <2>1 DEF joinDownloads
<1>11. CASE noticeStop
  <2>1. PromptTypes' /\ Cleared' /\ TakenDown'
    BY <1>11 DEF noticeStop, finished, Started, PromptTypes, Cleared, TakenDown
  <2> QED BY <1>7, <1>11, <2>1 DEF noticeStop
<1>12. CASE stopServer
  <2>1. PromptTypes' /\ Cleared' /\ TakenDown'
    BY <1>12 DEF stopServer, Idle, finished, Started, PromptTypes, Cleared, TakenDown
  <2> QED BY <1>7, <1>12, <2>1 DEF stopServer
<1>13. CASE checkList
  <2>1. /\ prompt.at = "start" /\ ~beingDownloaded(prompt.dest)
        /\ prompt' = [prompt EXCEPT !.at = "locate"] /\ downloads' = downloads
    BY <1>13 DEF checkList
  <2>2. prompt'.at = "locate" /\ prompt'.name = prompt.name /\ prompt'.dest = prompt.dest
    BY <2>1 DEF PromptTypes
  <2>3. Cleared'
    BY <2>1, <2>2 DEF Cleared, beingDownloaded, finished, Started
  <2>4. PromptTypes' /\ TakenDown' BY <2>1, <2>2 DEF PromptTypes, TakenDown
  <2> QED BY <1>7, <1>13, <2>3, <2>4 DEF checkList
<1> QED BY <1>2, <1>3, <1>4, <1>5, <1>6, <1>8, <1>9, <1>10, <1>11, <1>12, <1>13 DEF destroy

(* A peer server thread takes a copy of an entry and later reads the file. *)
LEMMA HandlerStep ==
    ASSUME Inv, NEW h \in Handlers,
           accept(h) \/ respond(h) \/ \E n \in Names, p \in Pieces : find(h, n, p)
    PROVE  Inv'
<1> USE DEF Inv, Safe
<1>1. ASSUME NEW e, handler' = [handler EXCEPT ![h] = e],
             UNCHANGED <<disk, shared, downloads, prompt, mixed>>,
             prompt.at = "gone" => e = Idle,
             e.at \in {"idle", "open", "read"},
             e.at = "read" =>
                \E n \in Names, p \in Pieces :
                   /\ shared[n] # NoEntry /\ p \in shared[n].available
                   /\ e = [at |-> "read", name |-> n, piece |-> p, path |-> shared[n].path]
      PROVE  Inv'
  <2>1. /\ DOMAIN handler' = Handlers /\ handler'[h] = e
        /\ \A k \in Handlers : k # h => handler'[k] = handler[k]
    BY <1>1 DEF HandlerTypes
  <2>2. ASSUME e.at = "read"
        PROVE  e.name \in Names /\ e.piece \in Pieces /\ e.path \in Paths
    <3>1. PICK n \in Names, p \in Pieces :
            /\ shared[n] # NoEntry
            /\ e = [at |-> "read", name |-> n, piece |-> p, path |-> shared[n].path]
      BY <1>1, <2>2
    <3>2. shared[n].path \in Paths BY <3>1 DEF Types, Entries
    <3> QED BY <3>1, <3>2
  <2>3. HandlerTypes' BY <1>1, <2>1, <2>2 DEF HandlerTypes
  <2>4. TakenDown' /\ Cleared'
    BY <1>1, <2>1 DEF TakenDown, Cleared, beingDownloaded, finished, Started
  <2>5. Types' /\ PromptTypes' BY <1>1 DEF Types, PromptTypes
  <2>6. Undisturbed BY <1>1 DEF Undisturbed, Started
  <2>7. \A k \in Handlers :
              \/ handler'[k] = handler[k]
              \/ handler'[k].at # "read"
              \/ \E n \in Names, p \in Pieces :
                   /\ shared[n] # NoEntry /\ p \in shared[n].available
                   /\ handler'[k] = [at |-> "read", name |-> n, piece |-> p,
                                     path |-> shared[n].path]
    BY <1>1, <2>1
  <2>8. Delivers' BY <1>1, <2>6, <2>7, UndisturbedDelivers
  <2> QED BY <2>3, <2>4, <2>5, <2>8 DEF Delivers
<1>2. CASE accept(h) BY <1>1, <1>2 DEF accept
<1>3. CASE deny(h) BY <1>1, <1>3 DEF deny, Idle
<1>4. CASE read(h) BY <1>1, <1>4 DEF read, Idle
<1>5. ASSUME NEW n \in Names, NEW p \in Pieces, find(h, n, p) PROVE Inv'
  <2> DEFINE e == [at |-> "read", name |-> n, piece |-> p, path |-> shared[n].path]
  <2>1. prompt.at # "gone" BY <1>5 DEF find, TakenDown, Idle
  <2>2. e.at = "read" OBVIOUS
  <2>3. /\ handler' = [handler EXCEPT ![h] = e] /\ shared[n] # NoEntry
        /\ p \in shared[n].available
        /\ UNCHANGED <<disk, shared, downloads, prompt, mixed>>
    BY <1>5 DEF find
  <2>4. \E m \in Names, q \in Pieces :
           /\ shared[m] # NoEntry /\ q \in shared[m].available
           /\ e = [at |-> "read", name |-> m, piece |-> q, path |-> shared[m].path]
    BY <2>3
  <2> HIDE DEF e
  <2> QED BY <1>1, <2>1, <2>2, <2>3, <2>4
<1> QED BY <1>2, <1>3, <1>4, <1>5 DEF respond

-----------------------------------------------------------------------------
(* The theorems. *)

(* Every entry and every reader's copy names a file that has its pieces. *)
THEOREM EntriesDeliver == Spec => []Inv
<1>1. Init => Inv
  <2> SUFFICES ASSUME Init PROVE Inv OBVIOUS
  <2>1. ASSUME NEW f \in Paths, f[1] = "own" PROVE Whole(f[2]) \in File
    BY <2>1 DEF Paths, Whole, File
  <2>2. disk \in [Paths -> {NoFile} \cup File] BY <2>1 DEF Init
  <2>3. Started = {} BY DEF Init, Started
  <2>4. Types BY <2>2 DEF Init, Types
  <2>5. PromptTypes /\ HandlerTypes /\ Cleared /\ TakenDown
    BY <2>3 DEF Init, Ready, Idle, PromptTypes, HandlerTypes, Cleared, TakenDown
  <2>6. \A n \in Names : disk[Own(n)] = Whole(n)
    BY DEF Init, Own, Paths
  <2>7. Known BY <2>3, <2>6 DEF Known, Serial, Overlaps, Retries, FilesKnown
  <2>8. EntryMine BY <2>3 DEF EntryMine
  <2>9. EntriesServed BY DEF Init, EntriesServed
  <2>10. CopiesServed BY DEF Init, Idle, CopiesServed
  <2> QED BY <2>4, <2>5, <2>7, <2>8, <2>9, <2>10 DEF Inv, Safe
<1>2. Inv /\ [Next]_vars => Inv'
  <2> SUFFICES ASSUME Inv, [Next]_vars PROVE Inv' OBVIOUS
  <2>1. CASE Next BY <2>1, PromptStep, DownloadStep, HandlerStep DEF Next
  <2>2. CASE UNCHANGED vars
    <3> USE <2>2 DEF Inv, Safe, vars
    <3>1. Types' /\ PromptTypes' /\ HandlerTypes'
      BY DEF Types, PromptTypes, HandlerTypes
    <3>2. TakenDown' /\ Cleared'
      BY DEF TakenDown, Cleared, beingDownloaded, finished, Started
    <3>3. Undisturbed BY DEF Undisturbed, Started
    <3>4. Delivers' BY <3>3, UndisturbedDelivers
    <3> QED BY <3>1, <3>2, <3>4 DEF Delivers
  <2> QED BY <2>1, <2>2
<1> QED BY <1>1, <1>2, PTL DEF Spec

(* Files, entries and downloads have their types. *)
THEOREM TypeCorrect == Spec => []TypeOK
<1>1. Inv => TypeOK
  BY DEF Inv, Safe, Types, PromptTypes, HandlerTypes, TypeOK, Download, Steps, File
<1> QED BY <1>1, EntriesDeliver, PTL

(* However the look at the list, the tracker's answer, the push_back and the  *)
(* threads interleave, a .part file has one writer: downloads to one          *)
(* destination follow one another.                                            *)
THEOREM PartHasOneWriter == Spec => []OneWriterPerPart
<1>1. Inv => OneWriterPerPart
  <2> SUFFICES ASSUME Inv PROVE OneWriterPerPart OBVIOUS
  <2>1. Started \subseteq Nat BY DEF Inv, Safe, Types, Started
  <2> QED BY <2>1 DEF Inv, Known, Serial, OneWriterPerPart
<1> QED BY <1>1, EntriesDeliver, PTL

(* The destructors' order leaves no thread behind that could use SharedFiles. *)
THEOREM ClientGoesLast == Spec => []NothingOutlivesClient
<1>1. Inv => NothingOutlivesClient BY DEF Inv, Safe, TakenDown, NothingOutlivesClient
<1> QED BY <1>1, EntriesDeliver, PTL

(* What the peer server sends are a piece's own bytes, whatever happened to   *)
(* the file between the look at the entry and the read.                       *)
THEOREM SendsVerified == Spec => SentVerified
<1>1. Inv => \A h \in Handlers :
        handler[h].at = "read" /\ disk[handler[h].path] # NoFile =>
            disk[handler[h].path][handler[h].piece] = handler[h].name
              \/ handler[h].name \in mixed
  <2> SUFFICES ASSUME Inv, NEW h \in Handlers, handler[h].at = "read",
                      disk[handler[h].path] # NoFile, handler[h].name \notin mixed
               PROVE  disk[handler[h].path][handler[h].piece] = handler[h].name
    OBVIOUS
  <2>1. /\ handler[h].name \in Names \ mixed /\ handler[h].path \in Paths
        /\ handler[h].piece \in Pieces
    BY DEF Inv, Safe, HandlerTypes
  <2>2. \A n \in Names \ mixed, path \in Paths, p \in Pieces :
          n = handler[h].name /\ path = handler[h].path /\ p = handler[h].piece =>
             path = Own(n) \/ \E j \in Started : LeftBy(j, n, path, {p})
    BY DEF Inv, CopiesServed, Served
  <2>3. \A n \in Names : disk[Own(n)] = Whole(n) BY DEF Inv, Known, FilesKnown
  <2>4. CASE handler[h].path = Own(handler[h].name)
    <3>1. disk[handler[h].path] = Whole(handler[h].name) BY <2>1, <2>3, <2>4
    <3>2. Whole(handler[h].name)[handler[h].piece] = handler[h].name BY <2>1 DEF Whole
    <3> QED BY <3>1, <3>2
  <2>5. ASSUME NEW j \in Started,
               LeftBy(j, handler[h].name, handler[h].path, {handler[h].piece})
        PROVE  disk[handler[h].path][handler[h].piece] = handler[h].name
    BY <2>1, <2>5 DEF LeftBy, InPart, Whole
  <2> QED BY <2>1, <2>2, <2>4, <2>5
<1>2. Inv /\ [Next]_vars => [\A h \in Handlers :
          LET asked == handler[h]
          IN  asked.at = "read" /\ handler'[h] = Idle /\ disk[asked.path] # NoFile =>
                  disk[asked.path][asked.piece] = asked.name \/ asked.name \in mixed]_vars
  BY <1>1
<1> QED BY <1>2, EntriesDeliver, PTL DEF Spec, SentVerified
=============================================================================
