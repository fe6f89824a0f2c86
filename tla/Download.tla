------------------------------ MODULE Download ------------------------------
(***************************************************************************)
(* One download (client/download/download.cpp): the thread of run(), the   *)
(* worker threads of fetchPieces(), the prompt's cancel(), crashes of the  *)
(* client, and resuming from the .part file the last attempt left.         *)
(*                                                                         *)
(* A stored piece is "good" when its bytes match its hash, "bad" when they *)
(* do not, and "none" where nothing was written.  Seeders are of two       *)
(* kinds: a reliable one answers every request and always has the pieces   *)
(* it announces; the answers of the others are arbitrary.                  *)
(***************************************************************************)
EXTENDS Naturals, FiniteSets, Sequences, FiniteSetsExt

CONSTANTS
    NPieces, NSeeders,
    Workers,    \* the worker threads; MAX_THREADS of them
    Passes,     \* PASSES_PER_PIECE
    MaxRuns,    \* bound: how often the user starts the download
    NoFile      \* what a path holds where there is no file

ASSUME SizeAssumption ==
    /\ NPieces \in Nat           \* 0 for an empty file
    /\ NSeeders \in Nat \ {0}
    /\ Passes \in Nat \ {0}
    /\ MaxRuns \in Nat
    /\ IsFiniteSet(Workers) /\ Workers # {}

Pieces == 0 .. NPieces - 1
Seeders == 0 .. NSeeders - 1
Contents == {"none", "good", "bad"}

ASSUME NoFileAssumption == NoFile \notin [Pieces -> Contents]

VARIABLES
    holds,      \* reliable seeder -> the pieces it has (its domain never changes)
    part,       \* piece -> what the .part file holds, or NoFile
    dest,       \* the same for the destination
    entry,      \* the SharedFiles entry of this file: path and available
    runs,       \* downloads started so far
    pc,         \* where the thread of run() is
    verified,   \* verified_: pieces prepare() found in .part
    bitmaps,    \* seederBitmaps_
    asked,      \* seeders fetchBitmaps() has asked
    order,      \* the pieces to fetch, rarest first
    next,       \* next position in order to hand out
    worker,     \* worker -> its step, piece and attempt
    failed,     \* some piece could not be fetched
    cancelled,  \* cancelled_
    state,      \* 'D', 'C' or 'F', as Download::state() reports
    fault       \* history: an open, write, hash or rename (not a read) failed in this run

plan == <<verified, bitmaps, asked, order>>
object == <<plan, next, worker, failed>>
vars == <<holds, part, dest, entry, runs, pc, object, cancelled, state, fault>>

Idle == [at |-> "idle", piece |-> 0, attempt |-> 0]
Reliable == DOMAIN holds

NoEntry == [path |-> "none", available |-> {}]

Init ==
    /\ \E R \in SUBSET Seeders : holds \in [R -> SUBSET Pieces]
    /\ part = NoFile
    /\ dest = NoFile
    /\ entry = NoEntry
    /\ runs = 0
    /\ pc = "off"
    /\ verified = {} /\ bitmaps = [s \in Seeders |-> {}] /\ asked = 0
    /\ order = <<>> /\ next = 1 /\ worker = [w \in Workers |-> Idle]
    /\ state = "D" /\ failed = FALSE /\ cancelled = FALSE /\ fault = FALSE

-----------------------------------------------------------------------------
(* Faulty variants, used only to show that the properties can fail. *)

(* An old .part file is emptied instead of resumed. *)
openForWriting_truncates(file) == [p \in Pieces |-> "none"]

(* The pieces of an old .part file are not hashed. *)
matching_unhashed(file) == {p \in Pieces : file # NoFile}

(* A bitmap of another length is taken. *)
bitmapFrom_anyLength(s) == {0 .. NPieces}

(* Every attempt goes to the same holder. *)
holderAt_fixed(p, i) == Min({s \in Seeders : p \in bitmaps[s]})

(* next is read and written in two steps: an increment may get lost. *)
advance_lost == next' \in {next, next + 1}

(* A failed attempt is not counted. *)
tried_uncounted(attempt) == attempt

(* A cancelled download goes on to complete(). *)
givenUp_ignoresCancel == failed

(* The error of the rename is not looked at. *)
rename_unchecked ==
    /\ pc = "rename"
    /\ (dest' = part /\ part' = NoFile) \/ UNCHANGED <<part, dest>>
    /\ pc' = "publish"
    /\ UNCHANGED <<holds, entry, runs, object, cancelled, state, fault>>

-----------------------------------------------------------------------------
(* DownloadManager::start(): a destination that exists or is being           *)
(* downloaded is refused; otherwise a new Download object runs.              *)
start ==
    /\ pc = "off"
    /\ runs < MaxRuns
    /\ dest = NoFile
    /\ runs' = runs + 1
    /\ pc' = "prepare"
    /\ verified' = {} /\ bitmaps' = [s \in Seeders |-> {}] /\ asked' = 0
    /\ order' = <<>> /\ next' = 1 /\ worker' = [w \in Workers |-> Idle]
    /\ state' = "D" /\ failed' = FALSE /\ cancelled' = FALSE /\ fault' = FALSE
    /\ UNCHANGED <<holds, part, dest, entry>>

(* Download::cancel(), from the prompt or ~DownloadManager(), at any time. *)
cancel ==
    /\ pc # "off"
    /\ ~cancelled
    /\ cancelled' = TRUE
    /\ UNCHANGED <<holds, part, dest, entry, runs, pc, object, state, fault>>

finish(outcome) ==
    /\ state' = outcome
    /\ pc' = "off"

(* PieceFile on the .part file: opening creates it or keeps what it holds,   *)
(* reading finds the pieces that match their hashes, the whole file hashes   *)
(* right when they all do, and a write that stops halfway leaves a bad piece *)
(* unless the same bytes were there before.                                  *)
openForWriting(file) == IF file = NoFile THEN [p \in Pieces |-> "none"] ELSE file
matching(file) == {p \in Pieces : file # NoFile /\ file[p] = "good"}
hashesRight(file) == matching(file) = Pieces
torn(p) == IF part[p] = "good" THEN "good" ELSE "bad"

(* SharedFiles::add() and markAvailable() on this file's entry. *)
add(path, available) == entry' = [path |-> path, available |-> available]
markAvailable(p) == entry' = [entry EXCEPT !.available = @ \cup {p}]

(* What PeerClient::fetchBitmap() and fetchPiece() may return: a reliable    *)
(* seeder's pieces; any bitmap (none, when the request fails) and any        *)
(* outcome from another.                                                     *)
bitmapFrom(s) == IF s \in Reliable THEN {holds[s]} ELSE SUBSET Pieces
fetchSucceeds(s) == IF s \in Reliable THEN {TRUE} ELSE BOOLEAN

(* Opens .part and keeps the pieces that match.  A piece that cannot be read *)
(* counts as missing; an open may fail after it created the file.            *)
prepare ==
    /\ pc = "prepare"
    /\ \/ /\ part' = openForWriting(part)
          /\ verified' \in SUBSET matching(part)
          /\ pc' = "bitmaps"
          /\ UNCHANGED <<state, fault>>
       \/ /\ part' \in {part, openForWriting(part)}
          /\ fault' = TRUE
          /\ finish("F")
          /\ UNCHANGED verified
    /\ UNCHANGED <<holds, dest, entry, runs, bitmaps, asked, order, next, worker, failed, cancelled>>

(* One BITMAP request; a seeder that does not answer is not asked again. *)
fetchBitmap ==
    /\ pc = "bitmaps"
    /\ asked < NSeeders
    /\ \E B \in bitmapFrom(asked) : bitmaps' = [bitmaps EXCEPT ![asked] = B]
    /\ asked' = asked + 1
    /\ UNCHANGED <<holds, part, dest, entry, runs, pc, verified, order, next, worker, failed,
                   cancelled, state, fault>>

(* The seeders that announced the piece, and the one at a place in the order *)
(* of seeders_.                                                              *)
holders(p) == {s \in Seeders : p \in bitmaps[s]}
holderAt(p, i) == CHOOSE s \in holders(p) : Cardinality({t \in holders(p) : t < s}) = i
rarity(p) == Cardinality(holders(p))

(* The missing pieces in the order they are fetched: fewest holders first,   *)
(* ties by index (a stable sort of the increasing list).                     *)
rarestFirst ==
    LET missing == Pieces \ verified
    IN  {s \in [1 .. Cardinality(missing) -> missing] :
           \A i, j \in DOMAIN s : i < j =>
              \/ rarity(s[i]) < rarity(s[j])
              \/ rarity(s[i]) = rarity(s[j]) /\ s[i] < s[j]}

threadCount == Min({Cardinality(Workers), NSeeders, Len(order')})

(* Publishes the pieces found in .part, then starts the workers.  (What the  *)
(* tracker is told here is in the client's model.)                           *)
publishPartial ==
    /\ pc = "bitmaps"
    /\ asked = NSeeders
    /\ add("part", verified)
    /\ order' \in rarestFirst
    /\ \E T \in SUBSET Workers :
          /\ Cardinality(T) = threadCount
          /\ worker' = [w \in Workers |-> [Idle EXCEPT !.at = IF w \in T THEN "take" ELSE "done"]]
    /\ pc' = "fetch"
    /\ UNCHANGED <<holds, part, dest, runs, verified, bitmaps, asked, next, failed, cancelled,
                   state, fault>>

-----------------------------------------------------------------------------
(* A worker thread. *)

steady == <<holds, dest, runs, pc, plan, cancelled, state>>   \* what no worker changes
At(w, step) == worker[w].at = step
Goto(w, step) == worker' = [worker EXCEPT ![w].at = step]
advance == next' = next + 1
tried(attempt) == attempt + 1

(* "!cancelled_ && (position = next++) < order.size()" *)
take(w) ==
    /\ At(w, "take")
    /\ IF cancelled THEN UNCHANGED next ELSE advance
    /\ IF cancelled \/ next > Len(order) THEN Goto(w, "done")
       ELSE worker' = [worker EXCEPT ![w] = [at |-> "try", piece |-> order[next], attempt |-> 0]]
    /\ UNCHANGED <<steady, part, entry, failed, fault>>

mayTry(w) == worker[w].attempt < Passes * rarity(worker[w].piece) /\ ~cancelled

(* One attempt: a request to the next holder in turn.  A reliable holder     *)
(* returns the piece; another may return it, or fail in any way.             *)
request(w) ==
    LET p == worker[w].piece
        s == holderAt(p, (p + worker[w].attempt) % rarity(p))
    IN  /\ At(w, "try")
        /\ mayTry(w)
        /\ \E success \in fetchSucceeds(s) :
              IF success THEN Goto(w, "write")
              ELSE worker' = [worker EXCEPT ![w].attempt = tried(@)]
        /\ UNCHANGED <<steady, part, entry, next, failed, fault>>

(* A verified piece goes to disk and is published; a failed write uses up     *)
(* the attempt.                                                               *)
write(w) ==
    /\ At(w, "write")
    /\ \/ /\ part' = [part EXCEPT ![worker[w].piece] = "good"]
          /\ Goto(w, "mark")
          /\ UNCHANGED fault
       \/ /\ part' = [part EXCEPT ![worker[w].piece] = torn(worker[w].piece)]
          /\ fault' = TRUE
          /\ worker' = [worker EXCEPT ![w].at = "try", ![w].attempt = tried(@)]
    /\ UNCHANGED <<steady, entry, next, failed>>

markVerified(w) ==
    /\ At(w, "mark")
    /\ markAvailable(worker[w].piece)
    /\ Goto(w, "take")
    /\ UNCHANGED <<steady, part, next, failed, fault>>

(* fetchPiece() returns false: no attempts left, or cancelled, *)
giveUp(w) ==
    /\ At(w, "try")
    /\ ~mayTry(w)
    /\ Goto(w, "false")
    /\ UNCHANGED <<steady, part, entry, next, failed, fault>>

(* and the worker records the failure unless cancelled_ is set by now. *)
recordFailure(w) ==
    /\ At(w, "false")
    /\ failed' = (failed \/ ~cancelled)
    /\ Goto(w, "take")
    /\ UNCHANGED <<steady, part, entry, next, fault>>

-----------------------------------------------------------------------------
givenUp == cancelled \/ failed

(* All workers joined: cancelled, failed, or on to complete(). *)
join ==
    /\ pc = "fetch"
    /\ \A w \in Workers : At(w, "done")
    /\ IF givenUp THEN finish("F") ELSE pc' = "hash" /\ UNCHANGED state
    /\ UNCHANGED <<holds, part, dest, entry, runs, object, cancelled, fault>>

(* complete(): the whole file's hash, *)
checkHash ==
    /\ pc = "hash"
    /\ \/ /\ UNCHANGED fault
          /\ IF hashesRight(part) THEN pc' = "rename" /\ UNCHANGED state ELSE finish("F")
       \/ fault' = TRUE /\ finish("F")
    /\ UNCHANGED <<holds, part, dest, entry, runs, object, cancelled>>

(* then the rename, *)
rename ==
    /\ pc = "rename"
    /\ \/ /\ dest' = part
          /\ part' = NoFile
          /\ pc' = "publish"
          /\ UNCHANGED <<state, fault>>
       \/ /\ fault' = TRUE
          /\ finish("F")
          /\ UNCHANGED <<part, dest>>
    /\ UNCHANGED <<holds, entry, runs, object, cancelled>>

(* then (after telling the tracker) sharing the complete file. *)
publishComplete ==
    /\ pc = "publish"
    /\ add("dest", Pieces)
    /\ finish("C")
    /\ UNCHANGED <<holds, part, dest, runs, object, cancelled, fault>>

(* The client process dies; a piece being written may be torn. *)
crash ==
    /\ runs < MaxRuns
    /\ pc' = "off"
    /\ entry' = NoEntry
    /\ \E halfway \in SUBSET {w \in Workers : At(w, "write")} :
          part' = IF part = NoFile THEN NoFile
                  ELSE [p \in Pieces |->
                          IF \E w \in halfway : worker[w].piece = p THEN torn(p) ELSE part[p]]
    /\ worker' = [w \in Workers |-> Idle]
    /\ UNCHANGED <<holds, dest, runs, plan, next, failed, cancelled, state, fault>>

runStep == prepare \/ fetchBitmap \/ publishPartial \/ join \/ checkHash \/ rename
             \/ publishComplete
workerStep(w) ==
    take(w) \/ request(w) \/ write(w) \/ markVerified(w) \/ giveUp(w) \/ recordFailure(w)

Next == start \/ cancel \/ crash \/ runStep \/ \E w \in Workers : workerStep(w)

Spec == Init /\ [][Next]_vars

(* Threads are scheduled: sockets and disk calls return (peer sockets have   *)
(* timeouts), so every thread that can take a step eventually does.          *)
FairSpec ==
    /\ Spec
    /\ WF_vars(runStep)
    /\ \A w \in Workers : WF_vars(workerStep(w))

-----------------------------------------------------------------------------
(* Types, with the .part file present whenever a worker or check uses it. *)
TypeOK ==
    /\ holds \in UNION {[R -> SUBSET Pieces] : R \in SUBSET Seeders}
    /\ {part, dest} \subseteq {NoFile} \cup [Pieces -> Contents]
    /\ entry \in [path : {"none", "part", "dest"}, available : SUBSET Pieces]
    /\ runs \in 0 .. MaxRuns
    /\ pc \in {"off", "prepare", "bitmaps", "fetch", "hash", "rename", "publish"}
    /\ verified \subseteq Pieces
    /\ bitmaps \in [Seeders -> SUBSET Pieces]
    /\ asked \in 0 .. NSeeders
    /\ order \in Seq(Pieces)
    /\ next \in Nat
    /\ worker \in [Workers -> [at : {"idle", "take", "try", "write", "mark", "false", "done"},
                               piece : Nat, attempt : Nat]]
    /\ {failed, cancelled, fault} \subseteq BOOLEAN
    /\ state \in {"D", "C", "F"}
    /\ pc \in {"bitmaps", "fetch", "hash", "rename"} => part # NoFile

Busy(w) == worker[w].at \in {"try", "write", "mark", "false"}

(* No piece is fetched by two workers at once, nor one that prepare() had     *)
(* already verified: next++ hands every position of the order out once.       *)
OneWorkerPerPiece ==
    \A w \in Workers : Busy(w) =>
        /\ worker[w].piece \notin verified
        /\ \A v \in Workers \ {w} : Busy(v) => worker[v].piece # worker[w].piece

(* A download reported complete left a whole, correct file at the             *)
(* destination and nothing else ever appears there, wherever a cancel, a      *)
(* failure or a crash hits run().  (A cancel after run()'s last look at       *)
(* cancelled_ still ends in 'C', with a whole file.)                          *)
CompleteIsWhole ==
    /\ state = "C" => dest # NoFile
    /\ dest # NoFile => \A p \in Pieces : dest[p] = "good"

(* When fetchPieces() returns true and nobody cancelled, every piece is on    *)
(* disk and correct: the whole-file hash only guards against what others do   *)
(* to the file.                                                               *)
JoinedIsWhole == pc = "hash" => \A p \in Pieces : part[p] = "good"

(* What the peer server reads through the published entry is never wrong:     *)
(* an available piece is good in the file the entry names, if that file is    *)
(* still there.                                                               *)
PublishedNeverWrong ==
    LET file == IF entry.path = "dest" THEN dest ELSE part
    IN  entry.path # "none" /\ file # NoFile =>
            \A p \in entry.available : file[p] = "good"

(* A download fails only for a reason: it was cancelled, the disk failed, or  *)
(* some piece is held by no reliable seeder.  The turns over the holders      *)
(* reach every one of them, whatever the unreliable ones answer.              *)
FailsOnlyForCause ==
    state = "F" =>
        \/ cancelled
        \/ fault
        \/ \E p \in Pieces : \A s \in Reliable : p \notin holds[s]

(* Verified pieces survive: no cancel, failure, crash or later run turns a    *)
(* good piece of the .part file into anything else (the whole file may only   *)
(* move to the destination).                                                  *)
GoodPiecesKept ==
    [][part # NoFile =>
          IF part' = NoFile THEN dest' = part
          ELSE \A p \in Pieces : part[p] = "good" => part'[p] = "good"]_vars

(* Every started download ends, with or without cancellation. *)
EveryRunEnds == pc # "off" ~> pc = "off"
=============================================================================
