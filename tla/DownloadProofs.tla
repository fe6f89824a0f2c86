--------------------------- MODULE DownloadProofs ---------------------------
(***************************************************************************)
(* One download, for any number of pieces, seeders, workers, passes and    *)
(* runs: no piece is fetched twice, what is published or left at the       *)
(* destination is right whatever is cancelled, fails or crashes, and a     *)
(* download fails only for a reason.                                       *)
(***************************************************************************)
EXTENDS Download, FiniteSetTheorems, TLAPS

-----------------------------------------------------------------------------
(* The inductive invariant. *)

File == [Pieces -> Contents]
Worker == [at : {"idle", "take", "try", "write", "mark", "false", "done"},
           piece : Nat, attempt : Nat]

SeederTypes == Reliable \subseteq Seeders /\ holds \in [Reliable -> SUBSET Pieces]

FileTypes ==
    /\ part \in {NoFile} \cup File
    /\ dest \in {NoFile} \cup File
    /\ entry \in [path : {"none", "part", "dest"}, available : SUBSET Pieces]

RunTypes ==
    /\ runs \in 0 .. MaxRuns
    /\ pc \in {"off", "prepare", "bitmaps", "fetch", "hash", "rename", "publish"}
    /\ state \in {"D", "C", "F"}
    /\ failed \in BOOLEAN /\ cancelled \in BOOLEAN /\ fault \in BOOLEAN

PlanTypes ==
    /\ verified \in SUBSET Pieces
    /\ bitmaps \in [Seeders -> SUBSET Pieces]
    /\ asked \in 0 .. NSeeders
    /\ order \in Seq(Pieces)
    /\ next \in Nat \ {0}

WorkerTypes == worker \in [Workers -> Worker]

Types == SeederTypes /\ FileTypes /\ RunTypes /\ PlanTypes /\ WorkerTypes

AllGood(file) == \A p \in Pieces : file[p] = "good"

(* What holds of the two files at each stage of run(). *)
Stages ==
    /\ pc \in {"bitmaps", "fetch", "hash", "rename"} => part # NoFile
    /\ pc \in {"prepare", "bitmaps", "fetch", "hash", "rename"} => dest = NoFile
    /\ pc = "publish" => dest # NoFile
    /\ pc \in {"hash", "rename"} => AllGood(part)
    /\ dest # NoFile => AllGood(dest)
    /\ state = "C" => dest # NoFile

(* The workers run only inside fetchPieces(), which starts with a new count. *)
Inside ==
    /\ pc # "fetch" => \A w \in Workers : worker[w].at \in {"idle", "done"}
    /\ pc \in {"prepare", "bitmaps"} => next = 1 /\ ~failed
    /\ pc = "prepare" => asked = 0

(* What verified_ says is in the .part file, and stays. *)
Found == pc \in {"bitmaps", "fetch"} => verified \subseteq matching(part)

Positions == DOMAIN order

(* The order has every missing piece once. *)
Ordered ==
    pc = "fetch" =>
        /\ \A i, j \in Positions : i # j => order[i] # order[j]
        /\ \A i \in Positions : order[i] \notin verified
        /\ \A p \in Pieces \ verified : \E i \in Positions : order[i] = p

(* A busy worker's piece is at a position that was handed out, to it alone, *)
HandedOut ==
    pc = "fetch" =>
        /\ \A w \in Workers : Busy(w) =>
             \E i \in Positions : i < next /\ order[i] = worker[w].piece
        /\ \A v, w \in Workers : v # w /\ Busy(v) /\ Busy(w) => worker[v].piece # worker[w].piece

(* and is in the file before it is marked. *)
Written ==
    pc = "fetch" =>
        \A w \in Workers : worker[w].at = "mark" => part[worker[w].piece] = "good"

(* No position is forgotten: its piece is there or somebody has it, unless    *)
(* the download is given up; and somebody is there to take the next one.      *)
NoneForgotten ==
    pc = "fetch" =>
        /\ \A i \in Positions : i < next =>
             \/ givenUp
             \/ part[order[i]] = "good"
             \/ \E w \in Workers : Busy(w) /\ worker[w].piece = order[i]
        /\ cancelled \/ next > Len(order) \/ \E w \in Workers : worker[w].at # "done"

(* What the entry promises is in the file it names, or will never be read. *)
Published ==
    /\ PublishedNeverWrong
    /\ entry.path = "part" /\ part = NoFile => dest # NoFile
    /\ entry.path = "dest" => dest # NoFile

Unheld(p) == \A s \in Reliable : p \notin holds[s]
Excused == cancelled \/ fault \/ \E p \in Pieces : Unheld(p)

(* The turns a worker has taken over the holders of its piece met no reliable *)
(* one, or there was another reason to fail.                                  *)
Turns ==
    /\ pc = "bitmaps" => \A s \in Reliable : s < asked => bitmaps[s] = holds[s]
    /\ pc = "fetch" => \A s \in Reliable : bitmaps[s] = holds[s]
    /\ pc = "fetch" => \A w \in Workers :
         LET p == worker[w].piece
         IN  /\ worker[w].at \in {"try", "write"} => fault \/
                  \A b \in 0 .. worker[w].attempt - 1 :
                      holderAt(p, (p + b) % rarity(p)) \notin Reliable
             /\ worker[w].at = "false" => Excused
    /\ pc = "fetch" /\ failed => Excused
    /\ state = "F" => Excused

Safe == Types /\ Stages /\ Inside /\ Found
Fetching == Ordered /\ HandedOut /\ Written /\ NoneForgotten
Inv == Safe /\ Fetching /\ Published /\ Turns

-----------------------------------------------------------------------------
(* Turns over the holders. *)

(* A remainder is determined by its equation. *)
LEMMA ModIs ==
    ASSUME NEW r \in Nat \ {0}, NEW m \in Int, NEW k \in 0 .. r - 1
    PROVE  (r * m + k) % r = k
<1> DEFINE x == r * m + k
           d == x \div r
           e == x % r
<1>1. x \in Int /\ d \in Int /\ e \in 0 .. r - 1 /\ x = r * d + e
  OBVIOUS
<1>2. r * (m - d) = e - k
  BY <1>1
<1> HIDE DEF d, e, x
<1>3. ASSUME m - d >= 1 PROVE r * (m - d) >= r
  BY <1>1, <1>3
<1>4. ASSUME m - d <= -1 PROVE r * (m - d) <= -r
  BY <1>1, <1>4
<1>5. m - d = 0 BY <1>1, <1>2, <1>3, <1>4
<1> QED BY <1>1, <1>2, <1>5 DEF e, x

(* r turns from any first one reach every place. *)
LEMMA TurnsReachAll ==
    ASSUME NEW r \in Nat \ {0}, NEW p \in Nat, NEW k \in 0 .. r - 1
    PROVE  \E b \in 0 .. r - 1 : (p + b) % r = k
<1> DEFINE d == p \div r
           q == p % r
<1>1. d \in Int /\ q \in 0 .. r - 1 /\ p = r * d + q
  OBVIOUS
<1> HIDE DEF d, q
<1>2. CASE k >= q
  <2>1. p + (k - q) = r * d + k BY <1>1
  <2>2. (p + (k - q)) % r = k BY <1>1, <2>1, ModIs
  <2>3. k - q \in 0 .. r - 1 BY <1>1, <1>2
  <2> QED BY <2>2, <2>3, Zenon
<1>3. CASE k < q
  <2>1. p + (k - q + r) = r * (d + 1) + k BY <1>1
  <2>2. (p + (k - q + r)) % r = k BY <1>1, <2>1, ModIs
  <2>3. k - q + r \in 0 .. r - 1 BY <1>1, <1>3
  <2> QED BY <2>2, <2>3, Zenon
<1> QED BY <1>1, <1>2, <1>3

(* The holders of a piece are finitely many. *)
LEMMA HoldersFinite ==
    ASSUME NEW p
    PROVE  /\ IsFiniteSet(holders(p)) /\ holders(p) \subseteq Seeders
           /\ rarity(p) \in Nat
           /\ \A s \in holders(p) :
                /\ IsFiniteSet({t \in holders(p) : t < s})
                /\ Cardinality({t \in holders(p) : t < s}) \in 0 .. rarity(p) - 1
<1>1. IsFiniteSet(Seeders) BY SizeAssumption, FS_Interval DEF Seeders
<1>2. holders(p) \subseteq Seeders BY DEF holders
<1>3. IsFiniteSet(holders(p)) BY <1>1, <1>2, FS_Subset
<1>4. rarity(p) \in Nat BY <1>3, FS_CardinalityType DEF rarity
<1>5. ASSUME NEW s \in holders(p)
      PROVE  /\ IsFiniteSet({t \in holders(p) : t < s})
             /\ Cardinality({t \in holders(p) : t < s}) \in 0 .. rarity(p) - 1
  <2> DEFINE B == {t \in holders(p) : t < s}
  <2>1. B \subseteq holders(p) /\ s \notin B
    <3>1. s \in Int BY <1>2 DEF Seeders
    <3> QED BY <3>1
  <2>2. IsFiniteSet(B) /\ Cardinality(B) <= Cardinality(holders(p))
        /\ (Cardinality(holders(p)) = Cardinality(B) => holders(p) = B)
    BY <1>3, <2>1, FS_Subset
  <2>3. Cardinality(B) \in Nat BY <2>2, FS_CardinalityType
  <2> QED BY <1>4, <1>5, <2>1, <2>2, <2>3 DEF rarity
<1> QED BY <1>2, <1>3, <1>4, <1>5

(* Every holder has a place, and holderAt() finds it there. *)
LEMMA HolderHasPlace ==
    ASSUME NEW p, NEW s \in holders(p)
    PROVE  \E i \in 0 .. rarity(p) - 1 : holderAt(p, i) = s
<1> DEFINE B(u) == {t \in holders(p) : t < u}
           i == Cardinality(B(s))
<1>1. i \in 0 .. rarity(p) - 1 BY HoldersFinite
<1>2. holders(p) \subseteq Int BY HoldersFinite DEF Seeders
<1>3. ASSUME NEW u \in holders(p), NEW v \in holders(p), u < v
      PROVE  Cardinality(B(u)) # Cardinality(B(v))
  <2>1. B(u) \subseteq B(v) /\ u \in B(v) /\ u \notin B(u)
    BY <1>2, <1>3
  <2>2. IsFiniteSet(B(v)) BY HoldersFinite
  <2> HIDE DEF B
  <2> QED BY <2>1, <2>2, FS_Subset
<1>4. ASSUME NEW u \in holders(p), Cardinality(B(u)) = i PROVE u = s
  <2>1. u \in Int /\ s \in Int BY <1>2
  <2> HIDE DEF B
  <2> QED BY <1>3, <1>4, <2>1
<1>5. holderAt(p, i) = CHOOSE u \in holders(p) : Cardinality(B(u)) = i
  BY DEF holderAt
<1> HIDE DEF B
<1>6. holderAt(p, i) = s BY <1>4, <1>5
<1> QED BY <1>1, <1>6

(* So a worker that has used up its attempts has asked every holder. *)
LEMMA AllAsked ==
    ASSUME NEW p \in Pieces, NEW s \in holders(p),
           NEW a \in Nat, ~(a < Passes * rarity(p))
    PROVE  \E b \in 0 .. a - 1 : holderAt(p, (p + b) % rarity(p)) = s
<1> DEFINE r == rarity(p)
<1>1. PICK i \in 0 .. r - 1 : holderAt(p, i) = s BY HolderHasPlace
<1>2. r \in Nat \ {0}
  <2>1. r \in Nat BY HoldersFinite
  <2> HIDE DEF r
  <2> QED BY <1>1, <2>1
<1>3. p \in Nat BY DEF Pieces
<1> HIDE DEF r
<1>4. PICK b \in 0 .. r - 1 : (p + b) % r = i BY <1>1, <1>2, <1>3, TurnsReachAll
<1>5. a >= r
  <2>1. Passes * r >= r BY <1>2, SizeAssumption
  <2>2. ~(a < Passes * r) BY DEF r
  <2>3. Passes * r \in Nat BY <1>2, SizeAssumption
  <2> QED BY <1>2, <2>1, <2>2, <2>3
<1>6. b \in 0 .. a - 1 BY <1>2, <1>4, <1>5
<1> QED BY <1>1, <1>4, <1>6 DEF r

-----------------------------------------------------------------------------
(* The order of the pieces and the number of threads. *)

(* rarestFirst() lists every missing piece exactly once. *)
LEMMA OrderIsComplete ==
    ASSUME verified \in SUBSET Pieces, NEW s \in rarestFirst
    PROVE  /\ s \in Seq(Pieces)
           /\ \A i, j \in DOMAIN s : i # j => s[i] # s[j]
           /\ \A i \in DOMAIN s : s[i] \notin verified
           /\ \A p \in Pieces \ verified : \E i \in DOMAIN s : s[i] = p
<1> DEFINE missing == Pieces \ verified
           n == Cardinality(missing)
<1>1. IsFiniteSet(Pieces) BY SizeAssumption, FS_Interval DEF Pieces
<1>2. IsFiniteSet(missing) BY <1>1, FS_Difference
<1>3. n \in Nat BY <1>2, FS_CardinalityType
<1> HIDE DEF n
<1>4. /\ s \in [1 .. n -> missing]
      /\ \A i, j \in DOMAIN s : i < j =>
             \/ rarity(s[i]) < rarity(s[j])
             \/ rarity(s[i]) = rarity(s[j]) /\ s[i] < s[j]
  BY DEF rarestFirst, n
<1>5. s \in Seq(Pieces) BY <1>3, <1>4
<1>6. ASSUME NEW i \in 1 .. n, NEW j \in 1 .. n, i < j PROVE s[i] # s[j]
  <2>1. s[i] \in Int /\ s[j] \in Int BY <1>4 DEF Pieces
  <2>2. rarity(s[i]) \in Nat /\ rarity(s[j]) \in Nat BY HoldersFinite
  <2>3. \/ rarity(s[i]) < rarity(s[j])
        \/ rarity(s[i]) = rarity(s[j]) /\ s[i] < s[j]
    BY <1>4, <1>6
  <2> QED BY <2>1, <2>2, <2>3
<1>7. \A i, j \in 1 .. n : i # j => s[i] # s[j] BY <1>3, <1>6
<1>8. s \in Injection(1 .. n, missing) BY <1>4, <1>7 DEF Injection, IsInjective
<1>9. Cardinality(1 .. n) = n BY <1>3, FS_Interval
<1>10. s \in Surjection(1 .. n, missing) BY <1>2, <1>8, <1>9, FS_Injection DEF n
<1>11. \A p \in missing : \E i \in 1 .. n : s[i] = p BY <1>10 DEF Surjection
<1> QED BY <1>4, <1>5, <1>7, <1>11

(* A thread is started if there is anything to fetch. *)
LEMMA SomebodyStarts ==
    ASSUME NEW T \in SUBSET Workers, Len(order') \in Nat, Len(order') > 0,
           Cardinality(T) = threadCount
    PROVE  T # {}
<1> DEFINE W == Cardinality(Workers)
           L == Len(order')
           S == {W, NSeeders, L}
<1>1. W \in Nat /\ W > 0 BY SizeAssumption, FS_CardinalityType, FS_EmptySet
<1>2. NSeeders \in Nat /\ NSeeders > 0 BY SizeAssumption
<1> HIDE DEF W, L
<1>3. L \in Nat /\ L > 0 BY DEF L
<1>4. \E x \in S : \A y \in S : x =< y BY <1>1, <1>2, <1>3
<1>5. threadCount = CHOOSE x \in S : \A y \in S : x =< y BY DEF threadCount, Min, W, L
<1>6. threadCount \in S BY <1>4, <1>5
<1>7. threadCount # 0 BY <1>1, <1>2, <1>3, <1>6
<1> QED BY <1>7, FS_EmptySet

-----------------------------------------------------------------------------
(* The steps of run() and of the user. *)

(* Outside fetchPieces() nothing is to be said about the workers' pieces. *)
LEMMA NotFetching ==
    ASSUME pc' # "fetch" PROVE Fetching'
  BY DEF Fetching, Ordered, HandedOut, Written, NoneForgotten

(* A worker thread at work means that run() is inside fetchPieces(). *)
LEMMA AtWork ==
    ASSUME Inv, NEW w \in Workers, worker[w].at \notin {"idle", "done"}
    PROVE  pc = "fetch"
  BY DEF Inv, Safe, Inside

(* start(): the destination is free, whatever an earlier run left. *)
LEMMA StartStep ==
    ASSUME Inv, start PROVE Inv'
<1> USE DEF Inv, Safe
<1>1. /\ runs < MaxRuns /\ dest = NoFile /\ runs' = runs + 1 /\ pc' = "prepare"
      /\ verified' = {} /\ bitmaps' = [s \in Seeders |-> {}] /\ asked' = 0
      /\ order' = <<>> /\ next' = 1 /\ worker' = [w \in Workers |-> Idle] /\ state' = "D"
      /\ UNCHANGED <<holds, part, dest, entry>>
  BY DEF start
<1>2. failed' = FALSE /\ cancelled' = FALSE /\ fault' = FALSE BY DEF start
<1>3. SeederTypes' /\ FileTypes' BY <1>1 DEF Types, SeederTypes, FileTypes, Reliable
<1>4. RunTypes'
  <2>1. runs' \in 0 .. MaxRuns BY <1>1, SizeAssumption DEF Types, RunTypes
  <2>2. failed' \in BOOLEAN /\ cancelled' \in BOOLEAN /\ fault' \in BOOLEAN BY <1>2, Zenon
  <2> QED BY <1>1, <2>1, <2>2 DEF RunTypes
<1>5. PlanTypes' BY <1>1, SizeAssumption DEF PlanTypes
<1>6. Idle \in Worker /\ Idle.at = "idle" BY DEF Idle, Worker
<1>7. WorkerTypes' BY <1>1, <1>6 DEF WorkerTypes
<1>8. Stages' BY <1>1 DEF Stages
<1>9. Inside' BY <1>1, <1>2, <1>6 DEF Inside
<1>10. Found' BY <1>1 DEF Found
<1>11. Fetching' BY <1>1, NotFetching
<1>12. Published' BY <1>1 DEF Published, PublishedNeverWrong
<1>13. Turns'
  <2>1. pc' \notin {"bitmaps", "fetch"} /\ state' # "F" BY <1>1
  <2> QED BY <2>1 DEF Turns
<1> QED BY <1>3, <1>4, <1>5, <1>7, <1>8, <1>9, <1>10, <1>11, <1>12, <1>13 DEF Types

(* cancel() excuses a failure and lets the workers leave pieces undone. *)
LEMMA CancelStep ==
    ASSUME Inv, cancel PROVE Inv'
<1> USE DEF Inv, Safe
<1>1. /\ UNCHANGED <<holds, part, dest, entry, runs, pc, state>>
      /\ UNCHANGED <<verified, bitmaps, asked, order, next, worker>>
  BY DEF cancel, object, plan
<1>2. cancelled' = TRUE /\ failed' = failed /\ fault' = fault BY DEF cancel, object
<1>3. RunTypes' BY <1>1, <1>2 DEF Types, RunTypes
<1>4. Types'
  BY <1>1, <1>3 DEF Types, SeederTypes, FileTypes, PlanTypes, WorkerTypes, Reliable
<1>5. Stages' /\ Found' BY <1>1 DEF Stages, AllGood, Found, matching
<1>6. Inside' BY <1>1, <1>2 DEF Inside
<1>7. Ordered' /\ HandedOut' BY <1>1 DEF Fetching, Ordered, HandedOut, Busy, Positions
<1>8. Written' BY <1>1 DEF Fetching, Written, Positions
<1>9. givenUp' BY <1>2 DEF givenUp
<1>10. NoneForgotten' BY <1>1, <1>2, <1>9 DEF NoneForgotten
<1>11. Published' BY <1>1 DEF Published, PublishedNeverWrong
<1>12. Excused' BY <1>2 DEF Excused
<1>13. Turns'
  <2>1. \A p, i : holderAt(p, i)' = holderAt(p, i) /\ rarity(p)' = rarity(p)
    BY <1>1 DEF holderAt, holders, rarity
  <2>2. Reliable' = Reliable BY <1>1 DEF Reliable
  <2> QED BY <1>1, <1>2, <1>12, <2>1, <2>2 DEF Turns
<1> QED BY <1>4, <1>5, <1>6, <1>7, <1>8, <1>10, <1>11, <1>13 DEF Fetching

(* crash: a piece that is torn was not good before. *)
LEMMA CrashStep ==
    ASSUME Inv, crash
    PROVE  /\ Inv'
           /\ part # NoFile => part' # NoFile /\
                 \A p \in Pieces : part[p] = "good" => part'[p] = "good"
<1> USE DEF Inv, Safe
<1>1. PICK halfway \in SUBSET {w \in Workers : At(w, "write")} :
        part' = IF part = NoFile THEN NoFile
                ELSE [p \in Pieces |->
                        IF \E w \in halfway : worker[w].piece = p THEN torn(p) ELSE part[p]]
  BY DEF crash
<1>2. /\ pc' = "off" /\ entry' = NoEntry /\ worker' = [w \in Workers |-> Idle]
      /\ UNCHANGED <<holds, dest, runs, verified, bitmaps, asked, order, next, state>>
      /\ UNCHANGED <<failed, cancelled, fault>>
  BY DEF crash, plan
<1>3. part' \in {NoFile} \cup File
  BY <1>1 DEF Types, FileTypes, File, Contents, torn
<1>4. NoEntry \in [path : {"none", "part", "dest"}, available : SUBSET Pieces]
      /\ NoEntry.path = "none"
  BY DEF NoEntry
<1>5. Idle \in Worker /\ Idle.at = "idle" BY DEF Idle, Worker
<1>6. SeederTypes' /\ FileTypes' /\ PlanTypes' /\ WorkerTypes'
  BY <1>2, <1>3, <1>4, <1>5
     DEF Types, SeederTypes, FileTypes, PlanTypes, WorkerTypes, Reliable
<1>7. RunTypes' BY <1>2 DEF Types, RunTypes
<1>8. Stages' BY <1>2 DEF Stages, AllGood
<1>9. Inside' /\ Found' BY <1>2, <1>5 DEF Inside, Found
<1>10. Fetching' BY <1>2, NotFetching
<1>11. Published' BY <1>2, <1>4 DEF Published, PublishedNeverWrong
<1>12. Turns' BY <1>2 DEF Turns, Excused, Unheld, Reliable
<1>13. ASSUME part # NoFile
       PROVE  part' # NoFile /\ \A p \in Pieces : part[p] = "good" => part'[p] = "good"
  <2>1. part' = [p \in Pieces |->
                   IF \E w \in halfway : worker[w].piece = p THEN torn(p) ELSE part[p]]
    BY <1>1, <1>13
  <2>2. part' \in File BY <1>3, <1>13, <2>1 DEF Types, FileTypes, File, Contents, torn
  <2>3. part' # NoFile BY <2>2, NoFileAssumption DEF File
  <2>4. \A p \in Pieces : part[p] = "good" => part'[p] = "good" BY <2>1 DEF torn
  <2> QED BY <2>3, <2>4
<1> QED BY <1>6, <1>7, <1>8, <1>9, <1>10, <1>11, <1>12, <1>13 DEF Types

(* prepare(): an old .part file is kept as it is. *)
LEMMA PrepareStep ==
    ASSUME Inv, prepare
    PROVE  /\ Inv'
           /\ part # NoFile => part' = part
<1> USE DEF Inv, Safe
<1>1. /\ pc = "prepare"
      /\ UNCHANGED <<holds, dest, entry, runs, bitmaps, asked, order, next, worker>>
  BY DEF prepare
<1>2. failed' = failed /\ cancelled' = cancelled BY DEF prepare
<1>3. SeederTypes' BY <1>1 DEF Types, SeederTypes, Reliable
<1>4. WorkerTypes' BY <1>1 DEF Types, WorkerTypes
<1>5. dest = NoFile /\ state # "C" BY <1>1 DEF Stages
<1>6. \A w \in Workers : worker[w].at \in {"idle", "done"} BY <1>1 DEF Inside
<1>7. ASSUME part # NoFile => part' = part PROVE Published'
  <2>1. entry.path # "dest" BY <1>5 DEF Published
  <2>2. entry.path = "part" => part # NoFile BY <1>5 DEF Published
  <2>3. entry.path \in {"none", "part"} BY <2>1 DEF Types, FileTypes
  <2>4. CASE entry.path = "none" BY <1>1, <2>4 DEF Published, PublishedNeverWrong
  <2>5. CASE entry.path = "part"
    <3>1. part' = part BY <1>7, <2>2, <2>5
    <3> QED BY <1>1, <3>1 DEF Published, PublishedNeverWrong
  <2> QED BY <2>3, <2>4, <2>5
<1>8. CASE /\ part' = openForWriting(part) /\ verified' \in SUBSET matching(part)
           /\ pc' = "bitmaps" /\ UNCHANGED <<state, fault>>
  <2>1. part' \in File BY <1>8 DEF openForWriting, Types, FileTypes, File, Contents
  <2>2. part' # NoFile BY <2>1, NoFileAssumption DEF File
  <2>3. part # NoFile => part' = part BY <1>8 DEF openForWriting
  <2>4. FileTypes' BY <1>1, <2>1 DEF Types, FileTypes
  <2>5. RunTypes' BY <1>1, <1>2, <1>8 DEF Types, RunTypes
  <2>6. verified' \in SUBSET Pieces BY <1>8 DEF matching
  <2>7. PlanTypes' BY <1>1, <2>6 DEF Types, PlanTypes
  <2>8. Stages' BY <1>1, <1>5, <1>8, <2>2 DEF Stages
  <2>9. Inside' BY <1>1, <1>2, <1>8, <1>6 DEF Inside
  <2>10. verified' \subseteq matching(part)'
    BY <1>8, <2>2 DEF openForWriting, matching
  <2>11. Found' BY <1>8, <2>10 DEF Found
  <2>12. Fetching' BY <1>8, NotFetching
  <2>13. Published' BY <1>1, <1>7, <2>3
  <2>14. asked' = 0 BY <1>1 DEF Inside
  <2>15. Reliable' = Reliable /\ Reliable \subseteq Nat
    BY <1>1, SizeAssumption DEF Reliable, Types, SeederTypes, Seeders
  <2>16. state' = "F" => Excused'
    BY <1>1, <1>2, <1>8, <2>15 DEF Turns, Excused, Unheld
  <2>17. Turns' BY <1>8, <2>14, <2>15, <2>16 DEF Turns
  <2> QED BY <1>3, <1>4, <2>3, <2>4, <2>5, <2>7, <2>8, <2>9, <2>11, <2>12, <2>13, <2>17 DEF Types
<1>9. CASE /\ part' \in {part, openForWriting(part)} /\ fault' = TRUE
           /\ finish("F") /\ UNCHANGED verified
  <2>1. state' = "F" /\ pc' = "off" /\ UNCHANGED verified BY <1>9 DEF finish
  <2>2. fault' = TRUE BY <1>9
  <2>3. part # NoFile => part' = part BY <1>9 DEF openForWriting
  <2>4. part' \in {NoFile} \cup File
    BY <1>9 DEF openForWriting, Types, FileTypes, File, Contents
  <2>5. FileTypes' /\ PlanTypes' BY <1>1, <2>1, <2>4 DEF Types, FileTypes, PlanTypes
  <2>6. RunTypes' BY <1>1, <1>2, <2>1, <2>2 DEF Types, RunTypes
  <2>7. Stages' /\ Inside' /\ Found' BY <1>1, <1>5, <1>6, <2>1 DEF Stages, Inside, Found
  <2>8. Fetching' BY <2>1, NotFetching
  <2>9. Published' BY <1>7, <2>3
  <2>10. Excused' BY <2>2 DEF Excused
  <2>11. Turns' BY <2>1, <2>10 DEF Turns
  <2> QED BY <1>3, <1>4, <2>3, <2>5, <2>6, <2>7, <2>8, <2>9, <2>11 DEF Types
<1> QED BY <1>8, <1>9 DEF prepare

(* fetchBitmaps() asks the next seeder; a reliable one says what it has. *)
LEMMA BitmapStep ==
    ASSUME Inv, fetchBitmap
    PROVE  Inv' /\ part' = part
<1> USE DEF Inv, Safe
<1>1. PICK B \in bitmapFrom(asked) : bitmaps' = [bitmaps EXCEPT ![asked] = B]
  BY DEF fetchBitmap
<1>2. /\ pc = "bitmaps" /\ asked < NSeeders /\ asked' = asked + 1
      /\ UNCHANGED <<holds, part, dest, entry, runs, pc, verified, order, next, worker, state>>
  BY DEF fetchBitmap
<1>3. failed' = failed /\ cancelled' = cancelled /\ fault' = fault BY DEF fetchBitmap
<1>4. asked \in Seeders BY <1>2, SizeAssumption DEF Types, PlanTypes, Seeders
<1>5. B \in SUBSET Pieces /\ (asked \in Reliable => B = holds[asked])
  BY DEF bitmapFrom, Types, SeederTypes
<1>6. SeederTypes' /\ FileTypes' /\ WorkerTypes'
  BY <1>2 DEF Types, SeederTypes, FileTypes, WorkerTypes, Reliable
<1>7. RunTypes' BY <1>2, <1>3 DEF Types, RunTypes
<1>8. PlanTypes'
  <2>1. bitmaps' \in [Seeders -> SUBSET Pieces] BY <1>1, <1>5 DEF Types, PlanTypes
  <2>2. asked' \in 0 .. NSeeders BY <1>2, SizeAssumption DEF Types, PlanTypes
  <2> QED BY <1>2, <2>1, <2>2 DEF Types, PlanTypes
<1>9. Stages' BY <1>2 DEF Stages, AllGood
<1>10. Inside' /\ Found' BY <1>2, <1>3 DEF Inside, Found, matching
<1>11. Fetching' BY <1>2, NotFetching
<1>12. Published' BY <1>2 DEF Published, PublishedNeverWrong
<1>13. Reliable' = Reliable /\ Reliable \subseteq Seeders
  BY <1>2 DEF Reliable, Types, SeederTypes
<1>14. ASSUME NEW s \in Reliable, s < asked + 1 PROVE bitmaps'[s] = holds[s]
  <2>1. s \in Seeders /\ s \in Int /\ asked \in Int BY <1>4, <1>13 DEF Seeders
  <2>2. CASE s = asked BY <1>1, <1>5, <2>1, <2>2 DEF Types, PlanTypes
  <2>3. CASE s < asked
    <3>1. bitmaps[s] = holds[s] BY <1>2, <2>3 DEF Turns
    <3> QED BY <1>1, <2>1, <2>3, <3>1 DEF Types, PlanTypes
  <2> QED BY <1>14, <2>1, <2>2, <2>3
<1>15. state' = "F" => Excused'
  BY <1>2, <1>3, <1>13 DEF Turns, Excused, Unheld
<1>16. Turns' BY <1>2, <1>13, <1>14, <1>15 DEF Turns
<1> QED BY <1>2, <1>6, <1>7, <1>8, <1>9, <1>10, <1>11, <1>12, <1>16 DEF Types

(* publishPartial(): the pieces found in .part are published and the others *)
(* given to the workers.                                                    *)
LEMMA PublishPartialStep ==
    ASSUME Inv, publishPartial
    PROVE  Inv' /\ part' = part
<1> USE DEF Inv, Safe
<1>1. /\ pc = "bitmaps" /\ asked = NSeeders /\ pc' = "fetch"
      /\ entry' = [path |-> "part", available |-> verified]
      /\ order' \in rarestFirst
      /\ UNCHANGED <<holds, part, dest, runs, verified, bitmaps, asked, next, state>>
  BY DEF publishPartial, add
<1>2. failed' = failed /\ cancelled' = cancelled /\ fault' = fault BY DEF publishPartial
<1>3. PICK T \in SUBSET Workers :
        /\ Cardinality(T) = threadCount
        /\ worker' = [w \in Workers |->
                        [Idle EXCEPT !.at = IF w \in T THEN "take" ELSE "done"]]
  BY DEF publishPartial
<1>4. next = 1 /\ ~failed /\ verified \subseteq matching(part) /\ part # NoFile
  BY <1>1 DEF Inside, Found, Stages
<1>5. verified \in SUBSET Pieces BY DEF Types, PlanTypes
<1>6. /\ order' \in Seq(Pieces)
      /\ \A i, j \in DOMAIN order' : i # j => order'[i] # order'[j]
      /\ \A i \in DOMAIN order' : order'[i] \notin verified
      /\ \A p \in Pieces \ verified : \E i \in DOMAIN order' : order'[i] = p
  BY <1>1, <1>5, OrderIsComplete
<1>7. /\ worker' \in [Workers -> Worker]
      /\ \A w \in Workers : worker'[w].at = IF w \in T THEN "take" ELSE "done"
  BY <1>3 DEF Worker, Idle
<1>8. SeederTypes' /\ FileTypes'
  BY <1>1, <1>5 DEF Types, SeederTypes, FileTypes, Reliable
<1>9. RunTypes' BY <1>1, <1>2 DEF Types, RunTypes
<1>10. PlanTypes' BY <1>1, <1>6 DEF Types, PlanTypes
<1>11. Types' BY <1>7, <1>8, <1>9, <1>10 DEF Types, WorkerTypes
<1>12. Stages' BY <1>1 DEF Stages, AllGood
<1>13. Inside' /\ Found' BY <1>1, <1>4 DEF Inside, Found, matching
<1>14. Ordered' BY <1>1, <1>6 DEF Ordered, Positions
<1>15. \A w \in Workers : worker'[w].at \in {"take", "done"} BY <1>7
<1>16. HandedOut' BY <1>15 DEF HandedOut, Busy
<1>17. Written' BY <1>15 DEF Written
<1>18. NoneForgotten'
  <2>1. next' = 1 /\ Len(order') \in Nat /\ DOMAIN order' = 1 .. Len(order')
    BY <1>1, <1>4, <1>6
  <2>2. ASSUME NEW i \in DOMAIN order' PROVE ~(i < next') BY <2>1
  <2>3. CASE Len(order') > 0
    <3>1. T # {} BY <1>3, <2>1, <2>3, SomebodyStarts
    <3>2. \E w \in Workers : worker'[w].at # "done" BY <1>7, <3>1
    <3> QED BY <2>2, <3>2 DEF NoneForgotten, Positions
  <2>4. CASE Len(order') = 0
    <3>1. next' > Len(order') BY <2>1, <2>4
    <3> QED BY <2>2, <3>1 DEF NoneForgotten, Positions
  <2> QED BY <2>1, <2>3, <2>4
<1>19. Published'
  BY <1>1, <1>4 DEF Published, PublishedNeverWrong, matching
<1>20. Reliable' = Reliable /\ Reliable \subseteq Seeders
  BY <1>1 DEF Reliable, Types, SeederTypes
<1>21. \A s \in Reliable : bitmaps[s] = holds[s]
  <2>1. \A s \in Reliable : s < asked BY <1>1, <1>20, SizeAssumption DEF Seeders
  <2> QED BY <1>1, <2>1 DEF Turns
<1>22. state' = "F" => Excused'
  BY <1>1, <1>2, <1>20 DEF Turns, Excused, Unheld
<1>23. Turns' BY <1>1, <1>2, <1>4, <1>15, <1>20, <1>21, <1>22 DEF Turns
<1> QED BY <1>1, <1>11, <1>12, <1>13, <1>14, <1>16, <1>17, <1>18, <1>19, <1>23 DEF Fetching

(* Once every worker is done and nothing was given up, every piece is there. *)
LEMMA JoinedAllGood ==
    ASSUME Inv, pc = "fetch", \A w \in Workers : worker[w].at = "done", ~givenUp
    PROVE  AllGood(part)
<1> USE DEF Inv, Safe
<1> SUFFICES ASSUME NEW p \in Pieces PROVE part[p] = "good"
  BY DEF AllGood
<1>1. CASE p \in verified BY <1>1 DEF Found, matching
<1>2. CASE p \notin verified
  <2>1. PICK i \in Positions : order[i] = p BY <1>2 DEF Fetching, Ordered
  <2>2. ~cancelled BY DEF givenUp
  <2>3. next > Len(order) BY <2>2 DEF Fetching, NoneForgotten
  <2>4. i < next
    <3>1. i \in 1 .. Len(order) /\ next \in Nat /\ Len(order) \in Nat
      BY DEF Positions, Types, PlanTypes
    <3> QED BY <2>3, <3>1
  <2>5. \A w \in Workers : ~Busy(w) BY DEF Busy
  <2> QED BY <2>1, <2>4, <2>5 DEF Fetching, NoneForgotten
<1> QED BY <1>1, <1>2

(* The steps after the workers, and those that end a run, keep what is        *)
(* neither stage nor outcome.                                                 *)
Ended == pc' \notin {"prepare", "bitmaps", "fetch"} /\ worker' = worker
           /\ \A w \in Workers : worker[w].at \in {"idle", "done"}

(* The part of the invariant that such a step leaves alone. *)
LEMMA EndedStep ==
    ASSUME Inv, Ended, UNCHANGED <<holds, runs, object, cancelled>>,
           pc' \in {"off", "hash", "rename", "publish"}, state' \in {"D", "C", "F"},
           fault' \in BOOLEAN, FileTypes', Stages', Published', state' = "F" => Excused'
    PROVE  Inv'
<1> USE DEF Inv, Safe
<1>1. UNCHANGED <<holds, runs, verified, bitmaps, asked, order, next, worker>> BY DEF object, plan
<1>2. failed' = failed /\ cancelled' = cancelled BY DEF object
<1>3. SeederTypes' /\ PlanTypes' /\ WorkerTypes'
  BY <1>1 DEF Types, SeederTypes, PlanTypes, WorkerTypes, Reliable
<1>4. RunTypes' BY <1>1, <1>2 DEF Types, RunTypes
<1>5. Inside' /\ Found' BY <1>1 DEF Ended, Inside, Found
<1>6. Fetching' BY NotFetching DEF Ended
<1>7. Turns' BY DEF Ended, Turns
<1> QED BY <1>3, <1>4, <1>5, <1>6, <1>7 DEF Types

(* fetchPieces() returns. *)
LEMMA JoinStep ==
    ASSUME Inv, join
    PROVE  Inv' /\ part' = part
<1>1. /\ pc = "fetch" /\ \A w \in Workers : worker[w].at = "done"
      /\ UNCHANGED <<holds, part, dest, entry, runs, object, cancelled>>
  BY DEF join, At
<1>2. fault' = fault BY DEF join
<1>3. FileTypes' /\ Published'
  BY <1>1 DEF Inv, Safe, Types, FileTypes, Published, PublishedNeverWrong
<1>4. fault' \in BOOLEAN BY <1>2 DEF Inv, Safe, Types, RunTypes
<1>5. Excused => Excused'
  BY <1>1, <1>2 DEF Excused, Unheld, Reliable
<1>6. worker' = worker /\ state \in {"D", "C", "F"}
  BY <1>1 DEF object, Inv, Safe, Types, RunTypes
<1>7. CASE givenUp
  <2>1. pc' = "off" /\ state' = "F" BY <1>7 DEF join, finish
  <2>2. Excused BY <1>1, <1>7 DEF givenUp, Excused, Inv, Turns
  <2>3. Stages' BY <1>1, <2>1 DEF Inv, Safe, Stages, AllGood
  <2>4. Ended BY <1>1, <1>6, <2>1 DEF Ended
  <2> QED BY <1>1, <1>3, <1>4, <1>5, <2>1, <2>2, <2>3, <2>4, EndedStep
<1>8. CASE ~givenUp
  <2>1. pc' = "hash" /\ state' = state BY <1>8 DEF join
  <2>2. AllGood(part) BY <1>1, <1>8, JoinedAllGood
  <2>3. Stages' BY <1>1, <2>1, <2>2 DEF Inv, Safe, Stages, AllGood
  <2>4. Ended BY <1>1, <1>6, <2>1 DEF Ended
  <2>5. state' = "F" => Excused' BY <1>5, <2>1 DEF Inv, Turns
  <2> QED BY <1>1, <1>3, <1>4, <1>6, <2>1, <2>3, <2>4, <2>5, EndedStep
<1> QED BY <1>7, <1>8

(* complete() finds the whole-file hash right, or the disk fails. *)
LEMMA CheckHashStep ==
    ASSUME Inv, checkHash
    PROVE  Inv' /\ part' = part
<1>1. /\ pc = "hash"
      /\ UNCHANGED <<holds, part, dest, entry, runs, object, cancelled>>
  BY DEF checkHash
<1>2. hashesRight(part)
  BY <1>1 DEF Inv, Safe, Stages, AllGood, hashesRight, matching
<1>3. FileTypes' /\ Published'
  BY <1>1 DEF Inv, Safe, Types, FileTypes, Published, PublishedNeverWrong
<1>4. worker' = worker /\ \A w \in Workers : worker[w].at \in {"idle", "done"}
  BY <1>1 DEF object, Inv, Safe, Inside
<1>5. CASE fault' = fault /\ pc' = "rename" /\ state' = state
  <2>1. Stages' BY <1>1, <1>5 DEF Inv, Safe, Stages, AllGood
  <2>2. Ended BY <1>4, <1>5 DEF Ended
  <2>3. state' = "F" => Excused'
    BY <1>1, <1>5 DEF Inv, Turns, Excused, Unheld, Reliable
  <2>4. fault' \in BOOLEAN /\ state' \in {"D", "C", "F"} BY <1>5 DEF Inv, Safe, Types, RunTypes
  <2> QED BY <1>1, <1>3, <1>5, <2>1, <2>2, <2>3, <2>4, EndedStep
<1>6. CASE fault' = TRUE /\ finish("F")
  <2>1. pc' = "off" /\ state' = "F" BY <1>6 DEF finish
  <2>2. Stages' BY <1>1, <2>1 DEF Inv, Safe, Stages, AllGood
  <2>3. Ended BY <1>4, <2>1 DEF Ended
  <2>4. Excused' BY <1>6 DEF Excused
  <2>5. fault' \in BOOLEAN BY <1>6
  <2> QED BY <1>1, <1>3, <2>1, <2>2, <2>3, <2>4, <2>5, EndedStep
<1> QED BY <1>2, <1>5, <1>6 DEF checkHash

(* The rename moves a whole file, or fails and leaves both. *)
LEMMA RenameStep ==
    ASSUME Inv, rename
    PROVE  /\ Inv'
           /\ IF part' = NoFile THEN dest' = part ELSE part' = part
<1>1. pc = "rename" /\ UNCHANGED <<holds, entry, runs, object, cancelled>>
  BY DEF rename
<1>2. part # NoFile /\ AllGood(part) /\ dest = NoFile /\ state # "C"
  BY <1>1 DEF Inv, Safe, Stages
<1>3. worker' = worker /\ \A w \in Workers : worker[w].at \in {"idle", "done"}
  BY <1>1 DEF object, Inv, Safe, Inside
<1>4. CASE dest' = part /\ part' = NoFile /\ pc' = "publish" /\ UNCHANGED <<state, fault>>
  <2>1. FileTypes' BY <1>1, <1>4 DEF Inv, Safe, Types, FileTypes
  <2>2. Stages' BY <1>2, <1>4 DEF Stages, AllGood
  <2>3. Published'
    <3>1. entry.path # "dest" BY <1>2 DEF Inv, Published
    <3> QED BY <1>1, <1>2, <1>4, <3>1 DEF Published, PublishedNeverWrong
  <2>4. Ended BY <1>3, <1>4 DEF Ended
  <2>5. state' = "F" => Excused'
    BY <1>1, <1>4 DEF Inv, Turns, Excused, Unheld, Reliable
  <2>6. fault' \in BOOLEAN /\ state' \in {"D", "C", "F"} BY <1>4 DEF Inv, Safe, Types, RunTypes
  <2> QED BY <1>1, <1>4, <2>1, <2>2, <2>3, <2>4, <2>5, <2>6, EndedStep
<1>5. CASE fault' = TRUE /\ finish("F") /\ UNCHANGED <<part, dest>>
  <2>1. pc' = "off" /\ state' = "F" /\ part' = part /\ dest' = dest BY <1>5 DEF finish
  <2>2. FileTypes' /\ Published'
    BY <1>1, <2>1 DEF Inv, Safe, Types, FileTypes, Published, PublishedNeverWrong
  <2>3. Stages' BY <1>2, <2>1 DEF Stages
  <2>4. Ended BY <1>3, <2>1 DEF Ended
  <2>5. Excused' BY <1>5 DEF Excused
  <2>6. fault' \in BOOLEAN BY <1>5
  <2> QED BY <1>1, <1>2, <2>1, <2>2, <2>3, <2>4, <2>5, <2>6, EndedStep
<1> QED BY <1>4, <1>5 DEF rename

(* The complete file is shared. *)
LEMMA PublishCompleteStep ==
    ASSUME Inv, publishComplete
    PROVE  Inv' /\ part' = part
<1>1. /\ pc = "publish" /\ pc' = "off" /\ state' = "C"
      /\ entry' = [path |-> "dest", available |-> Pieces]
      /\ UNCHANGED <<holds, part, dest, runs, object, cancelled>>
  BY DEF publishComplete, add, finish
<1>2. fault' = fault BY DEF publishComplete
<1>3. dest # NoFile /\ AllGood(dest) BY <1>1 DEF Inv, Safe, Stages
<1>4. FileTypes' BY <1>1 DEF Inv, Safe, Types, FileTypes
<1>5. Stages' BY <1>1, <1>3 DEF Stages, AllGood
<1>6. Published' BY <1>1, <1>3 DEF Published, PublishedNeverWrong, AllGood
<1>7. Ended BY <1>1 DEF Ended, object, Inv, Safe, Inside
<1>8. fault' \in BOOLEAN BY <1>2 DEF Inv, Safe, Types, RunTypes
<1> QED BY <1>1, <1>4, <1>5, <1>6, <1>7, <1>8, EndedStep

-----------------------------------------------------------------------------
(* The steps of a worker. *)

EntryType == [path : {"none", "part", "dest"}, available : SUBSET Pieces]

(* What the workers leave alone, and what follows when no good piece is lost. *)
LEMMA WorkerFrame ==
    ASSUME Inv, pc = "fetch", UNCHANGED steady,
           part' \in File, \A p \in Pieces : part[p] = "good" => part'[p] = "good",
           entry' \in EntryType, next' \in Nat \ {0}, worker' \in [Workers -> Worker],
           failed' \in BOOLEAN, fault' \in BOOLEAN
    PROVE  Safe' /\ Ordered'
<1> USE DEF Inv, Safe
<1>1. UNCHANGED <<holds, dest, runs, pc, verified, bitmaps, asked, order, state>>
  BY DEF steady, plan
<1>2. cancelled' = cancelled BY DEF steady
<1>3. part' # NoFile BY NoFileAssumption DEF File
<1>4. SeederTypes' /\ FileTypes' /\ WorkerTypes'
  BY <1>1 DEF Types, SeederTypes, FileTypes, WorkerTypes, Reliable, EntryType
<1>5. PlanTypes' BY <1>1 DEF Types, PlanTypes
<1>6. RunTypes' BY <1>1, <1>2 DEF Types, RunTypes
<1>7. Stages' BY <1>1, <1>3 DEF Stages
<1>8. Inside' BY <1>1 DEF Inside
<1>9. Found' BY <1>1, <1>3 DEF Found, matching, Types, PlanTypes
<1>10. Ordered' BY <1>1 DEF Fetching, Ordered, Positions
<1> QED BY <1>4, <1>5, <1>6, <1>7, <1>8, <1>9, <1>10 DEF Types

(* A published entry stays right when good pieces stay good. *)
LEMMA PublishedKept ==
    ASSUME Inv, pc = "fetch", UNCHANGED steady, entry' = entry,
           part' \in File, \A p \in Pieces : part[p] = "good" => part'[p] = "good"
    PROVE  Published'
<1>1. dest' = dest /\ dest = NoFile /\ part # NoFile BY DEF steady, Inv, Safe, Stages
<1>2. part' # NoFile BY NoFileAssumption DEF File
<1>3. entry.path # "dest" BY <1>1 DEF Inv, Published
<1>4. entry.path # "none" => \A p \in entry.available : p \in Pieces /\ part[p] = "good"
  BY <1>1, <1>3 DEF Inv, Safe, Types, FileTypes, Published, PublishedNeverWrong
<1> QED BY <1>1, <1>2, <1>3, <1>4 DEF Published, PublishedNeverWrong

(* The pieces the workers have are of the file, and not of those found. *)
LEMMA PieceIsMissing ==
    ASSUME Inv, pc = "fetch", NEW w \in Workers, Busy(w)
    PROVE  /\ worker[w].piece \in Pieces \ verified
           /\ \E i \in Positions : i < next /\ order[i] = worker[w].piece
<1>1. PICK i \in Positions : i < next /\ order[i] = worker[w].piece
  BY DEF Inv, Fetching, HandedOut
<1>2. order[i] \in Pieces BY DEF Inv, Safe, Types, PlanTypes, Positions
<1>3. order[i] \notin verified BY DEF Inv, Fetching, Ordered
<1> QED BY <1>1, <1>2, <1>3

(* A worker that goes on with its piece leaves none forgotten. *)
LEMMA KeepsPiece ==
    ASSUME Inv, pc = "fetch", NEW w \in Workers, Busy(w), UNCHANGED <<steady, next, failed>>,
           \A v \in Workers \ {w} : worker'[v] = worker[v],
           worker'[w].piece = worker[w].piece,
           worker'[w].at \in {"try", "write", "mark", "false"},
           \A p \in Pieces : part[p] = "good" => part'[p] = "good"
    PROVE  HandedOut' /\ NoneForgotten'
<1> USE DEF Inv, Safe, Fetching
<1>1. order' = order /\ next' = next /\ pc' = pc BY DEF steady, plan
<1>2. givenUp => givenUp' BY DEF givenUp, steady
<1>3. \A v \in Workers : Busy(v)' <=> Busy(v) BY DEF Busy
<1>4. \A v \in Workers : worker'[v].piece = worker[v].piece OBVIOUS
<1>5. HandedOut' BY <1>1, <1>3, <1>4 DEF HandedOut, Positions
<1>6. \A i \in Positions : order[i] \in Pieces BY DEF Types, PlanTypes, Positions
<1>7. worker'[w].at # "done" OBVIOUS
<1>8. NoneForgotten' BY <1>1, <1>2, <1>3, <1>4, <1>6, <1>7 DEF NoneForgotten, Positions
<1> QED BY <1>5, <1>8

(* Turns are kept up by the workers that do not move. *)
LEMMA TurnsKept ==
    ASSUME Inv, pc = "fetch", NEW w \in Workers, UNCHANGED steady, fault => fault',
           \A v \in Workers \ {w} : worker'[v] = worker[v],
           NEW q, NEW n, worker'[w].piece = q, worker'[w].attempt = n,
           worker'[w].at \in {"try", "write"} => fault' \/
               \A b \in 0 .. n - 1 : holderAt(q, (q + b) % rarity(q)) \notin Reliable,
           worker'[w].at = "false" => Excused,
           failed' => Excused
    PROVE  Turns'
<1> USE DEF Inv
<1>1. UNCHANGED <<holds, pc, bitmaps, state>> BY DEF steady, plan
<1>2. Reliable' = Reliable BY <1>1 DEF Reliable
<1>3. Excused => Excused' BY <1>1, <1>2 DEF Excused, Unheld, steady
<1>4. \A p, i : holderAt(p, i)' = holderAt(p, i) /\ rarity(p)' = rarity(p)
  BY <1>1 DEF holderAt, holders, rarity
<1>5. ASSUME NEW v \in Workers
      PROVE LET p == worker[v].piece
            IN  /\ (worker[v].at \in {"try", "write"} => fault \/
                      \A b \in 0 .. worker[v].attempt - 1 :
                          holderAt(p, (p + b) % rarity(p)) \notin Reliable)'
                /\ (worker[v].at = "false" => Excused)'
  <2>1. CASE v = w BY <1>2, <1>3, <1>4, <2>1
  <2>2. CASE v # w
    <3>1. worker'[v] = worker[v] BY <2>2
    <3>2. LET p == worker[v].piece
          IN  /\ worker[v].at \in {"try", "write"} => fault \/
                    \A b \in 0 .. worker[v].attempt - 1 :
                        holderAt(p, (p + b) % rarity(p)) \notin Reliable
              /\ worker[v].at = "false" => Excused
      BY DEF Turns
    <3> QED BY <1>2, <1>3, <1>4, <3>1, <3>2
  <2> QED BY <2>1, <2>2
<1> QED BY <1>1, <1>2, <1>3, <1>5 DEF Turns

(* next++ hands out a position that nobody had, or the worker is done. *)
LEMMA TakeStep ==
    ASSUME Inv, NEW w \in Workers, take(w)
    PROVE  Inv' /\ part' = part
<1> USE DEF Inv
<1>1. /\ worker[w].at = "take" /\ UNCHANGED <<steady, part, entry, failed>>
  BY DEF take, At
<1>2. fault' = fault BY DEF take
<1>3. pc = "fetch" BY <1>1, AtWork
<1>4. UNCHANGED <<dest, pc, order, state>> BY <1>1 DEF steady, plan
<1>5. part \in File BY <1>3 DEF Safe, Types, FileTypes, Stages
<1>6. entry' \in EntryType BY <1>1 DEF Safe, Types, FileTypes, EntryType
<1>7. failed' \in BOOLEAN /\ fault' \in BOOLEAN BY <1>1, <1>2 DEF Safe, Types, RunTypes
<1>8. Published' BY <1>1, <1>3, <1>5, PublishedKept
<1>9. /\ next \in Nat \ {0} /\ order \in Seq(Pieces) /\ worker \in [Workers -> Worker]
  BY DEF Safe, Types, PlanTypes, WorkerTypes
<1>10. failed' => Excused BY <1>1, <1>3 DEF Turns
<1>11. ~Busy(w) BY <1>1 DEF Busy
<1>12. CASE cancelled \/ next > Len(order)
  <2>1. worker' = [worker EXCEPT ![w].at = "done"] BY <1>12 DEF take, Goto
  <2>2. /\ worker' \in [Workers -> Worker] /\ worker'[w].at = "done"
        /\ \A v \in Workers \ {w} : worker'[v] = worker[v]
    BY <1>9, <2>1 DEF Worker
  <2>3. next' = IF cancelled THEN next ELSE next + 1 BY DEF take, advance
  <2>4. next' \in Nat \ {0} /\ next' >= next BY <1>9, <2>3
  <2>5. Safe' /\ Ordered' BY <1>1, <1>3, <1>5, <1>6, <1>7, <2>2, <2>4, WorkerFrame
  <2>6. ~(Busy(w)') /\ \A v \in Workers \ {w} : Busy(v)' <=> Busy(v) BY <2>2 DEF Busy
  <2>7. HandedOut'
    BY <1>3, <1>4, <1>9, <2>2, <2>4, <2>6 DEF Fetching, HandedOut, Positions
  <2>8. Written'
    BY <1>1, <1>3, <1>4, <1>9, <2>2, <2>4 DEF Fetching, Written, Positions
  <2>9. NoneForgotten'
    <3>1. CASE cancelled
      <4>1. cancelled' BY <1>1, <3>1 DEF steady
      <4> QED BY <4>1 DEF NoneForgotten, givenUp
    <3>2. CASE ~cancelled
      <4>1. next > Len(order) /\ next' > Len(order) BY <1>9, <1>12, <2>4, <3>2
      <4>2. \A i \in Positions : i < next BY <1>9, <4>1 DEF Positions
      <4>3. givenUp => givenUp' BY <1>1 DEF givenUp, steady
      <4> QED BY <1>1, <1>3, <1>4, <1>11, <2>2, <2>6, <4>1, <4>2, <4>3
              DEF Fetching, NoneForgotten, Positions
    <3> QED BY <3>1, <3>2
  <2>10. Turns' BY <1>1, <1>2, <1>3, <1>10, <2>2, TurnsKept
  <2> QED BY <1>1, <1>8, <2>5, <2>7, <2>8, <2>9, <2>10 DEF Fetching
<1>13. CASE ~cancelled /\ ~(next > Len(order))
  <2> DEFINE e == [at |-> "try", piece |-> order[next], attempt |-> 0]
  <2>1. worker' = [worker EXCEPT ![w] = e] BY <1>13 DEF take
  <2>2. next \in Positions /\ order[next] \in Pieces /\ order[next] \in Nat
    <3>1. next \in 1 .. Len(order) BY <1>9, <1>13
    <3>2. next \in Positions /\ order[next] \in Pieces BY <1>9, <3>1 DEF Positions
    <3> QED BY <3>2 DEF Pieces
  <2>3. e \in Worker /\ e.at = "try" /\ e.piece = order[next] /\ e.attempt = 0
    BY <2>2 DEF Worker
  <2> HIDE DEF e
  <2>4. /\ worker' \in [Workers -> Worker] /\ worker'[w] = e
        /\ \A v \in Workers \ {w} : worker'[v] = worker[v]
    BY <1>9, <2>1, <2>3
  <2>5. next' = next + 1 BY <1>13 DEF take, advance
  <2>6. next' \in Nat \ {0} /\ next' > next BY <1>9, <2>5
  <2>7. Safe' /\ Ordered' BY <1>1, <1>3, <1>5, <1>6, <1>7, <2>4, <2>6, WorkerFrame
  <2>8. \A v \in Workers \ {w} : Busy(v)' <=> Busy(v) BY <2>4 DEF Busy
  <2>9. Busy(w)' BY <2>3, <2>4 DEF Busy
  <2>10. ASSUME NEW v \in Workers \ {w}, Busy(v)
         PROVE  /\ worker[v].piece # order[next]
                /\ \E i \in Positions : i < next /\ order[i] = worker[v].piece
    <3>1. PICK i \in Positions : i < next /\ order[i] = worker[v].piece
      BY <1>3, <2>10 DEF Fetching, HandedOut
    <3>2. i # next BY <1>9, <3>1 DEF Positions
    <3>3. order[i] # order[next] BY <1>3, <2>2, <3>2 DEF Fetching, Ordered
    <3> QED BY <3>1, <3>3
  <2>11. HandedOut'
    <3>1. ASSUME NEW v \in Workers, Busy(v)'
          PROVE  \E i \in Positions : i < next' /\ order[i] = worker'[v].piece
      <4>1. CASE v = w BY <2>2, <2>3, <2>4, <2>6, <4>1
      <4>2. CASE v # w
        <5>1. PICK i \in Positions : i < next /\ order[i] = worker[v].piece
          BY <2>8, <2>10, <3>1, <4>2
        <5>2. i < next' BY <1>9, <2>6, <5>1 DEF Positions
        <5> QED BY <2>4, <4>2, <5>1, <5>2
      <4> QED BY <4>1, <4>2
    <3>2. ASSUME NEW u \in Workers, NEW v \in Workers, u # v, Busy(u)', Busy(v)'
          PROVE  worker'[u].piece # worker'[v].piece
      <4>1. CASE u = w BY <2>3, <2>4, <2>8, <2>10, <3>2, <4>1
      <4>2. CASE v = w BY <2>3, <2>4, <2>8, <2>10, <3>2, <4>2
      <4>3. CASE u # w /\ v # w
        <5>1. worker[u].piece # worker[v].piece
          BY <1>3, <2>8, <3>2, <4>3 DEF Fetching, HandedOut
        <5> QED BY <2>4, <4>3, <5>1
      <4> QED BY <4>1, <4>2, <4>3
    <3> QED BY <1>4, <3>1, <3>2 DEF HandedOut, Positions
  <2>12. Written'
    <3>1. ASSUME NEW v \in Workers, worker'[v].at = "mark"
          PROVE  part[worker'[v].piece] = "good"
      BY <1>3, <2>3, <2>4, <3>1 DEF Fetching, Written
    <3> QED BY <1>1, <3>1 DEF Written
  <2>13. NoneForgotten'
    <3>1. givenUp => givenUp' BY <1>1 DEF givenUp, steady
    <3>2. \A i \in Positions : i < next' => i < next \/ i = next
      BY <1>9, <2>5 DEF Positions
    <3>3. ASSUME NEW i \in Positions, i < next'
          PROVE  \/ givenUp'
                 \/ part[order[i]] = "good"
                 \/ \E v \in Workers : Busy(v)' /\ worker'[v].piece = order[i]
      <4>1. CASE i = next BY <2>3, <2>4, <2>9, <4>1
      <4>2. CASE i < next
        <5>1. \/ givenUp
              \/ part[order[i]] = "good"
              \/ \E v \in Workers : Busy(v) /\ worker[v].piece = order[i]
          BY <1>3, <4>2 DEF Fetching, NoneForgotten
        <5> QED BY <1>11, <2>4, <2>8, <3>1, <5>1
      <4> QED BY <3>2, <3>3, <4>1, <4>2
    <3>4. worker'[w].at # "done" BY <2>3, <2>4
    <3> QED BY <1>1, <1>4, <3>3, <3>4 DEF NoneForgotten, Positions
  <2>14. Turns'
    <3>1. \A b \in 0 .. 0 - 1 : FALSE OBVIOUS
    <3> QED BY <1>1, <1>2, <1>3, <1>10, <2>3, <2>4, <3>1, TurnsKept
  <2> QED BY <1>1, <1>8, <2>7, <2>11, <2>12, <2>13, <2>14 DEF Fetching
<1> QED BY <1>12, <1>13

(* A request goes to a holder; a reliable one does not fail. *)
LEMMA RequestStep ==
    ASSUME Inv, NEW w \in Workers, request(w)
    PROVE  Inv' /\ part' = part
<1> USE DEF Inv
<1>1. /\ worker[w].at = "try" /\ UNCHANGED <<steady, part, entry, next, failed>>
  BY DEF request, At
<1>2. fault' = fault BY DEF request
<1>3. pc = "fetch" BY <1>1, AtWork
<1>4. UNCHANGED <<pc, order>> BY <1>1 DEF steady, plan
<1>5. part \in File BY <1>3 DEF Safe, Types, FileTypes, Stages
<1>6. entry' \in EntryType BY <1>1 DEF Safe, Types, FileTypes, EntryType
<1>7. failed' \in BOOLEAN /\ fault' \in BOOLEAN BY <1>1, <1>2 DEF Safe, Types, RunTypes
<1>8. Published' BY <1>1, <1>3, <1>5, PublishedKept
<1>9. next' \in Nat \ {0} /\ worker \in [Workers -> Worker]
  BY <1>1 DEF Safe, Types, PlanTypes, WorkerTypes
<1>10. failed' => Excused BY <1>1, <1>3 DEF Turns
<1>11. Busy(w) BY <1>1 DEF Busy
<1> DEFINE p == worker[w].piece
           a == worker[w].attempt
           s == holderAt(p, (p + a) % rarity(p))
<1>12. fault \/ \A b \in 0 .. a - 1 : holderAt(p, (p + b) % rarity(p)) \notin Reliable
  BY <1>1, <1>3 DEF Turns
<1>13. a \in Nat BY <1>9 DEF Worker
<1>14. PICK success \in fetchSucceeds(s) :
         IF success THEN worker' = [worker EXCEPT ![w].at = "write"]
         ELSE worker' = [worker EXCEPT ![w].attempt = a + 1]
  BY DEF request, Goto, tried
<1>15. \/ worker' = [worker EXCEPT ![w].at = "write"]
       \/ s \notin Reliable /\ worker' = [worker EXCEPT ![w].attempt = a + 1]
  BY <1>14 DEF fetchSucceeds
<1> HIDE DEF p, a, s
<1>16. /\ worker' \in [Workers -> Worker]
       /\ \A v \in Workers \ {w} : worker'[v] = worker[v]
       /\ worker'[w].piece = p
       /\ \/ worker'[w].at = "write" /\ worker'[w].attempt = a
          \/ s \notin Reliable /\ worker'[w].at = "try" /\ worker'[w].attempt = a + 1
  BY <1>1, <1>9, <1>13, <1>15 DEF Worker, p, a
<1>17. Safe' /\ Ordered' BY <1>1, <1>3, <1>5, <1>6, <1>7, <1>9, <1>16, WorkerFrame
<1>18. HandedOut' /\ NoneForgotten' BY <1>1, <1>3, <1>11, <1>16, KeepsPiece DEF p
<1>19. Written'
  BY <1>1, <1>3, <1>4, <1>16 DEF Fetching, Written, Positions, p
<1>20. Turns'
  <2>1. CASE worker'[w].at = "write" /\ worker'[w].attempt = a
    BY <1>1, <1>2, <1>3, <1>10, <1>12, <1>16, <2>1, TurnsKept
  <2>2. CASE s \notin Reliable /\ worker'[w].at = "try" /\ worker'[w].attempt = a + 1
    <3>1. \A b \in 0 .. (a + 1) - 1 : b \in 0 .. a - 1 \/ b = a BY <1>13
    <3>2. fault \/ \A b \in 0 .. (a + 1) - 1 : holderAt(p, (p + b) % rarity(p)) \notin Reliable
      BY <1>12, <2>2, <3>1, Zenon DEF s
    <3> QED BY <1>1, <1>2, <1>3, <1>10, <1>16, <2>2, <3>2, TurnsKept
  <2> QED BY <1>16, <2>1, <2>2
<1> QED BY <1>1, <1>8, <1>17, <1>18, <1>19, <1>20 DEF Fetching

(* A piece is written whole, or torn and tried again; a good one stays good. *)
LEMMA WriteStep ==
    ASSUME Inv, NEW w \in Workers, write(w)
    PROVE  /\ Inv'
           /\ part' # NoFile
           /\ \A p \in Pieces : part[p] = "good" => part'[p] = "good"
<1> USE DEF Inv
<1>1. /\ worker[w].at = "write" /\ UNCHANGED <<steady, entry, next, failed>>
  BY DEF write, At
<1>2. pc = "fetch" BY <1>1, AtWork
<1>3. UNCHANGED <<pc, order>> BY <1>1 DEF steady, plan
<1>4. part \in File BY <1>2 DEF Safe, Types, FileTypes, Stages
<1>5. entry' \in EntryType BY <1>1 DEF Safe, Types, FileTypes, EntryType
<1>6. failed' \in BOOLEAN /\ fault \in BOOLEAN BY <1>1 DEF Safe, Types, RunTypes
<1>7. next' \in Nat \ {0} /\ worker \in [Workers -> Worker]
  BY <1>1 DEF Safe, Types, PlanTypes, WorkerTypes
<1>8. failed' => Excused BY <1>1, <1>2 DEF Turns
<1>9. Busy(w) BY <1>1 DEF Busy
<1> DEFINE p == worker[w].piece
           a == worker[w].attempt
<1>10. p \in Pieces BY <1>2, <1>9, PieceIsMissing
<1>12. a \in Nat BY <1>7 DEF Worker
<1>13. \/ /\ part' = [part EXCEPT ![p] = "good"]
          /\ worker' = [worker EXCEPT ![w].at = "mark"]
          /\ fault' = fault
       \/ /\ part' = [part EXCEPT ![p] = torn(p)]
          /\ worker' = [worker EXCEPT ![w].at = "try", ![w].attempt = a + 1]
          /\ fault' = TRUE
  BY DEF write, Goto, tried
<1> HIDE DEF p, a
<1>14. /\ worker' \in [Workers -> Worker]
       /\ \A v \in Workers \ {w} : worker'[v] = worker[v]
       /\ worker'[w].piece = p
       /\ \/ worker'[w].at = "mark" /\ part'[p] = "good"
          \/ worker'[w].at = "try"
  BY <1>1, <1>4, <1>7, <1>10, <1>12, <1>13 DEF Worker, p, a, File
<1>15. fault' \in BOOLEAN /\ (fault => fault') /\ (worker'[w].at = "try" => fault')
  <2>1. CASE fault' = fault /\ worker' = [worker EXCEPT ![w].at = "mark"]
    <3>1. worker'[w].at # "try" BY <1>7, <2>1
    <3> QED BY <1>6, <2>1, <3>1
  <2>2. CASE fault' = TRUE BY <2>2
  <2> QED BY <1>13, <2>1, <2>2
<1>16. part' \in File /\ \A q \in Pieces \ {p} : part'[q] = part[q]
  BY <1>4, <1>10, <1>13 DEF File, Contents, torn
<1>17. \A q \in Pieces : part[q] = "good" => part'[q] = "good"
  BY <1>4, <1>10, <1>13 DEF File, torn
<1>18. Safe' /\ Ordered' BY <1>1, <1>2, <1>5, <1>6, <1>7, <1>14, <1>15, <1>16, <1>17, WorkerFrame
<1>19. Published' BY <1>1, <1>2, <1>16, <1>17, PublishedKept
<1>20. HandedOut' /\ NoneForgotten' BY <1>1, <1>2, <1>9, <1>14, <1>17, KeepsPiece DEF p
<1>21. Written'
  <2>1. ASSUME NEW v \in Workers, worker'[v].at = "mark"
        PROVE  part'[worker'[v].piece] = "good"
    <3>1. CASE v = w BY <1>14, <2>1, <3>1
    <3>2. CASE v # w
      <4>1. worker'[v] = worker[v] /\ Busy(v) BY <1>14, <2>1, <3>2 DEF Busy
      <4>2. worker[v].piece \in Pieces BY <1>2, <4>1, PieceIsMissing
      <4> QED BY <1>2, <1>17, <2>1, <4>1, <4>2 DEF Fetching, Written
    <3> QED BY <3>1, <3>2
  <2> QED BY <1>1, <2>1 DEF Written
<1>22. Turns'
  <2>1. worker'[w].at \in {"try", "write"} => fault' BY <1>14, <1>15
  <2>2. worker'[w].at # "false" BY <1>14
  <2> QED BY <1>1, <1>2, <1>8, <1>14, <1>15, <2>1, <2>2, TurnsKept
<1>23. part' # NoFile BY <1>16, NoFileAssumption DEF File
<1> QED BY <1>17, <1>18, <1>19, <1>20, <1>21, <1>22, <1>23 DEF Fetching

(* What a worker publishes is on disk. *)
LEMMA MarkStep ==
    ASSUME Inv, NEW w \in Workers, markVerified(w)
    PROVE  Inv' /\ part' = part
<1> USE DEF Inv
<1> DEFINE p == worker[w].piece
<1>1. /\ worker[w].at = "mark" /\ UNCHANGED <<steady, part, next, failed>>
      /\ entry' = [entry EXCEPT !.available = entry.available \cup {p}]
      /\ worker' = [worker EXCEPT ![w].at = "take"]
  BY DEF markVerified, At, Goto, markAvailable
<1>2. fault' = fault BY DEF markVerified
<1>3. pc = "fetch" BY <1>1, AtWork
<1>4. UNCHANGED <<pc, order, dest>> BY <1>1 DEF steady, plan
<1>5. part \in File /\ part # NoFile /\ dest = NoFile
  BY <1>3 DEF Safe, Types, FileTypes, Stages
<1>6. failed' \in BOOLEAN /\ fault' \in BOOLEAN BY <1>1, <1>2 DEF Safe, Types, RunTypes
<1>7. /\ next' \in Nat \ {0} /\ worker \in [Workers -> Worker] /\ entry \in EntryType
  BY <1>1 DEF Safe, Types, PlanTypes, WorkerTypes, FileTypes, EntryType
<1>8. Busy(w) BY <1>1 DEF Busy
<1>9. p \in Pieces BY <1>3, <1>8, PieceIsMissing
<1>10. part[p] = "good" BY <1>1, <1>3 DEF Fetching, Written
<1> HIDE DEF p
<1>11. /\ worker' \in [Workers -> Worker] /\ worker'[w].at = "take"
       /\ \A v \in Workers \ {w} : worker'[v] = worker[v]
  BY <1>1, <1>7 DEF Worker
<1>12. /\ entry' \in EntryType /\ entry'.path = entry.path
       /\ entry'.available = entry.available \cup {p}
  BY <1>1, <1>7, <1>9 DEF EntryType
<1>13. Safe' /\ Ordered' BY <1>1, <1>3, <1>5, <1>6, <1>7, <1>11, <1>12, WorkerFrame
<1>14. ~(Busy(w)') /\ \A v \in Workers \ {w} : Busy(v)' <=> Busy(v) BY <1>11 DEF Busy
<1>15. HandedOut'
  BY <1>1, <1>3, <1>4, <1>11, <1>14 DEF Fetching, HandedOut, Positions
<1>16. Written' BY <1>1, <1>3, <1>4, <1>11 DEF Fetching, Written, Positions
<1>17. NoneForgotten'
  <2>1. givenUp => givenUp' BY <1>1 DEF givenUp, steady
  <2>2. ASSUME NEW i \in Positions, i < next
        PROVE  \/ givenUp'
               \/ part[order[i]] = "good"
               \/ \E v \in Workers : Busy(v)' /\ worker'[v].piece = order[i]
    <3>1. \/ givenUp
          \/ part[order[i]] = "good"
          \/ \E v \in Workers : Busy(v) /\ worker[v].piece = order[i]
      BY <1>3, <2>2 DEF Fetching, NoneForgotten
    <3> QED BY <1>10, <1>11, <1>14, <2>1, <3>1 DEF p
  <2> QED BY <1>1, <1>4, <1>11, <2>2 DEF NoneForgotten, Positions
<1>18. Published'
  <2>1. entry.path # "dest" BY <1>5 DEF Published
  <2>2. entry.path # "none" => \A q \in entry.available : part[q] = "good"
    BY <1>5, <2>1 DEF Published, PublishedNeverWrong
  <2> QED BY <1>1, <1>4, <1>5, <1>10, <1>12, <2>1, <2>2 DEF Published, PublishedNeverWrong
<1>19. failed' => Excused BY <1>1, <1>3 DEF Turns
<1>20. Turns' BY <1>1, <1>2, <1>3, <1>11, <1>19, TurnsKept
<1> QED BY <1>1, <1>13, <1>15, <1>16, <1>17, <1>18, <1>20 DEF Fetching

(* A piece is given up only after every holder was asked, or for another     *)
(* reason.                                                                   *)
LEMMA GiveUpStep ==
    ASSUME Inv, NEW w \in Workers, giveUp(w)
    PROVE  Inv' /\ part' = part
<1> USE DEF Inv
<1>1. /\ worker[w].at = "try" /\ ~mayTry(w)
      /\ UNCHANGED <<steady, part, entry, next, failed>>
      /\ worker' = [worker EXCEPT ![w].at = "false"]
  BY DEF giveUp, At, Goto
<1>2. fault' = fault BY DEF giveUp
<1>3. pc = "fetch" BY <1>1, AtWork
<1>4. UNCHANGED <<pc, order>> BY <1>1 DEF steady, plan
<1>5. part \in File BY <1>3 DEF Safe, Types, FileTypes, Stages
<1>6. entry' \in EntryType BY <1>1 DEF Safe, Types, FileTypes, EntryType
<1>7. failed' \in BOOLEAN /\ fault' \in BOOLEAN BY <1>1, <1>2 DEF Safe, Types, RunTypes
<1>8. Published' BY <1>1, <1>3, <1>5, PublishedKept
<1>9. next' \in Nat \ {0} /\ worker \in [Workers -> Worker]
  BY <1>1 DEF Safe, Types, PlanTypes, WorkerTypes
<1>10. failed' => Excused BY <1>1, <1>3 DEF Turns
<1>11. Busy(w) BY <1>1 DEF Busy
<1> DEFINE p == worker[w].piece
           a == worker[w].attempt
<1>12. a \in Nat BY <1>9 DEF Worker
<1>13. p \in Pieces BY <1>3, <1>11, PieceIsMissing
<1>14. Excused
  <2>1. CASE cancelled BY <2>1 DEF Excused
  <2>2. CASE fault BY <2>2 DEF Excused
  <2>3. CASE ~cancelled /\ ~fault
    <3>1. ~(a < Passes * rarity(p)) BY <1>1, <2>3 DEF mayTry
    <3>2. \A b \in 0 .. a - 1 : holderAt(p, (p + b) % rarity(p)) \notin Reliable
      BY <1>1, <1>3, <2>3 DEF Turns
    <3> HIDE DEF p, a
    <3>3. ASSUME NEW s \in Reliable PROVE p \notin holds[s]
      <4>1. bitmaps[s] = holds[s] /\ s \in Seeders BY <1>3 DEF Turns, Safe, Types, SeederTypes
      <4>2. s \notin holders(p) BY <1>12, <1>13, <3>1, <3>2, AllAsked
      <4> QED BY <4>1, <4>2 DEF holders
    <3> QED BY <1>13, <3>3 DEF Excused, Unheld
  <2> QED BY <2>1, <2>2, <2>3
<1> HIDE DEF p, a
<1>15. /\ worker' \in [Workers -> Worker] /\ worker'[w].at = "false"
       /\ worker'[w].piece = p /\ worker'[w].attempt = a
       /\ \A v \in Workers \ {w} : worker'[v] = worker[v]
  BY <1>1, <1>9 DEF Worker, p, a
<1>16. Safe' /\ Ordered' BY <1>1, <1>3, <1>5, <1>6, <1>7, <1>9, <1>15, WorkerFrame
<1>17. HandedOut' /\ NoneForgotten' BY <1>1, <1>3, <1>11, <1>15, KeepsPiece DEF p
<1>18. Written' BY <1>1, <1>3, <1>4, <1>15 DEF Fetching, Written, Positions
<1>19. Turns' BY <1>1, <1>2, <1>3, <1>10, <1>14, <1>15, TurnsKept
<1> QED BY <1>1, <1>8, <1>16, <1>17, <1>18, <1>19 DEF Fetching

(* A failure is recorded, or the download is cancelled by then. *)
LEMMA RecordFailureStep ==
    ASSUME Inv, NEW w \in Workers, recordFailure(w)
    PROVE  Inv' /\ part' = part
<1> USE DEF Inv
<1>1. /\ worker[w].at = "false" /\ UNCHANGED <<steady, part, entry, next>>
      /\ worker' = [worker EXCEPT ![w].at = "take"]
  BY DEF recordFailure, At, Goto
<1>2. fault' = fault /\ failed' = (failed \/ ~cancelled) BY DEF recordFailure
<1>3. pc = "fetch" BY <1>1, AtWork
<1>4. UNCHANGED <<pc, order>> BY <1>1 DEF steady, plan
<1>5. part \in File BY <1>3 DEF Safe, Types, FileTypes, Stages
<1>6. entry' \in EntryType BY <1>1 DEF Safe, Types, FileTypes, EntryType
<1>7. failed' \in BOOLEAN BY <1>2, Zenon
<1>8. fault' \in BOOLEAN BY <1>2 DEF Safe, Types, RunTypes
<1>9. Published' BY <1>1, <1>3, <1>5, PublishedKept
<1>10. next' \in Nat \ {0} /\ worker \in [Workers -> Worker]
  BY <1>1 DEF Safe, Types, PlanTypes, WorkerTypes
<1>11. Excused BY <1>1, <1>3 DEF Turns
<1>12. givenUp' BY <1>1, <1>2 DEF givenUp, steady
<1>13. /\ worker' \in [Workers -> Worker] /\ worker'[w].at = "take"
       /\ \A v \in Workers \ {w} : worker'[v] = worker[v]
  BY <1>1, <1>10 DEF Worker
<1>14. Safe' /\ Ordered' BY <1>1, <1>3, <1>5, <1>6, <1>7, <1>8, <1>10, <1>13, WorkerFrame
<1>15. ~(Busy(w)') /\ \A v \in Workers \ {w} : Busy(v)' <=> Busy(v) BY <1>13 DEF Busy
<1>16. HandedOut'
  BY <1>1, <1>3, <1>4, <1>13, <1>15 DEF Fetching, HandedOut, Positions
<1>17. Written' BY <1>1, <1>3, <1>4, <1>13 DEF Fetching, Written, Positions
<1>18. NoneForgotten' BY <1>12, <1>13 DEF NoneForgotten
<1>19. Turns' BY <1>1, <1>2, <1>3, <1>11, <1>13, TurnsKept
<1> QED BY <1>1, <1>9, <1>14, <1>16, <1>17, <1>18, <1>19 DEF Fetching

-----------------------------------------------------------------------------
(* The theorems. *)

(* The invariant holds before the first download. *)
LEMMA InitInv == Init => Inv
<1> SUFFICES ASSUME Init PROVE Inv
  OBVIOUS
<1>1. PICK R \in SUBSET Seeders : holds \in [R -> SUBSET Pieces] BY DEF Init
<1>2. /\ part = NoFile /\ dest = NoFile /\ entry = NoEntry /\ runs = 0 /\ pc = "off"
      /\ verified = {} /\ bitmaps = [s \in Seeders |-> {}] /\ asked = 0
      /\ order = <<>> /\ next = 1 /\ worker = [w \in Workers |-> Idle] /\ state = "D"
  BY DEF Init
<1>3. failed = FALSE /\ cancelled = FALSE /\ fault = FALSE BY DEF Init
<1>4. SeederTypes BY <1>1 DEF SeederTypes, Reliable
<1>5. FileTypes BY <1>2 DEF FileTypes, NoEntry
<1>6. RunTypes
  <2>1. runs \in 0 .. MaxRuns BY <1>2, SizeAssumption
  <2>2. failed \in BOOLEAN /\ cancelled \in BOOLEAN /\ fault \in BOOLEAN BY <1>3, Zenon
  <2> QED BY <1>2, <2>1, <2>2 DEF RunTypes
<1>7. PlanTypes BY <1>2, SizeAssumption DEF PlanTypes
<1>8. Idle \in Worker /\ Idle.at = "idle" BY DEF Idle, Worker
<1>9. WorkerTypes BY <1>2, <1>8 DEF WorkerTypes
<1>10. Stages /\ Found BY <1>2 DEF Stages, Found
<1>11. Inside BY <1>2, <1>8 DEF Inside
<1>12. Fetching BY <1>2 DEF Fetching, Ordered, HandedOut, Written, NoneForgotten
<1>13. Published BY <1>2 DEF Published, PublishedNeverWrong, NoEntry
<1>14. Turns BY <1>2 DEF Turns
<1> QED BY <1>4, <1>5, <1>6, <1>7, <1>9, <1>10, <1>11, <1>12, <1>13, <1>14 DEF Inv, Safe, Types

(* Steps that change nothing keep the invariant. *)
LEMMA StutterInv ==
    ASSUME Inv, UNCHANGED vars PROVE Inv'
<1> USE DEF Inv, Safe
<1>1. /\ UNCHANGED <<holds, part, dest, entry, runs, pc, state>>
      /\ UNCHANGED <<verified, bitmaps, asked, order, next, worker>>
  BY DEF vars, object, plan
<1>2. failed' = failed /\ cancelled' = cancelled /\ fault' = fault BY DEF vars, object
<1>3. RunTypes' BY <1>1, <1>2 DEF Types, RunTypes
<1>4. Types'
  BY <1>1, <1>3 DEF Types, SeederTypes, FileTypes, PlanTypes, WorkerTypes, Reliable
<1>5. Stages' /\ Found' BY <1>1 DEF Stages, AllGood, Found, matching
<1>6. Inside' BY <1>1, <1>2 DEF Inside
<1>7. Ordered' /\ HandedOut' BY <1>1 DEF Fetching, Ordered, HandedOut, Busy, Positions
<1>8. Written' BY <1>1 DEF Fetching, Written, Positions
<1>9. NoneForgotten' BY <1>1, <1>2 DEF Fetching, NoneForgotten, Positions, Busy, givenUp
<1>10. Published' BY <1>1 DEF Published, PublishedNeverWrong
<1>11. Reliable' = Reliable BY <1>1 DEF Reliable
<1>12. Excused' = Excused BY <1>1, <1>2, <1>11 DEF Excused, Unheld
<1>13. Turns'
  <2>1. \A p, i : holderAt(p, i)' = holderAt(p, i) /\ rarity(p)' = rarity(p)
    BY <1>1 DEF holderAt, holders, rarity
  <2> QED BY <1>1, <1>2, <1>11, <1>12, <2>1 DEF Turns
<1> QED BY <1>4, <1>5, <1>6, <1>7, <1>8, <1>9, <1>10, <1>13 DEF Fetching

(* A step keeps the invariant, and the good pieces of the .part file until    *)
(* the whole file has moved to the destination.                               *)
LEMMA StepInv ==
    ASSUME Inv, Next
    PROVE  /\ Inv'
           /\ part # NoFile =>
                IF part' = NoFile THEN dest' = part
                ELSE \A p \in Pieces : part[p] = "good" => part'[p] = "good"
<1>1. CASE start BY <1>1, StartStep DEF start
<1>2. CASE cancel BY <1>2, CancelStep DEF cancel
<1>3. CASE crash BY <1>3, CrashStep
<1>4. CASE prepare BY <1>4, PrepareStep
<1>5. CASE fetchBitmap BY <1>5, BitmapStep
<1>6. CASE publishPartial BY <1>6, PublishPartialStep
<1>7. CASE join BY <1>7, JoinStep
<1>8. CASE checkHash BY <1>8, CheckHashStep
<1>9. CASE rename BY <1>9, RenameStep
<1>10. CASE publishComplete BY <1>10, PublishCompleteStep
<1>11. ASSUME NEW w \in Workers, workerStep(w)
       PROVE  /\ Inv'
              /\ part # NoFile =>
                   IF part' = NoFile THEN dest' = part
                   ELSE \A p \in Pieces : part[p] = "good" => part'[p] = "good"
  BY <1>11, TakeStep, RequestStep, WriteStep, MarkStep, GiveUpStep, RecordFailureStep
     DEF workerStep
<1> QED BY <1>1, <1>2, <1>3, <1>4, <1>5, <1>6, <1>7, <1>8, <1>9, <1>10, <1>11 DEF Next, runStep

(* The whole invariant: every position of the order is handed out once and    *)
(* its piece accounted for until the workers are joined, and a worker's turns *)
(* over the holders met no reliable one.                                      *)
THEOREM PiecesAccountedFor == Spec => []Inv
<1>1. Init => Inv BY InitInv
<1>2. Inv /\ [Next]_vars => Inv' BY StepInv, StutterInv
<1> QED BY <1>1, <1>2, PTL DEF Spec

(* The types hold, and .part exists whenever a worker or a check uses it. *)
THEOREM TypeCorrect == Spec => []TypeOK
<1>1. Inv => TypeOK
  <2> SUFFICES ASSUME Inv PROVE TypeOK
    OBVIOUS
  <2> USE DEF Inv, Safe, Types
  <2>1. holds \in UNION {[R -> SUBSET Pieces] : R \in SUBSET Seeders} BY DEF SeederTypes
  <2>2. /\ {part, dest} \subseteq {NoFile} \cup [Pieces -> Contents]
        /\ entry \in [path : {"none", "part", "dest"}, available : SUBSET Pieces]
    BY DEF FileTypes, File
  <2>3. {failed, cancelled, fault} \subseteq BOOLEAN
    <3>1. failed \in BOOLEAN /\ cancelled \in BOOLEAN /\ fault \in BOOLEAN BY DEF RunTypes
    <3> QED BY <3>1, Zenon
  <2>4. worker \in [Workers -> [at : {"idle", "take", "try", "write", "mark", "false", "done"},
                                piece : Nat, attempt : Nat]]
    BY DEF WorkerTypes, Worker
  <2>5. pc \in {"bitmaps", "fetch", "hash", "rename"} => part # NoFile BY DEF Stages
  <2>6. /\ verified \subseteq Pieces /\ bitmaps \in [Seeders -> SUBSET Pieces]
        /\ asked \in 0 .. NSeeders /\ order \in Seq(Pieces) /\ next \in Nat
    BY DEF PlanTypes
  <2>7. /\ runs \in 0 .. MaxRuns /\ state \in {"D", "C", "F"}
        /\ pc \in {"off", "prepare", "bitmaps", "fetch", "hash", "rename", "publish"}
    BY DEF RunTypes
  <2> QED BY <2>1, <2>2, <2>3, <2>4, <2>5, <2>6, <2>7 DEF TypeOK
<1> QED BY <1>1, PiecesAccountedFor, PTL

(* next++ under its lock gives no piece to two workers, nor one that          *)
(* prepare() had found, with any number of threads.                           *)
THEOREM NoPieceFetchedTwice == Spec => []OneWorkerPerPiece
<1>1. Inv => OneWorkerPerPiece
  <2> SUFFICES ASSUME Inv, NEW w \in Workers, Busy(w)
               PROVE  /\ worker[w].piece \notin verified
                      /\ \A v \in Workers \ {w} : Busy(v) => worker[v].piece # worker[w].piece
    BY DEF OneWorkerPerPiece
  <2>1. pc = "fetch"
    <3>1. worker[w].at \notin {"idle", "done"} BY DEF Busy
    <3> QED BY <3>1, AtWork
  <2>2. worker[w].piece \notin verified BY <2>1, PieceIsMissing
  <2> QED BY <2>1, <2>2 DEF Inv, Fetching, HandedOut
<1> QED BY <1>1, PiecesAccountedFor, PTL

(* Only a whole and correct file ever appears at the destination, and a       *)
(* download reported complete has left one.                                   *)
THEOREM CompleteDownloadsAreWhole == Spec => []CompleteIsWhole
<1>1. Inv => CompleteIsWhole BY DEF Inv, Safe, Stages, CompleteIsWhole, AllGood
<1> QED BY <1>1, PiecesAccountedFor, PTL

(* fetchPieces() returns true only with every piece on disk. *)
THEOREM FetchedPiecesAreAll == Spec => []JoinedIsWhole
<1>1. Inv => JoinedIsWhole BY DEF Inv, Safe, Stages, JoinedIsWhole, AllGood
<1> QED BY <1>1, PiecesAccountedFor, PTL

(* What the peer server reads through the entry is right at every moment of   *)
(* a download, torn writes and crashes included.                              *)
THEOREM PublishedPiecesAreRight == Spec => []PublishedNeverWrong
<1>1. Inv => PublishedNeverWrong BY DEF Inv, Published
<1> QED BY <1>1, PiecesAccountedFor, PTL

(* A download in which every piece has a reliable holder fails only when      *)
(* cancelled or when the disk fails, whatever the other seeders answer.       *)
THEOREM FailuresHaveCauses == Spec => []FailsOnlyForCause
<1>1. Inv => FailsOnlyForCause BY DEF Inv, Turns, FailsOnlyForCause, Excused, Unheld
<1> QED BY <1>1, PiecesAccountedFor, PTL

(* No step of any thread, crash or later run undoes a verified piece. *)
THEOREM ProgressIsKept == Spec => GoodPiecesKept
<1>1. Inv /\ [Next]_vars =>
        [part # NoFile =>
           IF part' = NoFile THEN dest' = part
           ELSE \A p \in Pieces : part[p] = "good" => part'[p] = "good"]_vars
  BY StepInv
<1> QED BY <1>1, PiecesAccountedFor, PTL DEF Spec, GoodPiecesKept
=============================================================================
