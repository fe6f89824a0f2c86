# Torrent-Atlas in TLA+

Torrent-Atlas is a file-sharing system with one tracker and many clients. This directory holds
TLA+ models of its protocol and of the threads that run it, the TLC configurations that check them,
and proofs, checked by TLAPS, of what they say about the tracker, the peers, downloads, the client
and the servers. `PROJECT.json` is the machine-readable
index: for each definition the source lines it stands for, for each run what it checks, for each
property a faulty variant of the code that breaks it.

## 1. The system

```
            TrackerClient == SecureChannel ==> TcpServer -> TrackerService -> TrackerState
 prompt --/                                        (tracker process)
 Download threads --> PeerClient == ticket ==> TcpServer -> PeerServer -> SharedFiles
            (client process)                            (another client process)
```

| Component | Source | State | Operations |
| --- | --- | --- | --- |
| Tracker state | `tracker/state/` | users and password hashes; sessions; groups with owner, members, requests, files and seeders | 14 commands, each under one mutex |
| Tracker process | `tracker/main.cpp`, `tracker_service` | none of its own; nothing is saved | passes a decrypted request to `TrackerState::apply()`; starts empty |
| Secure channel | `common/net/secure_channel` | per connection: nonce, ephemeral key, session key | hello, signed hello, one sealed request, one sealed reply |
| TCP server | `common/net/tcp_server` | `stopping_`, `active_`, a condition variable | accept loop, detached thread per connection, `stop()` |
| Sockets and frames | `common/net/net` | per call: bytes still to come | `receiveFrame()`, `sendFrame()`, timeouts |
| Tickets and peer server | `common/peer_ticket`, `client/peer/` | a peer key per process | issue (tracker), request (downloader), admit or deny (peer) |
| Shared files | `client/storage/shared_files` | (group, file) -> path and available pieces | add, markAvailable, remove, removeGroup, clear |
| Tracker client | `client/tracker_client` | the session ID | one request at a time under a mutex |
| Prompt | `client/client` | none | forwards commands, then mirrors their effect on SharedFiles |
| Download | `client/download/download` | `.part` file, bitmaps, order, `next`, `failed`, `cancelled_`, tickets | `run()`: prepare, bitmaps, workers, whole hash, rename, publish; `seederAt()` renews tickets |
| Download manager | `client/download/download_manager` | the list of downloads | start, cancel, report, destructor |
| Texts | `common/encoding`, `command`, `file_metadata`, `peer_ticket` | - | quoting, hex, decimals, splitting, piece counts and lengths |
| The rest | `common/crypto`, configuration, keygen, logging | - | library wrappers, start-up, terminal |

What is hard here, and for each part what makes it correct:

* **Tracker state.** A share depends on a membership, a session and a listing, which four
  different commands end in different ways (`logout`, `leave_group`, `remove_member`,
  `stop_share`). Correct: no command sequence leaves a share without the other three, gives the
  anonymous session to a user, lets somebody but the owner admit, or changes a listed file's
  metadata.
* **Tickets.** Peers never ask the tracker: revocation works only through time. Correct: a former
  member is served for at most a ticket's lifetime (plus clock skew), a ticket works only at the
  peer it was issued for, an honest request is not refused, and a download longer than a ticket
  keeps reaching the seeders that stay listed.
* **Secure channel.** Nothing remembers nonces. Correct: a recorded connection does not run a
  command twice, and a reply belongs to the request it answers.
* **Client.** The prompt and the download thread both talk to the tracker and both change
  SharedFiles, in two steps each; a request can time out and still be applied. Correct: what the
  tracker offers from a client is backed by a session of that client and by a file it serves.
* **Download.** Workers share a counter, `failed`, `cancelled_` and one file; the user cancels
  and the process dies at any point. Correct: complete means whole; verified pieces are kept;
  nothing wrong is published; it fails only for a cause; it ends.
* **Download manager.** Several downloads, the prompt and the peer server's threads meet in the
  list of downloads, one shared entry per file name, and the file system, which `start()` checks
  before it checks the list and the peer server reads after it has released the entry. Correct: one
  writer per `.part` file; no wrong piece is sent; quit returns, after the last thread.
* **TCP server and frames.** Detached threads use objects that `main()` destroys after `serve()`,
  and receive from clients that may stall in the middle of a frame. Correct: `serve()` returns after
  `stop()`, never before its handlers, and misses no wake-up.
* **Texts.** A command is quoted, joined, framed and split by four different rules. Correct: names
  made of delimiters, empty files and files at a piece boundary arrive as they left.

`PROJECT.json` lists these hazards one by one under "hazards", each at its line.

## 2. Modules

| Module | Models | Built on |
| --- | --- | --- |
| `TrackerState` | `tracker_state.cpp`, `password`, ticket issue | - |
| `GroupAccess` | abstract: what the tracker promises about access | - |
| `TrackerRefinement` | `TrackerState` implements `GroupAccess` | both |
| `PeerAccess` | `peer_server.cpp`, `peer_client.cpp`, `peer_ticket`, `freshness.hpp` | `GroupAccess` |
| `TicketRenewal` | `Download::seederAt()`, with the seeders and the tracker's list over time | - |
| `Download` | `download.cpp`, `piece_file`, the transfers of `peer_client.cpp` | - |
| `DownloadManager` | `download_manager.cpp`, `shared_files.cpp`, the reading side of `peer_server.cpp`, the destructors of `client.hpp` | - |
| `ClientShares` | `client.cpp`, `tracker_client.cpp`, the tracker-facing part of `download.cpp` | instance of `TrackerState` |
| `SecureChannel` | `secure_channel.cpp`, `freshness.hpp`, `callTracker()` | - |
| `TcpServer` | `tcp_server.cpp`, `receiveFrame()` of `net.cpp` | - |
| `Wire` | `encoding.cpp`, `command_line.cpp`, `file_metadata`, the texts of `peer_ticket.cpp`, `tracker_client.cpp`, `tracker_service.cpp` and `Endpoint` | - |
| `TrackerStateProofs`, `PeerAccessProofs`, `TicketRenewalProofs`, `DownloadManagerProofs`, `DownloadProofs`, `ClientSharesProofs`, `SecureChannelProofs`, `TcpServerProofs` | theorems and proofs (section 4) | the module each is named after (`TrackerRefinement` for the tracker), TLAPS |

`MC...` modules add symmetry sets, a view or the enumerated inputs for TLC and define nothing else.
Every module has a section "Faulty variants": operators no specification uses, each a bug of the
kind the code could contain, which `PROJECT.json` pairs with the property it breaks.

### TrackerState

`apply()` holds the mutex for a whole command, so a command is one action. Maps are total
functions with a `No...` value for "no entry"; `NoSession` is the ID 0 that a logged-out client
sends. Each command is `IF <its checks> THEN <its effect> ELSE Refuse`: an error changes nothing
and hands back the caller's session. What the random generator and OpenSSL return (`saltOk`,
`keyOk`, `newSession`, which may be 0 or in use) is an argument. `removeSharesOf` erases a file
whose last seeder leaves, as the code does. `reply` is the last `CommandResult`. Metadata is one
value with `sameContent` as equality. `restart` is the tracker process starting again, empty.

### GroupAccess, TrackerRefinement, PeerAccess

`GroupAccess` knows memberships, offers and tickets and nothing of sessions, requests, passwords
or owners. `PeerAccess` composes it with peers whose clocks are up to `MaxSkew` from the
tracker's. `makeRequest` builds a frame under any key somebody holds, for the ticket the key
belongs to or another one, with the expiry as issued or moved, and stamps it with the sender's
clock. The frame stays on the network until it is lost, so it is delivered late or several times,
and to either peer. `respond` follows `PeerServer::respond()`: expiry, key, freshness, file.
`lastMember` and `listed` are history variables that the properties compare the answers with.

### TicketRenewal

`seeders` is `seeders_`: places filled by `locate()` at the start and updated by endpoint when a
ticket nears its end on the downloader's clock. Around it clients crash, start again with a new
peer key at the same or another endpoint, and enter and leave the tracker's list; several users may
be listed at one endpoint. One request is followed from `seederAt()` through a renewal that may get
no answer to the seeder's check on its own clock, at most `Delay` later. `changed` is history. The
assumption `MarginAssumption` says what `TICKET_MARGIN_SECONDS` (60 s) has to pay for: twice the
skew and the request's way.

### Download

`pc` is the place of `run()`, `worker[w].at` that of a worker: `take` (the loop's condition), `try`
(one attempt), `write`, `mark` (`markAvailable`), `false` (`fetchPiece()` returned false), `done`. A
stored piece is good, bad or none. A reliable seeder always answers and holds what it announced; any
other answers anything (PeerClient hands on only data that matches the piece's hash, so a wrong
answer is a failed attempt). A good old piece that `prepare` cannot read counts as missing and is
fetched again. A failed or torn write leaves a bad piece, unless the piece was good already: then
the same bytes were written in place (`torn`). `crash` loses everything except the files. `fault` is
history: some disk operation failed.

### DownloadManager

Each download of the list is a thread at a stage of `run()`; what happens inside `fetchPieces()` is
reduced to a worker's write and its later `markAvailable()`, for any missing piece, in any order,
also after a cancel. `disk` says for every path and piece whose bytes are there. `prepare` and
`torn` are as in `Download`. `start()` is three steps: `checkExists` looks at the disk, `checkList`
at the list under `mutex_`, and `start` adds the download when the tracker has answered, with no
second look; or `refuse` ends it. `mutex_` is free between the last two, and downloads go on, are
published and finish there. Cancel and quit do not come in between, nor a second `start()`: the
prompt is one thread. The code relies on that, although `download_manager.hpp` calls the class
thread-safe. A peer handler copies an entry (`find`) and opens the file later (`read`). `quit` is
the destruction of `Client`: downloads cancelled and joined, the peer server stopped, which it
notices only after its last `poll()` (`noticeStop`), so that a connection is still accepted after
`stop()`, and SharedFiles gone. The history variable `mixed` collects the names for which the
entry's promise is known to fail (two unfinished downloads of the name, a `.part` file taken over by
another name, a finished file replaced): `SentVerified` exempts them and holds for all the others.

### ClientShares

One client process, the real tracker (all of `TrackerState`), and everybody else. A request and its
reply are one step (`TrackerClient::mutex_`), the effect on SharedFiles is another (`mirror`,
`addUploaded`, `addPart`, `addComplete`), so the prompt and the download threads (`Threads`, each at
a stage of `run()`) interleave between them. Two downloads may be of one file: the list's check
compares destinations. `unanswered` is a request without an answer: the session stays and the
tracker applies the command later (`applyLate`) or never (`loseLate`). `others` is any effective
command of another client on a session that is not this client's.

### SecureChannel

A call is one `callTracker()`, a handler one accepted connection, of the tracker whose key the
client pins or of another one. `wire` holds every frame ever sent and any frame can be delivered to
anybody at any time. The wrappers of `crypto.cpp` are ideal operators; the session key is the digest
of the secret both ephemeral owners share and of the transcript. `TypeOK` says of every frame and key
what it is made of, so a frame taken for one of another kind shows there.

### TcpServer

`serve()` step by step, `conn[c]` the life of a connection, `active` the counter. The look at
`stopping_` and the `poll()` after it are two steps (`checkStopping`, `poll`), so a connection may
still be accepted after `stop()`. A connection's thread receives a header, then a payload of the
announced length, in pieces of any size (`need` is what `receiveAll()` still waits for), or gives up
when nothing comes; `Rounds` frames are answered, two at the tracker, one at a peer. `waitIdle` is
the predicate check with the lock held; asleep, `serve()` moves only when `retire` notifies.
Spurious wake-ups only repeat the check and are left out.

### Wire

Two conversations: `stop_share` from the line typed to the tracker's words, and the META reply from
the tracker's record to the client's. Both are made of one operator per conversion of the code. The
alphabet is digits and every delimiter, both quote characters among them, so that one may stand
inside the other or be left open; the reply has its META prefix and the tab and session at its end.
Numbers are written in base 5 (decimal and hex alike), which keeps the round trips and their
failures and shortens the texts. `hash` cuts a file as `PieceFile::hash()` reads it; a digest is a
text of the right length. In `CommandArrives` group names with blanks are exempt: a quoted `"g1 "`
is split again at the tracker, so no group can have such a name, and the command acts on the group
without the blank.

## 3. Runs

Each finishes within two minutes on two cores. "V" marks a run that must end in a violation.

| Run | Bounds | What it shows |
| --- | --- | --- |
| `tracker` | 3 users, 2 sessions and ID 0, 2 groups, 1 file, 2 contents, 1 peer | the maps stay consistent; no step takes over a session, admits without the owner, removes by a third user, or changes metadata; every command is a step of `GroupAccess` or a stutter |
| `peers` | 1 user, 2 peers, lifetime and window 2, skew 1, clock to 3, 2 tickets held, 1 frame | access ends with membership, tickets bind to a peer, honest requests are admitted |
| `renewal` | 2 users, 2 endpoints, lifetime 5, margin 4, skew 1, delay 1, clock to 6, 3 client starts | a listed, running seeder is denied only after an unanswered renewal or shortly after it changed |
| `download` | 2 pieces, 2 seeders, 2 workers, 2 passes, 2 runs, fairness | the safety of a download under failures, cancellation, crash and resume; every started run ends |
| `manager` | 2 names, 2 destinations, 1 piece, 1 handler, 2 downloads, fairness | one writer per `.part`, nothing wrong sent, quit returns after the last thread |
| `manager_entry` V | the same with 2 pieces, no fairness | finding 1 |
| `client` | 2 users, 2 sessions, 1 group, 1 file, 1 download thread, 1 late request | listings agree with sessions and shared files |
| `client_logout` V | the same with 2 download threads, no late request | finding 2 |
| `channel` | 2 calls, 3 handlers, window 1, skew 2, clock to 2 | no command twice, replies their own |
| `channel_clocks` V | the same | finding 3 |
| `tcp` | 3 connections, header 2 bytes, payloads to 2 and one too long, 2 rounds, fairness | no thread outlives `serve()`, `stop()` returns, an accepted connection is served or given up |
| `wire` | names of up to 2 characters, each a delimiter or a digit; piece size 4, sizes 0 to 13; 1 or 2 seeders | commands and listings arrive as they left |

Why the bounds are enough. The tracker's checks compare users of one command (caller, owner, named
user), hence three; two sessions let one user be logged in twice or two users at once, and two
groups tell "in every group" from "in this group"; files of one group do not influence each other.
In `peers` the ticket's user is data that no check compares with anything else, so one user does;
the clock passes lifetime plus skew, and two held tickets let a key meet the wrong ticket. In
`renewal` the clock passes a ticket's life, and three starts let a client return with a new key
while another takes its place. In `download` two pieces, workers and seeders give races for the
counter, unequal rarities and rotation; two runs give a resume. In `manager` a name and a
destination can be the same or differ between the two downloads, and one piece is enough for a
wrong one. In `client` one download is enough for the prompt and a thread to interleave between
every two steps of either; what a second one adds is in the theorems, which hold for any number of
threads (with two and a late request TLC takes longer than a run here should). Two calls and three
handlers leave a handler for a replayed hello after both calls are answered. In `tcp` three
connections can be queued, running and ending at once, each at any byte of its frames. In `wire`
two characters hold every pair of adjacent delimiters, and the sizes lie below, at and above one,
two and three pieces.

Symmetry is used for sets of model values that nothing orders or chooses from (users, sessions,
groups, contents, endpoints, peers, calls, handlers, names), and in no run with a liveness
property. `client` also has a view without `reply`, which no action reads unprimed and no property
mentions. Deadlock checking is off only where the system may really stop: a download that is over,
a client that has quit, a server that has returned, connections that are closed, clocks at their
bound, a text that has arrived.

Fairness. `download`: weak fairness of `run()`'s thread and of each worker. Peer sockets have
connect, receive and send timeouts, a request makes a bounded number of calls, and disk calls
return; so a thread with a step to take takes it. Nothing is assumed of seeders, of the user or of
crashes. `manager`: the destructors, each download's own steps and each peer handler; that a missing
piece is ever written is not assumed, so a download may end without it. `tcp`: the serving thread,
whose `poll()` has a 200 ms timeout, and each handler; a `recv()` that gets nothing fails after the
socket's timeout. That bytes arrive is not assumed: the timeout is per `recv()`, so a slow client
keeps its thread for as long as it sends, but a frame has at most `MAX_FRAME` bytes and a handler
two frames, which bounds it. Nothing is assumed of clients or of `stop()`.

## 4. Proofs

A run checks a small instance; the theorems hold for every value of the constants that meets the
module's assumptions. Every proof module has the same shape: an invariant `Inv`, a conjunction of
named parts; `Init => Inv`; a step lemma per part with one case per action that can disturb it; and
the properties of the runs as consequences of `Inv`.

| Module | Assumptions | Properties proved |
| --- | --- | --- |
| `TrackerStateProofs` | the "no entry" values are not entries; times are integers | `TypeOK`, `SeedersBacked`, `ListedIffSeeded`, `GroupsCoherent`, `MetadataFixed`, `SessionsNotTakenOver`, `OwnerAdmits`, `OnlySelfOrOwnerRemoves`, `ImplementsAccess` |
| `PeerAccessProofs` | times, lifetime and window are integers; skew and clock bound naturals; no peer is `NoPeer` | `TypeOK`, `AccessEndsWithMembership`, `ServedByListedSeeder`, `GenuineNotDenied` |
| `TicketRenewalProofs` | `MarginAssumption`: twice the skew and the request's way are less than the margin, the margin at most the lifetime; finitely many users; natural bounds | `TypeOK`, `ListedSeederServes` |
| `DownloadManagerProofs` | `NoFile` is not the contents of a file | `TypeOK`, `OneWriterPerPart`, `NothingOutlivesClient`, `SentVerified` |
| `DownloadProofs` | finitely many workers, at least one; at least one seeder and pass; `NoFile` as above | `TypeOK`, `OneWorkerPerPiece`, `CompleteIsWhole`, `JoinedIsWhole`, `PublishedNeverWrong`, `FailsOnlyForCause`, `GoodPiecesKept` |
| `ClientSharesProofs` | "no entry" values as above; this client's peer is a peer | `TypeOK`, `ListedOnOwnSession`, `ListedIsServed` |
| `SecureChannelProofs` | calls are not handlers; clocks are naturals | `TypeOK`, `HandledOnce`, `ReplyIsOwn` |
| `TcpServerProofs` | a header has a byte, a handler a round | `TypeOK`, `NoThreadOutlivesServe` |

Why the assumptions are justified: a missing map entry or file is not one that exists; each side of
a connection makes a new ephemeral key pair; `TrackerClient::locate()` refuses a listing without
seeders, `PASSES_PER_PIECE` is 3, and `fetchPieces()` starts at most `MAX_THREADS` workers and at
least one if a piece is missing; a header is four bytes. `MarginAssumption` is what
`TICKET_MARGIN_SECONDS` is for, and exactly what the proof needs: with less a ticket can run out on
its way.

### TrackerState

`Consistent`: `Inv` is the conjunction of the run `tracker`'s invariants with two more,
`AnonymousLoggedOut` (ID 0 belongs to nobody) and `KnownUsers` (every name is a created user's). The
conjunction is needed because the parts speak of one another's variables: that seeders are online
survives `upload_file` only because a caller that is logged in has a session, survives `login`
because a session in use is not overwritten, and survives `logout` of one of two sessions because
all the user's shares go; that they are members needs the type of `owner`, and `GroupsCoherent` that
an owner cannot leave; `KnownUsers` that sessions belong to created users. `QuietOrEffective` splits
a step into one that only answers, a handler with an effect and a restart.

`TrackerKeepsPromise`: with tickets read off the reply, `Init` implies `GroupAccess`'s, and every
handler is one of its steps or a stutter. The invariant is needed for `download_file`, whose tickets
are for peers the abstract tracker offers, and for the handlers that end a membership, whose shares
must end in the same step.

### PeerAccess

`AccessEndsWithMembership` is not inductive: it says nothing of keys that are still travelling.
`KeysAreEarned` does: every key held or on the network belongs to a ticket that expires within
`Lifetime` of an instant of its user's membership, at a peer that was listed for its file. It
survives a step because a ticket is issued only to a member, by a tracker that lists the peer, a
request is built from a held key, and the two histories only grow. A server checks the expiry on a
clock at most `MaxSkew` from the tracker's, which gives the bound. `StampsNear` does the same for
`GenuineNotDenied`: the stamp is off by one skew, the check by another, hence twice `MaxSkew`.

### TicketRenewal

`ListedSeederServes` speaks of the moment a seeder decides, long after the access was issued.
`AccessesStayCurrent` keeps the connection: every access, at its place in `seeders_` or in a request
under way, names the key of a client listed at its endpoint now, unless the listings there changed
at or after its issue (`Current`, with the issue read off the expiry). A change of the list keeps it
because the change is dated (`ChangesNoted`), a renewal because a place gets a new access for its
own endpoint or, if it gets none, nobody is listed there (`Renewed`, where the last match of the
loop exists because an answer is finite). `RequestCurrent` says in what ways a request may leave
`seederAt()`: the renewal was lost, the ticket had its margin, it was new, or nobody was listed.
`MarginEnough` is the arithmetic: in the second and third case the ticket is still valid on the
seeder's clock at the latest moment of arrival, and a change since its issue lies within the bound
of the property; in the fourth a client now listed was listed since.

### DownloadManager

`OneWriterPerPart` follows from `Serial`: downloads to one destination follow one another. `start()`
adds one long after it looked at the list, so this needs `Cleared`: what the look saw still holds
when the tracker has answered, because downloads end meanwhile and none is added or comes back.
`SentVerified` needs most of the invariant, because a handler reads a file that it looked up
earlier. `EntriesServed` and `CopiesServed` say that what an entry, or a handler's copy of one,
promises can be had at its path: it is the user's own file, or download `j` left it there and every
later download to that destination is of the same file and writes only the same bytes over it. A
path stays good when its download renames the `.part` file, because a reader then finds no file and
sends nothing. `Overlaps` and `Retries` say that the cases in which this fails are in `mixed`, which
is what finding 1 is about.

### Download

`Ordered`, `HandedOut`, `Written` and `NoneForgotten` say that each missing piece has one position
in the order; that a position handed out belongs to one worker; that a piece is in the file before
its worker marks it; and that a position handed out has its piece in the file, a worker, or a
download that is given up. When all workers are done nothing is left but the first case, so the file
is whole. `Published` needs the order too: a piece is written before it is marked, and stays good,
as writing it again writes the same bytes. `FailsOnlyForCause` rests on `Turns`: the attempts so far
met no reliable holder. A worker's attempts start at the piece's number, modulo the number of
holders, so after as many attempts as holders every holder had a turn (`TurnsReachAll`, by
arithmetic on remainders): a piece that some reliable seeder has is fetched before its attempts run
out.

### ClientShares

The invariant names what the client relies on in the tracker (`TrackerOK`), that it sends only IDs
the tracker gave it (`OwnSessions`), that without unanswered requests at most one session of its own
is live (`OneSession`), that a share being ended is no longer listed and nothing lists it again
before it leaves SharedFiles (`EndedShares`), and that every download publishes before it registers
(`DownloadServed`). The tracker is all of `TrackerState`: a lemma reduces each command to one of five
effects on sessions and listings (none, a login, shares dropped, a logout, a share added), and the
client's steps are proved against effects only. A logout needs the most: it ends one session and all
shares of its user, which is why no other live session of the client is left behind without them.

### SecureChannel

A session key is the digest of the shared secret and both hellos, so it names its call and its
handler. The invariant says that every frame on the wire was made by the side it speaks for and what
that side had become by then; as sides only move forward this stays true however late the frame
arrives. Two handlers with the same request would have the same key, hence be the same handler
(`HandledOnce`); a call whose key agrees with a pinned handler opens only that handler's reply, as
the label of the direction excludes its own frames (`ReplyIsOwn`).

### TcpServer

`Counted`: `active_` is the number of threads alive. With `OneAccepted` (the connection `serve()`
holds between `accept()` and the thread is unique) each step changes the set by the thread it
names, and `serve()` returns only at zero. `SleeperHasWaker` is the safety half of not missing a
wake-up: `serve()` sleeps only while a thread is left that will notify it.

### Only model-checked

* Liveness under fairness, which the prover does not reach: `EveryRunEnds`, `QuitReturns`,
  `StopReturns`, `AcceptedIsHandled`.
* `Wire` (`CommandArrives`, `LocateReturnsListing`): what recursive functions compute for every text
  needs induction over data, which the installed provers do not do.
* That the bounds of section 3 leave out nothing of liveness and of the texts is argued there, not
  proved.
* The three violations of section 5.

## 5. Findings

1. `manager_entry`: two downloads of one file to different destinations share one entry of
   SharedFiles, and `markAvailable()` finds it by name only: a piece one of them has verified in its
   `.part` file becomes available in the other's, although `local_file.hpp` says an available piece
   "is on disk and verified".
2. `client_logout`: a download that runs across `logout` adds its file to SharedFiles again,
   whatever the tracker answers, although `PROJECT.md` says logout stops sharing all files.
3. `channel_clocks`: hellos more than 300 s from the receiver's clock are refused on both sides,
   although `SECURITY.md` says the clocks need not agree.

Also noticed while modelling, each within what the properties allow or exempt:

* `Download::complete()` renames `.part` and replaces the entry only after a tracker round trip;
  meanwhile the entry names no file and peers get UNAVAILABLE.
* `DownloadManager::start()` looks at the destination before the list. A download of the same
  destination that finishes in between is no longer in the way, and its file is replaced by the
  second download's rename.
* `download_manager.hpp` calls the manager thread-safe, but `start()` adds a download without another
  look at the list after the tracker's answer; two threads in `start()` could add one destination
  twice. Only the prompt thread calls it.
* A `.part` file left by one file and reused for another is still named by the first file's entry.
* Downloading a file one already shares replaces the whole-file entry by the `.part` entry.
* Renewal matches by endpoint: of two users listed at one endpoint, the last one sorted is taken for
  both places.
* An `accept()` error other than EINTR and ECONNABORTED ends the loop, although `tcp_server.hpp`
  says `serve()` accepts until `stop()`; the tracker's `main()` then waits for its console thread.
* `PROJECT.md` (lines 36 and 52) says the tracker saves its state, `tracker_state.hpp` and the code
  keep it in memory only; `tracker_state.hpp:5` names login lockouts, which do not exist. The models
  follow the code.
* The freshness window equals a ticket's lifetime, so its past bound refuses an honest request only
  when the ticket is about to expire anyway.

## 6. Not modelled

* The inside of the cryptography. `SecureChannel` has an ideal operator for each wrapper of
  `crypto.cpp` it calls, the other modules write the result directly: HMACs and hashes collide with
  nothing, frames open only under their key, random IDs of other clients differ from this client's.
  The wrappers over OpenSSL keep no state between calls.
* The client's `connect()` and the ownership of descriptors: a request there is answered, lost, late
  or repeated.
* Failure to create a thread in `serve()`, which ends the process.
* Configuration, key generation, terminal, logging and the progress figures: input and output that
  no later step depends on.

## 7. State of the project

Every invariant and action property that a run checks is proved for all values of the constants,
except the two of `Wire`; the four liveness properties stay with TLC. The models cover the code
except for section 6. Whoever changes the code changes the definition that `PROJECT.json` maps to
the changed lines, runs the module's configuration, and then its proofs: a proof that breaks names
the action and the part of the invariant that the change disturbs.
