-------------------------------- MODULE Wire --------------------------------
(***************************************************************************)
(* The texts the programs exchange: a command from the prompt to the       *)
(* tracker's words (command_line.cpp, client.cpp, tracker_service.cpp),    *)
(* and a file's metadata, seeders and tickets from the tracker back to the *)
(* client (tracker_state.cpp, tracker_client.cpp, peer_ticket.cpp).        *)
(*                                                                         *)
(* A text is a sequence of characters and a character a number: the digits *)
(* come first, a byte is two digits "in hex" (here in base Base, as are    *)
(* the decimals), and every delimiter can also occur in a file's name.     *)
(***************************************************************************)
EXTENDS Naturals, Sequences, SequencesExt

CONSTANTS
    Lines,      \* what users type: kind "line", group, file, how quoted, how spelled
    Listings,   \* what the tracker lists: kind "listing", size, seeders and session
    PieceSize,  \* PIECE_SIZE
    HashLength, \* digits of a SHA-1
    KeyLength,  \* bytes of a ticket's key
    Word,       \* 2^64
    MaxPort,    \* 65535
    None, Refused

Base == 5
Digits == 0 .. Base - 1
BLANK == 5
TAB == 6
QUOTE == 7
BACKSLASH == 8
DOT == 9
SLASH == 10
COLON == 11
COMMA == 12
DASH == 13
UNDERSCORE == 14
STOP == 15
SHARE == 16
META == 17
C == 18
APOSTROPHE == 19
Quotes == {QUOTE, APOSTROPHE}
Space == {BLANK, TAB}

VARIABLES
    input,   \* what is meant
    text,    \* what travels, or None
    output   \* what the receiver makes of it, or None

vars == <<input, text, output>>

Init ==
    /\ input \in Lines \cup Listings
    /\ text = None
    /\ output = None

-----------------------------------------------------------------------------
(* Faulty variants, used only to show that the properties can fail. *)

(* Names travel as they are. *)
toHex_asTyped(bytes) == bytes

(* An empty file's list of pieces is the empty text. *)
pieceHashList_bare(hashes) == FlattenSeq(hashes)

-----------------------------------------------------------------------------
(* encoding.cpp *)

toHex(bytes) == FlattenSeq([i \in DOMAIN bytes |-> <<bytes[i] \div Base, bytes[i] % Base>>])

isHex(s) == \A i \in DOMAIN s : s[i] \in Digits

fromHex(hex) ==
    IF Len(hex) % 2 # 0 \/ ~isHex(hex) THEN None
    ELSE [i \in 1 .. Len(hex) \div 2 |-> Base * hex[2 * i - 1] + hex[2 * i]]

parseU64(s) ==
    LET value == FoldLeft(LAMBDA n, digit : n * Base + digit, 0, s)
    IN  IF s = <<>> \/ ~isHex(s) \/ value >= Word THEN None ELSE value

to_string[n \in Nat] ==
    IF n < Base THEN <<n>> ELSE Append(to_string[n \div Base], n % Base)

split(s, delimiter) ==
    FoldLeft(LAMBDA parts, c : IF c = delimiter THEN Append(parts, <<>>)
                               ELSE [parts EXCEPT ![Len(parts)] = Append(@, c)],
             << <<>> >>, s)

join(parts, delimiter) ==
    FoldLeftDomain(LAMBDA s, i : s \o (IF i = 1 THEN <<>> ELSE <<delimiter>>) \o parts[i],
                   <<>>, parts)

(* std::istringstream >> word, until there are no more. *)
streamWords(s) ==
    SelectSeq(split([i \in DOMAIN s |-> IF s[i] \in Space THEN BLANK ELSE s[i]], BLANK),
              LAMBDA word : word # <<>>)

-----------------------------------------------------------------------------
(* From the prompt to the tracker: stop_share, the command whose file name   *)
(* must survive.                                                             *)

(* How the user writes a word: as it is, in quotes of either kind, or         *)
(* escaping everything.                                                       *)
typed(word, style) ==
    LET escape(S) == FlattenSeq([i \in DOMAIN word |->
                         IF word[i] \in S THEN <<BACKSLASH, word[i]>> ELSE <<word[i]>>])
        within(quote) == <<quote>> \o escape({quote, BACKSLASH}) \o <<quote>>
    IN  CASE style = "bare" -> word
          [] style = "quotes" -> within(QUOTE)
          [] style = "apostrophes" -> within(APOSTROPHE)
          [] style = "escaped" -> escape(0 .. APOSTROPHE)

(* The loop over the characters; quote is the open quote. *)
parseCommandWords(line) ==
    LET push(s, c) == [s EXCEPT !.current = Append(@, c), !.inWord = TRUE]
        step(s, c) ==
            CASE s.escaped -> [push(s, c) EXCEPT !.escaped = FALSE]
              [] ~s.escaped /\ c = BACKSLASH -> [s EXCEPT !.escaped = TRUE, !.inWord = TRUE]
              [] ~s.escaped /\ c = s.quote -> [s EXCEPT !.quote = None]
              [] ~s.escaped /\ c \in Quotes /\ s.quote = None ->
                    [s EXCEPT !.quote = c, !.inWord = TRUE]
              [] ~s.escaped /\ c \in Space /\ s.quote = None ->
                    [s EXCEPT !.words = IF s.inWord THEN Append(@, s.current) ELSE @,
                              !.current = <<>>, !.inWord = FALSE]
              [] OTHER -> push(s, c)
        start == [words |-> <<>>, current |-> <<>>, quote |-> None, escaped |-> FALSE,
                  inWord |-> FALSE]
        end == FoldLeft(step, start, line)
        last == IF end.escaped THEN Append(end.current, BACKSLASH) ELSE end.current
    IN  IF end.inWord THEN Append(end.words, last) ELSE end.words

verbs == {<<STOP>>}

(* CommandLine::parse(): two-word names are joined. *)
parse(line) ==
    LET words == parseCommandWords(line)
    IN  IF Len(words) >= 2 /\ words[1] \in verbs
        THEN [name |-> words[1] \o <<UNDERSCORE>> \o words[2],
              args |-> SubSeq(words, 3, Len(words))]
        ELSE [name |-> Head(words), args |-> Tail(words)]

stop_share == <<STOP, UNDERSCORE, SHARE>>

forwardToTracker(command) ==
    FoldLeftDomain(LAMBDA s, i : s \o <<BLANK>> \o
                       (IF command.name = stop_share /\ i = 2 THEN toHex(command.args[i])
                        ELSE command.args[i]),
                   command.name, command.args)

(* TrackerClient::request() puts the session in front, *)
message(session, command) == <<C, TAB>> \o to_string[session] \o <<TAB>> \o command

(* TrackerService::handle() takes it off, *)
handle(received) ==
    LET fields == split(received, TAB)
    IN  IF Len(fields) < 3 \/ fields[1] # <<C>> \/ parseU64(fields[2]) = None THEN <<>>
        ELSE join(SubSeq(fields, 3, Len(fields)), TAB)

(* and apply() and stopShare() find the words again. *)
stopShare(command) ==
    LET words == streamWords(command)
    IN  IF Len(words) # 3 \/ words[1] # stop_share \/ fromHex(words[3]) = None THEN Refused
        ELSE [group |-> words[2], file |-> fromHex(words[3])]

execute ==
    /\ input.kind = "line" /\ text = None
    /\ LET name == IF input.spelling = "two words" THEN <<STOP, BLANK, SHARE>> ELSE stop_share
           line == join(<<name, typed(input.group, input.style),
                          typed(input.file, input.style)>>, BLANK)
       IN  text' = message(input.session, forwardToTracker(parse(line)))
    /\ UNCHANGED <<input, output>>

apply ==
    /\ input.kind = "line" /\ text # None /\ output = None
    /\ output' = stopShare(handle(text))
    /\ UNCHANGED <<input, text>>

-----------------------------------------------------------------------------
(* From the tracker to the client: the META reply to download_file. *)

pieceCountForSize(size) == size \div PieceSize + (IF size % PieceSize # 0 THEN 1 ELSE 0)

pieceLength(size, index) ==
    LET rest == size - index * PieceSize IN IF rest < PieceSize THEN rest ELSE PieceSize

(* PieceFile::hash() reads a piece at a time until nothing is left. *)
hash[rest \in Nat] ==
    IF rest = 0 THEN <<>>
    ELSE <<IF rest < PieceSize THEN rest ELSE PieceSize>>
           \o hash[IF rest < PieceSize THEN 0 ELSE rest - PieceSize]

sha1Hex(n) == [i \in 1 .. HashLength |-> (n + i) % Base]

metadataOf(size) ==
    [size |-> size, fullHash |-> sha1Hex(size),
     pieceHashes |-> [i \in DOMAIN hash[size] |-> sha1Hex(i)]]

isSha1Hex(s) == Len(s) = HashLength /\ isHex(s)
valid(m) ==
    /\ isSha1Hex(m.fullHash)
    /\ Len(m.pieceHashes) = pieceCountForSize(m.size)
    /\ \A i \in DOMAIN m.pieceHashes : isSha1Hex(m.pieceHashes[i])

pieceHashList(hashes) == IF hashes = <<>> THEN <<DASH>> ELSE join(hashes, COMMA)
parsePieceHashList(s) == IF s = <<DASH>> THEN <<>> ELSE split(s, COMMA)

(* PeerTicket: encode() and decode(). *)
encodeTicket(t) ==
    join(<<toHex(t.user), toHex(t.group), toHex(t.file), to_string[t.expires]>>, DOT)

decodeTicket(s) ==
    LET f == split(s, DOT)
    IN  IF Len(f) # 4 \/ \E i \in 1 .. 3 : fromHex(f[i]) \in {None, <<>>} THEN None
        ELSE IF parseU64(f[4]) = None \/ parseU64(f[4]) > Word \div 4 THEN None
        ELSE [user |-> fromHex(f[1]), group |-> fromHex(f[2]), file |-> fromHex(f[3]),
              expires |-> parseU64(f[4])]

(* Endpoint: toString() and parse().  What inet_pton() accepts is digits and *)
(* dots.                                                                     *)
endpointText(e) == e.ip \o <<COLON>> \o to_string[e.port]
parseEndpoint(s) ==
    LET f == split(s, COLON)
    IN  IF Len(f) # 2 \/ f[1] = <<>> \/ \E i \in DOMAIN f[1] : f[1][i] \notin Digits \cup {DOT}
        THEN None
        ELSE IF parseU64(f[2]) \notin 1 .. MaxPort THEN None
        ELSE [ip |-> f[1], port |-> parseU64(f[2])]

(* SeederAccess: encode() and decode(). *)
encodeAccess(a) == join(<<endpointText(a.endpoint), encodeTicket(a.ticket), toHex(a.key)>>, SLASH)
decodeAccess(s) ==
    LET f == split(s, SLASH)
    IN  IF \/ Len(f) # 3
           \/ parseEndpoint(f[1]) = None \/ decodeTicket(f[2]) = None \/ fromHex(f[3]) = None
        THEN None
        ELSE IF Len(fromHex(f[3])) # KeyLength THEN None
        ELSE [endpoint |-> parseEndpoint(f[1]), ticket |-> decodeTicket(f[2]),
              key |-> fromHex(f[3])]

(* Texts are ordered as in a dictionary. *)
before(s, t) ==
    \E k \in 1 .. (IF Len(s) < Len(t) THEN Len(s) + 1 ELSE Len(t)) :
        /\ SubSeq(s, 1, k - 1) = SubSeq(t, 1, k - 1)
        /\ k > Len(s) \/ (k <= Len(s) /\ s[k] < t[k])

downloadFile(listing) ==
    LET m == metadataOf(listing.size)
        seeders == [i \in DOMAIN listing.seeders |-> encodeAccess(listing.seeders[i])]
    IN  join(<< <<META>>, to_string[m.size], m.fullHash, pieceHashList(m.pieceHashes),
                join(SortSeq(seeders, before), COMMA)>>, BLANK)

(* TrackerService::handle() puts the session behind every reply, *)
reply(response, session) == response \o <<TAB>> \o to_string[session]

answer ==
    /\ input.kind = "listing" /\ text = None
    /\ text' = reply(downloadFile(input), input.session)
    /\ UNCHANGED <<input, output>>

(* and TrackerClient::request() takes it off at the last tab. *)
request(received) ==
    LET tab == SelectLastInSeq(received, LAMBDA c : c = TAB)
        session == parseU64(SubSeq(received, tab + 1, Len(received)))
    IN  IF tab = 0 \/ session = None THEN Refused
        ELSE [response |-> SubSeq(received, 1, tab - 1), session |-> session]

(* TrackerClient::locate(): seeders that cannot be read are left out. *)
parseMeta(response) ==
    LET f == streamWords(response)
        parts == split(f[5], COMMA)
        m == [size |-> parseU64(f[2]), fullHash |-> f[3],
              pieceHashes |-> parsePieceHashList(f[4])]
        accesses == SelectSeq([i \in DOMAIN parts |-> decodeAccess(parts[i])],
                              LAMBDA a : a # None)
    IN  IF ~IsPrefix(<<META, BLANK>>, response) \/ Len(f) # 5 THEN Refused
        ELSE IF m.size = None \/ ~valid(m) \/ accesses = <<>> THEN Refused
        ELSE [metadata |-> m, seeders |-> accesses]

locate ==
    /\ input.kind = "listing" /\ text # None /\ output = None
    /\ LET received == request(text)
           listing == parseMeta(received.response)
       IN  output' = IF received = Refused THEN Refused
                     ELSE IF listing = Refused THEN Refused
                     ELSE [session |-> received.session, metadata |-> listing.metadata,
                           seeders |-> listing.seeders]
    /\ UNCHANGED <<input, text>>

Next == execute \/ apply \/ answer \/ locate

Spec == Init /\ [][Next]_vars

-----------------------------------------------------------------------------
(* stop_share stops the very share that was typed: through the prompt's       *)
(* quoting, the client's joining of words, the session's frame and the        *)
(* tracker's splitting, any file name arrives unchanged, delimiters and all,  *)
(* with the group it was typed with.  Group names with blanks are exempt:     *)
(* they do not survive the splitting, and no group can have one.              *)
CommandArrives ==
    /\ input.kind = "line" /\ output # None
    /\ input.group # <<>> /\ \A i \in DOMAIN input.group : input.group[i] \notin Space
    /\ input.file # <<>>
    => output = [group |-> input.group, file |-> input.file]

(* What locate() hands to a download is what was registered: a file that      *)
(* PieceFile::hash() cut at upload is valid at the downloader, whose piece    *)
(* lengths add up to its size, and every seeder comes with its endpoint, its  *)
(* key and the ticket's own fields, whatever characters the names have; and   *)
(* the session stored from the same reply is the tracker's.                   *)
LocateReturnsListing ==
    input.kind = "listing" /\ output # None =>
        /\ output # Refused
        /\ output.session = input.session
        /\ output.metadata = metadataOf(input.size)
        /\ Len(output.seeders) = Len(input.seeders)
        /\ ToSet(output.seeders) = ToSet(input.seeders)
        /\ [i \in 1 .. pieceCountForSize(input.size) |-> pieceLength(input.size, i - 1)]
             = hash[input.size]
=============================================================================
