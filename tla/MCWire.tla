------------------------------- MODULE MCWire -------------------------------
(* Names of up to two characters, taken from the ones that delimit something. *)
EXTENDS Wire

Texts(S, n) == UNION {[1 .. k -> S] : k \in 0 .. n}

MCLines ==
    [kind : {"line"}, group : Texts({1, STOP, BLANK, QUOTE, APOSTROPHE}, 2),
     file : Texts({1, BLANK, TAB, QUOTE, APOSTROPHE, BACKSLASH}, 2), session : {0, 7},
     style : {"quotes", "apostrophes", "escaped"}, spelling : {"two words", "one word"}]
      \cup
    [kind : {"line"}, group : Texts({1, STOP}, 2), file : Texts({1, DOT}, 2) \ {<<>>},
     session : {0}, style : {"bare"}, spelling : {"two words", "one word"}]

MCAccesses ==
    [endpoint : [ip : {<<1, DOT, 2>>}, port : {1, 6}], key : {<<1, SLASH>>},
     ticket : [user : {<<1>>}, group : {<<2>>, <<DOT>>},
               file : Texts({BLANK, DOT, SLASH, COMMA}, 2) \ {<<>>}, expires : {0, 64}]]

MCListings ==
    [kind : {"listing"}, size : {9}, session : {0}, seeders : {<<a>> : a \in MCAccesses}]
      \cup
    [kind : {"listing"}, size : 0 .. 13, session : {1, Word - 1},
     seeders : {<<a, b>> : a, b \in {x \in MCAccesses : x.ticket.file = <<COMMA>>}}]
=============================================================================
