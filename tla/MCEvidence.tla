---------------------------- MODULE MCEvidence ----------------------------
(* A Bible of three books, the second of the Deuterocanon; questions that *)
(* find different parts of it; and texts that cite well and badly.        *)
EXTENDS Evidence

MCBooks == {1, 2, 3}
MCDeutero == {2}
MCVerses == {1001001, 1001002, 1001003, 1002001, 2001001, 2001002, 3001001, 3001003}

MCTopicVerses ==
    [t \in {"pride", "boasting", "rest"} |->
        CASE t = "pride"    -> <<1001001, 2001001>>
          [] t = "boasting" -> <<1001002, 3001001, 1002001>>
          [] t = "rest"     -> <<3001003>>]
MCParent ==
    [t \in {"pride", "boasting", "rest"} |-> IF t = "boasting" THEN "pride" ELSE "none"]
MCCrossRefs == <<<<1001001, 3001001>>, <<1001001, 1002001>>, <<2001001, 2001002>>,
                 <<3001001, 1001003>>, <<1001002, 3001001>>>>

\* The Deuterocanon nearest of all; more runs than are sent, one of them past a
\* verse that is left out; nothing but the Deuterocanon.
MCQueries == {
    [verses |-> <<2001001, 1001001, 1001002, 3001001>>,
     pericopes |-> <<<<2001001, 2001002>>, <<1001001, 1001003>>>>,
     words |-> <<<<2001001, 3001003>>>>, topics |-> <<"boasting", "pride">>],
    [verses |-> <<1001002, 3001003, 1002001, 2001002>>,
     pericopes |-> <<<<3001001, 3001003>>>>,
     words |-> <<<<1001002, 1001001>>, <<3001001>>>>, topics |-> <<"rest", "pride">>],
    [verses |-> <<>>, pericopes |-> <<>>, words |-> <<<<2001002>>>>, topics |-> <<>>]}

MCVariants ==
    [b \in MCBooks |->
        CASE b = 1 -> {<<"1", "kings">>, <<"first", "kings">>}
          [] b = 2 -> {<<"tobit">>}
          [] b = 3 -> {<<"mark">>, <<"tobit">>}]
MCTskNames == <<<<<<"mr">>, 3>>, <<<<"tobit">>, 3>>>>
MCDigit ==
    [p \in {<<"first">>, <<"1st">>, <<"i">>, <<"i", "i">>} |->
        IF Len(p) = 1 THEN "1" ELSE "2"]
MCAmbiguous == {<<"mark">>}

Kings(chapter, first, last) == Reference(<<"1st", "kings">>, TRUE, chapter, first, last, FALSE)

MCTexts == {
    {Token(1), Token(2)},
    {Token(2), Kings(1, 1, 2)},
    {Token(4)},
    {Kings(1, 3, 1)},
    {Kings(2, NoVerse, NoVerse), Token(1)},
    {Kings(9, NoVerse, NoVerse)},
    {Kings(1, 0, NoVerse)},
    {Reference(<<"tobit">>, TRUE, 1, 2, NoVerse, FALSE)},
    {Reference(<<"mark">>, FALSE, 3, NoVerse, NoVerse, FALSE),
     Reference(<<"mr">>, TRUE, 40, NoVerse, NoVerse, TRUE),
     Reference(<<"i", "i", "kings">>, TRUE, 9, 1, NoVerse, FALSE),
     Reference(<<"mr">>, TRUE, 1, 1, NoVerse, FALSE), Token(1)}}

NumberedEntry(sent, time) ==
    [asked |-> time, text |-> {Token(1)}, cited |-> ToSet(sent[1]),
     stored |-> [form |-> "lists", sent |-> sent]]
FlatEntry(ids, time) ==
    [asked |-> time, text |-> {Token(1)}, cited |-> ids,
     stored |-> [form |-> "flat", ids |-> ids]]

MCOldFiles == {
    [version |-> NoVersion, lastId |-> 0, history |-> <<>>],
    [version |-> 0, lastId |-> 2,
     history |-> <<NumberedEntry(<<<<1001003>>>>, -2), FlatEntry({1001001}, -1)>>],
    [version |-> 1, lastId |-> 2,
     history |-> <<FlatEntry({1001001, 1001002, 3001001}, -2),
                   NumberedEntry(<<<<2001001>>, <<1002001>>>>, -1)>>],
    [version |-> 1, lastId |-> 2,
     history |-> <<NumberedEntry(<<<<3001001>>>>, -3), FlatEntry({3001003}, -2)>>],
    [version |-> 2, lastId |-> 2,
     history |-> <<NumberedEntry(<<<<2001001>>>>, -1)>>],
    [version |-> 3, lastId |-> 1, history |-> <<FlatEntry({1001001}, -1)>>]}
=============================================================================
