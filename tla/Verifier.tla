------------------------------ MODULE Verifier ------------------------------
(***************************************************************************)
(* Rule A and Rule B (core/src/verifier.rs).  A text is the set of the     *)
(* citations its two patterns match: a token [P#], or a reference, which   *)
(* is a written book name with numbers after it.  A written name is the    *)
(* sequence of its pieces, as `norm` leaves it, cut wherever an ordinal    *)
(* may end: <<"1st", "corinthians">>, <<"i", "i", "kings">>, <<"mark">>.   *)
(* `sent` is the sequence of the passages sent; [P#] is its #-th element.  *)
(***************************************************************************)
EXTENDS Bible

CONSTANTS
    Variants,    \* book -> the normalised names it is written by
    TskNames,    \* the TSK's abbreviations: a sequence of <<name, book>>
    Digit,       \* ordinal prefix -> digit: <<"1st">> -> "1", <<"i", "i">> -> "2"
    Ambiguous    \* names that are also words: they count only capitalised

NoBook == 0
NoVerse == 1000   \* no number of three digits

ASSUME VerifierAssumption ==
    /\ NoBook \notin Books
    /\ \A i \in 1..Len(TskNames) : TskNames[i][2] \in Books

\* Whoever claims a name first has it: the books in order, then the TSK.
Claims(name) == {b \in Books : name \in Variants[b]}

BookOfName(name) ==
    IF Claims(name) # {} THEN Min(Claims(name))
    ELSE LET i == SelectInSeq(TskNames, LAMBDA entry : entry[1] = name)
         IN IF i = 0 THEN NoBook ELSE TskNames[i][2]

WithDigit(name, prefix) == <<Digit[prefix]>> \o SubSeq(name, Len(prefix) + 1, Len(name))

\* The ordinals a name begins with whose digit makes it the name of a book.
Ordinals(name) ==
    {prefix \in DOMAIN Digit :
        IsStrictPrefix(prefix, name) /\ BookOfName(WithDigit(name, prefix)) # NoBook}

\* A name nobody claims is tried again with an ordinal as a digit, the longest first.
Lookup(name) ==
    IF BookOfName(name) # NoBook THEN BookOfName(name)
    ELSE IF Ordinals(name) = {} THEN NoBook
    ELSE LET longest == CHOOSE prefix \in Ordinals(name) :
                           \A other \in Ordinals(name) : Len(other) <= Len(prefix)
         IN BookOfName(WithDigit(name, longest))

Token(n) == [kind |-> "token", n |-> n]

\* NoVerse as the first is a chapter alone, as the last a single verse.
Reference(name, capital, chapter, first, last, unit) ==
    [kind |-> "reference", name |-> name, capital |-> capital, chapter |-> chapter,
     first |-> first, last |-> last, unit |-> unit]

\* A number of a reference has at most three digits.
IsCitation(c) ==
    \/ c.kind = "token"
    \/ /\ c.kind = "reference"
       /\ c.chapter \in 0..999
       /\ {c.first, c.last} \subseteq 0..999 \cup {NoVerse}

\* "mark 3" in mid-sentence and "Numbers 40 days" are not references.
IsReference(c) ==
    /\ c.kind = "reference"
    /\ Lookup(c.name) # NoBook
    /\ c.name \in Ambiguous => c.capital
    /\ c.first = NoVerse => ~c.unit

Wanted(c) ==
    LET b == Lookup(c.name)
    IN IF c.first = NoVerse THEN ChapterVerses(b, c.chapter)
       ELSE {VerseId(b, c.chapter, n) :
                n \in c.first..(IF c.last = NoVerse THEN c.first ELSE c.last)}

SentVerses(sent) == UNION {ToSet(sent[i]) : i \in DOMAIN sent}

Unsent(c, sent) == c.kind = "token" /\ c.n \notin DOMAIN sent

\* Mutant: a reference that claims no verse passes.
UnsupportedUnlessEmpty(c, sent) ==
    /\ IsReference(c)
    /\ ~(Wanted(c) \subseteq SentVerses(sent))

Unsupported(c, sent) ==
    /\ IsReference(c)
    /\ Wanted(c) = {} \/ ~(Wanted(c) \subseteq SentVerses(sent))

Violations(text, sent) == {c \in text : Unsent(c, sent) \/ Unsupported(c, sent)}

Verdict(text, sent) == IF Violations(text, sent) = {} THEN "ok" ELSE "violation"

CitedTokens(text) == {c.n : c \in {d \in text : d.kind = "token"}}

\* The fallback: the passages sent, by book and first verse.
Fallback(sent) ==
    LET listed == Pick(sent, {i \in DOMAIN sent : sent[i] # <<>>})
        sorted == Sorted(listed, [i \in DOMAIN listed |-> listed[i][1]])
    IN [k \in DOMAIN sorted |-> ReferenceOf(sorted[k])]
=============================================================================
