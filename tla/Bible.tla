------------------------------- MODULE Bible -------------------------------
(***************************************************************************)
(* The Bible index (core/src/index.rs) as the rest of the program reads    *)
(* it: which verses there are, their canon, how a run of verses is named,  *)
(* and which chapter is one page further.  A verse id is                   *)
(* book * 1,000,000 + chapter * 1000 + verse; the text of a verse is the   *)
(* verse id itself, since nothing here changes it.                         *)
(***************************************************************************)
EXTENDS Integers, Sequences, FiniteSets, SequencesExt

CONSTANTS
    Verses,    \* the verse ids of the table `verses`
    Books,     \* the book ids of the table `books`
    Deutero    \* the books of the Deuterocanon

ASSUME BibleAssumption ==
    /\ Verses \subseteq Nat
    /\ Books \subseteq Nat
    /\ IsFiniteSet(Verses)
    /\ IsFiniteSet(Books)
    /\ Deutero \subseteq Books

Book(v) == v \div 1000000
Chapter(v) == (v % 1000000) \div 1000
Num(v) == v % 1000
VerseId(b, c, n) == b * 1000000 + c * 1000 + n

\* A book that is not in the table counts as protestant.
CanonOf(v) == IF Book(v) \in Deutero THEN "deutero" ELSE "protestant"

\* S in the strict total order Before.
Ordered(S, Before(_, _)) ==
    [i \in 1..Cardinality(S) |->
        CHOOSE x \in S : Cardinality({y \in S : Before(y, x)}) = i - 1]

Ascending(S) == Ordered(S, LAMBDA v, w : v < w)

\* The elements of s at the places I, in their order.
Pick(s, I) ==
    LET places == Ascending(I)
    IN [k \in DOMAIN places |-> s[places[k]]]

\* A stable sort: the lowest key first, and of two with one key the earlier.
Sorted(s, key) ==
    LET order == Ordered(DOMAIN s, LAMBDA i, j :
                     \/ key[i] < key[j]
                     \/ key[i] = key[j] /\ i < j)
    IN [i \in DOMAIN s |-> s[order[i]]]

\* The first n of a sequence, or all of it.
Take(s, n) == SubSeq(s, 1, IF Len(s) < n THEN Len(s) ELSE n)

\* w, not before v in the Bible, goes on where v ends.
Adjacent(v, w) == Book(v) = Book(w) /\ Chapter(v) = Chapter(w) /\ Num(w) - Num(v) <= 1

\* Where a new run begins in verses that ascend.
Begins(ids, i) == i = 1 \/ ~Adjacent(ids[i - 1], ids[i])

\* Verses that ascend, taken apart where one does not go on where the last ended.
Runs(ids) ==
    LET starts == Ascending({i \in DOMAIN ids : Begins(ids, i)})
    IN [k \in DOMAIN starts |->
           SubSeq(ids, starts[k], IF k = Len(starts) THEN Len(ids) ELSE starts[k + 1] - 1)]

\* How a run of verses is named: from its first and last verse alone.
ReferenceOf(ids) ==
    [book    |-> Book(ids[1]),
     chapter |-> Chapter(ids[1]),
     first   |-> Num(ids[1]),
     last    |-> Num(ids[Len(ids)])]

\* The verses of a passage that are in the index, in verse order.
TextOf(ids) == Ascending(ToSet(ids) \cap Verses)

ChapterVerses(b, c) == {v \in Verses : Book(v) = b /\ Chapter(v) = c}

\* The highest chapter of a book, 0 for a book without verses.
ChapterCount(b) == Max({0} \cup {Chapter(v) : v \in {w \in Verses : Book(w) = b}})

----------------------------------------------------------------------------
(* Reading on from a chapter: Previous and Next.                           *)

NoChapter == <<0, 0>>

\* The text the index is built from numbers the chapters of a book from 1 up,
\* and leaves none out.
ASSUME ChaptersAssumption ==
    /\ \A b \in Books : ChapterVerses(b, 1) # {}
    /\ \A v \in Verses :
          /\ Book(v) \in Books
          /\ Chapter(v) >= 1
          /\ \A c \in 1..Chapter(v) : ChapterVerses(Book(v), c) # {}

Readable(b, within) == within = "both" \/ b \notin Deutero

\* The neighbouring book the reader reads, forwards or backwards.
BooksBeyond(b, step, within) ==
    {x \in Books : Readable(x, within) /\ (IF step > 0 THEN x > b ELSE x < b)}

NextBook(b, step, within) ==
    IF step > 0 THEN Min(BooksBeyond(b, step, within))
                ELSE Max(BooksBeyond(b, step, within))

\* Mutant: turning back into a book opens it at its first chapter.
IntoNextBookAtItsStart(b, step, within) ==
    IF ~Readable(b, within) \/ BooksBeyond(b, step, within) = {} THEN NoChapter
    ELSE LET next == NextBook(b, step, within)
         IN IF ChapterCount(next) = 0 THEN NoChapter ELSE <<next, 1>>

\* At a book's end, from a book that is not being read, there is no way on.
IntoNextBook(b, step, within) ==
    IF ~Readable(b, within) \/ BooksBeyond(b, step, within) = {} THEN NoChapter
    ELSE LET next == NextBook(b, step, within)
         IN IF ChapterCount(next) = 0 THEN NoChapter
            ELSE <<next, IF step > 0 THEN 1 ELSE ChapterCount(next)>>

StepChapter(b, c, step, within) ==
    IF c + step \in 1..ChapterCount(b) THEN <<b, c + step>>
    ELSE IntoNextBook(b, step, within)

\* The chapter asked for is given whatever its canon, if it has a verse.
Page(b, c, within) ==
    [at       |-> <<b, c>>,
     within   |-> within,
     verses   |-> ChapterVerses(b, c),
     previous |-> StepChapter(b, c, -1, within),
     next     |-> StepChapter(b, c, 1, within)]
=============================================================================
