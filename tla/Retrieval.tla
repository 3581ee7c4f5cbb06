----------------------------- MODULE Retrieval -----------------------------
(***************************************************************************)
(* From what a question lies near to, to the passages that are sent        *)
(* (core/src/retrieve.rs).  A query carries what the embedding model and   *)
(* SQLite's keyword search make of a question, which is not code of this   *)
(* program: `verses`, `pericopes` and `topics` in order of their           *)
(* similarity, and for each keyword the verses that hold it, best first.   *)
(* A score is a whole number of millionths, what the code rounds it to.    *)
(***************************************************************************)
EXTENDS Bible

CONSTANTS
    TopicVerses,   \* topic -> its verses, in table order
    CrossRefs,     \* the table tsk_refs: a sequence of <<from, to>>
    TopN,          \* passages sent
    DeuteroSlice,  \* passages of the Deuterocanon sent below them
    Pool,          \* hits kept of each ranking
    TopicHits, TopicCap, TskAnchors, TskCap

\* Every reference of the tables is to a verse of the index.
ASSUME IndexAssumption ==
    /\ \A t \in DOMAIN TopicVerses : TopicVerses[t] \in Seq(Verses)
    /\ CrossRefs \in Seq(Verses \X Verses)
    /\ {TopN, DeuteroSlice, Pool, TopicHits, TopicCap, TskAnchors, TskCap} \subseteq Nat

\* What may be made of a question: the index and its embeddings name verses,
\* topics and keywords of one build, and a pericope is of one book.
IsQuery(q) ==
    /\ q.verses \in Seq(Verses)
    /\ q.pericopes \in Seq(Nat \X Nat)
    /\ \A i \in DOMAIN q.pericopes : Book(q.pericopes[i][1]) = Book(q.pericopes[i][2])
    /\ q.words \in Seq(Seq(Verses))
    /\ q.topics \in Seq(DOMAIN TopicVerses)

CanonOk(v, mode) ==
    CASE mode = "66"           -> CanonOf(v) = "protestant"
      [] mode = "deutero-only" -> CanonOf(v) = "deutero"
      [] mode = "both"         -> TRUE

InCanon(s, mode) == Pick(s, {i \in DOMAIN s : CanonOk(s[i], mode)})

\* The elements of s in the order in which they first appear, which is the
\* order the score maps keep.
Distinct(s) == Pick(s, {i \in DOMAIN s : \A j \in 1..(i - 1) : s[j] # s[i]})

Times(s, x) == Cardinality({i \in DOMAIN s : s[i] = x})

\* Best first; of two with one rank the earlier stays the earlier.
BestFirst(s, rank) == Sorted(s, [i \in DOMAIN s |-> -rank[i]])

----------------------------------------------------------------------------
(* The ranked lists.                                                       *)

VectorVerses(q, mode) == Take(InCanon(Take(q.verses, 4 * Pool), mode), Pool)

\* A pericope is of the canon its first verse is of.
NearPericopes(q, mode) ==
    LET near == Take(q.pericopes, 4 * Pool)
    IN Take(Pick(near, {i \in DOMAIN near : CanonOk(near[i][1], mode)}), Pool)

VersesOf(pericopes) ==
    [i \in DOMAIN pericopes |->
        Ascending({v \in Verses : pericopes[i][1] <= v /\ v <= pericopes[i][2]})]

VectorPericopes(q, mode) == VersesOf(NearPericopes(q, mode))

Fts(q, mode) == [i \in DOMAIN q.words |-> Take(InCanon(q.words[i], mode), Pool)]

Lists(q, mode) ==
    <<VectorVerses(q, mode),
      Take(Distinct(FlattenSeq(VectorPericopes(q, mode))), 4 * Pool)>>
    \o Fts(q, mode)

MatchedTopics(q) == Take(q.topics, TopicHits)

TopicRows(q, mode) ==
    LET topics == MatchedTopics(q)
    IN InCanon(FlattenSeq([i \in DOMAIN topics |-> Take(TopicVerses[topics[i]], TopicCap)]),
               mode)

TskFrom(anchors) ==
    Take(Pick(CrossRefs, {i \in DOMAIN CrossRefs : CrossRefs[i][1] \in ToSet(anchors)}),
         4 * TskCap)

Targets(refs) == [i \in DOMAIN refs |-> refs[i][2]]

TskRows(anchors, mode) == InCanon(Targets(TskFrom(anchors)), mode)

\* The verses most often referred to from the anchors.
TskKept(rows) ==
    LET targets == Distinct(rows)
    IN Take(BestFirst(targets, [i \in DOMAIN targets |-> Times(rows, targets[i])]), TskCap)

----------------------------------------------------------------------------
(* Fusion.                                                                 *)

\* 1 / (60 + position), in millionths and rounded.
Reciprocal(pos) == (1000000 + (60 + pos) \div 2) \div (60 + pos)

\* Where a verse stands in the lists: <<list, position>>.
Places(lists, v) ==
    {at \in UNION {{i} \X DOMAIN lists[i] : i \in DOMAIN lists} : lists[at[1]][at[2]] = v}

Fused(lists, v) == SumFunction([at \in Places(lists, v) |-> Reciprocal(at[2])])

AtMost(n, limit) == IF n < limit THEN n ELSE limit

TopicBonus(rows, v) == (500000 * AtMost(Times(rows, v), 3)) \div 61
TskBonus(rows, v) == (250000 * AtMost(Times(rows, v), 4)) \div 61

\* What the lists and the topics make of every verse they name.
SoFar(lists, topics) ==
    [v \in ToSet(FlattenSeq(lists)) \cup ToSet(topics) |->
        Fused(lists, v) + TopicBonus(topics, v)]

\* The best of them, and in the order in which they were named where equal.
Anchors(named, score) ==
    Take(BestFirst(named, [i \in DOMAIN named |-> score[named[i]]]), TskAnchors)

AddTsk(score, rows, kept) ==
    [v \in DOMAIN score \cup ToSet(kept) |->
        (IF v \in DOMAIN score THEN score[v] ELSE 0)
        + (IF v \in ToSet(kept) THEN TskBonus(rows, v) ELSE 0)]

WithTsk(score, rows) == AddTsk(score, rows, TskKept(rows))

\* Every verse found with its score, best first and then by verse id.
Ranked(score) ==
    LET verses == Ascending(DOMAIN score)
        scores == [i \in DOMAIN verses |-> score[verses[i]]]
    IN BestFirst([i \in DOMAIN verses |-> [verse |-> verses[i], score |-> scores[i]]], scores)

FuseNamed(named, score, mode) ==
    Ranked(WithTsk(score, TskRows(Anchors(named, score), mode)))

Fuse(lists, topics, mode) ==
    FuseNamed(Distinct(FlattenSeq(lists) \o topics), SoFar(lists, topics), mode)

SearchOne(q, mode) == Fuse(Lists(q, mode), TopicRows(q, mode), mode)

\* Mutant: the Deuterocanon keeps the scores of its own search.
SliceByItsOwnScores(full, floor) == Take(full, DeuteroSlice)

\* The best of the Deuterocanon, put below everything of the 66 books.
Slice(full, floor) ==
    [i \in DOMAIN Take(full, DeuteroSlice) |-> [full[i] EXCEPT !.score = floor - i]]

AddSlice(base, deutero) ==
    base \o Slice(deutero, IF base = <<>> THEN 0 ELSE Last(base).score)

Search(q, mode) ==
    IF mode = "both"
    THEN AddSlice(SearchOne(q, "66"), SearchOne(q, "deutero-only"))
    ELSE SearchOne(q, mode)

----------------------------------------------------------------------------
(* Passages: runs of verses of one chapter.                                *)

\* The best score of a run's verses.
RunScore(hits, ids) == Max({hit.score : hit \in {h \in ToSet(hits) : h.verse \in ToSet(ids)}})

Passage(hits, ids) ==
    [ids |-> ids, score |-> RunScore(hits, ids), canon |-> CanonOf(ids[1])]

AsRanges(hits) ==
    LET runs == Runs(Ascending({hit.verse : hit \in ToSet(hits)}))
        passages == [k \in DOMAIN runs |-> Passage(hits, runs[k])]
    IN BestFirst(passages, [k \in DOMAIN runs |-> passages[k].score])

OfCanon(ranges, canon) == Pick(ranges, {i \in DOMAIN ranges : ranges[i].canon = canon})

\* Mutants: a prefix of the ranking in every mode; everything found.
TopCutAsPrefix(ranges, mode) ==
    Take(ranges, IF mode = "both" THEN TopN + DeuteroSlice ELSE TopN)
TopCutOfEverything(ranges, mode) == ranges

\* What is sent to the model.
TopCut(ranges, mode) ==
    IF mode = "both"
    THEN Take(OfCanon(ranges, "protestant"), TopN)
         \o Take(OfCanon(ranges, "deutero"), DeuteroSlice)
    ELSE Take(ranges, TopN)
=============================================================================
