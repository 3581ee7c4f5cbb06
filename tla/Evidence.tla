------------------------------ MODULE Evidence ------------------------------
(***************************************************************************)
(* What an answer rests on, from the question to the shelf: the passages   *)
(* found and sent (Retrieval), the check of every citation (Verifier), the *)
(* answer put together (core/src/pipeline.rs), its entry in user.db        *)
(* (UserDb), and the same entry reopened, exported or deleted, by this run *)
(* of the program or a later one.                                          *)
(*                                                                         *)
(* Module Session has the servers, the retry and the cancellation, with    *)
(* the verdict as something it is given; here the verdict is computed and  *)
(* the servers are left out.  A worker carries one question at a time, as  *)
(* module Shell shows, while the reader does as the window allows.         *)
(***************************************************************************)
EXTENDS Retrieval, Verifier, UserDb

CONSTANTS
    Queries,     \* what may be asked
    Texts,       \* what the model may write
    Parent,      \* topic -> the topic above it, NoTopic for a root
    NoTopic,
    MaxAnswers,  \* bound: questions asked in one behaviour
    MaxKills     \* bound: how often the program ends

ASSUME AskedAssumption ==
    /\ \A q \in Queries : IsQuery(q)
    /\ \A text \in Texts : \A c \in text : IsCitation(c)
    /\ NoTopic \notin DOMAIN TopicVerses
    /\ MaxAnswers \in Nat
    /\ MaxKills \in Nat

VARIABLES
    ask,      \* the question the worker has, or Idle
    listed,   \* the rows of the sidebar: id -> when it was asked
    page,     \* the chapter open over the answer, or NoPage
    clock,    \* the time of the last saved answer
    kills,
    promised, \* history variable: entry -> the answer it was saved from
    cleared   \* history variable: history was cleared since `listed` was read

readerVars == <<listed, page, cleared>>
vars == <<dbVars, ask, readerVars, clock, kills, promised>>

Idle == [step |-> "idle"]
NoPage == [at |-> NoChapter]
NoText == {}

----------------------------------------------------------------------------
(* Putting the answer together.                                            *)

\* The token a passage was sent under, found by its reference; 0 for none.
TokenOf(p, cut) == Max({0} \cup {i \in DOMAIN cut : ReferenceOf(cut[i].ids) = ReferenceOf(p.ids)})

\* The panel before there is an answer: nothing is cited yet.
PassagesForDisplay(ranges, cut) ==
    [i \in DOMAIN ranges |->
        [ids |-> ranges[i].ids, token |-> TokenOf(ranges[i], cut), cited |-> FALSE]]

\* [P1] .. [Pn], in the order of the cut.
Pack(cut) == [i \in DOMAIN cut |-> cut[i].ids]

\* Mutant: the tokens are counted from 0.
CitedIdsFromZero(text, sent) ==
    UNION {ToSet(sent[n + 1]) : n \in {k \in CitedTokens(text) : k + 1 \in DOMAIN sent}}

CitedIds(text, sent) == UNION {ToSet(sent[n]) : n \in CitedTokens(text) \cap DOMAIN sent}

\* The topic at the end of at most sixteen steps upwards.
Up(t) == IF t \in DOMAIN Parent /\ Parent[t] # NoTopic THEN Parent[t] ELSE t

TopicRoot(t) ==
    LET at[n \in 0..16] == IF n = 0 THEN t ELSE Up(at[n - 1])
    IN at[16]

\* The passages with a verse of a topic.
OfTopic(ranges, t) ==
    Pick(ranges, {i \in DOMAIN ranges : ToSet(ranges[i].ids) \cap ToSet(TopicVerses[t]) # {}})

RefsInOrder(passages) ==
    LET order == InBibleOrder(passages)
    IN [k \in DOMAIN order |-> ReferenceOf(order[k].ids)]

Claimed(groups) == UNION {ToSet(groups[i].refs) : i \in DOMAIN groups}

Unclaimed(groups, passages) ==
    LET refs == RefsInOrder(passages)
    IN Pick(refs, {k \in DOMAIN refs : refs[k] \notin Claimed(groups)})

\* Topics of one root share a group.
AddTo(groups, root, mine) ==
    LET at == SelectInSeq(groups, LAMBDA g : g.root = root)
    IN IF mine = <<>> THEN groups
       ELSE IF at = 0 THEN Append(groups, [root |-> root, refs |-> mine])
       ELSE [groups EXCEPT ![at].refs = @ \o mine]

\* Mutant: a passage is listed under every topic it belongs to.
ClaimByEvery(groups, ranges, t) ==
    AddTo(groups, TopicRoot(t), Distinct(RefsInOrder(OfTopic(ranges, t))))

\* A reference is claimed by the first topic that has it.
Claim(groups, ranges, t) ==
    AddTo(groups, TopicRoot(t), Distinct(Unclaimed(groups, OfTopic(ranges, t))))

GroupByTopic(ranges, topics) ==
    LET groups[n \in 0..Len(topics)] ==
            IF n = 0 THEN <<>> ELSE Claim(groups[n - 1], ranges, topics[n])
        all  == groups[Len(topics)]
        rest == Unclaimed(all, ranges)
    IN IF rest = <<>> THEN all ELSE Append(all, [root |-> NoTopic, refs |-> rest])

\* `fellBack` is the code's synopsis being None.
Assemble(a, text, fellBack) ==
    LET sent  == Pack(a.cut)
        cites == IF fellBack THEN {} ELSE CitedTokens(text)
        panel == PassagesForDisplay(a.ranges, a.cut)
        cited == IF fellBack THEN {} ELSE CitedIds(text, sent)
    IN [mode     |-> a.mode,
        text     |-> IF fellBack THEN NoText ELSE text,
        fallback |-> IF fellBack THEN Fallback(sent) ELSE <<>>,
        verdict  |-> IF fellBack THEN "fallback" ELSE "ok",
        cited    |-> cited,
        footer   |-> \E n \in cites \cap DOMAIN sent : CanonOf(sent[n][1]) = "deutero",
        passages |-> [i \in DOMAIN panel |->
                         [panel[i] EXCEPT !.cited = panel[i].token \in cites \ {0}]],
        sent     |-> sent,
        groups   |-> GroupByTopic(a.ranges, MatchedTopics(a.query))]

\* What save_answer stores: the passages sent, in the order they are listed.
SentPassages(answer) ==
    Pick(answer.passages, {i \in DOMAIN answer.passages : answer.passages[i].token # 0})

Entry(answer) ==
    [asked  |-> clock + 1,
     text   |-> answer.text,
     stored |-> [form |-> "lists",
                 sent |-> [i \in DOMAIN SentPassages(answer) |->
                              SentPassages(answer)[i].ids]],
     cited  |-> answer.cited]

----------------------------------------------------------------------------
Init ==
    /\ DbInit
    /\ ask = Idle
    /\ listed = <<>>
    /\ page = NoPage
    /\ clock = 0
    /\ kills = 0
    /\ promised = <<>>
    /\ cleared = FALSE

(* The worker.                                                             *)

\* Search, group into passages, cut, and hand the cut to the model.
Finds(q, mode) ==
    /\ ask.step = "idle"
    /\ page = NoPage
    /\ phase = "open"
    /\ clock < MaxAnswers
    /\ LET ranges == AsRanges(Search(q, mode))
       IN ask' = [step   |-> "sent",
                  query  |-> q,
                  mode   |-> mode,
                  ranges |-> ranges,
                  cut    |-> TopCut(ranges, mode)]
    /\ UNCHANGED <<dbVars, readerVars, clock, kills, promised>>

Answered(answer) == [step |-> "answered", answer |-> answer]

Writes(text) ==
    /\ ask.step = "sent"
    /\ ask' = IF Verdict(text, Pack(ask.cut)) = "ok"
              THEN Answered(Assemble(ask, text, FALSE))
              ELSE [ask EXCEPT !.step = "retry"]
    /\ UNCHANGED <<dbVars, readerVars, clock, kills, promised>>

WritesAgain(text) ==
    /\ ask.step = "retry"
    /\ ask' = Answered(Assemble(ask, text, Verdict(text, Pack(ask.cut)) # "ok"))
    /\ UNCHANGED <<dbVars, readerVars, clock, kills, promised>>

Saves ==
    /\ ask.step = "answered"
    /\ SaveAnswer(Entry(ask.answer))
    /\ promised' = [id \in DOMAIN promised \cup {NextId} |->
                       IF id = NextId THEN ask.answer ELSE promised[id]]
    /\ clock' = clock + 1
    /\ ask' = Idle
    /\ UNCHANGED <<readerVars, kills>>

\* An answer that cannot be saved is not shown either.
CannotSave ==
    /\ ask.step = "answered"
    /\ ask' = Idle
    /\ UNCHANGED <<dbVars, readerVars, clock, kills, promised>>

(* The reader, who sees the chapter that is open over everything else.     *)

ReadsTheHistory ==
    /\ phase = "open"
    /\ page = NoPage
    /\ listed' = [id \in DOMAIN history |-> history[id].asked]
    /\ cleared' = FALSE
    /\ UNCHANGED <<dbVars, ask, page, clock, kills, promised>>

DeletesARow(id) ==
    /\ id \in DOMAIN listed
    /\ page = NoPage
    /\ Delete(id)
    /\ promised' = Without(promised, {id})
    /\ UNCHANGED <<ask, readerVars, clock, kills>>

ClearsTheHistory ==
    /\ page = NoPage
    /\ DeletesAll
    /\ promised' = <<>>
    /\ cleared' = TRUE
    /\ UNCHANGED <<ask, listed, page, clock, kills>>

\* A passage of a reopened entry is read in its chapter; during an answer the
\* command waits for the session, as module Shell shows.
OpensAChapter(within) ==
    /\ phase = "open"
    /\ ask.step = "idle"
    /\ page = NoPage
    /\ \E id \in DOMAIN history :
          \E p \in ToSet(RenderPassages(history[id])) :
             /\ ChapterVerses(Book(p.ids[1]), Chapter(p.ids[1])) # {}
             /\ page' = Page(Book(p.ids[1]), Chapter(p.ids[1]), within)
    /\ UNCHANGED <<dbVars, ask, listed, cleared, clock, kills, promised>>

TurnsThePage ==
    /\ page # NoPage
    /\ \E to \in {page.previous, page.next} \ {NoChapter} :
          page' = Page(to[1], to[2], page.within)
    /\ UNCHANGED <<dbVars, ask, listed, cleared, clock, kills, promised>>

ClosesTheChapter ==
    /\ page # NoPage
    /\ page' = NoPage
    /\ UNCHANGED <<dbVars, ask, listed, cleared, clock, kills, promised>>

(* The program.                                                            *)

FileSteps ==
    /\ \/ OpensTheFile
       \/ StampsANewFile
       \/ FindsItCurrent
       \/ RefusesANewerFile
       \/ FindsItOld
       \/ DropsOne
       \/ StampsAnOldFile
       \/ ResetsTheIds
    /\ UNCHANGED <<ask, readerVars, clock, kills, promised>>

\* It ends at any moment: what is not in the file is gone.
Ends ==
    /\ phase # "closed"
    /\ kills < MaxKills
    /\ DbCloses
    /\ ask' = Idle
    /\ listed' = <<>>
    /\ page' = NoPage
    /\ cleared' = FALSE
    /\ kills' = kills + 1
    /\ UNCHANGED <<clock, promised>>

Next ==
    \/ \E q \in Queries, mode \in {"66", "both"} : Finds(q, mode)
    \/ \E text \in Texts : Writes(text) \/ WritesAgain(text)
    \/ Saves
    \/ CannotSave
    \/ ReadsTheHistory
    \/ \E id \in DOMAIN listed : DeletesARow(id)
    \/ ClearsTheHistory
    \/ \E within \in {"66", "both"} : OpensAChapter(within)
    \/ TurnsThePage
    \/ ClosesTheChapter
    \/ FileSteps
    \/ Ends

Spec == Init /\ [][Next]_vars

----------------------------------------------------------------------------
(* What must hold.                                                         *)

AnswerType(a) ==
    /\ Len(a.sent) <= TopN + DeuteroSlice
    /\ \A i \in DOMAIN a.sent : a.sent[i] # <<>> /\ ToSet(a.sent[i]) \subseteq Verses
    /\ a.verdict \in {"ok", "fallback"}
    /\ a.cited \subseteq Verses

\* Types; no more passages are sent than the limits allow, every passage sent
\* has a verse, and the migration has only entries that exist to delete.
EvidenceTypeOK ==
    /\ version \in Nat \cup {NoVersion}
    /\ phase \in Phases
    /\ lastId \in 0..MaxId
    /\ DOMAIN history \subseteq 1..MaxId
    /\ doomed \subseteq DOMAIN history
    /\ clock \in 0..MaxAnswers
    /\ kills \in 0..MaxKills
    /\ ask.step \in {"idle", "sent", "retry", "answered"}
    /\ ask.step = "answered" => AnswerType(ask.answer)
    /\ DOMAIN promised \subseteq DOMAIN history
    /\ \A id \in DOMAIN promised : AnswerType(promised[id])

\* [P#] of an answer that is reopened, in this run or a later one, names the
\* passage the verifier checked it against, and so does the reference an
\* export puts in its place (userdb.rs:29-31: "so [P1]..[Pn] can be rebuilt
\* exactly").  The entry keeps the order of the ranking, the tokens the order
\* of the cut: the two agree because the slice of the Deuterocanon is scored
\* below everything else, and because no passage is empty.
TokensNameWhatWasSent ==
    \A id \in DOMAIN promised :
        LET sent     == promised[id].sent
            reopened == RenderPassages(history[id])
        IN /\ {<<p.token, p.ids>> : p \in ToSet(reopened)}
                = {<<n, sent[n]>> : n \in DOMAIN sent}
           /\ \A n \in DOMAIN sent : ResolveToken(history[id], n) = ReferenceOf(sent[n])

\* The passages marked as cited are those the text cites: in the answer, in
\* the reopened entry, which knows only the verses cited, and in a sheet.
CitedMarksSurvive ==
    \A id \in DOMAIN promised :
        LET answer == promised[id]
            cited  == {answer.sent[n] : n \in CitedTokens(answer.text)}
        IN /\ {p.ids : p \in {r \in ToSet(answer.passages) : r.cited}} = cited
           /\ {p.ids : p \in {r \in ToSet(RenderPassages(history[id])) : r.cited}} = cited
           /\ {p.reference : p \in {r \in ToSet(SheetRows(history[id])) : r.cited}}
                = {ReferenceOf(ids) : ids \in cited}

\* The verses a reader finds under a reference.
Meant(c) ==
    {v \in ChapterVerses(Lookup(c.name), c.chapter) :
        \/ c.first = NoVerse
        \/ c.first <= Num(v) /\ Num(v) <= (IF c.last = NoVerse THEN c.first ELSE c.last)}

Supported(answer) ==
    /\ \A c \in answer.text :
          /\ c.kind = "token" => c.n \in DOMAIN answer.sent
          /\ IsReference(c) => /\ Meant(c) # {}
                               /\ Meant(c) \subseteq SentVerses(answer.sent)
    /\ answer.verdict = "fallback" =>
          ToSet(answer.fallback) = {ReferenceOf(ids) : ids \in ToSet(answer.sent)}
    /\ answer.mode = "66" => \A v \in SentVerses(answer.sent) : Book(v) \notin Deutero
    /\ answer.footer <=> \E n \in CitedTokens(answer.text) :
                            \E v \in ToSet(answer.sent[n]) : Book(v) \in Deutero

Answers == {promised[id] : id \in DOMAIN promised}
           \cup (IF ask.step = "answered" THEN {ask.answer} ELSE {})

\* Nothing is shown or kept that does not rest on what was sent: a citation
\* has verses, and they were all sent; the fallback lists exactly what was
\* sent; a reader of the 66 books is sent nothing else (verifier.rs, Rule A and
\* Rule B).  The note about the Deuterocanon stands under an answer exactly when
\* one of its tokens [P#] names a passage with a verse of it; an answer that
\* only writes "Tobit 1:1" out has none (pipeline.rs:407-413).
NothingUnsentIsShown == \A answer \in Answers : Supported(answer)

\* The groups of an answer hold each passage once, and no topic has two
\* groups (pipeline.rs:533: "so the groups partition the set").
GroupsPartitionThePassages ==
    \A answer \in Answers :
        LET groups == answer.groups
            refs   == FlattenSeq([i \in DOMAIN groups |-> groups[i].refs])
        IN /\ IsInjective(refs)
           /\ ToSet(refs) = {ReferenceOf(p.ids) : p \in ToSet(answer.passages)}
           /\ \A i, j \in DOMAIN groups : groups[i].root = groups[j].root => i = j

\* The Deuterocanon is only ever added: what is found and sent without it is
\* found and sent first with it, and what is found of it does get its place
\* (retrieve.rs:462: "the 66 result is therefore always a prefix of the both
\* result and the toggle can only add").
BothOnlyAdds ==
    ask.step = "sent" =>
        LET found66  == Search(ask.query, "66")
            both     == Search(ask.query, "both")
            ranges   == AsRanges(both)
            sent66   == TopCut(AsRanges(found66), "66")
            sentBoth == TopCut(ranges, "both")
            added    == SubSeq(sentBoth, Len(sent66) + 1, Len(sentBoth))
        IN /\ IsPrefix(found66, both)
           /\ IsPrefix(sent66, sentBoth)
           /\ \A p \in ToSet(added) : p.canon = "deutero"
           /\ Len(added) = AtMost(Len(OfCanon(ranges, "deutero")), DeuteroSlice)

\* Opening an old file, however often it is cut short, loses exactly the
\* entries whose numbering was never stored: every other one is there,
\* unchanged, until the reader deletes it, and no program works on a file
\* that still has one (userdb.rs:649-659).
OnlyTheUnnumberedAreLost ==
    /\ \A id \in DOMAIN old :
          Numbered(old[id]) => id \in DOMAIN history /\ history[id] = old[id]
    /\ phase \in {"open", "clearing"} => \A id \in DOMAIN history : Numbered(history[id])

\* A row of the sidebar that is still there names the entry it was read from,
\* whatever was deleted, saved and restarted since, unless all of history was
\* cleared: only then do ids start again (Main.tsx:179: "Delete one entry,
\* and only that one").
RowsNameTheirEntry ==
    ~cleared => \A id \in DOMAIN listed \cap DOMAIN history : history[id].asked = listed[id]

\* Paging through the Bible: every way on leads to a chapter there is, into no
\* book the reader is not reading, turning back returns, and there is no way
\* on only at the end of what is read (index.rs:321-322: "None at the two ends
\* of the canon being read").
Further(v, w, step) == IF step > 0 THEN v > w ELSE v < w

TurningBackReturns ==
    page # NoPage =>
        \A step \in {-1, 1} :
            LET b    == page.at[1]
                to   == IF step > 0 THEN page.next ELSE page.previous
                here == Readable(b, page.within)
            IN IF to # NoChapter
               THEN /\ ChapterVerses(to[1], to[2]) # {}
                    /\ Readable(to[1], page.within) \/ to[1] = b
                    /\ StepChapter(to[1], to[2], -step, page.within) = page.at
               ELSE here => \A v \in Verses, w \in page.verses :
                       ~(Readable(Book(v), page.within) /\ Further(v, w, step)
                         /\ <<Book(v), Chapter(v)>> # page.at)
=============================================================================
