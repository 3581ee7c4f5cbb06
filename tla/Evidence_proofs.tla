-------------------------- MODULE Evidence_proofs --------------------------
(***************************************************************************)
(* What the history keeps, for any Bible, any questions and texts, any     *)
(* number of entries, and any file an earlier program may have left.       *)
(***************************************************************************)
EXTENDS Evidence, Retrieval_proofs

AllNumbered == \A id \in DOMAIN history : Numbered(history[id])

NumberedKept ==
    \A id \in DOMAIN old :
        Numbered(old[id]) => id \in DOMAIN history /\ history[id] = old[id]

IdsAreGiven ==
    /\ lastId \in Nat
    /\ DOMAIN history \subseteq 1..lastId

\* A version is written only when nothing is left to bring up to it.
VersionIsTrue ==
    /\ version \in Nat \cup {NoVersion}
    /\ version = NoVersion => DOMAIN history = {}
    /\ version = SchemaVersion => AllNumbered
    /\ phase \in {"open", "clearing"} => version = SchemaVersion

DroppingFits ==
    phase = "dropping" => doomed = {id \in DOMAIN history : ~Numbered(history[id])}

ClearingFits == phase = "clearing" => DOMAIN history = {} /\ cleared

RowsFit ==
    ~cleared => /\ DOMAIN listed \subseteq 1..lastId
                /\ \A id \in DOMAIN listed \cap DOMAIN history : history[id].asked = listed[id]

HistoryInv ==
    /\ NumberedKept
    /\ IdsAreGiven
    /\ VersionIsTrue
    /\ DroppingFits
    /\ ClearingFits
    /\ RowsFit

----------------------------------------------------------------------------
\* The next id is one that was never given since the last clear.
LEMMA NextIdIsNew ==
    ASSUME IdsAreGiven
    PROVE  NextId = lastId + 1
<1>. DEFINE S == {lastId} \cup DOMAIN history
<1>1. lastId \in S /\ \A y \in S : y \in Nat /\ lastId >= y
      BY DEF IdsAreGiven
<1>2. Max(S) \in S /\ \A y \in S : Max(S) >= y
      BY <1>1, Zenon DEF Max
<1>3. Max(S) = lastId
      BY <1>1, <1>2
<1>. QED  BY <1>3 DEF NextId

\* What is left of a table when some of its rows are taken out.
LEMMA WithoutKeeps ==
    ASSUME NEW f, NEW S
    PROVE  Without(f, S) = [id \in DOMAIN f \ S |-> f[id]]
BY DEF Without, Restrict

\* A new entry has its passages in lists.
LEMMA NewEntryIsNumbered ==
    ASSUME NEW answer
    PROVE  Numbered(Entry(answer))
<1>1. Entry(answer).stored.form = "lists"
      BY DEF Entry
<1>. QED  BY <1>1 DEF Numbered, ParseSent

----------------------------------------------------------------------------
LEMMA HistoryInvInit == Init => HistoryInv
<1>1. ASSUME Init
      PROVE  HistoryInv
  <2>1. PICK file \in OldFiles : /\ version = file.version
                                 /\ history = file.history
                                 /\ lastId = file.lastId
                                 /\ old = file.history
        BY <1>1 DEF Init, DbInit
  <2>2. phase = "closed" /\ listed = <<>>
        BY <1>1 DEF Init, DbInit
  <2>3. NumberedKept /\ IdsAreGiven
        BY <2>1, OldFilesAssumption DEF NumberedKept, IdsAreGiven
  <2>4. VersionIsTrue
        BY <2>1, <2>2, OldFilesAssumption DEF VersionIsTrue, AllNumbered
  <2>5. DroppingFits /\ ClearingFits
        BY <2>2 DEF DroppingFits, ClearingFits
  <2>6. RowsFit
        BY <2>2 DEF RowsFit
  <2>. QED  BY <2>3, <2>4, <2>5, <2>6 DEF HistoryInv
<1>. QED  BY <1>1

\* Steps that leave the file, its program and the sidebar alone.
LEMMA ElsewhereKeeps ==
    ASSUME HistoryInv, UNCHANGED <<dbVars, listed, cleared>>
    PROVE  HistoryInv'
BY DEF HistoryInv, NumberedKept, IdsAreGiven, VersionIsTrue, AllNumbered, DroppingFits,
       ClearingFits, RowsFit, dbVars

\* The steps of opening a file that change nothing in the table.
LEMMA OpeningKeeps ==
    ASSUME HistoryInv, UNCHANGED <<listed, cleared>>,
           \/ OpensTheFile
           \/ StampsANewFile
           \/ FindsItCurrent
           \/ RefusesANewerFile
           \/ FindsItOld
           \/ StampsAnOldFile
    PROVE  HistoryInv'
<1>1. UNCHANGED <<history, lastId, old>>
      BY DEF OpensTheFile, StampsANewFile, FindsItCurrent, RefusesANewerFile, FindsItOld,
             StampsAnOldFile
<1>2. NumberedKept' /\ IdsAreGiven' /\ RowsFit'
      BY <1>1 DEF HistoryInv, NumberedKept, IdsAreGiven, RowsFit
<1>3. AllNumbered <=> AllNumbered'
      BY <1>1 DEF AllNumbered
<1>4. CASE OpensTheFile
      BY <1>1, <1>2, <1>3, <1>4 DEF HistoryInv, OpensTheFile, VersionIsTrue, DroppingFits,
                                    ClearingFits
<1>5. CASE StampsANewFile
  <2>1. AllNumbered
        BY <1>5 DEF StampsANewFile, HistoryInv, VersionIsTrue, AllNumbered
  <2>. QED  BY <1>1, <1>2, <1>3, <1>5, <2>1 DEF HistoryInv, StampsANewFile, VersionIsTrue,
                  DroppingFits, ClearingFits, SchemaVersion, NoVersion
<1>6. CASE FindsItCurrent
      BY <1>1, <1>2, <1>3, <1>6 DEF HistoryInv, FindsItCurrent, VersionIsTrue, DroppingFits,
                                    ClearingFits
<1>7. CASE RefusesANewerFile
      BY <1>1, <1>2, <1>3, <1>7 DEF HistoryInv, RefusesANewerFile, VersionIsTrue,
                                    DroppingFits, ClearingFits
<1>8. CASE FindsItOld
      BY <1>1, <1>2, <1>3, <1>8 DEF HistoryInv, FindsItOld, VersionIsTrue, DroppingFits,
                                    ClearingFits
<1>9. CASE StampsAnOldFile
  <2>1. AllNumbered
        BY <1>9 DEF StampsAnOldFile, HistoryInv, DroppingFits, AllNumbered
  <2>. QED  BY <1>1, <1>2, <1>3, <1>9, <2>1 DEF HistoryInv, StampsAnOldFile, VersionIsTrue,
                  DroppingFits, ClearingFits, SchemaVersion, NoVersion
<1>. QED  BY <1>4, <1>5, <1>6, <1>7, <1>8, <1>9

\* One entry of the migration goes: it is one that was not numbered.
LEMMA DroppingKeeps ==
    ASSUME HistoryInv, DropsOne, UNCHANGED <<listed, cleared>>
    PROVE  HistoryInv'
<1>. DEFINE id == Min(doomed)
<1>1. doomed = {i \in DOMAIN history : ~Numbered(history[i])} /\ doomed # {}
      BY DEF HistoryInv, DroppingFits, DropsOne
<1>2. doomed \in SUBSET Nat
      BY <1>1 DEF HistoryInv, IdsAreGiven
<1>3. id \in DOMAIN history /\ ~Numbered(history[id])
      BY <1>1, <1>2, MinIsIn
<1>4. /\ history' = Without(history, {id})
      /\ doomed' = doomed \ {id}
      /\ UNCHANGED <<version, lastId, phase, old>>
      /\ phase = "dropping"
      BY DEF DropsOne
<1>. HIDE DEF id
<1>5a. history' = [i \in DOMAIN history \ {id} |-> history[i]]
      BY <1>4, WithoutKeeps, Zenon
<1>5. /\ DOMAIN history' = DOMAIN history \ {id}
      /\ \A i \in DOMAIN history' : history'[i] = history[i]
      BY <1>5a
<1>6. NumberedKept'
      BY <1>3, <1>4, <1>5 DEF HistoryInv, NumberedKept
<1>7. IdsAreGiven'
      BY <1>4, <1>5 DEF HistoryInv, IdsAreGiven
<1>8. VersionIsTrue'
      BY <1>4, <1>5 DEF HistoryInv, VersionIsTrue, AllNumbered
<1>9. DroppingFits' /\ ClearingFits'
      BY <1>1, <1>4, <1>5 DEF DroppingFits, ClearingFits
<1>10. RowsFit'
      BY <1>4, <1>5 DEF HistoryInv, RowsFit
<1>. QED  BY <1>6, <1>7, <1>8, <1>9, <1>10 DEF HistoryInv

\* A new entry takes an id no row of the sidebar has.
LEMMA SavingKeeps ==
    ASSUME HistoryInv, NEW answer, SaveAnswer(Entry(answer)), UNCHANGED <<listed, cleared>>
    PROVE  HistoryInv'
<1>1. NextId = lastId + 1
      BY NextIdIsNew DEF HistoryInv
<1>2. lastId \in Nat /\ NextId \notin DOMAIN history
      BY <1>1 DEF HistoryInv, IdsAreGiven
<1>3. /\ phase = "open"
      /\ history' = [i \in DOMAIN history \cup {NextId} |->
                        IF i = NextId THEN Entry(answer) ELSE history[i]]
      /\ lastId' = NextId
      /\ UNCHANGED <<version, phase, doomed, old>>
      BY DEF SaveAnswer
<1>4. /\ DOMAIN history' = DOMAIN history \cup {NextId}
      /\ history'[NextId] = Entry(answer)
      /\ \A i \in DOMAIN history : history'[i] = history[i]
      BY <1>2, <1>3
<1>5. NumberedKept'
      BY <1>3, <1>4 DEF HistoryInv, NumberedKept
<1>6. IdsAreGiven'
      BY <1>1, <1>2, <1>3, <1>4 DEF HistoryInv, IdsAreGiven
<1>7. version = SchemaVersion /\ AllNumbered
      BY <1>3 DEF HistoryInv, VersionIsTrue
<1>8. AllNumbered'
      BY <1>4, <1>7, NewEntryIsNumbered DEF AllNumbered
<1>9. VersionIsTrue'
      BY <1>3, <1>7, <1>8 DEF HistoryInv, VersionIsTrue, SchemaVersion, NoVersion
<1>10. DroppingFits' /\ ClearingFits'
      BY <1>3 DEF DroppingFits, ClearingFits
<1>11. RowsFit'
      BY <1>1, <1>2, <1>3, <1>4 DEF HistoryInv, RowsFit
<1>. QED  BY <1>5, <1>6, <1>9, <1>10, <1>11 DEF HistoryInv

LEMMA DeletingKeeps ==
    ASSUME HistoryInv, NEW id, Delete(id), UNCHANGED <<listed, cleared>>
    PROVE  HistoryInv'
<1>1. /\ phase = "open"
      /\ history' = Without(history, {id})
      /\ old' = Without(old, {id})
      /\ UNCHANGED <<version, lastId, phase, doomed>>
      BY DEF Delete
<1>2a. /\ history' = [i \in DOMAIN history \ {id} |-> history[i]]
       /\ old' = [i \in DOMAIN old \ {id} |-> old[i]]
      BY <1>1, WithoutKeeps, Zenon
<1>2. /\ DOMAIN history' = DOMAIN history \ {id}
      /\ \A i \in DOMAIN history' : history'[i] = history[i]
      /\ DOMAIN old' = DOMAIN old \ {id}
      /\ \A i \in DOMAIN old' : old'[i] = old[i]
      BY <1>2a
<1>3. NumberedKept' /\ IdsAreGiven'
      BY <1>1, <1>2 DEF HistoryInv, NumberedKept, IdsAreGiven
<1>4. VersionIsTrue' /\ RowsFit'
      BY <1>1, <1>2 DEF HistoryInv, VersionIsTrue, AllNumbered, RowsFit
<1>5. DroppingFits' /\ ClearingFits'
      BY <1>1 DEF DroppingFits, ClearingFits
<1>. QED  BY <1>3, <1>4, <1>5 DEF HistoryInv

\* The two statements of a clear: no row of the sidebar is relied on between.
LEMMA ClearingKeeps ==
    ASSUME HistoryInv,
           \/ DeletesAll /\ cleared' /\ UNCHANGED listed
           \/ ResetsTheIds /\ UNCHANGED <<listed, cleared>>
    PROVE  HistoryInv'
<1>1. CASE DeletesAll /\ cleared' /\ UNCHANGED listed
  <2>1. DOMAIN history' = {} /\ DOMAIN old' = {}
        BY <1>1 DEF DeletesAll
  <2>2. phase' = "clearing" /\ UNCHANGED <<version, lastId>> /\ version = SchemaVersion
        BY <1>1 DEF DeletesAll, HistoryInv, VersionIsTrue
  <2>. QED  BY <1>1, <2>1, <2>2 DEF HistoryInv, NumberedKept, IdsAreGiven, VersionIsTrue,
                  AllNumbered, DroppingFits, ClearingFits, RowsFit
<1>2. CASE ResetsTheIds /\ UNCHANGED <<listed, cleared>>
  <2>1. /\ lastId' \in Nat
        /\ phase' = "open"
        /\ UNCHANGED <<version, history, old>>
        /\ DOMAIN history = {} /\ cleared
        /\ version = SchemaVersion
        BY <1>2 DEF ResetsTheIds, HistoryInv, IdsAreGiven, ClearingFits, VersionIsTrue
  <2>. QED  BY <1>2, <2>1 DEF HistoryInv, NumberedKept, IdsAreGiven, VersionIsTrue,
                  AllNumbered, DroppingFits, ClearingFits, RowsFit
<1>. QED  BY <1>1, <1>2

LEMMA HistoryInvNext == HistoryInv /\ [Next]_vars => HistoryInv'
<1>. SUFFICES ASSUME HistoryInv, [Next]_vars
              PROVE  HistoryInv'
  OBVIOUS
<1>1. CASE \E q \in Queries, mode \in {"66", "both"} : Finds(q, mode)
      BY <1>1, ElsewhereKeeps DEF Finds, readerVars
<1>2. CASE \E text \in Texts : Writes(text) \/ WritesAgain(text)
      BY <1>2, ElsewhereKeeps DEF Writes, WritesAgain, readerVars
<1>3. CASE Saves
      BY <1>3, SavingKeeps DEF Saves, readerVars
<1>4. CASE CannotSave
      BY <1>4, ElsewhereKeeps DEF CannotSave, readerVars
<1>5. CASE ReadsTheHistory
  <2>1. listed' = [id \in DOMAIN history |-> history[id].asked] /\ UNCHANGED dbVars
        BY <1>5 DEF ReadsTheHistory
  <2>. QED  BY <2>1, <1>5 DEF ReadsTheHistory, HistoryInv, NumberedKept, IdsAreGiven,
                  VersionIsTrue, AllNumbered, DroppingFits, ClearingFits, RowsFit, dbVars
<1>6. CASE \E id \in DOMAIN listed : DeletesARow(id)
      BY <1>6, DeletingKeeps DEF DeletesARow, readerVars
<1>7. CASE ClearsTheHistory
      BY <1>7, ClearingKeeps DEF ClearsTheHistory
<1>8. CASE \E within \in {"66", "both"} : OpensAChapter(within)
      BY <1>8, ElsewhereKeeps DEF OpensAChapter
<1>9. CASE TurnsThePage \/ ClosesTheChapter
      BY <1>9, ElsewhereKeeps DEF TurnsThePage, ClosesTheChapter
<1>10. CASE FileSteps
      BY <1>10, OpeningKeeps, DroppingKeeps, ClearingKeeps DEF FileSteps, readerVars
<1>11. CASE Ends
  <2>1. phase' = "closed" /\ UNCHANGED <<version, history, lastId, old>> /\ listed' = <<>>
        BY <1>11 DEF Ends, DbCloses
  <2>. QED  BY <2>1 DEF HistoryInv, NumberedKept, IdsAreGiven, VersionIsTrue, AllNumbered,
                  DroppingFits, ClearingFits, RowsFit
<1>12. CASE UNCHANGED vars
      BY <1>12, ElsewhereKeeps DEF vars, readerVars
<1>. QED  BY <1>1, <1>2, <1>3, <1>4, <1>5, <1>6, <1>7, <1>8, <1>9, <1>10, <1>11, <1>12 DEF Next

LEMMA HistoryHolds == Spec => []HistoryInv
BY HistoryInvInit, HistoryInvNext, PTL DEF Spec

\* Whatever file is found and however often opening it is cut short, exactly
\* the entries whose numbering was never stored are lost, and no program works
\* on a file that still has one.
THEOREM MigrationLosesNoMore == Spec => []OnlyTheUnnumberedAreLost
<1>1. HistoryInv => OnlyTheUnnumberedAreLost
      BY DEF HistoryInv, NumberedKept, VersionIsTrue, AllNumbered, OnlyTheUnnumberedAreLost
<1>. QED  BY <1>1, HistoryHolds, PTL

\* A row of the sidebar names the entry it was read from, or none, through any
\* number of answers, deletions and restarts, until history is cleared.
THEOREM RowsKeepTheirEntry == Spec => []RowsNameTheirEntry
<1>1. HistoryInv => RowsNameTheirEntry
      BY DEF HistoryInv, RowsFit, RowsNameTheirEntry
<1>. QED  BY <1>1, HistoryHolds, PTL

----------------------------------------------------------------------------
(* What the worker has and what the history holds is always an answer put  *)
(* together from what a search found for a question that was asked.        *)

Modes == {"66", "both"}

Asked(step, q, mode) ==
    LET ranges == AsRanges(Search(q, mode))
    IN [step   |-> step,
        query  |-> q,
        mode   |-> mode,
        ranges |-> ranges,
        cut    |-> TopCut(ranges, mode)]

\* An answer is what the verifier passed, or the fallback.
IsAnswerTo(a, asked) ==
    \E text \in Texts, fellBack \in BOOLEAN :
        /\ fellBack \/ Verdict(text, Pack(asked.cut)) = "ok"
        /\ a = Assemble(asked, text, fellBack)

IsAnswer(a) ==
    \E q \in Queries, mode \in Modes, step \in {"sent", "retry"} :
        IsAnswerTo(a, Asked(step, q, mode))

AskFits ==
    \/ ask = Idle
    \/ /\ clock < MaxAnswers
       /\ \/ \E q \in Queries, mode \in Modes, step \in {"sent", "retry"} :
                ask = Asked(step, q, mode)
          \/ ask = Answered(ask.answer) /\ IsAnswer(ask.answer)

\* What an entry keeps of its answer.
Keeps(entry, answer) ==
    /\ entry.text = answer.text
    /\ entry.stored = [form |-> "lists",
                       sent |-> [i \in DOMAIN SentPassages(answer) |-> SentPassages(answer)[i].ids]]
    /\ entry.cited = answer.cited

PromisesFit ==
    /\ DOMAIN promised \subseteq DOMAIN history
    /\ \A id \in DOMAIN promised : /\ IsAnswer(promised[id])
                                   /\ Keeps(history[id], promised[id])

CountsFit ==
    /\ phase \in Phases
    /\ phase # "dropping" => doomed = {}
    /\ lastId \in 0..MaxId
    /\ clock \in 0..MaxAnswers
    /\ kills \in 0..MaxKills

AnswersInv ==
    /\ AskFits
    /\ PromisesFit
    /\ CountsFit

\* Steps that leave the worker's question or move it on, and the file alone.
LEMMA AskedFields ==
    ASSUME NEW step, NEW q, NEW mode
    PROVE  /\ Asked(step, q, mode).step = step
           /\ Asked(step, q, mode).query = q
           /\ Asked(step, q, mode).mode = mode
           /\ Asked(step, q, mode).ranges = AsRanges(Search(q, mode))
           /\ Asked(step, q, mode).cut = TopCut(AsRanges(Search(q, mode)), mode)
           /\ [Asked(step, q, mode) EXCEPT !.step = "retry"] = Asked("retry", q, mode)
BY DEF Asked

LEMMA AskFitsNext ==
    ASSUME AskFits, [Next]_vars
    PROVE  AskFits'
<1>1. ASSUME NEW q \in Queries, NEW mode \in {"66", "both"}, Finds(q, mode)
      PROVE  AskFits'
  <2>1. ask' = Asked("sent", q, mode) /\ clock' = clock /\ clock < MaxAnswers
        BY <1>1 DEF Finds, Asked
  <2>. QED  BY <2>1 DEF AskFits, Modes
<1>2. ASSUME NEW text \in Texts, Writes(text)
      PROVE  AskFits'
  <2>1. ask.step = "sent" /\ clock' = clock
        BY <1>2 DEF Writes
  <2>2. ~(ask = Idle) /\ ~(ask = Answered(ask.answer))
        BY <2>1 DEF Idle, Answered
  <2>3. PICK q \in Queries, mode \in Modes, step \in {"sent", "retry"} :
           ask = Asked(step, q, mode)
        BY <2>2 DEF AskFits
  <2>4. clock < MaxAnswers
        BY <2>2 DEF AskFits
  <2>5. CASE Verdict(text, Pack(ask.cut)) = "ok"
    <3>1. ask' = Answered(Assemble(ask, text, FALSE))
          BY <1>2, <2>5 DEF Writes
    <3>. DEFINE a == Assemble(ask, text, FALSE)
    <3>2. IsAnswerTo(a, ask)
          BY <2>5, Zenon DEF IsAnswerTo
    <3>. HIDE DEF a
    <3>3. IsAnswer(a)
          BY <2>3, <3>2 DEF IsAnswer
    <3>4. ask'.answer = a
          BY <3>1 DEF Answered, a
    <3>. QED  BY <2>1, <2>4, <3>1, <3>3, <3>4 DEF AskFits, a
  <2>6. CASE Verdict(text, Pack(ask.cut)) # "ok"
    <3>1. ask' = [ask EXCEPT !.step = "retry"]
          BY <1>2, <2>6 DEF Writes
    <3>2. ask' = Asked("retry", q, mode)
          BY <2>3, <3>1, AskedFields
    <3>. QED  BY <2>1, <2>4, <3>2 DEF AskFits
  <2>. QED  BY <2>5, <2>6
<1>3. ASSUME NEW text \in Texts, WritesAgain(text)
      PROVE  AskFits'
  <2>. DEFINE fellBack == Verdict(text, Pack(ask.cut)) # "ok"
              a == Assemble(ask, text, fellBack)
  <2>1. ask.step = "retry" /\ clock' = clock /\ ask' = Answered(a)
        BY <1>3 DEF WritesAgain
  <2>2. ~(ask = Idle) /\ ~(ask = Answered(ask.answer))
        BY <2>1 DEF Idle, Answered
  <2>3. PICK q \in Queries, mode \in Modes, step \in {"sent", "retry"} :
           ask = Asked(step, q, mode)
        BY <2>2 DEF AskFits
  <2>4. clock < MaxAnswers
        BY <2>2 DEF AskFits
  <2>5. fellBack \in BOOLEAN /\ (fellBack \/ Verdict(text, Pack(ask.cut)) = "ok")
        BY Zenon
  <2>. HIDE DEF fellBack
  <2>6. IsAnswerTo(a, ask)
        BY <2>5, Zenon DEF IsAnswerTo
  <2>. HIDE DEF a
  <2>7. IsAnswer(a)
        BY <2>3, <2>6 DEF IsAnswer
  <2>8. ask'.answer = a
        BY <2>1 DEF Answered
  <2>. QED  BY <2>1, <2>4, <2>7, <2>8 DEF AskFits
<1>4. CASE Saves \/ CannotSave \/ Ends
      BY <1>4 DEF Saves, CannotSave, Ends, AskFits
<1>5. CASE UNCHANGED <<ask, clock>>
      BY <1>5 DEF AskFits
<1>6. CASE \/ ReadsTheHistory
           \/ \E id \in DOMAIN listed : DeletesARow(id)
           \/ ClearsTheHistory
           \/ \E within \in {"66", "both"} : OpensAChapter(within)
           \/ TurnsThePage
           \/ ClosesTheChapter
           \/ FileSteps
           \/ UNCHANGED vars
      BY <1>5, <1>6 DEF ReadsTheHistory, DeletesARow, ClearsTheHistory, OpensAChapter,
                        TurnsThePage, ClosesTheChapter, FileSteps, vars
<1>. QED  BY <1>1, <1>2, <1>3, <1>4, <1>6 DEF Next

LEMMA CountsFitInit == Init => CountsFit
BY OldFilesAssumption, AskedAssumption DEF Init, DbInit, CountsFit, Phases

LEMMA CountsFitNext ==
    ASSUME CountsFit, AskFits, HistoryInv, [Next]_vars
    PROVE  CountsFit'
<1>1. CASE UNCHANGED <<phase, doomed, lastId, clock, kills>>
      BY <1>1 DEF CountsFit
<1>2. CASE \/ \E q \in Queries, mode \in {"66", "both"} : Finds(q, mode)
           \/ \E text \in Texts : Writes(text) \/ WritesAgain(text)
           \/ CannotSave
           \/ ReadsTheHistory
           \/ \E id \in DOMAIN listed : DeletesARow(id)
           \/ \E within \in {"66", "both"} : OpensAChapter(within)
           \/ TurnsThePage
           \/ ClosesTheChapter
           \/ UNCHANGED vars
      BY <1>1, <1>2 DEF Finds, Writes, WritesAgain, CannotSave, ReadsTheHistory, DeletesARow,
                        Delete, OpensAChapter, TurnsThePage, ClosesTheChapter, vars, dbVars
<1>3. CASE Saves
  <2>1. ask # Idle
        BY <1>3 DEF Saves, Idle
  <2>2. clock < MaxAnswers
        BY <2>1 DEF AskFits
  <2>3. /\ clock' = clock + 1 /\ lastId' = NextId /\ NextId <= MaxId
        /\ UNCHANGED <<phase, doomed, kills>>
        BY <1>3 DEF Saves, SaveAnswer
  <2>4. lastId' \in 0..MaxId
        BY <2>3, NextIdIsNew, OldFilesAssumption DEF HistoryInv, IdsAreGiven
  <2>. QED  BY <2>2, <2>3, <2>4, AskedAssumption DEF CountsFit
<1>4. CASE ClearsTheHistory
  <2>1. /\ phase = "open" /\ phase' = "clearing"
        /\ UNCHANGED <<doomed, lastId, clock, kills>>
        BY <1>4 DEF ClearsTheHistory, DeletesAll
  <2>. QED  BY <2>1 DEF CountsFit, Phases
<1>5. CASE FileSteps
  <2>1. UNCHANGED <<clock, kills>>
        BY <1>5 DEF FileSteps
  <2>2. CASE OpensTheFile \/ StampsANewFile \/ FindsItCurrent \/ RefusesANewerFile
    <3>1. phase # "dropping" /\ phase' \in Phases /\ UNCHANGED <<doomed, lastId>>
          BY <2>2 DEF OpensTheFile, StampsANewFile, FindsItCurrent, RefusesANewerFile, Phases
    <3>. QED  BY <2>1, <3>1 DEF CountsFit
  <2>3. CASE FindsItOld \/ DropsOne
    <3>1. phase' = "dropping" /\ UNCHANGED lastId
          BY <2>3 DEF FindsItOld, DropsOne
    <3>. QED  BY <2>1, <3>1 DEF CountsFit, Phases
  <2>4. CASE StampsAnOldFile
    <3>1. phase' = "open" /\ doomed' = {} /\ UNCHANGED lastId
          BY <2>4 DEF StampsAnOldFile
    <3>. QED  BY <2>1, <3>1 DEF CountsFit, Phases
  <2>5. CASE ResetsTheIds
    <3>1. /\ phase = "clearing" /\ phase' = "open" /\ UNCHANGED doomed
          /\ lastId' \in {0, lastId} /\ lastId \in Nat
          BY <2>5 DEF ResetsTheIds, HistoryInv, IdsAreGiven
    <3>2. lastId' \in 0..MaxId
          BY <3>1, OldFilesAssumption DEF CountsFit
    <3>. QED  BY <2>1, <3>1, <3>2 DEF CountsFit, Phases
  <2>. QED  BY <1>5, <2>2, <2>3, <2>4, <2>5 DEF FileSteps
<1>6. CASE Ends
  <2>1. /\ phase' = "closed" /\ doomed' = {} /\ kills' = kills + 1 /\ kills < MaxKills
        /\ UNCHANGED <<lastId, clock>>
        BY <1>6 DEF Ends, DbCloses
  <2>. QED  BY <2>1, AskedAssumption DEF CountsFit, Phases
<1>. QED  BY <1>2, <1>3, <1>4, <1>5, <1>6 DEF Next

\* An answer is promised of an entry as long as the entry is there.
LEMMA PromisesFitNext ==
    ASSUME PromisesFit, AskFits, HistoryInv, [Next]_vars
    PROVE  PromisesFit'
<1>1. ASSUME UNCHANGED <<history, promised>>
      PROVE  PromisesFit'
      BY <1>1 DEF PromisesFit, Keeps
<1>2. CASE \/ \E q \in Queries, mode \in {"66", "both"} : Finds(q, mode)
           \/ \E text \in Texts : Writes(text) \/ WritesAgain(text)
           \/ CannotSave
           \/ ReadsTheHistory
           \/ \E within \in {"66", "both"} : OpensAChapter(within)
           \/ TurnsThePage
           \/ ClosesTheChapter
           \/ UNCHANGED vars
      BY <1>1, <1>2 DEF Finds, Writes, WritesAgain, CannotSave, ReadsTheHistory,
                        OpensAChapter, TurnsThePage, ClosesTheChapter, vars, dbVars
<1>3. CASE Saves
  <2>1. /\ ask.step = "answered"
        /\ history' = [id \in DOMAIN history \cup {NextId} |->
                          IF id = NextId THEN Entry(ask.answer) ELSE history[id]]
        /\ promised' = [id \in DOMAIN promised \cup {NextId} |->
                           IF id = NextId THEN ask.answer ELSE promised[id]]
        BY <1>3 DEF Saves, SaveAnswer
  <2>2. IsAnswer(ask.answer)
    <3>1. ~(ask = Idle)
          BY <2>1 DEF Idle
    <3>2. ASSUME NEW q, NEW mode, NEW step \in {"sent", "retry"}, ask = Asked(step, q, mode)
          PROVE  FALSE
      <4>1. ask.step = step
            BY <3>2, AskedFields
      <4>. QED  BY <2>1, <4>1
    <3>. QED  BY <3>1, <3>2 DEF AskFits
  <2>3. Keeps(Entry(ask.answer), ask.answer)
        BY DEF Keeps, Entry
  <2>4. NextId \notin DOMAIN history
        BY NextIdIsNew DEF HistoryInv, IdsAreGiven
  <2>5. ASSUME NEW id \in DOMAIN promised'
        PROVE  id \in DOMAIN history' /\ IsAnswer(promised'[id]) /\ Keeps(history'[id], promised'[id])
    <3>1. CASE id = NextId
      <4>1. promised'[id] = ask.answer /\ history'[id] = Entry(ask.answer) /\ id \in DOMAIN history'
            BY <2>1, <3>1
      <4>. QED  BY <2>2, <2>3, <4>1, Zenon
    <3>2. CASE id # NextId
      <4>1. id \in DOMAIN promised /\ id \in DOMAIN history
            BY <2>1, <3>2 DEF PromisesFit
      <4>2. promised'[id] = promised[id] /\ history'[id] = history[id] /\ id \in DOMAIN history'
            BY <2>1, <3>2, <4>1
      <4>3. IsAnswer(promised[id]) /\ Keeps(history[id], promised[id])
            BY <4>1 DEF PromisesFit
      <4>. QED  BY <4>2, <4>3, Zenon
    <3>. QED  BY <3>1, <3>2
  <2>. QED  BY <2>5 DEF PromisesFit, Keeps
<1>4. ASSUME NEW S, history' = [id \in DOMAIN history \ S |-> history[id]],
             DOMAIN promised' \subseteq DOMAIN promised \ S,
             \A id \in DOMAIN promised' : promised'[id] = promised[id]
      PROVE  PromisesFit'
  <2>1. ASSUME NEW id \in DOMAIN promised'
        PROVE  id \in DOMAIN history' /\ IsAnswer(promised'[id]) /\ Keeps(history'[id], promised'[id])
    <3>1. id \in DOMAIN promised /\ id \notin S /\ promised'[id] = promised[id]
          BY <1>4
    <3>2. id \in DOMAIN history /\ IsAnswer(promised[id]) /\ Keeps(history[id], promised[id])
          BY <3>1 DEF PromisesFit
    <3>3. id \in DOMAIN history' /\ history'[id] = history[id]
          BY <1>4, <3>1, <3>2
    <3>. QED  BY <3>1, <3>2, <3>3, Zenon
  <2>. QED  BY <2>1 DEF PromisesFit, Keeps
<1>5. ASSUME NEW id \in DOMAIN listed, DeletesARow(id)
      PROVE  PromisesFit'
  <2>1. /\ history' = [i \in DOMAIN history \ {id} |-> history[i]]
        /\ promised' = [i \in DOMAIN promised \ {id} |-> promised[i]]
        BY <1>5, WithoutKeeps, Zenon DEF DeletesARow, Delete
  <2>2. /\ DOMAIN promised' = DOMAIN promised \ {id}
        /\ \A i \in DOMAIN promised' : promised'[i] = promised[i]
        BY <2>1
  <2>. QED  BY <1>4, <2>1, <2>2
<1>6. CASE ClearsTheHistory
  <2>1. promised' = <<>>
        BY <1>6 DEF ClearsTheHistory
  <2>. QED  BY <2>1 DEF PromisesFit
<1>7. CASE FileSteps
  <2>1. UNCHANGED promised
        BY <1>7 DEF FileSteps
  <2>2. CASE DropsOne
    <3>. DEFINE id == Min(doomed)
    <3>1. doomed = {i \in DOMAIN history : ~Numbered(history[i])} /\ doomed # {}
          BY <2>2 DEF HistoryInv, DroppingFits, DropsOne
    <3>2. doomed \in SUBSET Nat
          BY <3>1 DEF HistoryInv, IdsAreGiven
    <3>3. id \in DOMAIN history /\ ~Numbered(history[id])
          BY <3>1, <3>2, MinIsIn
    <3>4. history' = Without(history, {id})
          BY <2>2 DEF DropsOne
    <3>. HIDE DEF id
    <3>5. history' = [i \in DOMAIN history \ {id} |-> history[i]]
          BY <3>4, WithoutKeeps, Zenon
    <3>6. id \notin DOMAIN promised
      <4>1. ASSUME id \in DOMAIN promised
            PROVE  Numbered(history[id])
        <5>1. Keeps(history[id], promised[id])
              BY <4>1 DEF PromisesFit
        <5>2. history[id].stored.form = "lists"
              BY <5>1 DEF Keeps
        <5>. QED  BY <5>2 DEF Numbered, ParseSent
      <4>. QED  BY <3>3, <4>1
    <3>7. /\ DOMAIN promised' \subseteq DOMAIN promised \ {id}
          /\ \A i \in DOMAIN promised' : promised'[i] = promised[i]
          BY <2>1, <3>6
    <3>. QED  BY <1>4, <3>5, <3>7
  <2>3. CASE ~DropsOne
    <3>1. UNCHANGED history
          BY <1>7, <2>3 DEF FileSteps, OpensTheFile, StampsANewFile, FindsItCurrent,
                            RefusesANewerFile, FindsItOld, StampsAnOldFile, ResetsTheIds
    <3>. QED  BY <1>1, <2>1, <3>1
  <2>. QED  BY <2>2, <2>3
<1>8. CASE Ends
      BY <1>1, <1>8 DEF Ends, DbCloses
<1>. QED  BY <1>2, <1>3, <1>5, <1>6, <1>7, <1>8 DEF Next

LEMMA AnswersInvHolds == Spec => [](HistoryInv /\ AnswersInv)
<1>1. Init => HistoryInv /\ AnswersInv
  <2>1. Init => AskFits /\ PromisesFit
        BY DEF Init, AskFits, PromisesFit
  <2>. QED  BY <2>1, HistoryInvInit, CountsFitInit DEF AnswersInv
<1>2. HistoryInv /\ AnswersInv /\ [Next]_vars => (HistoryInv /\ AnswersInv)'
      BY HistoryInvNext, AskFitsNext, CountsFitNext, PromisesFitNext DEF AnswersInv
<1>. QED  BY <1>1, <1>2, PTL DEF Spec

----------------------------------------------------------------------------
(* What is sent, and what an answer says.                                  *)

Wholes(mode) == {s \in Seq(VersesIn(mode)) : s # <<>> /\ OneChapter(s)}

LEMMA SentType ==
    ASSUME NEW q \in Queries, NEW mode \in Modes, NEW step
    PROVE  /\ Asked(step, q, mode).ranges \in Seq(Passages(mode))
           /\ Asked(step, q, mode).cut \in Seq(Passages(mode))
           /\ Pack(Asked(step, q, mode).cut) \in Seq(Wholes(mode))
           /\ Len(Pack(Asked(step, q, mode).cut)) <= TopN + DeuteroSlice
<1>. DEFINE ranges == AsRanges(Search(q, mode))
            cut == TopCut(ranges, mode)
<1>1. ranges \in Seq(Passages(mode))
      BY AskedAssumption, SearchType, AsRangesType
<1>. HIDE DEF ranges
<1>2. cut \in Seq(Passages(mode)) /\ Len(cut) <= TopN + DeuteroSlice
      BY <1>1, TopCutType
<1>. HIDE DEF cut
<1>3. Len(cut) \in Nat /\ DOMAIN cut = 1..Len(cut)
      BY <1>2
<1>4. Pack(cut) \in [1..Len(cut) -> Wholes(mode)]
  <2>1. ASSUME NEW i \in DOMAIN cut
        PROVE  cut[i].ids \in Wholes(mode)
    <3>1. cut[i] \in Passages(mode)
          BY <1>2
    <3>. QED  BY <3>1 DEF Passages, Wholes
  <2>. QED  BY <1>3, <2>1 DEF Pack
<1>5. Pack(cut) \in Seq(Wholes(mode)) /\ Len(Pack(cut)) = Len(cut)
      BY <1>3, <1>4
<1>6. Asked(step, q, mode).ranges = ranges /\ Asked(step, q, mode).cut = cut
      BY DEF Asked, ranges, cut
<1>. QED  BY <1>1, <1>2, <1>5, <1>6

\* The name of a reference is a book's.
LEMMA LookupType ==
    ASSUME NEW name, Lookup(name) # NoBook
    PROVE  Lookup(name) \in Books
<1>1. ASSUME NEW other
      PROVE  BookOfName(other) \in Books \cup {NoBook}
  <2>1. CASE Claims(other) # {}
    <3>1. Claims(other) \in SUBSET Nat /\ Claims(other) \in SUBSET Books
          BY BibleAssumption DEF Claims
    <3>2. Min(Claims(other)) \in Claims(other)
          BY <2>1, <3>1, MinIsIn
    <3>. QED  BY <2>1, <3>1, <3>2 DEF BookOfName
  <2>2. CASE Claims(other) = {}
    <3>. DEFINE I == {i \in 1..Len(TskNames) : TskNames[i][1] = other}
    <3>1. CASE I = {}
          BY <2>2, <3>1 DEF BookOfName, SelectInSeq
    <3>2. CASE I # {}
      <4>1. I \in SUBSET Nat
            OBVIOUS
      <4>2. Min(I) \in I
            BY <3>2, <4>1, MinIsIn
      <4>3. Min(I) # 0
            BY <4>2
      <4>4. BookOfName(other) = TskNames[Min(I)][2]
            BY <2>2, <3>2, <4>3 DEF BookOfName, SelectInSeq
      <4>. QED  BY <4>2, <4>4, VerifierAssumption
    <3>. QED  BY <3>1, <3>2
  <2>. QED  BY <2>1, <2>2
<1>2. CASE BookOfName(name) # NoBook
      BY <1>1, <1>2 DEF Lookup
<1>3. CASE BookOfName(name) = NoBook
  <2>1. PICK other : Lookup(name) = BookOfName(other)
        BY <1>3, Zenon DEF Lookup
  <2>. QED  BY <1>1, <2>1
<1>. QED  BY <1>2, <1>3

LEMMA ThreeDigits ==
    ASSUME NEW x \in 0..999
    PROVE  x \in Nat /\ x < 1000
  BY SMT

\* The verses a reader finds under a reference are those the verifier wants.
LEMMA MeantIsWanted ==
    ASSUME NEW c, IsReference(c), IsCitation(c), Wanted(c) # {}, Wanted(c) \subseteq Verses
    PROVE  Meant(c) # {} /\ Meant(c) \subseteq Wanted(c)
<1>. DEFINE b == Lookup(c.name)
            last == IF c.last = NoVerse THEN c.first ELSE c.last
<1>1. b \in Books /\ b \in Nat
      BY LookupType, BibleAssumption DEF IsReference
<1>2. /\ c.kind = "reference"
      /\ c.chapter \in Nat /\ c.chapter < 1000
      /\ c.first # NoVerse => c.first \in Nat /\ c.first < 1000
      /\ c.last # NoVerse => c.last \in Nat /\ c.last < 1000
  <2>1. /\ c.kind = "reference" /\ c.chapter \in 0..999
        /\ {c.first, c.last} \subseteq 0..999 \cup {NoVerse}
        BY DEF IsReference, IsCitation
  <2>2. /\ c.chapter \in 0..999
        /\ c.first # NoVerse => c.first \in 0..999
        /\ c.last # NoVerse => c.last \in 0..999
        BY <2>1
  <2>. DEFINE x == c.chapter
              y == c.first
              z == c.last
  <2>3. /\ x \in 0..999
        /\ y # NoVerse => y \in 0..999
        /\ z # NoVerse => z \in 0..999
        BY <2>2
  <2>. HIDE DEF x, y, z
  <2>4. x \in Nat /\ x < 1000
        BY <2>3, ThreeDigits
  <2>5. y # NoVerse => y \in Nat /\ y < 1000
        BY <2>3, ThreeDigits
  <2>6. z # NoVerse => z \in Nat /\ z < 1000
        BY <2>3, ThreeDigits
  <2>7. c.kind = "reference"
        BY <2>1
  <2>. QED  BY <2>4, <2>5, <2>6, <2>7 DEF x, y, z
<1>. HIDE DEF b
<1>3. CASE c.first = NoVerse
      BY <1>3 DEF Meant, Wanted
<1>4. CASE c.first # NoVerse
  <2>1. Wanted(c) = {VerseId(b, c.chapter, n) : n \in c.first..last}
        BY <1>4 DEF Wanted, b
  <2>2. last \in Nat /\ last < 1000
        BY <1>2, <1>4
  <2>. HIDE DEF last
  <2>3. PICK n \in c.first..last : VerseId(b, c.chapter, n) \in Verses
        BY <2>1
  <2>4. n \in Nat /\ n < 1000 /\ c.first <= n /\ n <= last
        BY <1>2, <1>4, <2>2
  <2>5. VerseId(b, c.chapter, n) \in Meant(c)
    <3>. DEFINE v == VerseId(b, c.chapter, n)
    <3>1. v \in Verses /\ Book(v) = b /\ Chapter(v) = c.chapter /\ Num(v) = n
          BY <1>1, <1>2, <2>3, <2>4, PartsOfAnId
    <3>. HIDE DEF v
    <3>2. v \in Meant(c)
          BY <2>4, <3>1 DEF Meant, ChapterVerses, b, last
    <3>. QED  BY <3>2 DEF v
  <2>6. ASSUME NEW v \in Meant(c)
        PROVE  v \in Wanted(c)
    <3>1. /\ v \in Verses /\ Book(v) = b /\ Chapter(v) = c.chapter
          /\ c.first <= Num(v) /\ Num(v) <= last
          BY <1>4 DEF Meant, ChapterVerses, b, last
    <3>2. v \in Nat
          BY <3>1, BibleAssumption
    <3>3. VerseId(b, c.chapter, Num(v)) = v /\ Num(v) \in Nat
          BY <3>1, <3>2, IdOfItsParts
    <3>4. Num(v) \in c.first..last
          BY <1>2, <1>4, <2>2, <3>1, <3>3
    <3>. QED  BY <2>1, <3>3, <3>4
  <2>. QED  BY <2>5, <2>6
<1>. QED  BY <1>3, <1>4

\* The fallback lists what was sent, each passage by its reference.
LEMMA FallbackListsAll ==
    ASSUME NEW mode, NEW sent \in Seq(Wholes(mode))
    PROVE  ToSet(Fallback(sent)) = {ReferenceOf(ids) : ids \in ToSet(sent)}
<1>. DEFINE I == {i \in DOMAIN sent : sent[i] # <<>>}
            all == Pick(sent, I)
            key == [i \in DOMAIN all |-> all[i][1]]
            sorted == Sorted(all, key)
<1>1. I = DOMAIN sent
  <2>1. \A i \in DOMAIN sent : sent[i] \in Wholes(mode)
        OBVIOUS
  <2>. QED  BY <2>1 DEF Wholes
<1>2. all \in Seq(Wholes(mode)) /\ ToSet(all) = {sent[i] : i \in I}
      BY PickPicks
<1>3. ToSet(all) = ToSet(sent)
      BY <1>1, <1>2 DEF ToSet
<1>. HIDE DEF all
<1>4. key \in [DOMAIN all -> Int]
  <2>1. ASSUME NEW i \in DOMAIN all
        PROVE  all[i][1] \in Int
    <3>1. all[i] \in Wholes(mode)
          BY <1>2
    <3>2. all[i] \in Seq(Verses) /\ all[i] # <<>>
          BY <3>1 DEF Wholes, VersesIn
    <3>. DEFINE ids == all[i]
    <3>. HIDE DEF ids
    <3>3. ids \in Seq(Verses) /\ ids # <<>>
          BY <3>2 DEF ids
    <3>4. ids[1] \in Verses
          BY <3>3
    <3>5. ids[1] \in Nat
          BY <3>4, BibleAssumption
    <3>. QED  BY <3>5 DEF ids
  <2>. QED  BY <2>1
<1>. HIDE DEF key
<1>5. sorted \in Seq(Wholes(mode)) /\ ToSet(sorted) = ToSet(all)
      BY <1>2, <1>4, SortedIsOrdered
<1>6. Fallback(sent) = [k \in DOMAIN sorted |-> ReferenceOf(sorted[k])]
      BY DEF Fallback, all, key
<1>. HIDE DEF sorted
<1>7. ToSet(Fallback(sent)) = {ReferenceOf(sorted[k]) : k \in DOMAIN sorted}
      BY <1>6 DEF ToSet
<1>8. ToSet(sorted) = {sorted[k] : k \in DOMAIN sorted}
      BY DEF ToSet
<1>9. {ReferenceOf(sorted[k]) : k \in DOMAIN sorted} = {ReferenceOf(ids) : ids \in ToSet(sorted)}
      BY <1>8
<1>. QED  BY <1>3, <1>5, <1>7, <1>9

\* A passage has a first verse, and its verses are of the book of the first.
LEMMA WholeType ==
    ASSUME NEW mode, NEW s \in Wholes(mode)
    PROVE  /\ s \in Seq(Verses) /\ s # <<>>
           /\ 1 \in DOMAIN s
           /\ ToSet(s) \subseteq VersesIn(mode)
           /\ s[1] \in ToSet(s)
           /\ \A v \in ToSet(s) : CanonOf(v) = CanonOf(s[1])
<1>1. s \in Seq(VersesIn(mode)) /\ s # <<>> /\ OneChapter(s)
      BY DEF Wholes
<1>2. 1 \in DOMAIN s /\ \A i \in DOMAIN s : s[i] \in VersesIn(mode)
      BY <1>1
<1>3. ToSet(s) = {s[i] : i \in DOMAIN s}
      BY DEF ToSet
<1>4. s \in Seq(Verses)
  <2>1. \A i \in DOMAIN s : s[i] \in Verses
        BY <1>2 DEF VersesIn
  <2>. QED  BY <1>1, <2>1, ElementsType
<1>5. ASSUME NEW v \in ToSet(s)
      PROVE  CanonOf(v) = CanonOf(s[1])
  <2>1. Book(v) = Book(s[1])
        BY <1>1, <1>3 DEF OneChapter
  <2>. QED  BY <2>1, CanonIsOfTheBook
<1>. QED  BY <1>1, <1>2, <1>3, <1>4, <1>5

LEMMA AnswerIsSupported ==
    ASSUME NEW a, IsAnswer(a)
    PROVE  AnswerType(a) /\ Supported(a)
<1>1. PICK q \in Queries, mode \in Modes, step \in {"sent", "retry"} :
         IsAnswerTo(a, Asked(step, q, mode))
      BY DEF IsAnswer
<1>. DEFINE asked == Asked(step, q, mode)
            sent == Pack(asked.cut)
<1>2. PICK text \in Texts, fellBack \in BOOLEAN :
         /\ fellBack \/ Verdict(text, sent) = "ok"
         /\ a = Assemble(asked, text, fellBack)
      BY <1>1 DEF IsAnswerTo
<1>3. sent \in Seq(Wholes(mode)) /\ Len(sent) <= TopN + DeuteroSlice
      BY SentType
<1>4. asked.mode = mode
      BY AskedFields
<1>. DEFINE cites == IF fellBack THEN {} ELSE CitedTokens(text)
<1>5. /\ a.mode = mode
      /\ a.text = IF fellBack THEN NoText ELSE text
      /\ a.verdict = IF fellBack THEN "fallback" ELSE "ok"
      /\ a.cited = IF fellBack THEN {} ELSE CitedIds(text, sent)
      /\ a.sent = sent
  <2>. HIDE DEF asked
  <2>. QED  BY <1>2, <1>4 DEF Assemble
<1>6. a.fallback = IF fellBack THEN Fallback(sent) ELSE <<>>
  <2>. HIDE DEF asked
  <2>. QED  BY <1>2 DEF Assemble
<1>7. a.footer = \E n \in cites \cap DOMAIN sent : CanonOf(sent[n][1]) = "deutero"
  <2>. HIDE DEF asked
  <2>. QED  BY <1>2 DEF Assemble
<1>. HIDE DEF sent, asked
<1>8. \A i \in DOMAIN sent : sent[i] \in Wholes(mode)
      BY <1>3
<1>9. SentVerses(sent) \subseteq VersesIn(mode)
      BY <1>8, WholeType DEF SentVerses
<1>10. a.cited = UNION {ToSet(sent[n]) : n \in cites \cap DOMAIN sent}
      BY <1>5 DEF CitedIds
<1>11. a.cited \subseteq Verses
      BY <1>8, <1>10, WholeType DEF VersesIn
<1>12. AnswerType(a)
  <2>1. ASSUME NEW i \in DOMAIN a.sent
        PROVE  a.sent[i] # <<>> /\ ToSet(a.sent[i]) \subseteq Verses
        BY <1>5, <1>8, WholeType DEF VersesIn
  <2>. QED  BY <1>3, <1>5, <1>11, <2>1 DEF AnswerType
<1>13. ASSUME NEW c \in a.text
       PROVE  /\ c.kind = "token" => c.n \in DOMAIN a.sent
              /\ IsReference(c) => Meant(c) # {} /\ Meant(c) \subseteq SentVerses(a.sent)
  <2>1. ~fellBack /\ a.text = text
        BY <1>5 DEF NoText
  <2>2. Violations(text, sent) = {}
        BY <1>2, <2>1 DEF Verdict
  <2>3. ~Unsent(c, sent) /\ ~Unsupported(c, sent)
        BY <2>1, <2>2 DEF Violations
  <2>4. c.kind = "token" => c.n \in DOMAIN sent
        BY <2>3 DEF Unsent
  <2>5. ASSUME IsReference(c)
        PROVE  Meant(c) # {} /\ Meant(c) \subseteq SentVerses(sent)
    <3>1. Wanted(c) # {} /\ Wanted(c) \subseteq SentVerses(sent)
          BY <2>3, <2>5 DEF Unsupported
    <3>2. IsCitation(c)
          BY <2>1, AskedAssumption
    <3>3. Wanted(c) \subseteq Verses
          BY <1>9, <3>1 DEF VersesIn
    <3>. QED  BY <2>5, <3>1, <3>2, <3>3, MeantIsWanted
  <2>. QED  BY <1>5, <2>4, <2>5
<1>14. a.verdict = "fallback" => ToSet(a.fallback) = {ReferenceOf(ids) : ids \in ToSet(a.sent)}
       BY <1>3, <1>5, <1>6, FallbackListsAll
<1>15. a.mode = "66" => \A v \in SentVerses(a.sent) : Book(v) \notin Deutero
  <2>1. ASSUME mode = "66", NEW v \in VersesIn("66")
        PROVE  Book(v) \notin Deutero
        BY DEF VersesIn, CanonOk, CanonOf
  <2>. QED  BY <1>5, <1>9, <2>1
<1>16. a.footer <=> \E n \in CitedTokens(a.text) :
                      \E v \in ToSet(a.sent[n]) : Book(v) \in Deutero
  <2>1. ASSUME NEW n \in cites \cap DOMAIN sent
        PROVE  (CanonOf(sent[n][1]) = "deutero") <=> \E v \in ToSet(sent[n]) : Book(v) \in Deutero
    <3>1. sent[n] \in Wholes(mode)
          BY <1>8
    <3>2. sent[n][1] \in ToSet(sent[n]) /\ \A v \in ToSet(sent[n]) : CanonOf(v) = CanonOf(sent[n][1])
          BY <3>1, WholeType
    <3>3. \A v : Book(v) \in Deutero <=> CanonOf(v) = "deutero"
          BY DEF CanonOf
    <3>. QED  BY <3>2, <3>3
  <2>2. CitedTokens(a.text) = cites
    <3>1. CASE fellBack
      <4>1. a.text = {}
            BY <1>5, <3>1 DEF NoText
      <4>. QED  BY <3>1, <4>1 DEF CitedTokens
    <3>2. CASE ~fellBack
          BY <1>5, <3>2
    <3>. QED  BY <3>1, <3>2
  <2>3. CitedTokens(a.text) \subseteq DOMAIN a.sent
        BY <1>13 DEF CitedTokens
  <2>4. a.sent = sent
        BY <1>5
  <2>. HIDE DEF cites
  <2>. QED  BY <1>7, <2>1, <2>2, <2>3, <2>4
<1>. QED  BY <1>12, <1>13, <1>14, <1>15, <1>16 DEF Supported

\* While an answer waits to be saved it is one that was put together for a
\* question that was asked.
LEMMA WaitingIsAnAnswer ==
    ASSUME AskFits, ask.step = "answered"
    PROVE  IsAnswer(ask.answer)
<1>1. ~(ask = Idle)
      BY DEF Idle
<1>2. ASSUME NEW q, NEW mode, NEW step \in {"sent", "retry"}, ask = Asked(step, q, mode)
      PROVE  FALSE
  <2>1. ask.step = step
        BY <1>2, AskedFields
  <2>. QED  BY <2>1
<1>. QED  BY <1>1, <1>2 DEF AskFits

\* The types of everything the answers rest on: no more is sent than the limits
\* allow, no passage is empty, and the migration deletes what there is.
THEOREM EvidenceTypeCorrect == Spec => []EvidenceTypeOK
<1>1. HistoryInv /\ AnswersInv => EvidenceTypeOK
  <2>. SUFFICES ASSUME HistoryInv, AnswersInv
                PROVE  EvidenceTypeOK
    OBVIOUS
  <2>1. /\ version \in Nat \cup {NoVersion}
        /\ phase \in Phases
        /\ lastId \in 0..MaxId
        /\ clock \in 0..MaxAnswers
        /\ kills \in 0..MaxKills
        /\ DOMAIN promised \subseteq DOMAIN history
        BY DEF HistoryInv, VersionIsTrue, AnswersInv, CountsFit, PromisesFit
  <2>2. DOMAIN history \subseteq 1..MaxId
        BY <2>1, OldFilesAssumption DEF HistoryInv, IdsAreGiven
  <2>3. doomed \subseteq DOMAIN history
        BY DEF HistoryInv, DroppingFits, AnswersInv, CountsFit
  <2>4. ask.step \in {"idle", "sent", "retry", "answered"}
    <3>1. Idle.step = "idle" /\ \A a : Answered(a).step = "answered"
          BY DEF Idle, Answered
    <3>2. \A q, mode, step : Asked(step, q, mode).step = step
          BY AskedFields
    <3>. QED  BY <3>1, <3>2 DEF AnswersInv, AskFits
  <2>5. ask.step = "answered" => AnswerType(ask.answer)
        BY WaitingIsAnAnswer, AnswerIsSupported DEF AnswersInv
  <2>6. \A id \in DOMAIN promised : AnswerType(promised[id])
        BY AnswerIsSupported DEF AnswersInv, PromisesFit
  <2>. QED  BY <2>1, <2>2, <2>3, <2>4, <2>5, <2>6 DEF EvidenceTypeOK
<1>. QED  BY <1>1, AnswersInvHolds, PTL

\* Rules A and B: whatever the model writes, whatever is found, every answer
\* that waits to be saved or is kept rests on the passages that were sent.
THEOREM AnswersRestOnWhatWasSent == Spec => []NothingUnsentIsShown
<1>1. HistoryInv /\ AnswersInv => NothingUnsentIsShown
  <2>. SUFFICES ASSUME AnswersInv, NEW answer \in Answers
                PROVE  Supported(answer)
    BY DEF NothingUnsentIsShown
  <2>1. IsAnswer(answer)
        BY WaitingIsAnAnswer DEF AnswersInv, PromisesFit, Answers
  <2>. QED  BY <2>1, AnswerIsSupported
<1>. QED  BY <1>1, AnswersInvHolds, PTL

----------------------------------------------------------------------------
(* The Deuterocanon beside the 66 books.                                   *)

LEMMA SearchOfBothAdds ==
    ASSUME NEW q, IsQuery(q)
    PROVE  IsPrefix(Search(q, "66"), Search(q, "both"))
<1>1. PICK slice \in Seq(Hits("deutero-only")) : Search(q, "both") = Search(q, "66") \o slice
      BY BothAddsASlice
<1>. DEFINE base == Search(q, "66")
<1>2. base \in Seq(Hits("66"))
      BY SearchType
<1>. HIDE DEF base
<1>3. base \in Seq(Hits("both")) /\ slice \in Seq(Hits("both"))
  <2>1. Hits("66") \subseteq Hits("both") /\ Hits("deutero-only") \subseteq Hits("both")
        BY HitsOfBoth
  <2>. QED  BY <1>2, <2>1
<1>4. IsPrefix(base, base \o slice)
      BY <1>3, JoinedParts
<1>. QED  BY <1>1, <1>4 DEF base

\* Reading the Deuterocanon too takes nothing away: what is found and sent for the
\* 66 books comes first, unchanged, and what follows is of the Deuterocanon and
\* has its places.
THEOREM DeuterocanonOnlyAdds == Spec => []BothOnlyAdds
<1>1. HistoryInv /\ AnswersInv => BothOnlyAdds
  <2>. SUFFICES ASSUME AnswersInv, ask.step = "sent"
                PROVE  BothOnlyAdds
    BY DEF BothOnlyAdds
  <2>1. PICK q \in Queries, mode \in Modes, step \in {"sent", "retry"} : ask = Asked(step, q, mode)
    <3>1. ~(ask = Idle) /\ ~(ask = Answered(ask.answer))
          BY DEF Idle, Answered
    <3>. QED  BY <3>1 DEF AnswersInv, AskFits
  <2>2. ask.query = q /\ IsQuery(q)
        BY <2>1, AskedFields, AskedAssumption
  <2>. DEFINE ranges   == AsRanges(Search(q, "both"))
              sent66   == TopCut(AsRanges(Search(q, "66")), "66")
              sentBoth == TopCut(ranges, "both")
              added    == Take(OfCanon(ranges, "deutero"), DeuteroSlice)
  <2>3. /\ sentBoth = sent66 \o added
        /\ sent66 \in Seq(Passages("both")) /\ added \in Seq(Passages("both"))
        /\ \A p \in ToSet(added) : p.canon = "deutero"
        /\ Len(added) = AtMost(Len(OfCanon(ranges, "deutero")), DeuteroSlice)
        BY <2>2, BothSendsMore
  <2>. HIDE DEF sent66, added
  <2>4. /\ IsPrefix(sent66, sentBoth)
        /\ SubSeq(sentBoth, Len(sent66) + 1, Len(sentBoth)) = added
        BY <2>3, JoinedParts
  <2>. HIDE DEF sentBoth
  <2>5. IsPrefix(Search(q, "66"), Search(q, "both"))
        BY <2>2, SearchOfBothAdds
  <2>. QED  BY <2>2, <2>3, <2>4, <2>5 DEF BothOnlyAdds, sent66, sentBoth
<1>. QED  BY <1>1, AnswersInvHolds, PTL

----------------------------------------------------------------------------
(* Which passage a token names, and how an entry gives it back.            *)

\* What a search and its cut are for a question.
RangesFor(q, mode) == AsRanges(Search(q, mode))
CutFor(q, mode) == TopCut(RangesFor(q, mode), mode)

LEMMA RangesForType ==
    ASSUME NEW q \in Queries, NEW mode \in Modes
    PROVE  /\ RangesFor(q, mode) \in Seq(PassagesOf(Search(q, mode)))
           /\ Enumerates(RangesFor(q, mode), PassagesOf(Search(q, mode)), Better)
           /\ Enumerates(CutFor(q, mode), ToSet(CutFor(q, mode)), Better)
           /\ ToSet(CutFor(q, mode)) \subseteq ToSet(RangesFor(q, mode))
           /\ ToSet(RangesFor(q, mode)) = PassagesOf(Search(q, mode))
           /\ Pack(CutFor(q, mode)) \in Seq(Wholes(mode))
<1>1. IsQuery(q) /\ mode \in {"66", "both"}
      BY AskedAssumption DEF Modes
<1>2. Search(q, mode) \in Seq(Hits(mode))
      BY <1>1, SearchType
<1>3. Enumerates(RangesFor(q, mode), PassagesOf(Search(q, mode)), Better)
      BY <1>2, RangesEnumerate DEF RangesFor
<1>4. /\ Enumerates(CutFor(q, mode), ToSet(CutFor(q, mode)), Better)
      /\ ToSet(CutFor(q, mode)) \subseteq ToSet(RangesFor(q, mode))
      BY <1>1, CutEnumerates DEF RangesFor, CutFor
<1>5. Pack(CutFor(q, mode)) \in Seq(Wholes(mode))
  <2>1. Pack(Asked("sent", q, mode).cut) \in Seq(Wholes(mode))
        BY SentType
  <2>2. Asked("sent", q, mode).cut = CutFor(q, mode)
        BY AskedFields DEF CutFor, RangesFor
  <2>. QED  BY <2>1, <2>2
<1>. QED  BY <1>3, <1>4, <1>5 DEF Enumerates

\* Two passages found for a question that share a reference, or a verse, are one.
LEMMA FoundApart ==
    ASSUME NEW q \in Queries, NEW mode \in Modes,
           NEW p \in ToSet(RangesFor(q, mode)), NEW t \in ToSet(RangesFor(q, mode))
    PROVE  /\ ReferenceOf(p.ids) = ReferenceOf(t.ids) => p = t
           /\ ToSet(p.ids) \cap ToSet(t.ids) # {} => p = t
<1>1. Search(q, mode) \in Seq(Hits(mode))
      BY AskedAssumption, SearchType
<1>2. p \in PassagesOf(Search(q, mode)) /\ t \in PassagesOf(Search(q, mode))
      BY RangesForType
<1>. QED  BY <1>1, <1>2, PassagesApart

\* A passage sent has the token of its place in the cut, any other none.
LEMMA TokenNamesItsPlace ==
    ASSUME NEW q \in Queries, NEW mode \in Modes, NEW p \in ToSet(RangesFor(q, mode))
    PROVE  LET cut == CutFor(q, mode)
               n   == TokenOf(p, cut)
           IN \/ n = 0 /\ p \notin ToSet(cut)
              \/ n \in DOMAIN cut /\ cut[n] = p /\ n # 0
<1>. DEFINE cut == CutFor(q, mode)
            I == {i \in DOMAIN cut : ReferenceOf(cut[i].ids) = ReferenceOf(p.ids)}
<1>1. /\ Enumerates(cut, ToSet(cut), Better)
      /\ ToSet(cut) \subseteq ToSet(RangesFor(q, mode))
      BY RangesForType
<1>2. TokenOf(p, cut) = Max({0} \cup I)
      BY DEF TokenOf
<1>. HIDE DEF cut
<1>3. /\ \A i, j \in DOMAIN cut : cut[i] = cut[j] => i = j
      /\ DOMAIN cut = 1..Len(cut) /\ Len(cut) \in Nat
  <2>1. cut \in Seq(ToSet(cut))
        BY <1>1 DEF Enumerates
  <2>. QED  BY <1>1, <2>1, EnumeratesOnce
<1>4. \A i \in DOMAIN cut : i \in I <=> cut[i] = p
  <2>1. ASSUME NEW i \in DOMAIN cut, ReferenceOf(cut[i].ids) = ReferenceOf(p.ids)
        PROVE  cut[i] = p
    <3>1. cut[i] \in ToSet(RangesFor(q, mode))
          BY <1>1 DEF ToSet
    <3>. QED  BY <2>1, <3>1, FoundApart
  <2>. QED  BY <2>1
<1>5. CASE p \in ToSet(cut)
  <2>1. PICK i \in DOMAIN cut : cut[i] = p
        BY <1>5 DEF ToSet
  <2>2. \A j \in I : j = i
        BY <1>3, <1>4, <2>1
  <2>3. I = {i}
        BY <1>4, <2>1, <2>2
  <2>4. i \in Nat /\ i # 0
        BY <1>3
  <2>. HIDE DEF I
  <2>. DEFINE T == {0} \cup I
  <2>5. IsFiniteSet(T) /\ T \in SUBSET Int /\ T # {}
    <3>1. T \in SUBSET (0..i) /\ T # {}
          BY <2>3, <2>4
    <3>2. IsFiniteSet(0..i)
          BY <2>4, FS_Interval
    <3>. HIDE DEF T
    <3>3. IsFiniteSet(T)
          BY <3>1, <3>2, FS_Subset, Zenon
    <3>. QED  BY <3>1, <3>3
  <2>6. Max(T) \in T /\ \A y \in T : Max(T) >= y
        BY <2>5, MaxIsIn
  <2>7. T = {0, i}
        BY <2>3
  <2>8. Max(T) = i
    <3>. DEFINE top == Max(T)
    <3>1. top \in {0, i} /\ top >= i
          BY <2>6, <2>7
    <3>. HIDE DEF top
    <3>2. top = i
          BY <2>4, <3>1
    <3>. QED  BY <3>2 DEF top
  <2>. QED  BY <1>2, <2>1, <2>4, <2>8 DEF cut
<1>6. CASE p \notin ToSet(cut)
  <2>1. I = {}
        BY <1>4, <1>6 DEF ToSet
  <2>2. {0} \cup I = {0}
        BY <2>1
  <2>3. IsFiniteSet({0}) /\ {0} \in SUBSET Int
    <3>1. IsFiniteSet({0})
          BY FS_Singleton, Zenon
    <3>. QED  BY <3>1
  <2>4. Max({0}) \in {0}
        BY <2>3, MaxIsIn
  <2>. QED  BY <1>2, <1>6, <2>2, <2>4 DEF cut
<1>. QED  BY <1>5, <1>6

\* What an answer is put together from.
MadeFor(a, q, mode) ==
    LET ranges == RangesFor(q, mode)
        cut    == CutFor(q, mode)
        cites  == CitedTokens(a.text)
    IN /\ a.sent = Pack(cut)
       /\ a.cited = CitedIds(a.text, a.sent)
       /\ a.passages =
             [i \in DOMAIN ranges |->
                 [ids   |-> ranges[i].ids,
                  token |-> TokenOf(ranges[i], cut),
                  cited |-> TokenOf(ranges[i], cut) \in cites \ {0}]]
       /\ a.groups = GroupByTopic(ranges, MatchedTopics(q))

LEMMA PartsOfAnAnswer ==
    ASSUME NEW a, IsAnswer(a)
    PROVE  \E q \in Queries, mode \in Modes : MadeFor(a, q, mode)
<1>1. PICK q \in Queries, mode \in Modes, step \in {"sent", "retry"} :
         IsAnswerTo(a, Asked(step, q, mode))
      BY DEF IsAnswer
<1>. DEFINE asked == Asked(step, q, mode)
<1>2. PICK text \in Texts, fellBack \in BOOLEAN : a = Assemble(asked, text, fellBack)
      BY <1>1 DEF IsAnswerTo
<1>3. asked.ranges = RangesFor(q, mode) /\ asked.cut = CutFor(q, mode) /\ asked.query = q
      BY AskedFields DEF RangesFor, CutFor
<1>. HIDE DEF asked
<1>. DEFINE ranges == RangesFor(q, mode)
            cut == CutFor(q, mode)
            cites == IF fellBack THEN {} ELSE CitedTokens(text)
            panel == PassagesForDisplay(ranges, cut)
<1>4. /\ a.text = IF fellBack THEN NoText ELSE text
      /\ a.cited = IF fellBack THEN {} ELSE CitedIds(text, Pack(cut))
      /\ a.sent = Pack(cut)
      /\ a.groups = GroupByTopic(ranges, MatchedTopics(q))
      BY <1>2, <1>3 DEF Assemble
<1>5. a.passages = [i \in DOMAIN panel |-> [panel[i] EXCEPT !.cited = panel[i].token \in cites \ {0}]]
      BY <1>2, <1>3 DEF Assemble
<1>. HIDE DEF ranges, cut
<1>6. panel = [i \in DOMAIN ranges |->
                  [ids |-> ranges[i].ids, token |-> TokenOf(ranges[i], cut), cited |-> FALSE]]
      BY DEF PassagesForDisplay
<1>7. CitedTokens(NoText) = {} /\ CitedIds(NoText, Pack(cut)) = {}
  <2>1. CitedTokens(NoText) = {}
        BY DEF CitedTokens, NoText
  <2>. QED  BY <2>1 DEF CitedIds
<1>8. cites = CitedTokens(a.text) /\ a.cited = CitedIds(a.text, a.sent)
      BY <1>4, <1>7
<1>. HIDE DEF cites, panel
<1>9. a.passages = [i \in DOMAIN ranges |->
                       [ids   |-> ranges[i].ids,
                        token |-> TokenOf(ranges[i], cut),
                        cited |-> TokenOf(ranges[i], cut) \in cites \ {0}]]
  <2>1. DOMAIN panel = DOMAIN ranges
        BY <1>6
  <2>2. ASSUME NEW i \in DOMAIN ranges
        PROVE  [panel[i] EXCEPT !.cited = panel[i].token \in cites \ {0}]
                   = [ids   |-> ranges[i].ids,
                      token |-> TokenOf(ranges[i], cut),
                      cited |-> TokenOf(ranges[i], cut) \in cites \ {0}]
    <3>1. panel[i] = [ids |-> ranges[i].ids, token |-> TokenOf(ranges[i], cut), cited |-> FALSE]
          BY <1>6, <2>2
    <3>. QED  BY <3>1
  <2>. QED  BY <1>5, <2>1, <2>2
<1>10. MadeFor(a, q, mode)
       BY <1>4, <1>8, <1>9 DEF MadeFor, ranges, cut, cites
<1>. QED  BY <1>10

\* What is stored of an answer is what was sent, in its order: the ranking, less
\* what was not sent, is the cut.
LEMMA StoredIsSent ==
    ASSUME NEW a, IsAnswer(a)
    PROVE  [i \in DOMAIN SentPassages(a) |-> SentPassages(a)[i].ids] = a.sent
<1>1. PICK q \in Queries, mode \in Modes : MadeFor(a, q, mode)
      BY PartsOfAnAnswer
<1>. DEFINE ranges == RangesFor(q, mode)
            cut == CutFor(q, mode)
            panel == a.passages
            I == {i \in DOMAIN panel : panel[i].token # 0}
            places == Ascending(I)
<1>2. /\ Enumerates(ranges, PassagesOf(Search(q, mode)), Better)
      /\ Enumerates(cut, ToSet(cut), Better)
      /\ ToSet(cut) \subseteq ToSet(ranges)
      BY RangesForType
<1>3. ASSUME NEW p \in ToSet(ranges)
      PROVE  TokenOf(p, cut) # 0 <=> p \in ToSet(cut)
      BY TokenNamesItsPlace DEF ToSet
<1>4. /\ DOMAIN panel = DOMAIN ranges
      /\ \A i \in DOMAIN ranges : /\ panel[i].ids = ranges[i].ids
                                  /\ panel[i].token = TokenOf(ranges[i], cut)
      BY <1>1 DEF MadeFor
<1>5. a.sent = [i \in DOMAIN cut |-> cut[i].ids]
      BY <1>1 DEF MadeFor, Pack
<1>. HIDE DEF ranges, cut, panel
<1>6. \A i \in DOMAIN ranges : i \in I <=> ranges[i] \in ToSet(cut)
      BY <1>3, <1>4 DEF ToSet
<1>7. I \in SUBSET (DOMAIN ranges)
      BY <1>4
<1>. HIDE DEF I
<1>8. {ranges[i] : i \in I} = ToSet(cut)
  <2>1. ToSet(ranges) = {ranges[i] : i \in DOMAIN ranges}
        BY DEF ToSet
  <2>. QED  BY <1>2, <1>6, <1>7, <2>1
<1>9. Enumerates(Pick(ranges, I), ToSet(cut), Better)
      BY <1>2, <1>7, <1>8, PickEnumerates
<1>10. Pick(ranges, I) = cut
       BY <1>2, <1>9, OneOrder
<1>11. /\ Pick(ranges, I) = [k \in DOMAIN places |-> ranges[places[k]]]
       /\ Pick(panel, I) = [k \in DOMAIN places |-> panel[places[k]]]
       BY DEF Pick
<1>12. \A k \in DOMAIN places : places[k] \in I
  <2>1. ranges \in Seq(PassagesOf(Search(q, mode)))
        BY <1>2 DEF Enumerates
  <2>2. DOMAIN ranges = 1..Len(ranges) /\ Len(ranges) \in Nat
        BY <2>1
  <2>3. IsFiniteSet(I) /\ I \in SUBSET Int
    <3>1. IsFiniteSet(1..Len(ranges))
          BY <2>2, CountTo
    <3>. QED  BY <1>7, <2>2, <3>1, FS_Subset
  <2>. QED  BY <2>3, AscendingIsOrdered
<1>. HIDE DEF places
<1>13. DOMAIN cut = DOMAIN places /\ DOMAIN Pick(panel, I) = DOMAIN places
       BY <1>10, <1>11
<1>14. ASSUME NEW k \in DOMAIN places
       PROVE  Pick(panel, I)[k].ids = cut[k].ids
  <2>1. places[k] \in DOMAIN ranges
        BY <1>7, <1>12
  <2>2. Pick(panel, I)[k] = panel[places[k]] /\ cut[k] = ranges[places[k]]
        BY <1>10, <1>11
  <2>. QED  BY <1>4, <2>1, <2>2
<1>15. SentPassages(a) = Pick(panel, I)
       BY DEF SentPassages, panel, I
<1>16. [k \in DOMAIN Pick(panel, I) |-> Pick(panel, I)[k].ids] = [k \in DOMAIN cut |-> cut[k].ids]
       BY <1>13, <1>14
<1>. QED  BY <1>5, <1>15, <1>16

\* The passages of an entry of lists, numbered.
InOrder(sent, cited) ==
    [k \in DOMAIN sent |->
        [ids |-> sent[k], token |-> k, cited |-> ToSet(sent[k]) \cap cited # {}]]

\* How an entry of lists is read back.
LEMMA ReadBack ==
    ASSUME NEW mode, NEW sent \in Seq(Wholes(mode)), NEW entry,
           entry.stored = [form |-> "lists", sent |-> sent]
    PROVE  /\ Numbered(entry)
           /\ RenderPassages(entry) = InOrder(sent, entry.cited)
           /\ EntryPassages(entry) = StoredPassages(sent, entry.cited)
<1>. DEFINE read == ParseSent(entry.stored)
            I == {i \in DOMAIN sent : sent[i] # <<>>}
<1>1. read.groups = sent /\ read.resolvable = TRUE
      BY DEF ParseSent
<1>2. I = DOMAIN sent
  <2>1. \A i \in DOMAIN sent : sent[i] \in Wholes(mode)
        OBVIOUS
  <2>. QED  BY <2>1 DEF Wholes
<1>3. Len(sent) \in Nat /\ DOMAIN sent = 1..Len(sent)
      OBVIOUS
<1>4. NotEmpty(sent) = [i \in DOMAIN sent |-> i]
  <2>1. NotEmpty(sent) = Ascending(I)
        BY DEF NotEmpty
  <2>. QED  BY <1>2, <1>3, <2>1, AscendingTo
<1>5. Pick(sent, I) = sent
      BY <1>2, PickAll
<1>6. Numbered(entry)
      BY <1>1 DEF Numbered
<1>7. RenderPassages(entry) = Rendered(read, NotEmpty(read.groups), entry.cited)
      BY DEF RenderPassages, RenderSent
<1>8. EntryPassages(entry) = StoredPassages(Pick(sent, I), entry.cited)
      BY <1>1 DEF EntryPassages
<1>. HIDE DEF read, I
<1>9. RenderPassages(entry) = InOrder(sent, entry.cited)
      BY <1>1, <1>4, <1>7 DEF Rendered, InOrder
<1>. QED  BY <1>5, <1>6, <1>8, <1>9

\* The entry of an answer, read back.
LEMMA EntryOfAnAnswer ==
    ASSUME NEW answer, IsAnswer(answer), NEW entry, Keeps(entry, answer)
    PROVE  /\ \E mode \in Modes : answer.sent \in Seq(Wholes(mode))
           /\ Numbered(entry)
           /\ RenderPassages(entry) = InOrder(answer.sent, answer.cited)
           /\ EntryPassages(entry) = StoredPassages(answer.sent, answer.cited)
<1>1. PICK q \in Queries, mode \in Modes : MadeFor(answer, q, mode)
      BY PartsOfAnAnswer
<1>. DEFINE sent == answer.sent
<1>2. sent \in Seq(Wholes(mode))
      BY <1>1, RangesForType DEF MadeFor
<1>3. entry.stored = [form |-> "lists", sent |-> sent] /\ entry.cited = answer.cited
      BY StoredIsSent DEF Keeps
<1>. HIDE DEF sent
<1>4. /\ Numbered(entry)
      /\ RenderPassages(entry) = InOrder(sent, entry.cited)
      /\ EntryPassages(entry) = StoredPassages(sent, entry.cited)
      BY <1>2, <1>3, ReadBack
<1>5. \E m \in Modes : sent \in Seq(Wholes(m))
      BY <1>2
<1>. QED  BY <1>3, <1>4, <1>5 DEF sent

\* [P#] names the passage it was checked against, in an entry of any age: the
\* ranking, in which passages are stored, and the cut, in which tokens are numbered,
\* have one order.
THEOREM TokensKeepTheirPassage == Spec => []TokensNameWhatWasSent
<1>1. HistoryInv /\ AnswersInv => TokensNameWhatWasSent
  <2>. SUFFICES ASSUME AnswersInv, NEW id \in DOMAIN promised
                PROVE  LET sent     == promised[id].sent
                           reopened == RenderPassages(history[id])
                       IN /\ {<<p.token, p.ids>> : p \in ToSet(reopened)}
                                = {<<n, sent[n]>> : n \in DOMAIN sent}
                          /\ \A n \in DOMAIN sent : ResolveToken(history[id], n) = ReferenceOf(sent[n])
    BY DEF TokensNameWhatWasSent
  <2>. DEFINE sent == promised[id].sent
              cited == promised[id].cited
              entry == history[id]
              reopened == RenderPassages(entry)
              stored == EntryPassages(entry)
  <2>1. IsAnswer(promised[id]) /\ Keeps(history[id], promised[id])
        BY DEF AnswersInv, PromisesFit
  <2>2. /\ Numbered(entry)
        /\ reopened = InOrder(sent, cited)
        /\ stored = StoredPassages(sent, cited)
        BY <2>1, EntryOfAnAnswer
  <2>. HIDE DEF sent, cited, entry, reopened, stored
  <2>3. DOMAIN reopened = DOMAIN sent /\ \A k \in DOMAIN sent : reopened[k].token = k /\ reopened[k].ids = sent[k]
        BY <2>2 DEF InOrder
  <2>4. {<<p.token, p.ids>> : p \in ToSet(reopened)} = {<<n, sent[n]>> : n \in DOMAIN sent}
    <3>1. ToSet(reopened) = {reopened[k] : k \in DOMAIN sent}
          BY <2>3 DEF ToSet
    <3>. QED  BY <2>3, <3>1
  <2>5. ASSUME NEW n \in DOMAIN sent
        PROVE  ResolveToken(entry, n) = ReferenceOf(sent[n])
    <3>1. n \in DOMAIN stored /\ stored[n].ids = sent[n]
          BY <2>2 DEF StoredPassages
    <3>. QED  BY <2>2, <3>1 DEF ResolveToken, ReferenceAt, stored
  <2>. QED  BY <2>4, <2>5 DEF sent, entry, reopened
<1>. QED  BY <1>1, AnswersInvHolds, PTL

\* A passage is marked in the answer when the text cites its token, and shares a
\* verse with those cited only then: no two passages sent share one.
LEMMA CitedAreMarked ==
    ASSUME NEW a, IsAnswer(a)
    PROVE  LET cites == CitedTokens(a.text)
           IN /\ cites \subseteq DOMAIN a.sent
              /\ \A k \in DOMAIN a.sent : ToSet(a.sent[k]) \cap a.cited # {} <=> k \in cites
              /\ {p.ids : p \in {r \in ToSet(a.passages) : r.cited}} = {a.sent[n] : n \in cites}
<1>1. PICK q \in Queries, mode \in Modes : MadeFor(a, q, mode)
      BY PartsOfAnAnswer
<1>. DEFINE cites == CitedTokens(a.text)
            ranges == RangesFor(q, mode)
            cut == CutFor(q, mode)
            At(p) == TokenOf(p, cut)
            sent == a.sent
<1>2. cites \subseteq DOMAIN sent
  <2>1. \A c \in a.text : c.kind = "token" => c.n \in DOMAIN a.sent
        BY AnswerIsSupported DEF Supported
  <2>. QED  BY <2>1 DEF CitedTokens
<1>3. /\ Enumerates(cut, ToSet(cut), Better)
      /\ ToSet(cut) \subseteq ToSet(ranges)
      /\ sent = Pack(cut)
      /\ sent \in Seq(Wholes(mode))
      BY <1>1, RangesForType DEF MadeFor
<1>4. DOMAIN sent = DOMAIN cut /\ \A k \in DOMAIN cut : sent[k] = cut[k].ids
      BY <1>3 DEF Pack
<1>5. /\ \A i, j \in DOMAIN cut : cut[i] = cut[j] => i = j
      /\ DOMAIN cut = 1..Len(cut) /\ Len(cut) \in Nat
  <2>1. cut \in Seq(ToSet(cut))
        BY <1>3 DEF Enumerates
  <2>. QED  BY <1>3, <2>1, EnumeratesOnce
<1>6. a.cited = UNION {ToSet(sent[n]) : n \in cites}
  <2>1. a.cited = UNION {ToSet(sent[n]) : n \in cites \cap DOMAIN sent}
        BY <1>1 DEF MadeFor, CitedIds
  <2>2. cites \cap DOMAIN sent = cites
        BY <1>2
  <2>. QED  BY <2>1, <2>2
<1>7. \A p \in ToSet(ranges) :
         \/ At(p) = 0 /\ p \notin ToSet(cut)
         \/ At(p) \in DOMAIN cut /\ cut[At(p)] = p /\ At(p) # 0
      BY TokenNamesItsPlace
<1>8. a.passages = [i \in DOMAIN ranges |-> [ids   |-> ranges[i].ids,
                                             token |-> At(ranges[i]),
                                             cited |-> At(ranges[i]) \in cites \ {0}]]
      BY <1>1 DEF MadeFor
<1>9. \A p, t \in ToSet(ranges) : ToSet(p.ids) \cap ToSet(t.ids) # {} => p = t
      BY FoundApart
<1>. HIDE DEF cites, ranges, cut, sent, At
<1>10. \A k \in DOMAIN cut : cut[k] \in ToSet(ranges) /\ k # 0
  <2>1. ASSUME NEW k \in DOMAIN cut
        PROVE  cut[k] \in ToSet(ranges)
        BY <1>3, <2>1 DEF ToSet
  <2>. QED  BY <1>5, <2>1
<1>11. ASSUME NEW k \in DOMAIN sent
       PROVE  ToSet(sent[k]) \cap a.cited # {} <=> k \in cites
  <2>1. ASSUME k \in cites
        PROVE  ToSet(sent[k]) \cap a.cited # {}
    <3>1. sent[k] \in Wholes(mode)
          BY <1>3
    <3>2. sent[k][1] \in ToSet(sent[k])
          BY <3>1, WholeType
    <3>. QED  BY <1>6, <2>1, <3>2
  <2>2. ASSUME NEW v \in ToSet(sent[k]), v \in a.cited
        PROVE  k \in cites
    <3>1. PICK n \in cites : v \in ToSet(sent[n])
          BY <1>6, <2>2
    <3>2. k \in DOMAIN cut /\ n \in DOMAIN cut
          BY <1>2, <1>4
    <3>3. ToSet(cut[k].ids) \cap ToSet(cut[n].ids) # {}
          BY <1>4, <2>2, <3>1, <3>2
    <3>4. cut[k] = cut[n]
          BY <1>9, <1>10, <3>2, <3>3
    <3>5. k = n
          BY <1>5, <3>2, <3>4
    <3>. QED  BY <3>5
  <2>. QED  BY <2>1, <2>2
<1>12. {p.ids : p \in {r \in ToSet(a.passages) : r.cited}} = {sent[n] : n \in cites}
  <2>1. ASSUME NEW p \in ToSet(a.passages), p.cited
        PROVE  \E n \in cites : p.ids = sent[n]
    <3>1. PICK i \in DOMAIN ranges : p = [ids   |-> ranges[i].ids,
                                          token |-> At(ranges[i]),
                                          cited |-> At(ranges[i]) \in cites \ {0}]
          BY <1>8 DEF ToSet
    <3>2. At(ranges[i]) \in cites \ {0}
          BY <2>1, <3>1
    <3>3. ranges[i] \in ToSet(ranges)
          BY DEF ToSet
    <3>4. At(ranges[i]) \in DOMAIN cut /\ cut[At(ranges[i])] = ranges[i]
          BY <1>7, <3>2, <3>3
    <3>5. p.ids = sent[At(ranges[i])]
          BY <1>4, <3>1, <3>4
    <3>. QED  BY <3>2, <3>5
  <2>2. ASSUME NEW n \in cites
        PROVE  \E p \in ToSet(a.passages) : p.cited /\ p.ids = sent[n]
    <3>1. n \in DOMAIN cut /\ sent[n] = cut[n].ids /\ n # 0
          BY <1>2, <1>4, <1>10
    <3>2. cut[n] \in ToSet(ranges) /\ cut[n] \in ToSet(cut)
          BY <1>10, <3>1 DEF ToSet
    <3>3. PICK i \in DOMAIN ranges : ranges[i] = cut[n]
          BY <3>2 DEF ToSet
    <3>4. At(ranges[i]) = n
          BY <1>5, <1>7, <3>1, <3>2, <3>3
    <3>5. a.passages[i].ids = sent[n] /\ a.passages[i].cited
      <4>1. a.passages[i] = [ids   |-> ranges[i].ids,
                             token |-> At(ranges[i]),
                             cited |-> At(ranges[i]) \in cites \ {0}]
            BY <1>8
      <4>2. a.passages[i].ids = ranges[i].ids /\ a.passages[i].cited = (At(ranges[i]) \in cites \ {0})
            BY <4>1
      <4>3. At(ranges[i]) \in cites \ {0}
            BY <2>2, <3>1, <3>4
      <4>. QED  BY <3>1, <3>3, <4>2, <4>3
    <3>6. a.passages[i] \in ToSet(a.passages)
          BY <1>8 DEF ToSet
    <3>. QED  BY <3>5, <3>6
  <2>. QED  BY <2>1, <2>2
<1>. QED  BY <1>2, <1>11, <1>12 DEF cites, sent

\* The rows of a sheet are the passages of the entry.
LEMMA RowsOfASheet ==
    ASSUME NEW mode, NEW sent \in Seq(Wholes(mode)), NEW cited
    PROVE  LET stored == StoredPassages(sent, cited)
           IN ToSet(Rows(InBibleOrder(stored)))
                 = {[reference |-> ReferenceOf(p.ids), cited |-> p.cited, text |-> TextOf(p.ids)]
                        : p \in ToSet(stored)}
<1>. DEFINE stored == StoredPassages(sent, cited)
            key == [i \in DOMAIN stored |-> stored[i].ids[1]]
            sorted == Sorted(stored, key)
            Row(p) == [reference |-> ReferenceOf(p.ids), cited |-> p.cited, text |-> TextOf(p.ids)]
<1>1. Len(sent) \in Nat /\ DOMAIN sent = 1..Len(sent) /\ \A i \in DOMAIN sent : sent[i] \in Wholes(mode)
      OBVIOUS
<1>2. stored = [i \in 1..Len(sent) |-> [ids |-> sent[i], cited |-> ToSet(sent[i]) \cap cited # {}]]
      BY <1>1 DEF StoredPassages
<1>3. InBibleOrder(stored) = sorted
      BY DEF InBibleOrder
<1>. HIDE DEF stored
<1>4. stored \in Seq(ToSet(stored))
  <2>1. stored \in [1..Len(sent) -> ToSet(stored)]
        BY <1>2 DEF ToSet
  <2>. QED  BY <1>1, <2>1
<1>5. key \in [DOMAIN stored -> Int]
  <2>1. ASSUME NEW i \in DOMAIN stored
        PROVE  stored[i].ids[1] \in Int
    <3>1. stored[i].ids = sent[i] /\ sent[i] \in Wholes(mode)
          BY <1>1, <1>2
    <3>. DEFINE ids == sent[i]
    <3>2. ids \in Wholes(mode) /\ stored[i].ids = ids
          BY <3>1
    <3>. HIDE DEF ids
    <3>3. ids \in Seq(Verses) /\ 1 \in DOMAIN ids
          BY <3>2, WholeType
    <3>4. ids[1] \in Verses
          BY <3>3
    <3>5. ids[1] \in Nat
          BY <3>4, BibleAssumption
    <3>. QED  BY <3>2, <3>5
  <2>. QED  BY <2>1
<1>. HIDE DEF key
<1>6. ToSet(sorted) = ToSet(stored)
      BY <1>4, <1>5, SortedIsOrdered
<1>. HIDE DEF sorted
<1>7. Rows(sorted) = [k \in DOMAIN sorted |-> Row(sorted[k])]
      BY DEF Rows
<1>8. ToSet(Rows(sorted)) = {Row(p) : p \in ToSet(sorted)}
  <2>. HIDE DEF Row
  <2>. QED  BY <1>7 DEF ToSet
<1>. QED  BY <1>3, <1>6, <1>8 DEF stored

\* Marks survive: the reopened entry, which knows only which verses were cited, and
\* the sheet mark the passages the answer marked, because no two of them share a
\* verse and the verifier let through no token that was not sent.
THEOREM MarksAreKept == Spec => []CitedMarksSurvive
<1>1. AnswersInv => CitedMarksSurvive
  <2>. SUFFICES ASSUME AnswersInv, NEW id \in DOMAIN promised
                PROVE  LET answer == promised[id]
                           cited  == {answer.sent[n] : n \in CitedTokens(answer.text)}
                       IN /\ {p.ids : p \in {r \in ToSet(answer.passages) : r.cited}} = cited
                          /\ {p.ids : p \in {r \in ToSet(RenderPassages(history[id])) : r.cited}} = cited
                          /\ {p.reference : p \in {r \in ToSet(SheetRows(history[id])) : r.cited}}
                               = {ReferenceOf(ids) : ids \in cited}
    BY DEF CitedMarksSurvive
  <2>. DEFINE answer == promised[id]
              entry == history[id]
              sent == answer.sent
              cites == CitedTokens(answer.text)
              cited == {sent[n] : n \in cites}
              reopened == RenderPassages(entry)
              stored == EntryPassages(entry)
              rows == SheetRows(entry)
  <2>1. IsAnswer(answer) /\ Keeps(entry, answer)
        BY DEF AnswersInv, PromisesFit
  <2>2. /\ \E mode \in Modes : sent \in Seq(Wholes(mode))
        /\ reopened = InOrder(sent, answer.cited)
        /\ stored = StoredPassages(sent, answer.cited)
        BY <2>1, EntryOfAnAnswer
  <2>3. /\ cites \subseteq DOMAIN sent
        /\ \A k \in DOMAIN sent : ToSet(sent[k]) \cap answer.cited # {} <=> k \in cites
        /\ {p.ids : p \in {r \in ToSet(answer.passages) : r.cited}} = cited
        BY <2>1, CitedAreMarked
  <2>4. rows = Rows(InBibleOrder(stored))
        BY DEF SheetRows
  <2>. HIDE DEF answer, entry, sent, cites, reopened, stored, rows
  <2>5. {p.ids : p \in {r \in ToSet(reopened) : r.cited}} = cited
    <3>1. ASSUME NEW k \in DOMAIN sent
          PROVE  reopened[k].ids = sent[k] /\ (reopened[k].cited <=> k \in cites)
          BY <2>2, <2>3 DEF InOrder
    <3>2. DOMAIN reopened = DOMAIN sent
          BY <2>2 DEF InOrder
    <3>. QED  BY <2>3, <3>1, <3>2 DEF ToSet
  <2>6. {p.reference : p \in {r \in ToSet(rows) : r.cited}} = {ReferenceOf(ids) : ids \in cited}
    <3>1. ToSet(rows) = {[reference |-> ReferenceOf(p.ids), cited |-> p.cited, text |-> TextOf(p.ids)]
                            : p \in ToSet(stored)}
          BY <2>2, <2>4, RowsOfASheet
    <3>2. ASSUME NEW k \in DOMAIN sent
          PROVE  stored[k].ids = sent[k] /\ (stored[k].cited <=> k \in cites)
          BY <2>2, <2>3 DEF StoredPassages
    <3>3. DOMAIN stored = DOMAIN sent
          BY <2>2 DEF StoredPassages
    <3>4. {p.reference : p \in {r \in ToSet(rows) : r.cited}}
             = {ReferenceOf(p.ids) : p \in {r \in ToSet(stored) : r.cited}}
      <4>. DEFINE Row(p) == [reference |-> ReferenceOf(p.ids), cited |-> p.cited, text |-> TextOf(p.ids)]
      <4>1. ToSet(rows) = {Row(p) : p \in ToSet(stored)}
            BY <3>1
      <4>2. \A p : Row(p).reference = ReferenceOf(p.ids) /\ Row(p).cited = p.cited
            OBVIOUS
      <4>. HIDE DEF Row
      <4>. QED  BY <4>1, <4>2
    <3>5. {p.ids : p \in {r \in ToSet(stored) : r.cited}} = cited
          BY <2>3, <3>2, <3>3 DEF ToSet
    <3>6. {ReferenceOf(p.ids) : p \in {r \in ToSet(stored) : r.cited}}
             = {ReferenceOf(ids) : ids \in {p.ids : p \in {r \in ToSet(stored) : r.cited}}}
          OBVIOUS
    <3>. QED  BY <3>4, <3>5, <3>6
  <2>. QED  BY <2>3, <2>5, <2>6 DEF answer, entry, sent, cites, reopened, rows
<1>. QED  BY <1>1, AnswersInvHolds, PTL

----------------------------------------------------------------------------
(* The groups of an answer.                                                *)

\* The walk up the topics, at most sixteen steps of it, stays among topics.
LEMMA RootIsATopic ==
    ASSUME NEW t \in DOMAIN TopicVerses
    PROVE  TopicRoot(t) # NoTopic
<1>. DEFINE S == ({t} \cup {Parent[x] : x \in DOMAIN Parent}) \ {NoTopic}
            step == [p \in (1..16) \X S |-> Up(p[2])]
            at[n \in 0..16] == IF n = 0 THEN t ELSE Up(at[n - 1])
<1>1. t \in S
      BY AskedAssumption
<1>2. \A x \in S : Up(x) \in S
      BY DEF Up
<1>3. step \in [(1..16) \X S -> S]
      BY <1>2
<1>. HIDE DEF S
<1>4. \A n \in 1..16, x \in S : step[<<n, x>>] = Up(x)
      OBVIOUS
<1>. HIDE DEF step
<1>5. 16 \in Nat
      OBVIOUS
<1>6. PICK g \in [0..16 -> S] : g[0] = t /\ \A n \in 1..16 : g[n] = step[<<n, g[n - 1]>>]
  <2>. DEFINE m == 16
  <2>1. m \in Nat /\ step \in [(1..m) \X S -> S]
        BY <1>3, <1>5
  <2>. HIDE DEF m
  <2>2. PICK g \in [0..m -> S] : Iterated(g, t, m, step)
        BY <1>1, <2>1, Iterates, Zenon
  <2>. QED  BY <2>2 DEF Iterated, m
<1>7. ASSUME NEW n \in 0..16, n # 0
      PROVE  n \in 1..16 /\ n - 1 \in 0..16
      BY <1>7
<1>8. g = [n \in 0..16 |-> IF n = 0 THEN t ELSE Up(g[n - 1])]
      BY <1>4, <1>6, <1>7
<1>9. at = [n \in 0..16 |-> IF n = 0 THEN t ELSE Up(at[n - 1])]
      BY <1>8, Zenon DEF at
<1>10. TopicRoot(t) = at[16]
       BY DEF TopicRoot
<1>. HIDE DEF at
<1>. DEFINE E == {n \in 0..16 : at[n] \notin S}
<1>11. E = {}
  <2>1. SUFFICES ASSUME E # {}
                 PROVE  FALSE
        OBVIOUS
  <2>2. E \in SUBSET Nat
        OBVIOUS
  <2>3. PICK n \in E : \A k \in E : n <= k
        BY <2>1, <2>2, Least
  <2>4. at[n] = IF n = 0 THEN t ELSE Up(at[n - 1])
        BY <1>9
  <2>5. n # 0
        BY <1>1, <2>4
  <2>6. n - 1 \in 0..16 /\ ~(n <= n - 1)
        BY <1>7, <2>5
  <2>7. at[n - 1] \in S
        BY <2>3, <2>6
  <2>. QED  BY <1>2, <2>4, <2>5, <2>7
<1>12. 16 \in 0..16
       OBVIOUS
<1>. QED  BY <1>10, <1>11, <1>12 DEF S

Refs(passages) == {ReferenceOf(p.ids) : p \in ToSet(passages)}

\* The references of some passages, in the order of the Bible.
LEMMA RefsInOrderType ==
    ASSUME NEW mode, NEW passages \in Seq(Passages(mode))
    PROVE  /\ RefsInOrder(passages) \in Seq(Refs(passages))
           /\ ToSet(RefsInOrder(passages)) = Refs(passages)
           /\ IsInjective(passages)
              /\ (\A p, t \in ToSet(passages) : ReferenceOf(p.ids) = ReferenceOf(t.ids) => p = t)
                 => IsInjective(RefsInOrder(passages))
<1>. DEFINE key == [i \in DOMAIN passages |-> passages[i].ids[1]]
            sorted == Sorted(passages, key)
<1>1. DOMAIN passages = 1..Len(passages) /\ \A i \in DOMAIN passages : passages[i] \in Passages(mode)
      OBVIOUS
<1>2. key \in [DOMAIN passages -> Int]
  <2>1. ASSUME NEW i \in DOMAIN passages
        PROVE  passages[i].ids[1] \in Int
    <3>. DEFINE ids == passages[i].ids
    <3>1. ids \in Wholes(mode)
          BY <1>1 DEF Passages, Wholes
    <3>. HIDE DEF ids
    <3>2. ids \in Seq(Verses) /\ 1 \in DOMAIN ids
          BY <3>1, WholeType
    <3>3. ids[1] \in Verses
          BY <3>2
    <3>4. ids[1] \in Nat
          BY <3>3, BibleAssumption
    <3>. QED  BY <3>4 DEF ids
  <2>. QED  BY <2>1
<1>3. InBibleOrder(passages) = sorted
      BY DEF InBibleOrder
<1>. HIDE DEF key
<1>4. sorted \in Seq(Passages(mode)) /\ ToSet(sorted) = ToSet(passages)
      BY <1>2, SortedIsOrdered
<1>5. IsInjective(passages) => IsInjective(sorted)
      BY <1>2, SortedOnce
<1>. HIDE DEF sorted
<1>6. RefsInOrder(passages) = [k \in DOMAIN sorted |-> ReferenceOf(sorted[k].ids)]
      BY <1>3 DEF RefsInOrder
<1>7. ToSet(sorted) = {sorted[k] : k \in DOMAIN sorted}
      BY DEF ToSet
<1>8. ToSet(RefsInOrder(passages)) = Refs(passages)
  <2>1. ToSet(RefsInOrder(passages)) = {ReferenceOf(sorted[k].ids) : k \in DOMAIN sorted}
        BY <1>6 DEF ToSet
  <2>2. Refs(passages) = {ReferenceOf(p.ids) : p \in ToSet(sorted)}
        BY <1>4 DEF Refs
  <2>. QED  BY <1>7, <2>1, <2>2
<1>9. RefsInOrder(passages) \in Seq(Refs(passages))
  <2>1. DOMAIN sorted = 1..Len(sorted) /\ Len(sorted) \in Nat
        BY <1>4
  <2>2. RefsInOrder(passages) \in [1..Len(sorted) -> Refs(passages)]
    <3>1. \A k \in DOMAIN sorted : ReferenceOf(sorted[k].ids) \in Refs(passages)
          BY <1>4, <1>7 DEF Refs
    <3>. QED  BY <1>6, <2>1, <3>1
  <2>. QED  BY <2>1, <2>2
<1>10. ASSUME IsInjective(passages),
              \A p, t \in ToSet(passages) : ReferenceOf(p.ids) = ReferenceOf(t.ids) => p = t
       PROVE  IsInjective(RefsInOrder(passages))
  <2>1. ASSUME NEW i \in DOMAIN sorted, NEW j \in DOMAIN sorted,
               ReferenceOf(sorted[i].ids) = ReferenceOf(sorted[j].ids)
        PROVE  i = j
    <3>1. sorted[i] = sorted[j]
          BY <1>4, <1>7, <1>10, <2>1
    <3>. QED  BY <1>5, <1>10, <3>1 DEF IsInjective
  <2>. QED  BY <1>6, <2>1 DEF IsInjective
<1>. QED  BY <1>8, <1>9, <1>10

LEMMA UnclaimedType ==
    ASSUME NEW mode, NEW passages \in Seq(Passages(mode)), NEW groups
    PROVE  /\ Unclaimed(groups, passages) \in Seq(Refs(passages))
           /\ ToSet(Unclaimed(groups, passages)) = Refs(passages) \ Claimed(groups)
           /\ IsInjective(RefsInOrder(passages)) => IsInjective(Unclaimed(groups, passages))
<1>. DEFINE refs == RefsInOrder(passages)
            I == {k \in DOMAIN refs : refs[k] \notin Claimed(groups)}
<1>1. refs \in Seq(Refs(passages)) /\ ToSet(refs) = Refs(passages)
      BY RefsInOrderType
<1>2. Unclaimed(groups, passages) = Pick(refs, I)
      BY DEF Unclaimed
<1>. HIDE DEF refs
<1>3. Pick(refs, I) \in Seq(Refs(passages)) /\ ToSet(Pick(refs, I)) = {refs[k] : k \in I}
      BY <1>1, PickPicks
<1>4. {refs[k] : k \in I} = Refs(passages) \ Claimed(groups)
      BY <1>1 DEF ToSet
<1>5. IsInjective(refs) => IsInjective(Pick(refs, I))
  <2>1. ASSUME IsInjective(refs)
        PROVE  \A i, j \in I : refs[i] = refs[j] => i = j
        BY <2>1 DEF IsInjective
  <2>2. I \in SUBSET (DOMAIN refs)
        OBVIOUS
  <2>. HIDE DEF I
  <2>. QED  BY <1>1, <2>1, <2>2, PickOnce
<1>. QED  BY <1>2, <1>3, <1>4, <1>5 DEF refs

Roots == {TopicRoot(t) : t \in DOMAIN TopicVerses}

\* Groups of references out of R, with nothing in common.
Apart(groups, R) ==
    /\ groups \in Seq([root : Roots, refs : Seq(R)])
    /\ \A i \in DOMAIN groups : IsInjective(groups[i].refs)
    /\ \A i, j \in DOMAIN groups :
          i # j => /\ groups[i].root # groups[j].root
                   /\ ToSet(groups[i].refs) \cap ToSet(groups[j].refs) = {}

\* One more group, or more of one of them, leaves them apart.
LEMMA AddToKeeps ==
    ASSUME NEW R, NEW groups, Apart(groups, R), NEW root \in Roots,
           NEW mine \in Seq(R), IsInjective(mine), ToSet(mine) \cap Claimed(groups) = {}
    PROVE  Apart(AddTo(groups, root, mine), R)
<1>. DEFINE n == Len(groups)
            I == {i \in 1..n : groups[i].root = root}
            at == SelectInSeq(groups, LAMBDA g : g.root = root)
            G == [root : Roots, refs : Seq(R)]
<1>1. /\ groups \in Seq(G) /\ n \in Nat /\ DOMAIN groups = 1..n
      /\ \A i \in 1..n : groups[i] \in G
  <2>1. groups \in Seq(G)
        BY DEF Apart
  <2>. HIDE DEF G
  <2>. QED  BY <2>1
<1>2. /\ \A i \in 1..n : IsInjective(groups[i].refs)
      /\ \A i, j \in 1..n :
            i # j => /\ groups[i].root # groups[j].root
                     /\ ToSet(groups[i].refs) \cap ToSet(groups[j].refs) = {}
      BY <1>1 DEF Apart
<1>3. \A i \in 1..n : ToSet(mine) \cap ToSet(groups[i].refs) = {}
      BY <1>1 DEF Claimed
<1>4. at = IF I # {} THEN Min(I) ELSE 0
      BY DEF SelectInSeq
<1>5. AddTo(groups, root, mine) =
         IF mine = <<>> THEN groups
         ELSE IF at = 0 THEN Append(groups, [root |-> root, refs |-> mine])
         ELSE [groups EXCEPT ![at].refs = @ \o mine]
      BY DEF AddTo
<1>. HIDE DEF at
<1>6. CASE mine = <<>>
      BY <1>5, <1>6
<1>7. CASE mine # <<>> /\ I = {}
  <2>. DEFINE new == [root |-> root, refs |-> mine]
              all == Append(groups, new)
  <2>1. AddTo(groups, root, mine) = all
        BY <1>4, <1>5, <1>7
  <2>2. new \in G
        OBVIOUS
  <2>3. new.root = root /\ new.refs = mine
        OBVIOUS
  <2>. HIDE DEF new, G
  <2>4. /\ all \in Seq(G) /\ DOMAIN all = 1..(n + 1)
        /\ \A i \in 1..n : all[i] = groups[i]
        /\ all[n + 1] = new
        BY <1>1, <2>2
  <2>5. \A i \in 1..n : groups[i].root # root
        BY <1>7
  <2>6. ASSUME NEW i \in 1..(n + 1)
        PROVE  i \in 1..n \/ i = n + 1
        BY <1>1
  <2>. HIDE DEF all, n
  <2>7. \A i \in DOMAIN all : IsInjective(all[i].refs)
        BY <1>2, <2>3, <2>4, <2>6
  <2>8. ASSUME NEW i \in DOMAIN all, NEW j \in DOMAIN all, i # j
        PROVE  all[i].root # all[j].root /\ ToSet(all[i].refs) \cap ToSet(all[j].refs) = {}
    <3>1. CASE i \in 1..n /\ j \in 1..n
          BY <1>2, <2>4, <2>8, <3>1
    <3>2. CASE i \in 1..n /\ j = n + 1
          BY <1>3, <2>3, <2>4, <2>5, <3>2
    <3>3. CASE i = n + 1 /\ j \in 1..n
          BY <1>3, <2>3, <2>4, <2>5, <3>3
    <3>. QED  BY <2>4, <2>6, <2>8, <3>1, <3>2, <3>3
  <2>. QED  BY <2>1, <2>4, <2>7, <2>8 DEF Apart, G
<1>8. CASE mine # <<>> /\ I # {}
  <2>1. at \in I
    <3>1. I \in SUBSET Nat
          BY <1>1
    <3>. QED  BY <1>4, <1>8, <3>1, MinIsIn
  <2>2. at \in 1..n /\ at # 0 /\ groups[at].root = root
        BY <1>1, <2>1
  <2>. DEFINE more == groups[at].refs \o mine
              all == [groups EXCEPT ![at].refs = @ \o mine]
  <2>3. AddTo(groups, root, mine) = all
        BY <1>5, <1>8, <2>2
  <2>4. groups[at].refs \in Seq(R) /\ IsInjective(groups[at].refs)
        BY <1>1, <1>2, <2>2
  <2>5. /\ more \in Seq(R)
        /\ IsInjective(more)
        /\ ToSet(more) = ToSet(groups[at].refs) \cup ToSet(mine)
    <3>1. ToSet(groups[at].refs) \cap ToSet(mine) = {}
          BY <1>3, <2>2
    <3>2. IsInjective(more)
          BY <2>4, <3>1, JoinedOnce
    <3>3. ToSet(more) = ToSet(groups[at].refs) \cup ToSet(mine)
          BY <2>4, JoinedSet
    <3>. QED  BY <2>4, <3>2, <3>3
  <2>6. /\ DOMAIN all = 1..n
        /\ \A i \in 1..n : all[i].root = groups[i].root
        /\ \A i \in 1..n : i # at => all[i].refs = groups[i].refs
        /\ all[at].refs = more
    <3>1. \A i \in 1..n : all[i] = IF i = at THEN [groups[at] EXCEPT !.refs = more] ELSE groups[i]
          BY <1>1, <2>2
    <3>2. [groups[at] EXCEPT !.refs = more].root = groups[at].root
          BY <1>1, <2>2
    <3>3. [groups[at] EXCEPT !.refs = more].refs = more
          BY <1>1, <2>2
    <3>4. DOMAIN all = 1..n
          BY <1>1
    <3>. HIDE DEF all, more
    <3>. QED  BY <2>2, <3>1, <3>2, <3>3, <3>4
  <2>7. all \in Seq(G)
    <3>1. [groups[at] EXCEPT !.refs = more] \in G
          BY <1>1, <2>2, <2>5
    <3>2. all = [i \in 1..n |-> IF i = at THEN [groups[at] EXCEPT !.refs = more] ELSE groups[i]]
          BY <1>1, <2>2
    <3>. HIDE DEF all, more, G
    <3>3. all \in [1..n -> G]
          BY <1>1, <3>1, <3>2
    <3>. QED  BY <1>1, <3>3
  <2>. HIDE DEF all, more
  <2>8. \A i \in DOMAIN all : IsInjective(all[i].refs)
        BY <1>2, <2>5, <2>6
  <2>9. ASSUME NEW i \in DOMAIN all, NEW j \in DOMAIN all, i # j
        PROVE  all[i].root # all[j].root /\ ToSet(all[i].refs) \cap ToSet(all[j].refs) = {}
    <3>1. all[i].root # all[j].root
          BY <1>2, <2>6, <2>9
    <3>2. CASE i # at /\ j # at
          BY <1>2, <2>6, <2>9, <3>2
    <3>3. \A k \in 1..n : k # at => ToSet(more) \cap ToSet(groups[k].refs) = {}
      <4>1. ASSUME NEW k \in 1..n, k # at
            PROVE  /\ ToSet(groups[at].refs) \cap ToSet(groups[k].refs) = {}
                   /\ ToSet(groups[k].refs) \cap ToSet(mine) = {}
            BY <1>2, <1>3, <2>2, <4>1
      <4>. QED  BY <2>5, <4>1
    <3>4. i \in 1..n /\ j \in 1..n
          BY <2>6, <2>9
    <3>5. CASE i # at /\ j = at
      <4>1. all[i].refs = groups[i].refs /\ all[j].refs = more
            BY <2>6, <3>4, <3>5
      <4>2. ToSet(more) \cap ToSet(groups[i].refs) = {}
            BY <3>3, <3>4, <3>5
      <4>. QED  BY <3>1, <4>1, <4>2
    <3>6. CASE i = at /\ j # at
      <4>1. all[j].refs = groups[j].refs /\ all[i].refs = more
            BY <2>6, <3>4, <3>6
      <4>2. ToSet(more) \cap ToSet(groups[j].refs) = {}
            BY <3>3, <3>4, <3>6
      <4>. QED  BY <3>1, <4>1, <4>2
    <3>. QED  BY <2>9, <3>1, <3>2, <3>5, <3>6
  <2>. QED  BY <2>3, <2>7, <2>8, <2>9 DEF Apart, G
<1>. QED  BY <1>6, <1>7, <1>8

LEMMA ClaimKeeps ==
    ASSUME NEW mode, NEW ranges \in Seq(Passages(mode)), NEW t \in DOMAIN TopicVerses,
           NEW groups, Apart(groups, Refs(ranges))
    PROVE  Apart(Claim(groups, ranges, t), Refs(ranges))
<1>. DEFINE I == {i \in DOMAIN ranges : ToSet(ranges[i].ids) \cap ToSet(TopicVerses[t]) # {}}
            some == OfTopic(ranges, t)
            left == Unclaimed(groups, some)
            mine == Distinct(left)
<1>1. some \in Seq(Passages(mode)) /\ ToSet(some) = {ranges[i] : i \in I}
      BY PickPicks DEF OfTopic
<1>2. Refs(some) \subseteq Refs(ranges)
  <2>1. ToSet(some) \subseteq ToSet(ranges)
        BY <1>1 DEF ToSet
  <2>. QED  BY <2>1 DEF Refs
<1>. HIDE DEF some
<1>3. left \in Seq(Refs(some)) /\ ToSet(left) = Refs(some) \ Claimed(groups)
      BY <1>1, UnclaimedType
<1>. HIDE DEF left
<1>4. mine \in Seq(Refs(some)) /\ IsInjective(mine) /\ ToSet(mine) = ToSet(left)
      BY <1>3, DistinctType, DistinctOnce
<1>. HIDE DEF mine
<1>5. mine \in Seq(Refs(ranges))
  <2>1. \A i \in DOMAIN mine : mine[i] \in Refs(some)
        BY <1>4
  <2>2. \A i \in DOMAIN mine : mine[i] \in Refs(ranges)
        BY <1>2, <2>1
  <2>. QED  BY <1>4, <2>2, ElementsType
<1>6. TopicRoot(t) \in Roots
      BY DEF Roots
<1>7. Apart(AddTo(groups, TopicRoot(t), mine), Refs(ranges))
      BY <1>3, <1>4, <1>5, <1>6, AddToKeeps
<1>. QED  BY <1>7 DEF Claim, mine, left, some

\* All the topics claim in turn.
LEMMA GroupsAreClaimed ==
    ASSUME NEW mode, NEW ranges \in Seq(Passages(mode)), NEW topics \in Seq(DOMAIN TopicVerses)
    PROVE  \E all :
              /\ Apart(all, Refs(ranges))
              /\ GroupByTopic(ranges, topics) =
                    IF Unclaimed(all, ranges) = <<>> THEN all
                    ELSE Append(all, [root |-> NoTopic, refs |-> Unclaimed(all, ranges)])
<1>. DEFINE n == Len(topics)
            R == Refs(ranges)
            S == {g \in Seq([root : Roots, refs : Seq(R)]) : Apart(g, R)}
            step == [p \in (1..n) \X S |-> Claim(p[2], ranges, topics[p[1]])]
            groups[i \in 0..n] == IF i = 0 THEN <<>> ELSE Claim(groups[i - 1], ranges, topics[i])
<1>1. n \in Nat /\ \A i \in 1..n : topics[i] \in DOMAIN TopicVerses
      OBVIOUS
<1>2. <<>> \in S
  <2>1. Apart(<<>>, R)
        BY DEF Apart
  <2>. QED  BY <2>1
<1>3. ASSUME NEW g \in S, NEW i \in 1..n
      PROVE  Claim(g, ranges, topics[i]) \in S
  <2>1. Apart(Claim(g, ranges, topics[i]), R)
        BY <1>1, ClaimKeeps
  <2>. QED  BY <2>1 DEF Apart
<1>. HIDE DEF S
<1>4. step \in [(1..n) \X S -> S]
      BY <1>3
<1>5. \A i \in 1..n, g \in S : step[<<i, g>>] = Claim(g, ranges, topics[i])
      OBVIOUS
<1>. HIDE DEF step
<1>6. PICK g \in [0..n -> S] : g[0] = <<>> /\ \A i \in 1..n : g[i] = step[<<i, g[i - 1]>>]
  <2>1. PICK g \in [0..n -> S] : Iterated(g, <<>>, n, step)
        BY <1>1, <1>2, <1>4, Iterates, Zenon
  <2>. QED  BY <2>1 DEF Iterated
<1>7. ASSUME NEW i \in 0..n, i # 0
      PROVE  i \in 1..n /\ i - 1 \in 0..n /\ ~(i <= i - 1)
      BY <1>1, <1>7
<1>8. g = [i \in 0..n |-> IF i = 0 THEN <<>> ELSE Claim(g[i - 1], ranges, topics[i])]
      BY <1>5, <1>6, <1>7
<1>9. groups = [i \in 0..n |-> IF i = 0 THEN <<>> ELSE Claim(groups[i - 1], ranges, topics[i])]
      BY <1>8, Zenon DEF groups
<1>10. GroupByTopic(ranges, topics) =
          IF Unclaimed(groups[n], ranges) = <<>> THEN groups[n]
          ELSE Append(groups[n], [root |-> NoTopic, refs |-> Unclaimed(groups[n], ranges)])
       BY DEF GroupByTopic
<1>. HIDE DEF groups
<1>. DEFINE E == {i \in 0..n : groups[i] \notin S}
<1>11. E = {}
  <2>1. SUFFICES ASSUME E # {}
                 PROVE  FALSE
        OBVIOUS
  <2>2. E \in SUBSET Nat
        BY <1>1
  <2>3. PICK i \in E : \A k \in E : i <= k
        BY <2>1, <2>2, Least
  <2>4. groups[i] = IF i = 0 THEN <<>> ELSE Claim(groups[i - 1], ranges, topics[i])
        BY <1>9
  <2>5. i # 0
        BY <1>2, <2>4
  <2>6. i \in 1..n /\ i - 1 \in 0..n /\ ~(i <= i - 1)
        BY <1>7, <2>5
  <2>7. groups[i - 1] \in S
        BY <2>3, <2>6
  <2>. QED  BY <1>3, <2>4, <2>5, <2>6, <2>7
<1>12. n \in 0..n
       BY <1>1
<1>13. Apart(groups[n], R)
       BY <1>11, <1>12 DEF S
<1>. QED  BY <1>10, <1>13

\* The groups of an answer hold each of its passages once.
LEMMA GroupsOfAnAnswer ==
    ASSUME NEW a, IsAnswer(a)
    PROVE  LET groups == a.groups
               refs   == FlattenSeq([i \in DOMAIN groups |-> groups[i].refs])
           IN /\ IsInjective(refs)
              /\ ToSet(refs) = {ReferenceOf(p.ids) : p \in ToSet(a.passages)}
              /\ \A i, j \in DOMAIN groups : groups[i].root = groups[j].root => i = j
<1>1. PICK q \in Queries, mode \in Modes : MadeFor(a, q, mode)
      BY PartsOfAnAnswer
<1>. DEFINE ranges == RangesFor(q, mode)
            R == Refs(ranges)
            groups == a.groups
            parts == [i \in DOMAIN groups |-> groups[i].refs]
<1>2. ranges \in Seq(Passages(mode))
  <2>1. Asked("sent", q, mode).ranges \in Seq(Passages(mode))
        BY SentType
  <2>2. Asked("sent", q, mode).ranges = ranges
        BY AskedFields DEF RangesFor
  <2>. QED  BY <2>1, <2>2
<1>3. IsInjective(ranges)
  <2>1. ranges \in Seq(PassagesOf(Search(q, mode))) /\ Enumerates(ranges, PassagesOf(Search(q, mode)), Better)
        BY RangesForType
  <2>. HIDE DEF ranges
  <2>. QED  BY <2>1, EnumeratesOnce DEF IsInjective
<1>4. \A p, t \in ToSet(ranges) : ReferenceOf(p.ids) = ReferenceOf(t.ids) => p = t
      BY FoundApart
<1>5. MatchedTopics(q) \in Seq(DOMAIN TopicVerses)
      BY AskedAssumption, IndexAssumption, TakeTakes DEF IsQuery, MatchedTopics
<1>6. groups = GroupByTopic(ranges, MatchedTopics(q))
      BY <1>1 DEF MadeFor
<1>7. {ReferenceOf(p.ids) : p \in ToSet(a.passages)} = R
  <2>1. DOMAIN a.passages = DOMAIN ranges /\ \A i \in DOMAIN ranges : a.passages[i].ids = ranges[i].ids
        BY <1>1 DEF MadeFor
  <2>. HIDE DEF ranges
  <2>2. ToSet(a.passages) = {a.passages[i] : i \in DOMAIN ranges}
        BY <2>1 DEF ToSet
  <2>3. ToSet(ranges) = {ranges[i] : i \in DOMAIN ranges}
        BY DEF ToSet
  <2>4. {ReferenceOf(p.ids) : p \in ToSet(a.passages)} = {ReferenceOf(ranges[i].ids) : i \in DOMAIN ranges}
        BY <2>1, <2>2
  <2>5. R = {ReferenceOf(ranges[i].ids) : i \in DOMAIN ranges}
        BY <2>3 DEF Refs
  <2>. QED  BY <2>4, <2>5
<1>. HIDE DEF ranges, groups
<1>8. PICK all :
         /\ Apart(all, R)
         /\ groups = IF Unclaimed(all, ranges) = <<>> THEN all
                     ELSE Append(all, [root |-> NoTopic, refs |-> Unclaimed(all, ranges)])
      BY <1>2, <1>5, <1>6, GroupsAreClaimed
<1>. DEFINE rest == Unclaimed(all, ranges)
            last == [root |-> NoTopic, refs |-> rest]
            n == Len(all)
<1>9. rest \in Seq(R) /\ ToSet(rest) = R \ Claimed(all) /\ IsInjective(rest)
      BY <1>2, <1>3, <1>4, RefsInOrderType, UnclaimedType
<1>10. /\ all \in Seq([root : Roots, refs : Seq(R)]) /\ n \in Nat /\ DOMAIN all = 1..n
       /\ \A i \in 1..n : all[i].root \in Roots /\ all[i].refs \in Seq(R)
  <2>. DEFINE G == [root : Roots, refs : Seq(R)]
  <2>1. all \in Seq(G)
        BY <1>8 DEF Apart
  <2>. HIDE DEF G, R
  <2>2. n \in Nat /\ DOMAIN all = 1..n /\ \A i \in 1..n : all[i] \in G
        BY <2>1
  <2>3. \A g \in G : g.root \in Roots /\ g.refs \in Seq(R)
        BY DEF G
  <2>. QED  BY <2>1, <2>2, <2>3 DEF G
<1>11. /\ \A i \in 1..n : IsInjective(all[i].refs)
       /\ \A i, j \in 1..n :
             i # j => /\ all[i].root # all[j].root
                      /\ ToSet(all[i].refs) \cap ToSet(all[j].refs) = {}
       BY <1>8, <1>10 DEF Apart
<1>12. Claimed(all) = UNION {ToSet(all[i].refs) : i \in 1..n}
       BY <1>10 DEF Claimed
<1>13. Claimed(all) \subseteq R
  <2>1. \A i \in 1..n : ToSet(all[i].refs) \subseteq R
    <3>1. \A i \in 1..n : all[i].refs \in Seq(R)
          BY <1>10
    <3>2. ASSUME NEW s \in Seq(R)
          PROVE  ToSet(s) \subseteq R
          BY DEF ToSet
    <3>. QED  BY <3>1, <3>2
  <2>. QED  BY <1>12, <2>1
<1>14. NoTopic \notin Roots
       BY RootIsATopic DEF Roots
<1>. HIDE DEF rest, R
<1>15. \E m \in Nat :
          /\ DOMAIN groups = 1..m
          /\ \A i \in 1..m : groups[i].refs \in Seq(R) /\ IsInjective(groups[i].refs)
          /\ \A i, j \in 1..m : i # j => /\ groups[i].root # groups[j].root
                                         /\ ToSet(groups[i].refs) \cap ToSet(groups[j].refs) = {}
          /\ UNION {ToSet(groups[i].refs) : i \in 1..m} = R
  <2>1. CASE rest = <<>>
    <3>1. groups = all
          BY <1>8, <2>1 DEF rest
    <3>2. Claimed(all) = R
      <4>1. ToSet(rest) = {}
            BY <2>1 DEF ToSet
      <4>. QED  BY <1>9, <1>13, <4>1
    <3>. QED  BY <1>10, <1>11, <1>12, <3>1, <3>2
  <2>2. CASE rest # <<>>
    <3>1. groups = Append(all, last)
          BY <1>8, <2>2 DEF rest
    <3>2. last.root = NoTopic /\ last.refs = rest
          OBVIOUS
    <3>. HIDE DEF last
    <3>3. /\ DOMAIN groups = 1..(n + 1)
          /\ \A i \in 1..n : groups[i] = all[i]
          /\ groups[n + 1] = last
          BY <1>10, <3>1
    <3>4. \A i \in 1..(n + 1) : i \in 1..n \/ i = n + 1
          BY <1>10
    <3>5. 1..(n + 1) = (1..n) \cup {n + 1} /\ n + 1 \in Nat
          BY <1>10
    <3>. HIDE DEF n
    <3>6. \A i \in 1..n : ToSet(all[i].refs) \cap ToSet(rest) = {} /\ all[i].root # NoTopic
          BY <1>9, <1>10, <1>12, <1>14
    <3>7. \A i \in 1..(n + 1) : groups[i].refs \in Seq(R) /\ IsInjective(groups[i].refs)
          BY <1>9, <1>10, <1>11, <3>2, <3>3, <3>4
    <3>8. ASSUME NEW i \in 1..(n + 1), NEW j \in 1..(n + 1), i # j
          PROVE  /\ groups[i].root # groups[j].root
                 /\ ToSet(groups[i].refs) \cap ToSet(groups[j].refs) = {}
      <4>1. CASE i \in 1..n /\ j \in 1..n
            BY <1>11, <3>3, <3>8, <4>1
      <4>2. CASE i \in 1..n /\ j = n + 1
            BY <3>2, <3>3, <3>6, <4>2
      <4>3. CASE i = n + 1 /\ j \in 1..n
            BY <3>2, <3>3, <3>6, <4>3
      <4>. QED  BY <3>4, <3>8, <4>1, <4>2, <4>3
    <3>9. UNION {ToSet(groups[i].refs) : i \in 1..(n + 1)} = R
      <4>1. UNION {ToSet(groups[i].refs) : i \in 1..(n + 1)}
               = (UNION {ToSet(groups[i].refs) : i \in 1..n}) \cup ToSet(groups[n + 1].refs)
            BY <3>5
      <4>2. UNION {ToSet(groups[i].refs) : i \in 1..n} = Claimed(all)
            BY <1>12, <3>3
      <4>. QED  BY <1>9, <1>13, <3>2, <3>3, <4>1, <4>2
    <3>. QED  BY <3>3, <3>5, <3>7, <3>8, <3>9
  <2>. QED  BY <2>1, <2>2
<1>16. parts \in Seq(Seq(R)) /\ DOMAIN parts = DOMAIN groups
  <2>1. PICK m \in Nat : DOMAIN groups = 1..m /\ \A i \in 1..m : groups[i].refs \in Seq(R)
        BY <1>15
  <2>2. parts \in [1..m -> Seq(R)]
        BY <2>1
  <2>. QED  BY <2>2
<1>17. /\ \A i \in DOMAIN parts : IsInjective(parts[i])
       /\ \A i, j \in DOMAIN parts : i # j => ToSet(parts[i]) \cap ToSet(parts[j]) = {}
       /\ UNION {ToSet(parts[i]) : i \in DOMAIN parts} = R
       /\ \A i, j \in DOMAIN groups : groups[i].root = groups[j].root => i = j
       BY <1>15
<1>. HIDE DEF parts
<1>18. IsInjective(FlattenSeq(parts)) /\ ToSet(FlattenSeq(parts)) = R
       BY <1>16, <1>17, FlattenOnce
<1>. QED  BY <1>7, <1>17, <1>18 DEF parts, groups

\* Every passage of an answer is under exactly one heading, and no heading is there
\* twice, whatever topics were matched and however they hang together.
THEOREM GroupsArePartitions == Spec => []GroupsPartitionThePassages
<1>1. AnswersInv => GroupsPartitionThePassages
  <2>. SUFFICES ASSUME AnswersInv, NEW answer \in Answers
                PROVE  LET groups == answer.groups
                           refs   == FlattenSeq([i \in DOMAIN groups |-> groups[i].refs])
                       IN /\ IsInjective(refs)
                          /\ ToSet(refs) = {ReferenceOf(p.ids) : p \in ToSet(answer.passages)}
                          /\ \A i, j \in DOMAIN groups : groups[i].root = groups[j].root => i = j
       BY DEF GroupsPartitionThePassages
  <2>1. IsAnswer(answer)
        BY WaitingIsAnAnswer DEF Answers, AnswersInv, PromisesFit
  <2>. QED  BY <2>1, GroupsOfAnAnswer
<1>. QED  BY <1>1, AnswersInvHolds, PTL

----------------------------------------------------------------------------
(* Paging through the Bible.                                               *)

\* A chapter of a book is one of those that are counted, and each of those has
\* a verse.
LEMMA ChaptersOfABook ==
    ASSUME NEW b \in Books
    PROVE  /\ ChapterCount(b) \in Nat \ {0}
           /\ \A c \in 1..ChapterCount(b) : ChapterVerses(b, c) # {}
           /\ \A c : \A v \in ChapterVerses(b, c) : c \in 1..ChapterCount(b)
<1>. DEFINE C == {Chapter(v) : v \in {w \in Verses : Book(w) = b}}
            S == {0} \cup C
            n == ChapterCount(b)
<1>1. PICK top \in Nat : top = 999
      BY SMT
<1>2. ASSUME NEW v \in Verses
      PROVE  v \in Nat /\ Chapter(v) \in Nat /\ Chapter(v) >= 1 /\ Chapter(v) \in 1..top
  <2>1. v \in Nat
        BY BibleAssumption
  <2>2. Chapter(v) \in Nat /\ Chapter(v) < 1000
        BY <2>1, IdOfItsParts
  <2>3. Chapter(v) >= 1
        BY ChaptersAssumption
  <2>. DEFINE c == Chapter(v)
  <2>. HIDE DEF c
  <2>4. c \in Nat /\ c < 1000 /\ c >= 1 => c \in 1..top
        BY <1>1, SMT
  <2>. QED  BY <2>1, <2>2, <2>3, <2>4 DEF c
<1>3. C \in SUBSET (1..top)
      BY <1>2
<1>4. IsFiniteSet(S) /\ S \in SUBSET Int
  <2>. HIDE DEF C
  <2>1. IsFiniteSet(1..top)
        BY CountTo
  <2>2. IsFiniteSet(C)
        BY <1>3, <2>1, FS_Subset, Zenon
  <2>3. IsFiniteSet(C \cup {0})
        BY <2>2, FS_AddElement, Zenon
  <2>4. S = C \cup {0}
        OBVIOUS
  <2>5. \A x \in C : x \in Int
        BY <1>3
  <2>. QED  BY <2>3, <2>4, <2>5
<1>5. n \in S /\ \A y \in S : n >= y
  <2>1. n = Max(S)
        BY DEF ChapterCount
  <2>. HIDE DEF n, S
  <2>2. S # {}
        BY DEF S
  <2>. QED  BY <1>4, <2>1, <2>2, MaxIsIn
<1>6. PICK w \in ChapterVerses(b, 1) : TRUE
      BY ChaptersAssumption
<1>7. w \in Verses /\ Book(w) = b /\ Chapter(w) = 1
      BY <1>6 DEF ChapterVerses
<1>8. 1 \in C
      BY <1>7
<1>. HIDE DEF n
<1>9. n \in C /\ n >= 1
      BY <1>5, <1>8
<1>10. PICK v \in Verses : Book(v) = b /\ Chapter(v) = n
      BY <1>9
<1>11. n \in Nat \ {0} /\ \A c \in 1..n : ChapterVerses(b, c) # {}
      BY <1>2, <1>9, <1>10, ChaptersAssumption
<1>12. ASSUME NEW c, NEW u \in ChapterVerses(b, c)
       PROVE  c \in 1..n
  <2>1. u \in Verses /\ Book(u) = b /\ Chapter(u) = c
        BY <1>12 DEF ChapterVerses
  <2>2. c \in C
        BY <2>1
  <2>3. c \in Nat /\ c >= 1 /\ n >= c
        BY <1>2, <1>5, <2>1, <2>2
  <2>. QED  BY <1>11, <2>3
<1>. QED  BY <1>11, <1>12 DEF n

\* The book next to b is one that is read, and none that is read lies between.
LEMMA NextBookIsNext ==
    ASSUME NEW b \in Books, NEW step \in {-1, 1}, NEW within,
           BooksBeyond(b, step, within) # {}
    PROVE  LET next == NextBook(b, step, within)
           IN /\ next \in BooksBeyond(b, step, within)
              /\ \A x \in BooksBeyond(b, step, within) :
                    IF step > 0 THEN next <= x ELSE next >= x
<1>. DEFINE S == BooksBeyond(b, step, within)
<1>1. S \subseteq Books
      BY DEF BooksBeyond
<1>2. IsFiniteSet(S) /\ S \in SUBSET Nat /\ S \in SUBSET Int
  <2>. HIDE DEF S
  <2>1. IsFiniteSet(S)
        BY <1>1, BibleAssumption, FS_Subset, Zenon
  <2>2. \A x \in S : x \in Nat
        BY <1>1, BibleAssumption
  <2>. QED  BY <2>1, <2>2
<1>. HIDE DEF S
<1>3. CASE step = 1
  <2>1. Min(S) \in S /\ \A x \in S : Min(S) <= x
        BY <1>2, MinIsIn DEF S
  <2>2. NextBook(b, step, within) = Min(S)
        BY <1>3 DEF NextBook, S
  <2>. QED  BY <1>3, <2>1, <2>2 DEF S
<1>4. CASE step = -1
  <2>1. Max(S) \in S /\ \A x \in S : Max(S) >= x
        BY <1>2, MaxIsIn DEF S
  <2>2. NextBook(b, step, within) = Max(S)
        BY <1>4 DEF NextBook, S
  <2>. QED  BY <1>4, <2>1, <2>2 DEF S
<1>. QED  BY <1>3, <1>4

\* And from there the next book the other way is b.
LEMMA BooksTurnBack ==
    ASSUME NEW b \in Books, NEW step \in {-1, 1}, NEW within,
           Readable(b, within), BooksBeyond(b, step, within) # {}
    PROVE  LET next == NextBook(b, step, within)
           IN /\ next \in Books /\ Readable(next, within)
              /\ BooksBeyond(next, -step, within) # {}
              /\ NextBook(next, -step, within) = b
<1>. DEFINE next == NextBook(b, step, within)
            back == NextBook(next, -step, within)
<1>1. /\ next \in BooksBeyond(b, step, within)
      /\ \A x \in BooksBeyond(b, step, within) : IF step > 0 THEN next <= x ELSE next >= x
      BY NextBookIsNext
<1>. HIDE DEF next
<1>2. /\ next \in Books /\ Readable(next, within)
      /\ IF step > 0 THEN next > b ELSE next < b
      BY <1>1 DEF BooksBeyond
<1>3. b \in Nat /\ next \in Nat /\ Books \subseteq Nat
      BY <1>2, BibleAssumption
<1>4. b \in BooksBeyond(next, -step, within)
      BY <1>2, <1>3 DEF BooksBeyond
<1>5. -step \in {-1, 1}
      OBVIOUS
<1>6. /\ back \in BooksBeyond(next, -step, within)
      /\ \A x \in BooksBeyond(next, -step, within) : IF -step > 0 THEN back <= x ELSE back >= x
      BY <1>2, <1>4, <1>5, NextBookIsNext
<1>. HIDE DEF back
<1>7. /\ back \in Books /\ Readable(back, within) /\ back \in Nat
      /\ IF -step > 0 THEN back > next ELSE back < next
      BY <1>3, <1>6 DEF BooksBeyond
<1>8. CASE step = 1
  <2>1. back >= b
        BY <1>4, <1>6, <1>8
  <2>2. ~(back > b)
    <3>1. ASSUME back > b
          PROVE  back \in BooksBeyond(b, step, within)
          BY <1>7, <1>8, <3>1 DEF BooksBeyond
    <3>. QED  BY <1>1, <1>3, <1>7, <1>8, <3>1
  <2>. QED  BY <1>2, <1>3, <1>4, <1>7, <2>1, <2>2 DEF next, back
<1>9. CASE step = -1
  <2>1. back <= b
        BY <1>3, <1>4, <1>6, <1>7, <1>9
  <2>2. ~(back < b)
    <3>1. ASSUME back < b
          PROVE  back \in BooksBeyond(b, step, within)
          BY <1>7, <1>9, <3>1 DEF BooksBeyond
    <3>. QED  BY <1>1, <1>3, <1>7, <1>9, <3>1
  <2>. QED  BY <1>2, <1>3, <1>4, <1>7, <2>1, <2>2 DEF next, back
<1>. QED  BY <1>8, <1>9

\* A step from a chapter there is: it leads to a chapter there is, in this book
\* or in one that is read, and a step back returns.  There is no step only at
\* the end of what is read.
TurnsBack(b, c, step, within) ==
    LET to == StepChapter(b, c, step, within)
    IN IF to # NoChapter
       THEN /\ ChapterVerses(to[1], to[2]) # {}
            /\ Readable(to[1], within) \/ to[1] = b
            /\ StepChapter(to[1], to[2], -step, within) = <<b, c>>
       ELSE Readable(b, within) =>
               \A v \in Verses, w \in ChapterVerses(b, c) :
                  ~(Readable(Book(v), within) /\ Further(v, w, step) /\ <<Book(v), Chapter(v)>> # <<b, c>>)

LEMMA StepsTurnBack ==
    ASSUME NEW b, NEW c, ChapterVerses(b, c) # {}, NEW step \in {-1, 1}, NEW within
    PROVE  TurnsBack(b, c, step, within)
<1>. DEFINE n == ChapterCount(b)
            to == StepChapter(b, c, step, within)
<1>1. b \in Books
  <2>1. PICK v \in ChapterVerses(b, c) : TRUE
        OBVIOUS
  <2>2. v \in Verses /\ Book(v) = b
        BY <2>1 DEF ChapterVerses
  <2>. QED  BY <2>2, ChaptersAssumption
<1>2. /\ n \in Nat \ {0}
      /\ \A d \in 1..n : ChapterVerses(b, d) # {}
      /\ c \in 1..n
      BY <1>1, ChaptersOfABook
<1>. HIDE DEF n
<1>3. CASE c + step \in 1..n
  <2>1. to = <<b, c + step>>
        BY <1>3 DEF StepChapter, n
  <2>2. to # NoChapter /\ to[1] = b /\ to[2] = c + step
        BY <1>3, <2>1 DEF NoChapter
  <2>3. ChapterVerses(b, c + step) # {}
        BY <1>2, <1>3
  <2>4. StepChapter(b, c + step, -step, within) = <<b, c>>
    <3>1. (c + step) + -step = c
          BY <1>2
    <3>. QED  BY <1>2, <3>1, Zenon DEF StepChapter, n
  <2>. HIDE DEF to
  <2>. QED  BY <2>2, <2>3, <2>4 DEF TurnsBack, to
<1>4. CASE c + step \notin 1..n
  <2>1. c = IF step > 0 THEN n ELSE 1
        BY <1>2, <1>4
  <2>2. to = IntoNextBook(b, step, within)
        BY <1>4 DEF StepChapter, n
  <2>3. CASE ~Readable(b, within)
    <3>1. to = NoChapter
          BY <2>2, <2>3 DEF IntoNextBook
    <3>. QED  BY <2>3, <3>1 DEF TurnsBack
  <2>4. CASE Readable(b, within) /\ BooksBeyond(b, step, within) = {}
    <3>1. to = NoChapter
          BY <2>2, <2>4 DEF IntoNextBook
    <3>2. ASSUME NEW v \in Verses, NEW w \in ChapterVerses(b, c),
                 Readable(Book(v), within), Further(v, w, step)
          PROVE  <<Book(v), Chapter(v)>> = <<b, c>>
      <4>1. w \in Verses /\ Book(w) = b /\ Chapter(w) = c
            BY <3>2 DEF ChapterVerses
      <4>2. Book(v) \in Books /\ Book(v) \in Nat /\ b \in Nat
            BY <1>1, BibleAssumption, ChaptersAssumption
      <4>3. ~(IF step > 0 THEN Book(v) > b ELSE Book(v) < b)
            BY <2>4, <3>2, <4>2 DEF BooksBeyond
      <4>4. CASE step = 1
        <5>1. w < v
              BY <3>2, <4>1, <4>4, BibleAssumption DEF Further
        <5>2. Book(w) <= Book(v) /\ (Book(w) = Book(v) => Chapter(w) <= Chapter(v))
              BY <4>1, <5>1, IdsAscend
        <5>3. Book(v) = b
              BY <4>1, <4>2, <4>3, <4>4, <5>2
        <5>4. Chapter(v) \in 1..n
              BY <1>1, <5>3, ChaptersOfABook DEF ChapterVerses, n
        <5>5. Chapter(v) = c
              BY <1>2, <2>1, <4>1, <4>4, <5>2, <5>3, <5>4
        <5>. QED  BY <5>3, <5>5
      <4>5. CASE step = -1
        <5>1. v < w
              BY <3>2, <4>1, <4>5, BibleAssumption DEF Further
        <5>2. Book(v) <= Book(w) /\ (Book(v) = Book(w) => Chapter(v) <= Chapter(w))
              BY <4>1, <5>1, IdsAscend
        <5>3. Book(v) = b
              BY <4>1, <4>2, <4>3, <4>5, <5>2
        <5>4. Chapter(v) \in 1..n
              BY <1>1, <5>3, ChaptersOfABook DEF ChapterVerses, n
        <5>5. Chapter(v) = c
              BY <1>2, <2>1, <4>1, <4>5, <5>2, <5>3, <5>4
        <5>. QED  BY <5>3, <5>5
      <4>. QED  BY <4>4, <4>5
    <3>. QED  BY <3>1, <3>2 DEF TurnsBack
  <2>5. CASE Readable(b, within) /\ BooksBeyond(b, step, within) # {}
    <3>. DEFINE next == NextBook(b, step, within)
                m == ChapterCount(next)
                d == IF step > 0 THEN 1 ELSE m
    <3>1. /\ next \in Books /\ Readable(next, within)
          /\ BooksBeyond(next, -step, within) # {}
          /\ NextBook(next, -step, within) = b
          BY <1>1, <2>5, BooksTurnBack
    <3>2. to = IF m = 0 THEN NoChapter ELSE <<next, d>>
          BY <2>2, <2>5, Zenon DEF IntoNextBook
    <3>. HIDE DEF next
    <3>3. m \in Nat \ {0} /\ \A e \in 1..m : ChapterVerses(next, e) # {}
          BY <3>1, ChaptersOfABook
    <3>. HIDE DEF m, to
    <3>4. d \in 1..m /\ d + -step \notin 1..m
          BY <3>3
    <3>5. to = <<next, d>> /\ to # NoChapter
          BY <3>2, <3>3, <3>4 DEF NoChapter
    <3>6. StepChapter(next, d, -step, within) = IntoNextBook(next, -step, within)
          BY <3>4, Zenon DEF StepChapter, m
    <3>7. IntoNextBook(next, -step, within) = <<b, IF -step > 0 THEN 1 ELSE n>>
      <4>1. n # 0
            BY <1>2
      <4>. QED  BY <3>1, <4>1, Zenon DEF IntoNextBook, n
    <3>8. (IF -step > 0 THEN 1 ELSE n) = c
          BY <2>1
    <3>9. StepChapter(next, d, -step, within) = <<b, c>>
          BY <3>6, <3>7, <3>8
    <3>10. ChapterVerses(next, d) # {}
           BY <3>3, <3>4
    <3>. HIDE DEF d
    <3>11. to[1] = next /\ to[2] = d
           BY <3>5
    <3>. QED  BY <3>1, <3>5, <3>9, <3>10, <3>11 DEF TurnsBack, to
  <2>. QED  BY <2>3, <2>4, <2>5
<1>. QED  BY <1>3, <1>4

\* What is open is a chapter there is, with its ways on as they were found.
PageFits ==
    page # NoPage =>
        \E b, c, within :
            /\ ChapterVerses(b, c) # {}
            /\ page = Page(b, c, within)

LEMMA PageFitsNext ==
    ASSUME PageFits, [Next]_vars
    PROVE  PageFits'
<1>1. CASE UNCHANGED page \/ page' = NoPage
      BY <1>1 DEF PageFits
<1>2. ASSUME NEW within \in {"66", "both"}, OpensAChapter(within)
      PROVE  PageFits'
  <2>1. PICK v : /\ ChapterVerses(Book(v), Chapter(v)) # {}
                 /\ page' = Page(Book(v), Chapter(v), within)
        BY <1>2, Zenon DEF OpensAChapter
  <2>. QED  BY <2>1 DEF PageFits
<1>3. CASE TurnsThePage
  <2>1. page # NoPage
        BY <1>3 DEF TurnsThePage
  <2>2. PICK b, c, within : ChapterVerses(b, c) # {} /\ page = Page(b, c, within)
        BY <2>1 DEF PageFits
  <2>3. /\ page.within = within
        /\ page.previous = StepChapter(b, c, -1, within)
        /\ page.next = StepChapter(b, c, 1, within)
        BY <2>2 DEF Page
  <2>4. PICK to \in {page.previous, page.next} \ {NoChapter} :
           page' = Page(to[1], to[2], page.within)
        BY <1>3 DEF TurnsThePage
  <2>5. ChapterVerses(to[1], to[2]) # {}
    <3>1. PICK step \in {-1, 1} : to = StepChapter(b, c, step, within) /\ to # NoChapter
          BY <2>3, <2>4
    <3>2. TurnsBack(b, c, step, within)
          BY <2>2, StepsTurnBack
    <3>. QED  BY <3>1, <3>2 DEF TurnsBack
  <2>. QED  BY <2>4, <2>5 DEF PageFits
<1>4. CASE \/ \E q \in Queries, mode \in {"66", "both"} : Finds(q, mode)
           \/ \E text \in Texts : Writes(text) \/ WritesAgain(text)
           \/ Saves
           \/ CannotSave
           \/ ReadsTheHistory
           \/ \E id \in DOMAIN listed : DeletesARow(id)
           \/ ClearsTheHistory
           \/ ClosesTheChapter
           \/ FileSteps
           \/ Ends
           \/ UNCHANGED vars
      BY <1>1, <1>4 DEF Finds, Writes, WritesAgain, Saves, CannotSave, ReadsTheHistory,
                        DeletesARow, ClearsTheHistory, ClosesTheChapter, FileSteps, Ends,
                        vars, readerVars
<1>. QED  BY <1>2, <1>3, <1>4 DEF Next

\* Whatever chapter is open, whatever is read: each way on leads to a chapter
\* there is and back again, and there is none only where the Bible ends.
THEOREM PagingTurnsBack == Spec => []TurningBackReturns
<1>1. Init => PageFits
      BY DEF Init, PageFits
<1>2. PageFits => TurningBackReturns
  <2>. SUFFICES ASSUME PageFits, page # NoPage, NEW step \in {-1, 1}
                PROVE  LET to == IF step > 0 THEN page.next ELSE page.previous
                       IN IF to # NoChapter
                          THEN /\ ChapterVerses(to[1], to[2]) # {}
                               /\ Readable(to[1], page.within) \/ to[1] = page.at[1]
                               /\ StepChapter(to[1], to[2], -step, page.within) = page.at
                          ELSE Readable(page.at[1], page.within) =>
                                  \A v \in Verses, w \in page.verses :
                                     ~(Readable(Book(v), page.within) /\ Further(v, w, step)
                                       /\ <<Book(v), Chapter(v)>> # page.at)
    BY Zenon DEF TurningBackReturns
  <2>1. PICK b, c, within : ChapterVerses(b, c) # {} /\ page = Page(b, c, within)
        BY DEF PageFits
  <2>2. /\ page.at = <<b, c>>
        /\ page.at[1] = b
        /\ page.within = within
        /\ page.verses = ChapterVerses(b, c)
        /\ page.previous = StepChapter(b, c, -1, within)
        /\ page.next = StepChapter(b, c, 1, within)
        BY <2>1 DEF Page
  <2>3. (IF step > 0 THEN page.next ELSE page.previous) = StepChapter(b, c, step, within)
        BY <2>2
  <2>4. TurnsBack(b, c, step, within)
        BY <2>1, StepsTurnBack
  <2>. QED  BY <2>2, <2>3, <2>4, Zenon DEF TurnsBack
<1>3. PageFits /\ [Next]_vars => PageFits'
      BY PageFitsNext
<1>. QED  BY <1>1, <1>2, <1>3, PTL DEF Spec
=============================================================================
