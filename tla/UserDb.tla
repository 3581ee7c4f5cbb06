------------------------------- MODULE UserDb -------------------------------
(***************************************************************************)
(* user.db (core/src/userdb.rs): the history of answers, kept by SQLite in *)
(* statements that each commit by themselves, so the program may be killed *)
(* between any two of them.  The file a run finds is of any version:       *)
(* schema 1 kept a flat list of verse ids for an answer, which loses which *)
(* verses were [P1]; schema 2 keeps one list for each passage sent, and    *)
(* its migration deletes what schema 1 left.                               *)
(***************************************************************************)
EXTENDS Bible

CONSTANTS
    OldFiles,   \* what an earlier program left: [version, history, lastId]
    MaxId       \* bound: the highest id given to an entry

SchemaVersion == 2
NoVersion == -1

VARIABLES
    version,    \* meta.schema_version: NoVersion without such a row, 0 for one
                \* that cannot be read
    history,    \* the table history: id -> entry
    lastId,     \* sqlite_sequence: the last id AUTOINCREMENT gave out
    phase,      \* where the program stands with the file
    doomed,     \* the entries the migration has still to delete
    old         \* history variable: the old file's entries the reader kept

dbVars == <<version, history, lastId, phase, doomed, old>>

Phases == {"closed", "opening", "dropping", "open", "clearing", "refused"}

\* The tables are made if they are not there; nothing else happens to a file.
DbInit ==
    /\ \E file \in OldFiles :
          /\ version = file.version
          /\ history = file.history
          /\ lastId = file.lastId
          /\ old = file.history
    /\ phase = "closed"
    /\ doomed = {}

----------------------------------------------------------------------------
(* What is stored of an answer, and what is read back.                     *)

\* Verse ids in ascending order, taken apart where they are not adjacent.
Regroup(ids) == Runs(Ascending(ids))

\* The stored passages, and whether [P#] may be read off their order.
ParseSent(stored) ==
    IF stored.form = "lists"
    THEN [groups |-> stored.sent, resolvable |-> TRUE]
    ELSE [groups |-> Regroup(stored.ids), resolvable |-> FALSE]

Numbered(entry) == ParseSent(entry.stored).resolvable

\* Ids are given out in order; a file without a version is a file without
\* entries, and schema 2 never stored a flat list.
ASSUME OldFilesAssumption ==
    /\ MaxId \in Nat
    /\ \A file \in OldFiles :
          /\ file.version \in Nat \cup {NoVersion}
          /\ file.lastId \in 0..MaxId
          /\ DOMAIN file.history \subseteq 1..file.lastId
          /\ file.version = NoVersion => DOMAIN file.history = {}
          /\ file.version = SchemaVersion =>
                \A id \in DOMAIN file.history : Numbered(file.history[id])

\* The positions of the groups that are not empty.
NotEmpty(groups) == Ascending({i \in DOMAIN groups : groups[i] # <<>>})

Rendered(read, shown, cited) ==
    [k \in DOMAIN shown |->
        [ids   |-> read.groups[shown[k]],
         token |-> IF read.resolvable THEN shown[k] ELSE 0,
         cited |-> ToSet(read.groups[shown[k]]) \cap cited # {}]]

RenderSent(read, cited) == Rendered(read, NotEmpty(read.groups), cited)

\* A reopened entry: numbered first, the empty passages left out afterwards.
RenderPassages(entry) == RenderSent(ParseSent(entry.stored), entry.cited)

StoredPassages(groups, cited) ==
    [i \in DOMAIN groups |-> [ids |-> groups[i], cited |-> ToSet(groups[i]) \cap cited # {}]]

\* The passages as both exports take them: the empty ones left out first.
EntryPassages(entry) ==
    LET groups == ParseSent(entry.stored).groups
    IN StoredPassages(Pick(groups, {i \in DOMAIN groups : groups[i] # <<>>}), entry.cited)

\* What the n-th token of an exported answer is replaced by: nothing, when
\* the numbering is not known, itself, when there is no such passage.
ReferenceAt(passages, n) ==
    IF n \in DOMAIN passages THEN ReferenceOf(passages[n].ids) ELSE "kept"

ResolveToken(entry, n) ==
    IF Numbered(entry) THEN ReferenceAt(EntryPassages(entry), n) ELSE "removed"

\* By their first verse; of two that begin alike the earlier stays the earlier.
InBibleOrder(passages) ==
    Sorted(passages, [i \in DOMAIN passages |-> passages[i].ids[1]])

Rows(passages) ==
    [k \in DOMAIN passages |->
        [reference |-> ReferenceOf(passages[k].ids),
         cited     |-> passages[k].cited,
         text      |-> TextOf(passages[k].ids)]]

\* The rows of an entry's sheet: its passages in the order of the Bible.
SheetRows(entry) == Rows(InBibleOrder(EntryPassages(entry)))

----------------------------------------------------------------------------
(* Opening the file, and bringing an old one up to date.                   *)

OpensTheFile ==
    /\ phase = "closed"
    /\ phase' = "opening"
    /\ UNCHANGED <<version, history, lastId, doomed, old>>

StampsANewFile ==
    /\ phase = "opening"
    /\ version = NoVersion
    /\ version' = SchemaVersion
    /\ phase' = "open"
    /\ UNCHANGED <<history, lastId, doomed, old>>

FindsItCurrent ==
    /\ phase = "opening"
    /\ version = SchemaVersion
    /\ phase' = "open"
    /\ UNCHANGED <<version, history, lastId, doomed, old>>

RefusesANewerFile ==
    /\ phase = "opening"
    /\ version > SchemaVersion
    /\ phase' = "refused"
    /\ UNCHANGED <<version, history, lastId, doomed, old>>

\* Mutant: the new version is recorded before the entries are deleted.
FindsItOldAndStampsIt ==
    /\ phase = "opening"
    /\ version \notin {NoVersion, SchemaVersion}
    /\ version < SchemaVersion
    /\ version' = SchemaVersion
    /\ doomed' = {id \in DOMAIN history : ~Numbered(history[id])}
    /\ phase' = "dropping"
    /\ UNCHANGED <<history, lastId, old>>

FindsItOld ==
    /\ phase = "opening"
    /\ version \notin {NoVersion, SchemaVersion}
    /\ version < SchemaVersion
    /\ doomed' = {id \in DOMAIN history : ~Numbered(history[id])}
    /\ phase' = "dropping"
    /\ UNCHANGED <<version, history, lastId, old>>

Without(f, S) == Restrict(f, DOMAIN f \ S)

DropsOne ==
    /\ phase = "dropping"
    /\ doomed # {}
    /\ LET id == Min(doomed)
       IN /\ history' = Without(history, {id})
          /\ doomed' = doomed \ {id}
    /\ UNCHANGED <<version, lastId, phase, old>>

StampsAnOldFile ==
    /\ phase = "dropping"
    /\ doomed = {}
    /\ version' = SchemaVersion
    /\ phase' = "open"
    /\ UNCHANGED <<history, lastId, doomed, old>>

\* The program ends, by itself, by an error in opening, or killed; what was
\* committed stays.
DbCloses ==
    /\ phase' = "closed"
    /\ doomed' = {}
    /\ UNCHANGED <<version, history, lastId, old>>

----------------------------------------------------------------------------
(* The statements on an open file.                                         *)

\* Mutant: a plain INTEGER PRIMARY KEY, which gives a freed id again.
NextIdPlain == Max({0} \cup DOMAIN history) + 1

\* The id AUTOINCREMENT gives: one past every id given since the last clear.
NextId == Max({lastId} \cup DOMAIN history) + 1

SaveAnswer(entry) ==
    /\ phase = "open"
    /\ NextId <= MaxId
    /\ history' = [id \in DOMAIN history \cup {NextId} |->
                      IF id = NextId THEN entry ELSE history[id]]
    /\ lastId' = NextId
    /\ UNCHANGED <<version, phase, doomed, old>>

Delete(id) ==
    /\ phase = "open"
    /\ history' = Without(history, {id})
    /\ old' = Without(old, {id})
    /\ UNCHANGED <<version, lastId, phase, doomed>>

DeletesAll ==
    /\ phase = "open"
    /\ history' = <<>>
    /\ old' = <<>>
    /\ phase' = "clearing"
    /\ UNCHANGED <<version, lastId, doomed>>

\* The ids start again at 1; an error of this statement is ignored.
ResetsTheIds ==
    /\ phase = "clearing"
    /\ lastId' \in {0, lastId}
    /\ phase' = "open"
    /\ UNCHANGED <<version, history, doomed, old>>
=============================================================================
