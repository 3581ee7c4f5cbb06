# The Pastor Bible, in TLA+

The Pastor Bible is a desktop program (Tauri, Rust) that answers a question with
passages from a Bible index on the reader's own machine. It starts two
`llama-server` processes, one that embeds the question and one that writes,
retrieves passages, has an answer written from them, checks every citation of
the answer, and shows the passages alone when the check fails twice.

The individual steps are ordinary code. What is hard is their order: an answer
takes minutes and holds one mutex all the while, a Stop button, a timer, a
self-test, a window that closes and model processes that die all act on the same
few variables. Most modules in this directory are about that. The others follow
what an answer rests on, from the ranking of verses to the entry that is opened
again a year later, where each step is a pure function and the agreement of ten
of them is what a citation means.

- [Inventory](#inventory): the parts, their state, what makes them correct
- [Modules](#modules): which module models which part, and how
- [Runs](#runs): what TLC checks, the bounds, the fairness
- [Findings](#findings): what the documents say and the code does not do
- [Proofs](#proofs): what TLAPS proves, from what, and how
- [Limits](#limits): what is only model-checked, and what is not modelled
- [Plan](#plan): what comes next

Paths are relative to the repository; `core/` is `src-tauri/core/src/`, `lib.rs`
is `src-tauri/src/lib.rs`.

## Inventory

| Part | State | Operations | Hard because | Correct when |
|---|---|---|---|---|
| Session, `core/session.rs` | two sidecar handles, the loaded model's name, cancel flag, passages slot, process-id slot, engine settings | `ensure_loaded`, `ask`, `generate`, `settle_after_cancel`, `cancel_and_settle`, `self_test`, `shutdown` | another thread raises the flag and kills the server; loads, restarts and retries fail half way | no server without a handle; the slot names the answering model; a text is shown only if it passed |
| Measurement harness, `core/bin/cli.rs` | one session, a watcher thread per question | `session` | it is the only caller whose Stop reaches the flag | every question comes back; nothing runs at the end |
| Window's process, `lib.rs` | session mutex, database mutex, `busy`, both slots, cached compute choice, download flag | 20-odd commands, one timer thread per Stop, the close event | two mutexes taken in both orders; state read before a wait and used after it; a timer that outlives its question | one answer at a time; an ask returns; Stop stops the answer and nothing else; closing leaves nothing |
| Model-server manager, `core/sidecar.rs` | counter `LIVE`, child, watchdog | `start`, `wait_ready`, `finish`, `stop`, `Drop` | threads race to start; failure at every step; the parent may be killed; process ids are given again | a server always has an owner that stops it; exclusive starts are alone; servers die with the program |
| Downloader, `core/download.rs` | `<file>`, `<file>.part`, cancel flag | `ensure_model`, `fetch` | cut, resumed, cancelled and killed at any byte; a host that ignores `Range` | the name never holds a wrong file; a partial is kept; the file arrives |
| Settings and compute choice, `lib.rs:289-362`, `core/compute.rs` | settings table, engine settings of the open session, cached choice | `set_setting`, `compute_choice`, `engine_settings` | three copies of one setting; a probe of a second between reading and storing the cache | the next answer uses the settings shown |
| User database, `core/userdb.rs` | history, its full-text mirror, settings, schema version | `open`, `migrate`, `save_answer`, `delete`, `delete_all`, exports | a migration cut short; ids that start again; passages stored in one order and numbered in another | an entry opens as it was saved |
| Retrieval, `core/retrieve.rs`, `index.rs`, `pipeline.rs` | the read-only index | `search`, `as_ranges`, `top_cut`, `pack`, `assemble`, `step_chapter` | three rankings fused, a quota for the Deuterocanon, runs of verses in four different orders | the Deuterocanon only adds; each passage has one group; a page turned back is the page before |
| Verifier, `core/verifier.rs` | none | `check` | the shapes a citation can take | no text with a citation that was not sent passes |
| Crisis notice, prompts, paths, credits, hardware screen, spreadsheet | none or constant | pure functions | nothing of the kind TLC is for | unit tests |
| Frontend, `src/` | React component state | screens that call the commands | state lost when a screen closes | modelled as "the reader may" |
| Pipeline, `pipeline/`; tools, `tools/` | files | offline scripts, run by hand | sequential | determinism checks of their own |

How they interact: a command of the window runs on the main thread, one at a
time; `ask`, `run_self_test` and `download_model` hand their work to a blocking
worker thread. Workers and main thread meet at `AppState.session` (held for a
whole answer or self-test), `AppState.db` (held for a statement, except where
the main thread waits for the session with it in hand), `busy`, and the slots of
the session that Stop and the passages panel use without its mutex. The session
calls the model-server manager; that one talks to the operating system.

## Modules

| Module | Models | Notes |
|---|---|---|
| `Session` | `core/session.rs`, the calls it makes into `sidecar.rs` | the shared part of the next two |
| `AnswerPromise` | what a reader is promised of an answer | abstract; `Session` implements it |
| `Harness` | `cmd_session` of `core/bin/cli.rs` | `EXTENDS Session`; the watcher thread |
| `Shell` | `lib.rs` | `EXTENDS Session`; locks, workers, timers, commands |
| `Sidecar` | `core/sidecar.rs` | the process table is part of it |
| `Download` | `core/download.rs`, `download_model`, `cancel_download` | the disk is part of it |
| `Settings` | `set_setting`, `compute_choice`, `engine_settings` of `lib.rs`, `core/compute.rs` | one setting and its copies; stands alone |
| `Bible` | `core/index.rs` | verse ids, canon, references, chapters; constant |
| `Retrieval` | `core/retrieve.rs` | `EXTENDS Bible`; pure operators |
| `Verifier` | `core/verifier.rs` | `EXTENDS Bible`; pure operators |
| `UserDb` | `core/userdb.rs`, rows of `core/spreadsheet.rs` | `EXTENDS Bible`; one action per committed statement |
| `Evidence` | `core/pipeline.rs`, and the calls `lib.rs` and the screens make | composes the last three; has their properties |
| `MC*` | constants for TLC | one per checked module |
| `Session_proofs`, `Harness_proofs`, `Shell_proofs`, `Settings_proofs`, `Sidecar_proofs`, `Download_proofs`, `Retrieval_proofs`, `Evidence_proofs` | theorems and lemmas | see [Proofs](#proofs) |

**Session.** A call holds `&mut self`, so one call is under way at most. `step`
is where it stands, `question` whose it is; the other variables are the fields:
`flag` (`cancel`), `embed` and `chat` (the two `Option<Sidecar>`, as process ids,
0 for `None`), `loaded`, `want` (`engine.settings.chat_model`), `slot`
(`chat_pid`), `found` (`retrieved`). `alive` is what the operating system runs.
One action stands for the code between two points where another thread can act:
each server start, the retrieval, the request, each look at the flag while the
stream is read, the check of what was written, each outcome of
`settle_after_cancel`. A handle that is `Some` says nothing of the process behind
it: the code does not look, and neither does the model. `Checks` takes the
verdict as given, and does what `ask` does with it: one retry, then the
passages. `SettlesByRestart` is possible with a server that is alive or dead,
because a killed child that nobody has waited for looks alive on Linux and
macOS. Process ids are given again: a new server gets any id that neither runs nor
is held (`FreePids`; a child that died keeps its id until the handle's `wait`), so
the slot, which is not cleared when its server is stopped, may name a later server.

**Harness.** `asked`, `watcher` and `place` are `cmd_session`'s loop. The watcher
starts before the question does (`HarnessTurnsToTheNext`, then `HarnessAsks`), so it
may raise the flag that `ask` then lowers. It may be there or not for each question, more than `--cancel-after` allows, which
is the same for all. `HarnessSettles` puts nobody's name into `question`: the
call is `cancel_and_settle` and belongs to no question.

**Shell.** `sess` says which worker holds the session mutex. The database mutex
needs no variable: every worker holds it only within a step, so it is held across
steps exactly when the main thread took it and waits for the session, `ui =
"history"` (`DbHeld`). `pc`, `test` and `round` are the workers, `timer` each
press of Stop and the two seconds after it. `Enter` is the closure of `ask` and
`run_self_test` up to and with the start of `Session::ask`; a session that is not
open yet is opened with settings read earlier, so with any model.
`AskSaves` and `AskGivesUp` let the session go; `busy` comes down in a later step,
`AskLeaves`, as it does in the code. `AskIsDropped` is the early return between
`busy.swap` and the worker: the command fails, and `busy` stays up for good.

**Sidecar.** Starters are places in the program that call `Sidecar::start`.
`Counts`, `IsRefused`, `CountsDown` and `StartFails` are the four accesses to
`LIVE`, which wraps as a `usize` does, at `CounterMax`. `proc` is the process
table: a server that exited keeps its id until it was waited for, a freed id may
go to a stranger. That wait is in `finish`, or, for a server that exits while it is
waited for, the `try_wait` of `wait_ready` (`ExitsEarly`), which on Linux and macOS
frees the id before `finish` takes the watchdog down; on Windows the id lasts as long
as the `Child`. `IsNotReady` is the other way out of `wait_ready`, the timeout. `platform` is which watchdog was compiled in. `finish` is three
actions, in its order: watchdog, child, counter. `ParentDies` runs no code of the
program; the kernel kills what it guards, and on macOS `ReaperKills` is the shell
that was waiting for the pipe to close.

**Download.** A file is a sequence of blocks, each right or wrong for its place;
the checksum is right when all `Size` are. Names are directory entries (`part`,
`full`), so a file that was renamed is still written by whoever has it open
(`handle`). `Init` ranges over every disk an earlier run, version or crash can
leave, a partial that is too long included. The host sends what it likes, up to
`MaxLength` blocks: `Receives` writes past `Size`, as the loop does, and the lengths
are compared afterwards (`SentTooMuch`). `DiskFails` is each disk access whose error
ends the call, `RemovalFails` each `remove_file` whose error is not looked at. Between the look at the partial and
the request, the answer and the opening, anything can happen.

**Settings.** Main thread and workers are threads here, because a worker's
preparation (`read_settings`, `compute_choice`, `engine_settings`) runs before it
waits for the session, beside `set_setting`. `table`, `cache`, `engine` and
`server` are the four places a setting is kept, `copy` and `choice` what a thread
has in hand. `compute_choice` is four actions: look, decide, store, and the wait
for the session after it, since the lock on the cache is let go in between and
the decision starts a process. A decision carries the model it was made for
(`needs_mib` in the code). `server` is `loaded_chat_model` and the layers it was
started with. `late` is history: whether the cache, or the open session, was
written last by somebody whose copy of the table was older. A change of the canon
is a change that clears no cache; its value travels with the model's.

**Bible.** A verse is its id, `book * 1000000 + chapter * 1000 + verse`, as in the
index; the text of a verse is the id again, because no code here changes one.
`ReferenceOf` is what `reference_for` prints: book, chapter, first and last, so two
runs that share both ends have one reference, as in the code. `StepChapter` and
`IntoNextBook` are `step_chapter`, with the book that is shown but not read as
the end it is in the code. The branch for a book without chapters is there too, and
no index built from the vendored text reaches it (`ChaptersAssumption`).

**Retrieval.** A query is what lies outside this program makes of a question: the
verses, pericopes and topics in the order of their cosine, and for each keyword
the verses SQLite's bm25 returns. From there every step of `search` is an
operator: the pools, the filter by canon, the lists, the topic and
cross-reference bonuses, the two stable sorts, the second search and its slice.
A score is a whole number of millionths: each term is rounded, where the code adds
floating-point terms, sorts, and rounds the sum to six digits. Scores closer than a
few millionths may therefore tie here and not there; verse id breaks a tie in both. `AsRanges` and `TopCut` are `as_ranges` and `top_cut`. Where a hit came
from and the headings over a passage are left out, since nothing is decided by
them.

**Verifier.** A text is the set of its citations, each with what the two regular
expressions capture: a token, or a name, a chapter, verses, whether the name
stood capitalised, and whether a unit of measure follows. A verse that is not
written is `NoVerse`, which no three digits are, so "3:0" and "3:1-0" are citations,
and refused. A written name is cut into pieces so that `Lookup` can try every ordinal
it begins with, the longest first. `Lookup`, `IsReference`,
`Wanted` and `Violations` are the rules; the names of a book, the TSK's
abbreviations and the words that are also books are constants. How the patterns
are built from the names is left out, so is which of two overlapping matches
wins.

**UserDb.** Every statement commits by itself, so each is an action and `DbCloses`
may come between any two: `OpensTheFile`, the four outcomes of reading the
version (`NoVersion` without a row; a row that cannot be read is 0, and migrated), `DropsOne` for each row the migration deletes, `StampsAnOldFile`,
`SaveAnswer`, `Delete`, and the two statements of `delete_all`. `lastId` is
`sqlite_sequence`. What is stored of an answer is lists of verse ids (schema 2) or
one flat list (schema 1), and `ParseSent`, `RenderSent`, `EntryPassages`,
`ResolveToken` and `SheetRows` are the five places that read it back.

**Evidence.** `ask` is the question the worker has: `Finds` is search, ranges, cut
and pack; `Writes` and `WritesAgain` are the two texts with the verdict computed
from them; `Saves` and `CannotSave` are the end of `ask` in `lib.rs` (an error of
`save_answer` is returned in place of the answer). The servers, the cancel flag
and the locks are in `Session` and `Shell` and left out here: a worker carries one
question at a time. `listed` is the sidebar's copy of the history, `page` the
chapter in the reader, which lies over everything else. `ReadsTheHistory` is each
moment a screen calls `history_list`; the sidebar is not read again after
Settings' clear, so a row may outlive the table. `OpensAChapter` waits while a
question is under way, because `chapter` takes the session mutex. `GroupByTopic` lets the topics claim in the order they were matched, and a claim is
of references, as the code's `claimed` set of `display_reference` is: that each
passage has one heading rests on no two passages having one reference. `promised`,
`old`, `clock` and `cleared` are history variables.

## Runs

`tlc -config X.cfg M` in this directory.

| Run | Config | Shows |
|---|---|---|
| `harness` | `MCHarness.cfg` | the answer promise (refinement), no stray server, the slot, the passages, an orderly end |
| `shell` | `MCShell.cfg` | mutual exclusion, the busy flag, servers across close and self-test, what Stop can and cannot reach, an ask returns |
| `sidecar` | `MCSidecar.cfg` | owners, watchdogs, the counter, exclusive starts, death with the parent |
| `download` | `MCDownload.cfg` | what is in place is whole, partials are kept, the model arrives |
| `settings` | `MCSettings.cfg` | decisions fit their settings; the cache and the open session are right unless written late |
| `evidence` | `MCEvidence.cfg` | what an answer rests on survives ranking, checking, saving, restarting, migrating, exporting |
| `shell_locks`, `shell_stop`, `shell_wedge`, `sidecar_live`, `download_twice`, `settings_compute` | `MC*.cfg` of that name | each a [finding](#findings): one property, violated |

Properties and what would break them:

- `NoStrayServer`, `NoSessionNoServers`: every running server is held by the
  session, and none runs when no session is open. Model changes, failed loads,
  restarts after a cancel, self-tests that fail half way and the close event all
  have to agree.
- `SlotNamesTheAnsweringModel`: what a Stop would kill is the server that writes,
  whenever one is held. When none is held it says nothing: after a model change
  with a failed start, or a shutdown, the slot keeps the id of a server that is gone,
  and that id may be given to the next search model (see `StopSparesTheSearchModel`).
- `KeepsThePromise`: `Session` implements `AnswerPromise`, with `working` mapped
  to "a question is between `ask` and its return".
- `FoundIsCurrent`: the passages waiting for the window are never those of an
  earlier question while a later one is under way.
- `OnlyTheHolderIsInside`, `OneAnswerAtATime`: the mutex and the busy flag do
  what their comments say, with one exception which the second names: an ask that
  returns early after its claim (`lib.rs:586-590`) leaves the flag up, and no ask
  claims after it.
- `FlagDownInside`: the flag is never up while a call is under way in the window's
  process. This is the reason a Stop there always ends with a killed server.
- `StopSparesTheSearchModel`: while an answer is written, or an answering model is
  held, no timer ends the search model, though process ids are given again. What it
  excepts is real, and TLC finds it when the exception is taken out: a self-test fails
  and shuts its servers down, the slot keeps the dead id, the question that waited
  loads its search model under that id, and the timer of a Stop pressed meanwhile
  finds `busy` up and ends it.
- `EveryAskReturns`: a question that got the session is answered, fails or is
  cancelled, or meets the one lock cycle (`LockCycle`): the exception is in the
  property, and the run shows that there is no other way to hang.
- `EndsWithNothingRunning`: the harness comes to its end and nothing runs then.
- `EveryServerHasAnOwner`, `WatchdogNamesItsOwnServer`: no server between two
  owners or none; the macOS watchdog's `kill -9` cannot land on a process id that
  was given to somebody else while the program lives, except in the moment between
  the `try_wait` that finds a server gone and the `finish` that follows it
  (`ReapedEarly`, `sidecar.rs:696-698`).
- `LiveIsShortByTheLost`: exactly what `LIVE` is worth: the number of starters
  between their counts, less one for each start given up after its spawn.
- `ExclusiveRunsAlone`: holds until the first such start.
- `ServersDieWithTheProgram`: whatever the platform, except in two windows that
  the property names (`Unwatched`): spawned and not adopted, and on macOS a
  watchdog stood down with the child still to be killed.
- `FullNameIsNeverHalfAFile`, `DoneMeansWhole`, `PartialIsKept`, `ModelArrives`:
  for one download at a time.
- `TheModeIsObeyed`: whatever copies were mixed, a decision is used with settings
  of the mode it was made for.
- `SessionIsRightOrLate`, `CacheIsRightOrLate`: after `set_setting` has returned,
  what an earlier reader of the settings wrote later is the only way for either
  to be old. That way exists: a question asked before the change can open the
  session after it, or store its decision after the cache was cleared.
- `TokensNameWhatWasSent`: `[P2]` in an answer, a reopened entry and an export is
  the passage the verifier checked. Tokens are numbered in the order of the cut,
  passages are stored in the order of the ranking, the exports drop empty ones
  before numbering and the reopened entry after it. The three agree because the
  slice of the Deuterocanon is scored below all else and no passage is empty; a
  slice that keeps its own scores (a mutant) breaks it.
- `CitedMarksSurvive`: the passages marked as cited are those of the text, though
  an entry stores only the verses cited and recomputes the marks.
- `NothingUnsentIsShown`: the verifier's two rules against what a reader would find
  under a reference (`Meant` is defined without `Wanted`), the fallback, the
  reader's canon, and the footer about the Deuterocanon, which is there exactly when
  a token `[P#]` names a passage with a verse of it. That is less than
  `docs/PLAN.md:172` promises: an answer may cite "Tobit 1:1" by name alone, the
  verifier accepts it, and no footer is shown (`pipeline.rs:407-413`).
- `GroupsPartitionThePassages`: topics claim passages in turn, share roots, and
  leave a rest.
- `BothOnlyAdds`: what is found and sent for the 66 books is a prefix of what is
  found and sent with the Deuterocanon, and that gets its share.
- `OnlyTheUnnumberedAreLost`: a migration cut short anywhere, any number of times.
- `RowsNameTheirEntry`: a row of the sidebar acts on the entry it shows, though
  rows go stale; what the property excepts, a clear in Settings followed by new
  answers, is the one way to the wrong entry (`App.tsx:101`, `Main.tsx:91-106`).
- `TurningBackReturns`: previous and next are each other's inverse, lead to pages
  that exist, and end only at the ends of what is read.
- `AnAnswerKeepsItsSettings`: a change waits for the answer under way.

Bounds. `MaxPid` is how many process ids there are. At most two servers run or are
held, so with 2 in `shell` every server that is started again gets an id that was used
before, the case in which a slot that is not cleared matters; 3 in `harness` lets a new
server get an old id or another. A load may fail at any time, and servers may be
started without end. Two questions are enough for what one
leaves to the next; `TestRounds = 2` for a question of the self-test that follows
another; one timer in `shell` outlives the question it was pressed for and fires
in a later one. Two models make a model change. In `sidecar`, two starters that
insist on being alone and one that does not give every pair; three ids give each
one; `CounterMax = 7` wraps like a `usize` and is more than twice the starters;
`MaxLost = 2` gives up two starts. In `download`, three blocks have a first, a
middle and a last, and `MaxLength = 5` leaves or sends one block too many and two; three
faults allow a wrong block, a cut and a kill in one behaviour; three files hold the old full file, the partial and a new one.
In `settings`, one ask and the self-test are all that can be between their reading
and the session (the busy flag keeps a second ask out; a second self-test would
repeat the first); of two models one fits the card when it is empty and neither
fits beside a loaded one, which gives each outcome of `decide` that names a
device. Nothing counts, so the state space is finite without a bound.
In `evidence`, three books with the second of the Deuterocanon give a book to skip
from both sides; eight verses have a chapter of three, a second chapter, a passage
that ends a book and a verse the translation leaves out, so that a run is not a
range. `TopN = 2`, `DeuteroSlice = 2` and `Pool = 3` are all exceeded by some query
and not reached by another; one query finds nothing in the 66 books. Nine texts
hold a token and a reference that were sent, each that was not, a reversed range, a
verse 0, a chapter that is not there, a name two books claim, an ordinal that fits no
book, a word that is also a book, and
a unit of measure. Six files are a new one, one whose version cannot be read, two of schema 1 with both kinds of
entry, one of schema 2 whose highest id was deleted, and one of a later version.
`MaxAnswers = 2` answers follow each other into the history, `MaxKills = 1` restart
cuts whatever is under way (what a second could cut is what the first could:
nothing but the file is left), `MaxId = 4` is what the two old entries and the two
new ones need, and more after a clear.
`CHECK_DEADLOCK FALSE` everywhere but in `settings`: the harness ends, the window's process may
deadlock (a finding), a dead program does nothing, and a run out of process ids
or servers may stop; in `evidence` a refused file and a spent bound do.

Fairness. A thread that can run does run: weak fairness of each worker, the
session's own steps, the timers, the watcher, and the main thread's return from a
command whose lock it can have. What a server does is bounded by the timeouts of
its connections, so a step that waits for one ends. Nothing is assumed of the
reader, except in `Download`, where `Starts` under weak fairness is a reader who
presses Download again; nor of a mutex that is taken again and again (weak, not
strong fairness); nor that a server dies, or does not. In `sidecar` only the
macOS watchdog's shell is assumed to run.

## Findings

Each has a run whose counterexample shows it.

1. `shell_locks`. A worker with a finished answer holds the session and locks the
   database to save it (`lib.rs:596-607`); `app_info`, `history_get` and
   `history_export` lock the database and then the session (`lib.rs:389-393`,
   `781-782`, `816-817`). Opening a history entry during an answer can stop both
   for ever, and with the main thread the window.
2. `shell_stop`. `cancel_ask` raises the flag only when it gets the session mutex
   (`lib.rs:655`), which `ask` holds throughout; the comment above it says the
   flag needs no lock. `Session::cancel_flag` would give it, as the harness does.
3. `shell_wedge`. As a consequence of 2 a stopped answer ends in `generate`'s
   failure arm (`session.rs:388`), which leaves the handle of the killed server;
   `ensure_loaded` starts a server only for `None`. Every later question fails
   until the window is closed, the model is changed or a self-test fails.
4. `sidecar_live`. A server that was spawned and not ready in time is counted down
   by `finish` and again by `start`.
5. `download_twice`. Two downloads of one model share `.part`; the guard is a
   screen's `useState`, and the screen can be closed and opened again.
6. `settings_compute`. `ensure_loaded` compares the model's path only
   (`session.rs:164`), so a new compute setting reaches a loaded model when the
   session is next started, while Settings shows it at once. In mode auto the
   shortest trace needs no change of mode: the probe finds the card taken by the
   very model it decides for, and says processor.

## Proofs

| Theorem | In | States |
|---|---|---|
| `HarnessTypeCorrect` | `Harness_proofs` | `HarnessTypeOK` |
| `HarnessLosesNoServer` | `Harness_proofs` | `NoStrayServer` |
| `WatcherStopsTheRightServer` | `Harness_proofs` | `SlotNamesTheAnsweringModel` |
| `HarnessFoundIsCurrent` | `Harness_proofs` | `FoundIsCurrent` |
| `TheEndLeavesNothing` | `Harness_proofs` | the safety half of `EndsWithNothingRunning` |
| `HarnessKeepsThePromise` | `Harness_proofs` | `KeepsThePromise`: `Session` implements `AnswerPromise` |
| `ShellTypeCorrect` | `Shell_proofs` | `ShellTypeOK` |
| `CallsAreHeld` | `Shell_proofs` | `OnlyTheHolderIsInside` |
| `OneAnswer` | `Shell_proofs` | `OneAnswerAtATime` |
| `StopIsNeverHeard` | `Shell_proofs` | `FlagDownInside` |
| `ShellLosesNoServer` | `Shell_proofs` | `NoStrayServer` |
| `ClosedMeansNoServers` | `Shell_proofs` | `NoSessionNoServers` |
| `TimersStopTheRightServer` | `Shell_proofs` | `SlotNamesTheAnsweringModel` |
| `WindowFindsWhatIsCurrent` | `Shell_proofs` | `FoundIsCurrent` |
| `WindowKeepsThePromise` | `Shell_proofs` | `KeepsThePromise`, with the window as the driver |
| `StopIsSelective` | `Shell_proofs` | `StopSparesTheSearchModel` |
| `SettingsTypeCorrect` | `Settings_proofs` | `SettingsTypeOK` |
| `DecisionsFitTheirMode` | `Settings_proofs` | `TheModeIsObeyed` |
| `SessionOldOnlyIfLate` | `Settings_proofs` | `SessionIsRightOrLate` |
| `CacheOldOnlyIfLate` | `Settings_proofs` | `CacheIsRightOrLate` |
| `SettingsHoldStill` | `Settings_proofs` | `AnAnswerKeepsItsSettings` |
| `SidecarTypeCorrect` | `Sidecar_proofs` | `SidecarTypeOK` |
| `ServersHaveOwners` | `Sidecar_proofs` | `EveryServerHasAnOwner` |
| `WatchdogsKillTheirOwn` | `Sidecar_proofs` | `WatchdogNamesItsOwnServer` |
| `NothingWatchedIsForgotten` | `Sidecar_proofs` | `OnlyReapersAreLeft`, the safety half of `ServersDieWithTheProgram` |
| `LiveIsWorth` | `Sidecar_proofs` | `LiveIsShortByTheLost` |
| `ExclusiveStartsAreAlone` | `Sidecar_proofs` | `ExclusiveRunsAlone` |
| `DownloadTypeCorrect` | `Download_proofs` | `DownloadTypeOK` |
| `OkMeansWhole` | `Download_proofs` | `DoneMeansWhole`, one download at a time |
| `RenameIsOfTheWhole` | `Download_proofs` | `FullNameIsNeverHalfAFile`, one download at a time |
| `WhatWasFetchedIsKept` | `Download_proofs` | `PartialIsKept` |
| `WhatArrivedStays` | `Download_proofs` | the lasting half of `ModelArrives`, one download at a time |
| `MigrationLosesNoMore` | `Evidence_proofs` | `OnlyTheUnnumberedAreLost` |
| `RowsKeepTheirEntry` | `Evidence_proofs` | `RowsNameTheirEntry` |
| `EvidenceTypeCorrect` | `Evidence_proofs` | `EvidenceTypeOK` |
| `AnswersRestOnWhatWasSent` | `Evidence_proofs` | `NothingUnsentIsShown` |
| `TokensKeepTheirPassage` | `Evidence_proofs` | `TokensNameWhatWasSent` |
| `MarksAreKept` | `Evidence_proofs` | `CitedMarksSurvive` |
| `DeuterocanonOnlyAdds` | `Evidence_proofs` | `BothOnlyAdds` |
| `GroupsArePartitions` | `Evidence_proofs` | `GroupsPartitionThePassages` |
| `PagingTurnsBack` | `Evidence_proofs` | `TurningBackReturns` |

These are all the safety properties of the passing runs: what is left to TLC alone is
liveness (see [Limits](#limits)). A theorem holds for every number of questions,
models, timers, servers, starters, loaders, files and blocks, for every Bible, index,
query and text, and every number of entries and kills, under these assumptions, which
TLC evaluates in its runs:

| Assumption | Says | Why the code justifies it |
|---|---|---|
| `SessionAssumption`, `ShellAssumption` | there is a model; "no one" is no question and no model; the questions are the asks and the self-test, which are distinct, and the self-test asks something | naming; `SELF_TEST_IDS` is not empty |
| `SettingsAssumption` | the main thread is no worker, `None` no worker and no model; each model needs some natural amount of the card | naming; sizes are unsigned |
| `SidecarAssumption` | finitely many starters, no more than `CounterMax`; "no process" is no id | there are not `usize::MAX` threads |
| `DownloadAssumption` | `Size` is not 0; `MaxLength` is more than `Size` | every `ModelSpec` has its size; a bound that the interesting case needs |
| `BibleAssumption` | verses and books are finite sets of naturals | they are integer keys of two tables |
| `ChaptersAssumption` | every book has a chapter 1, and a chapter 1..c for every chapter c | the vendored text (`data/sources/web`) numbers chapters so; no test checks it (`tests/test_index.py:30` counts chapters, not their numbers) |
| `IndexAssumption` | topics and cross references name verses of the index; the limits are naturals | the tables are built together; the limits are constants |
| `VerifierAssumption` | a name of the TSK is of some book; 0 is no book | the table of names is built from the books |
| `AskedAssumption` | queries and texts are shaped as they are read; no topic has the name "no topic" | `topic_id` is an `Option` |
| `OldFilesAssumption` | ids were given out in order; a file without a version has no entry; one of schema 2 no flat list | `AUTOINCREMENT`; what `migrate` and `save_answer` write |

`Session_proofs` has what both drivers need: each action of `SessionStep` and
`ServerDies` preserves `SessionInv`. `NoStrayServer` is not inductive alone: a
newly started server must not be one that already runs, and stopping `chat` must
not be a way to lose `embed`. Ids are given again, so their order says nothing:
`SessionInv` adds that the slot names the answering model whenever one is held and
that this is not the search model, that both are held from the end of a load until the
text is judged (`HeldWhileAnswering`), that at the checking step fewer than
two texts were written, and that somebody is being answered while prompting,
reading and checking. `Harness_proofs` adds what ties `question` to `place`;
`Shell_proofs` adds that a session is open while it is held (`OpenInside`), the
mutex and the busy flag.

In `Settings_proofs`, `SettingsInv` ties what a thread has in hand to its place:
a copy is a set of settings until the thread has entered the session
(`CopiesAreHeld`), a decision is for the mode of the copy beside it, and when it
was just made for its model too (`ChoicesFit`; a cached one need not be, the code
compares modes). `MainIsCurrent` says that in `set_setting` the main thread's copy
is the table, since nobody else writes it, and `CacheIsClearedOrLate` that the
cache may be wrong only from the writing of the table to its clearing.

Of the two properties of the history in `Evidence_proofs`, neither is inductive. That no
program works on a file
with an unnumbered entry needs `VersionIsTrue`, that the version on disk is never
ahead of the rows, and this in turn `DroppingFits`: while the migration deletes,
what it has still to delete is exactly what is unnumbered. Stamping before deleting
breaks the first, deleting from a list read earlier the second. That a stale row of the
sidebar names its entry or none needs `IdsAreGiven` (no row of the table and none of
the sidebar has an id above `lastId`, so a new entry takes neither's), and
`ClearingFits`, which says that ids start again only after `cleared` is set.
`HistoryInv` is these with the two properties themselves; most steps of `Next` leave
all of it alone (`ElsewhereKeeps`), and the rest have a lemma each.

`HarnessKeepsThePromise` and `WindowKeepsThePromise`: the refinement takes each step to a
step of `AnswerPromise` or a stutter. The part inside
the session is one lemma (`SessionStepPromises`) which both drivers use: a verdict is
`Approve` or `Reject`, every other end is `GiveUp`. Entering is `Ask`, and the window's
worker, which gives the answer to its command and forgets it, makes the step `Collect`.
The one invariant it needs is that while a text is written or judged somebody asked for
it and fewer than two were judged before.

`TheEndLeavesNothing` and `WhatArrivedStays` are what a step-by-step argument can say of
two liveness properties: the end, once there, is quiet, and the model, once there, stays.
The second needs that no two names are of one file and nobody writes to what has the full
name (`NamesApart`).

In `Sidecar_proofs`, `TableInv` is about the process table: a child is where its
starter's place says (`ChildrenFit`), of one starter (`OneOwner`), and keeps its id
while it is held, exited or not (`ChildrenKeepTheirIds`): an id is free for a stranger
only after the wait that ends the holding, `finish`'s or `try_wait`'s. With that a running server is held
(`ServersAreHeld`), and a watchdog that stands names it (`WatchdogsStand`), and names nobody else but
where `ReapedEarly` says so (`ReapersFit`); `finish`
takes the watchdog down before the child, and an invariant about a failing start
(`FailingFits`) says the same of the other way out. When the program is gone,
`ReapersFit` and `OnlyReapersAreLeft` say who still runs: of the
servers that were watched only those whose macOS watchdog is still to kill them.
The counter wraps, and is counted down twice for a start that is given up, so no
equation between numbers is inductive. `CounterInv` is a congruence: `live` and what
was lost are, modulo the turn of the counter, what the starters owe it by their places
(`Due`, a sum of two cardinalities). `LiveIsShortByTheLost` and `ExclusiveRunsAlone`
follow since fewer starters than a turn leave one number only.

In `Download_proofs`, `DiskInv` holds with any number of loaders: a call that reads has
a file open, and no request resumes at the end of a file or past it; of how long a file
may be it says nothing, since the host decides. `PartialIsKept` needs no more.
`WholeInv` adds that what passed the checksum is still the right file when it is renamed,
or was removed meanwhile (`CheckedIsWhole`), and that only a call that reads has a file
open (`WritersRead`), so that nobody writes to what was put in place. It has the
hypothesis `OneLoader`: a second loader still has the file open that the first renames,
which is finding 5, and there the two properties are false.

`Retrieval_proofs` is about the operators, and keeps to what can be proved without
induction over data. Where the argument wants induction, it looks at the first place
where the statement fails and shows that there is none (`Least`), and a recursive
function is shown to be what its definition says by the first place it could not be
continued to (`FlattenSteps`, `Iterates`). The operators are then known by sets:
- `Ascending` and `Sorted` list a set in an order, which determines the list
  (`OneOrder`); sorting, picking and cutting keep what was listed once (`PickOnce`,
  `DistinctOnce`, `SortedOnce`).
- `RunsOf` of verses that ascend is the set of runs of those verses (`RunsOfASet`),
  where being a run speaks of the verses alone: each goes on in the next. As a run
  lies in one book, the runs of one canon are those of both that lie in it.
- So the ranking of passages (`RangesEnumerate`) and the cut that is sent
  (`CutEnumerates`) are the same kind of thing, a set listed by score and verse, and
  `DeuterocanonIsBelow` puts what is sent of the slice after what is sent without it.
- `PassagesApart`: two passages found for one question that share a reference or a
  verse are one passage.

The theorems of `Evidence_proofs` rest on these and on `AnswersInv`: the worker's
question is what its steps made of a query that may be asked (`AskFits`), what was
promised of an entry is still what the entry holds (`PromisesFit`), and saved answers
are counted (`CountsFit`).
- Tokens: what is stored is the ranking less what was not sent. That and the cut are
  the same set in the same order, so they are one list (`StoredIsSent`), and position
  in the one is token of the other.
- Marks: a reopened entry marks what shares a verse with what was cited; by
  `PassagesApart` that is what was cited (`CitedAreMarked`).
- Groups: a topic claims by reference, takes each unclaimed passage with it, and what
  is claimed stays so; by `PassagesApart` claims of references are claims of passages.
  The invariant of the walk (`Apart`) is that the groups so far hold nothing twice and
  share nothing.
- Nothing unsent: `Meant` is what a reader finds under a reference, `Wanted` what the
  verifier asks for; `MeantIsWanted` shows they are one set for every citation the
  verifier takes for a reference. The fallback lists what was sent by definition, and
  has to be shown to be readable (`FallbackListsAll`).
- The Deuterocanon: the 66 books' hits are a prefix of the hits of both, the ranges of
  the one are those of the other of that canon, in one order, and the cut takes a
  prefix of a prefix (`BothAddsASlice`, `RangesOfTheSixtySix`, `BothSendsMore`).
- Paging: a page is always one that `chapter` can answer (`PageFits`). Next and
  previous are each other's inverse (`StepsTurnBack`) inside a book by arithmetic,
  across books because nothing that is read lies between a book and the next
  (`NextBookIsNext`, `BooksTurnBack`), and because no chapter of a book is missing.

## Limits

Only model-checked: everything about time and progress (`EveryAskReturns`, and
`EndsWithNothingRunning`, `ServersDieWithTheProgram` and `ModelArrives` beyond the safety
halves above), since liveness under fairness is out of the prover's reach. The
properties of the runs that expect a violation are false, so there is nothing to prove;
for
two of them a theorem says how far they hold (`RenameIsOfTheWhole` for one download at
a time, `LiveIsWorth` for how much the counter is short). What a score of the
search is good for, that a better verse ranks higher, is stated nowhere.

Left out of `Session` and `Shell`: what a prompt, a passage or an answer says;
the Stage events; `cancelling`, which is written and never read; poisoned locks
and panics; process ids given to programs other than the two servers, which a timer
with an old slot could end too (`session.rs:166`); the end of the program after its
window closes.
Left out of `Sidecar`: another program taking the port between `free_port` and
the server's bind; the parent-death signal that follows the end of a thread
rather than of the program. Left out of `Download`: the checksum is taken in one
step; a partial whose length cannot be read, which the code takes for none; a removal
that fails for ever, on which `fetch` calls itself without end; an `fsync` that is missing before the rename. `PartIsRemoved` stands for
somebody who clears the folder.

Left out of `Settings`: the key `first_run_done`, which nothing here reads; values
no screen sends; several devices, of which the code takes the freest; the
memory a server that died gives back while its handle is kept.

Left out of `Retrieval` and `Verifier`: cosine, bm25, keywords and stop words (a
query is their result); the configurations of the evaluation with topics or cross
references off; ties that floating point would break; how the patterns are built,
so two citations of a text are never read as one. Left out of `UserDb`: a schema
version below 0; the full-text mirror of the history with its triggers, and the search over it; the
version of the index an entry was saved with, and the text withheld when it is
another; the lines of the text export. Left out of `Evidence`: the servers and the
locks, which `Session` and `Shell` have; the order of the sections on the screen.

Not modelled: the crisis notice, prompts, paths, credits and the hardware screen,
which are pure or constant; the command-line tools other than `session`; what the
frontend draws; and the offline pipeline, which is sequential and run by hand.

## Plan

What the code has that is worth a model is modelled, and every safety property of the
passing runs is proved. What is worth doing next:

1. An abstract history (`answers given, answers lost, answers deleted`) that `UserDb`
   with `Evidence` implements, with the refinement proved as `HarnessKeepsThePromise`
   is; today `RowsNameTheirEntry` and `OnlyTheUnnumberedAreLost` say it in two parts.
2. Bounds on the scores of `Ranked`, so that two verses of equal cosine are told apart
   only by what the topics and the cross references say.
3. What holds with two downloads at once: which of the steps of finding 5 is the first
   that needs the second call, as an invariant that excludes only it.
