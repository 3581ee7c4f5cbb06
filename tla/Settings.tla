------------------------------ MODULE Settings ------------------------------
(***************************************************************************)
(* One setting, kept in several places (src-tauri/src/lib.rs, core/src/    *)
(* compute.rs): the settings table, the copies the workers of `ask` and    *)
(* `run_self_test` and the main thread have read, the cached decision      *)
(* between processor and graphics card, the settings of the open session,  *)
(* and the server that is loaded.  `set_setting` runs on the main thread,  *)
(* the workers' preparations on others, and the decision takes a second.   *)
(*                                                                         *)
(* The canon is carried like the model and needs no copy here: a change of *)
(* it is a change that leaves the cache.                                   *)
(***************************************************************************)
EXTENDS Naturals

CONSTANTS
    Workers,  \* who may hold the session: the ask that is busy, the self-test
    Test,     \* the self-test
    Main,     \* the main thread
    Models,
    Needs,    \* ModelSpec.vram_mib of each model
    Card,     \* the card's memory, 0 where no card is found or the probe cannot be run
    None

ASSUME SettingsAssumption ==
    /\ Test \in Workers
    /\ Main \notin Workers
    /\ Models # {}
    /\ None \notin Workers \cup Models
    /\ Needs \in [Models -> Nat]
    /\ Card \in Nat

VARIABLES
    table,    \* the settings, in user.db
    cache,    \* AppState.compute
    engine,   \* the open session's engine.settings, None when none is open
    server,   \* the answering model that is loaded, and where it runs
    holder,   \* which worker holds the session
    pc,       \* where each thread stands
    copy,     \* the settings each thread has read
    choice,   \* the decision each thread has in hand
    setting,  \* whether the main thread is in set_setting
    late      \* history: what was last written from settings changed since they were read

threadVars == <<pc, copy, choice>>
sessionVars == <<engine, server, holder>>
vars == <<table, cache, sessionVars, threadVars, setting, late>>

Threads == Workers \cup {Main}
Modes == {"auto", "cpu", "gpu"}
AppSettings == [model : Models, mode : Modes]

\* A decision, with the mode and the model (needs_mib) it was made for.
ComputeChoice == [model : Models, mode : Modes, using : {"cpu", "gpu"}]

\* What engine_settings puts together.
EngineSettings == [of : AppSettings, by : ComputeChoice]

ServerOptions == [model : Models, using : {"cpu", "gpu"}]

Places == {"idle", "written", "cleared", "looking", "deciding", "storing", "waiting", "inside",
           "answering"}

SettingsTypeOK ==
    /\ table \in AppSettings
    /\ cache \in ComputeChoice \cup {None}
    /\ engine \in EngineSettings \cup {None}
    /\ server \in ServerOptions \cup {None}
    /\ holder \in Workers \cup {None}
    /\ pc \in [Threads -> Places]
    /\ copy \in [Threads -> AppSettings \cup {None}]
    /\ choice \in [Threads -> ComputeChoice \cup {None}]
    /\ setting \in BOOLEAN
    /\ late \subseteq {"cache", "session"}

Init ==
    /\ table \in AppSettings
    /\ cache = None
    /\ engine = None
    /\ server = None
    /\ holder = None
    /\ pc = [t \in Threads |-> "idle"]
    /\ copy = [t \in Threads |-> None]
    /\ choice = [t \in Threads |-> None]
    /\ setting = FALSE
    /\ late = {}

Moves(t, from, to) ==
    /\ pc[t] = from
    /\ pc' = [pc EXCEPT ![t] = to]

\* The call returns, or needs what it has read no more.
Drops(t) ==
    /\ copy' = [copy EXCEPT ![t] = None]
    /\ choice' = [choice EXCEPT ![t] = None]

\* What is written from a thread's copy is late if the table has changed since.
Writes(t, what) ==
    late' = IF copy[t] = table THEN late \ {what} ELSE late \cup {what}

-----------------------------------------------------------------------------
(* compute_choice: look, decide, store, with the lock on the cache let go in *)
(* between.                                                                  *)

\* read_settings, under the database lock: ask, run_self_test, compute_status.
Reads(t) ==
    /\ Moves(t, "idle", "looking")
    /\ copy' = [copy EXCEPT ![t] = table]
    /\ UNCHANGED <<table, cache, sessionVars, choice, setting, late>>

\* Variant: whatever is cached will do.
FindsAnyChoice(t) ==
    /\ cache # None
    /\ Moves(t, "looking", "waiting")
    /\ choice' = [choice EXCEPT ![t] = cache]
    /\ UNCHANGED <<table, cache, sessionVars, copy, setting, late>>

\* The cached decision counts if it was made for the same mode.
Remembered(t) == cache # None /\ cache.mode = copy[t].mode

FindsAChoice(t) ==
    /\ Moves(t, "looking", "waiting")
    /\ Remembered(t)
    /\ choice' = [choice EXCEPT ![t] = cache]
    /\ UNCHANGED <<table, cache, sessionVars, copy, setting, late>>

FindsNoChoice(t) ==
    /\ Moves(t, "looking", "deciding")
    /\ ~Remembered(t)
    /\ UNCHANGED <<table, cache, sessionVars, copy, choice, setting, late>>

\* list_devices: what a loaded model holds of the card is not free.  (A server
\* that died in the session's hands would hold nothing.)
Free ==
    IF server # None /\ server.using = "gpu"
    THEN IF Needs[server.model] < Card THEN Card - Needs[server.model] ELSE 0
    ELSE Card

\* Variant: what is asked for is taken for what runs.
UseAsAsked(s) == IF Card = 0 THEN "cpu" ELSE s.mode

\* decide
Use(s) ==
    CASE s.mode = "cpu" \/ Card = 0 -> "cpu"
      [] s.mode = "gpu"             -> "gpu"
      [] OTHER                      -> IF Free >= Needs[s.model] THEN "gpu" ELSE "cpu"

\* The probe.
Decides(t) ==
    /\ Moves(t, "deciding", "storing")
    /\ choice' = [choice EXCEPT ![t] =
            [model |-> copy[t].model, mode |-> copy[t].mode, using |-> Use(copy[t])]]
    /\ UNCHANGED <<table, cache, sessionVars, copy, setting, late>>

Stores(t) ==
    /\ Moves(t, "storing", "waiting")
    /\ cache' = choice[t]
    /\ Writes(t, "cache")
    /\ UNCHANGED <<table, sessionVars, copy, choice, setting>>

Chooses(t) == FindsAChoice(t) \/ FindsNoChoice(t) \/ Decides(t) \/ Stores(t)

-----------------------------------------------------------------------------
(* The main thread: set_setting, compute_status, shutdown_models. *)

\* One value, the model or the mode, goes into the table.
Sets(s) ==
    /\ s.model = table.model \/ s.mode = table.mode
    /\ Moves(Main, "idle", "written")
    /\ table' = s
    /\ setting' = TRUE
    /\ UNCHANGED <<cache, sessionVars, copy, choice, late>>

\* A change of the canon leaves the cache as it is.
SetsTheCanon ==
    /\ Moves(Main, "idle", "cleared")
    /\ setting' = TRUE
    /\ UNCHANGED <<table, cache, sessionVars, copy, choice, late>>

\* Variant: the decision made for the last model is carried over.
KeepsTheCache ==
    /\ Moves(Main, "written", "cleared")
    /\ UNCHANGED <<table, cache, sessionVars, copy, choice, setting, late>>

ClearsTheCache ==
    /\ Moves(Main, "written", "cleared")
    /\ cache' = None
    /\ late' = late \ {"cache"}
    /\ UNCHANGED <<table, sessionVars, copy, choice, setting>>

ReadsAgain ==
    /\ Moves(Main, "cleared", "looking")
    /\ copy' = [copy EXCEPT ![Main] = table]
    /\ UNCHANGED <<table, cache, sessionVars, choice, setting, late>>

\* compute_status returns.
Shows ==
    /\ ~setting
    /\ Moves(Main, "waiting", "idle")
    /\ Drops(Main)
    /\ UNCHANGED <<table, cache, sessionVars, setting, late>>

\* Variant: the settings are replaced without waiting for the session.
AppliesUnderTheAnswer ==
    /\ setting
    /\ Moves(Main, "waiting", "idle")
    /\ engine' = IF engine = None THEN None ELSE [of |-> copy[Main], by |-> choice[Main]]
    /\ late' = late \ {"session"}
    /\ setting' = FALSE
    /\ Drops(Main)
    /\ UNCHANGED <<table, cache, server, holder>>

\* Variant: the open session is left as it is.
AppliesToTheNextSession ==
    /\ setting
    /\ holder = None
    /\ Moves(Main, "waiting", "idle")
    /\ setting' = FALSE
    /\ Drops(Main)
    /\ UNCHANGED <<table, cache, sessionVars, late>>

\* With the session mutex: the open session's settings are replaced.  What is
\* loaded is not looked at.
Applies ==
    /\ setting
    /\ holder = None
    /\ Moves(Main, "waiting", "idle")
    /\ engine' = IF engine = None THEN None ELSE [of |-> copy[Main], by |-> choice[Main]]
    /\ late' = late \ {"session"}
    /\ setting' = FALSE
    /\ Drops(Main)
    /\ UNCHANGED <<table, cache, server, holder>>

LetsGo ==
    /\ engine' = None
    /\ server' = None
    /\ holder' = None
    /\ late' = late \ {"session"}

Closes ==
    /\ pc[Main] = "idle"
    /\ holder = None
    /\ LetsGo
    /\ UNCHANGED <<table, cache, threadVars, setting>>

-----------------------------------------------------------------------------
(* A worker, with its decision made. *)

\* The open session with the settings it has, or a new one with the worker's.
Enters(w) ==
    /\ holder = None
    /\ Moves(w, "waiting", "inside")
    /\ holder' = w
    /\ IF engine = None
       THEN engine' = [of |-> copy[w], by |-> choice[w]] /\ Writes(w, "session")
       ELSE UNCHANGED <<engine, late>>
    /\ Drops(w)
    /\ UNCHANGED <<table, cache, server, setting>>

CannotOpen(w) ==
    /\ holder = None
    /\ engine = None
    /\ Moves(w, "waiting", "idle")
    /\ Drops(w)
    /\ UNCHANGED <<table, cache, sessionVars, setting, late>>

\* ensure_loaded compares the model and not where it runs.
IsLoaded == server # None /\ server.model = engine.of.model

Loads(w) ==
    /\ Moves(w, "inside", "answering")
    /\ server' = IF IsLoaded THEN server
                 ELSE [model |-> engine.of.model, using |-> engine.by.using]
    /\ UNCHANGED <<table, cache, engine, holder, copy, choice, setting, late>>

\* The old server was stopped, the new one does not start: ask returns the error.
CannotLoad(w) ==
    /\ ~IsLoaded
    /\ w # Test
    /\ Moves(w, "inside", "idle")
    /\ server' = None
    /\ holder' = None
    /\ UNCHANGED <<table, cache, engine, copy, choice, setting, late>>

Returns(w) ==
    /\ Moves(w, "answering", "idle")
    /\ holder' = None
    /\ UNCHANGED <<table, cache, engine, server, copy, choice, setting, late>>

\* A self-test that cannot run lets go of the session.
TestLetsGo ==
    /\ \E place \in {"inside", "answering"} : Moves(Test, place, "idle")
    /\ LetsGo
    /\ UNCHANGED <<table, cache, copy, choice, setting>>

WorkerStep(w) ==
    \/ Enters(w)
    \/ CannotOpen(w)
    \/ Loads(w)
    \/ CannotLoad(w)
    \/ Returns(w)

MainStep ==
    \/ \E s \in AppSettings : Sets(s)
    \/ SetsTheCanon
    \/ ClearsTheCache
    \/ ReadsAgain
    \/ Shows
    \/ Applies
    \/ Closes

Next ==
    \/ MainStep
    \/ \E t \in Threads : Reads(t) \/ Chooses(t)
    \/ \E w \in Workers : WorkerStep(w)
    \/ TestLetsGo

Spec == Init /\ [][Next]_vars
-----------------------------------------------------------------------------
\* "A changed compute setting is a direct instruction" (lib.rs:509-511): whatever
\* copies and cached decisions were mixed on the way, a decision is used only with
\* settings of the mode it was made for, so a session set to the processor never
\* gets layers on the card.
TheModeIsObeyed ==
    /\ \A t \in Threads : pc[t] = "waiting" => choice[t].mode = copy[t].mode
    /\ engine # None => /\ engine.by.mode = engine.of.mode
                        /\ engine.of.mode = "cpu" => engine.by.using = "cpu"

\* Once set_setting has returned, an open session has the settings of the table
\* (lib.rs:515-527), unless it was opened with settings read before the change.
SessionIsRightOrLate ==
    ~setting /\ engine # None /\ engine.of # table => "session" \in late

\* Once set_setting has returned, a cached decision is one for the table's model
\* and mode (lib.rs:509-514), unless it was stored by somebody who read the
\* settings before the change and was still deciding.
CacheIsRightOrLate ==
    ~setting /\ cache # None /\ (cache.model # table.model \/ cache.mode # table.mode)
        => "cache" \in late

\* The settings of an answer under way hold still: the canon it searched, the
\* model it loads and the model it is saved under are of one piece (lib.rs:523-526).
AnAnswerKeepsItsSettings ==
    [][holder # None /\ holder' = holder => engine' = engine]_vars

-----------------------------------------------------------------------------
\* compute.rs:95, "What will actually run", and lib.rs:351, "the processor that
\* will run": an answer is written where the decision its session was given says.
WhatIsShownRuns == holder # None /\ pc[holder] = "answering" => server.using = engine.by.using
=============================================================================
