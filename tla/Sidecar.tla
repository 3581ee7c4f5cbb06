------------------------------ MODULE Sidecar ------------------------------
(***************************************************************************)
(* The model-server manager (core/src/sidecar.rs): threads of one program  *)
(* that start, hold and stop llama-server processes, the counter LIVE that *)
(* says how many there are, and the watchdog that must kill a server when  *)
(* its parent dies without running any code.                               *)
(*                                                                         *)
(* A starter is a place in the program that calls Sidecar::start and keeps *)
(* what it returns.  The process table is the operating system's: a child  *)
(* that has exited keeps its process id until its parent has waited for it *)
(* or is gone, and then the id may be given to somebody else, a stranger   *)
(* or another server.                                                      *)
(***************************************************************************)
EXTENDS Naturals, FiniteSets

CONSTANTS
    Starters,   \* who calls Sidecar::start
    Sharing,    \* those whose options set allow_concurrent
    Pids,       \* process ids
    NoPid,
    CounterMax, \* usize::MAX
    MaxLost     \* bound: failed starts in one behaviour

\* There are fewer places that start a server than a usize counts.
ASSUME SidecarAssumption ==
    /\ Sharing \subseteq Starters
    /\ NoPid \notin Pids
    /\ IsFiniteSet(Starters)
    /\ CounterMax \in Nat
    /\ Cardinality(Starters) <= CounterMax
    /\ MaxLost \in Nat

VARIABLES
    platform,  \* which watchdog was compiled in
    up,        \* the program runs
    live,      \* LIVE
    place,     \* where each starter stands
    failing,   \* the starters whose finish() was called by wait_ready
    child,     \* the process id each starter's Child still keeps
    reaper,    \* macOS: the process id each standing watchdog would kill
    guarded,   \* Windows: the job; Linux: those with a parent-death signal
    proc,      \* the process table
    lost       \* history: starts given up after their server was spawned

vars == <<platform, up, live, place, failing, child, reaper, guarded, proc, lost>>

Counted == {"starting", "refusing", "spawned", "unadopted", "waiting", "ready",
            "stopping", "killing", "counting"}
Places == {"idle", "failed"} \cup Counted

Plus1(n) == IF n = CounterMax THEN 0 ELSE n + 1

\* Variant: a counter that goes below zero where usize wraps.
SignedMinus1(n) == n - 1

Minus1(n) == IF n = 0 THEN CounterMax ELSE n - 1

SidecarTypeOK ==
    /\ platform \in {"linux", "windows", "macos"}
    /\ up \in BOOLEAN
    /\ live \in 0 .. CounterMax
    /\ place \in [Starters -> Places]
    /\ failing \subseteq Starters
    /\ child \in [Starters -> Pids \cup {NoPid}]
    /\ reaper \in [Starters -> Pids \cup {NoPid}]
    /\ guarded \subseteq Pids
    /\ proc \in [Pids -> {"free", "server", "exited", "stranger"}]
    /\ lost \in 0 .. MaxLost

Init ==
    /\ platform \in {"linux", "windows", "macos"}
    /\ up = TRUE
    /\ live = 0
    /\ place = [s \in Starters |-> "idle"]
    /\ failing = {}
    /\ child = [s \in Starters |-> NoPid]
    /\ reaper = [s \in Starters |-> NoPid]
    /\ guarded = {}
    /\ proc = [p \in Pids |-> "free"]
    /\ lost = 0

Moves(s, from, to) ==
    /\ up
    /\ place[s] = from
    /\ place' = [place EXCEPT ![s] = to]

-----------------------------------------------------------------------------
(* Sidecar::start *)

\* Variant: off by one, the new value decides.
CountsOneTooMany(s) ==
    /\ Moves(s, "idle", IF live > 1 /\ s \notin Sharing THEN "refusing" ELSE "starting")
    /\ live' = Plus1(live)
    /\ UNCHANGED <<platform, up, failing, child, reaper, guarded, proc, lost>>

\* LIVE.fetch_add; the value before it decides.
Counts(s) ==
    /\ Moves(s, "idle", IF live > 0 /\ s \notin Sharing THEN "refusing" ELSE "starting")
    /\ live' = Plus1(live)
    /\ UNCHANGED <<platform, up, failing, child, reaper, guarded, proc, lost>>

\* Variant: a refusal leaves its count behind.
IsRefusedAndCounted(s) ==
    /\ Moves(s, "refusing", "idle")
    /\ UNCHANGED <<platform, up, live, failing, child, reaper, guarded, proc, lost>>

IsRefused(s) ==
    /\ Moves(s, "refusing", "idle")
    /\ live' = Minus1(live)
    /\ UNCHANGED <<platform, up, failing, child, reaper, guarded, proc, lost>>

\* start_inner gives up before there is a process: no model file, too little
\* memory, no port, no server to run.
CannotStart(s) ==
    /\ Moves(s, "starting", "idle")
    /\ live' = Minus1(live)
    /\ UNCHANGED <<platform, up, failing, child, reaper, guarded, proc, lost>>

Spawns(s) ==
    /\ Moves(s, "starting", "spawned")
    /\ \E p \in Pids :
        /\ proc[p] = "free"
        /\ proc' = [proc EXCEPT ![p] = "server"]
        /\ child' = [child EXCEPT ![s] = p]
    /\ UNCHANGED <<platform, up, live, failing, reaper, guarded, lost>>

\* Variant: on Windows the child is not put in the job.
AdoptsOnlyOnPosix(s) ==
    /\ Moves(s, "spawned", "waiting")
    /\ IF platform = "macos"
       THEN reaper' = [reaper EXCEPT ![s] = child[s]]
       ELSE UNCHANGED reaper
    /\ guarded' = IF platform = "linux" THEN guarded \cup {child[s]} ELSE guarded
    /\ UNCHANGED <<platform, up, live, failing, child, proc, lost>>

\* The watchdog takes the child on: the parent-death signal the child sets for
\* itself, the job object, or a shell that waits for the pipe to close.
Adopts(s) ==
    /\ Moves(s, "spawned", "waiting")
    /\ IF platform = "macos"
       THEN reaper' = [reaper EXCEPT ![s] = child[s]] /\ UNCHANGED guarded
       ELSE guarded' = guarded \cup {child[s]} /\ UNCHANGED reaper
    /\ UNCHANGED <<platform, up, live, failing, child, proc, lost>>

\* kill and wait: the process id may be given to somebody else from here on.  A
\* child that was waited for already is neither killed nor waited for again.
KillsAndWaits(s) ==
    /\ proc' = [p \in Pids |-> IF p = child[s] THEN "free" ELSE proc[p]]
    /\ guarded' = guarded \ {child[s]}
    /\ child' = [child EXCEPT ![s] = NoPid]

\* Variant: the sidecar nobody watches is let go and not killed.
LetsGoOfTheUnwatched(s) ==
    /\ platform # "linux"
    /\ Moves(s, "spawned", "unadopted")
    /\ child' = [child EXCEPT ![s] = NoPid]
    /\ UNCHANGED <<platform, up, live, failing, reaper, guarded, proc, lost>>

\* A sidecar that cannot be watched is killed at once.
CannotAdopt(s) ==
    /\ platform # "linux"
    /\ Moves(s, "spawned", "unadopted")
    /\ KillsAndWaits(s)
    /\ UNCHANGED <<platform, up, live, failing, reaper, lost>>

\* wait_ready: /health answers 200.
IsReady(s) ==
    /\ Moves(s, "waiting", "ready")
    /\ proc[child[s]] = "server"
    /\ UNCHANGED <<platform, up, live, failing, child, reaper, guarded, proc, lost>>

\* The start is given up: finish(), and then start fails.
GivesUp(s) ==
    /\ Moves(s, "waiting", "stopping")
    /\ lost < MaxLost
    /\ lost' = lost + 1
    /\ failing' = failing \cup {s}
    /\ UNCHANGED <<platform, up, live, reaper>>

\* try_wait finds that the server exited early.  On Unix that is the wait that
\* frees its process id; on Windows the id is kept until the Child is dropped.
ExitsEarly(s) ==
    /\ GivesUp(s)
    /\ proc[child[s]] = "exited"
    /\ IF platform = "windows"
       THEN UNCHANGED <<child, guarded, proc>>
       ELSE KillsAndWaits(s)

\* The time is up, whether or not the server still runs.
IsNotReady(s) == GivesUp(s) /\ UNCHANGED <<child, guarded, proc>>

\* stop(), or the handle is dropped.
IsStopped(s) ==
    /\ Moves(s, "ready", "stopping")
    /\ UNCHANGED <<platform, up, live, failing, child, reaper, guarded, proc, lost>>

-----------------------------------------------------------------------------
(* finish: the watchdog is stood down first, then the child goes, then LIVE. *)

\* Variant: the child goes first and the watchdog still stands.
KillsUnderTheWatchdog(s) ==
    /\ Moves(s, "stopping", "killing")
    /\ UNCHANGED <<platform, up, live, failing, child, reaper, guarded, proc, lost>>

StandsDown(s) ==
    /\ Moves(s, "stopping", "killing")
    /\ reaper' = [reaper EXCEPT ![s] = NoPid]
    /\ UNCHANGED <<platform, up, live, failing, child, guarded, proc, lost>>

Kills(s) ==
    /\ Moves(s, "killing", "counting")
    /\ KillsAndWaits(s)
    /\ UNCHANGED <<platform, up, live, failing, reaper, lost>>

CountsDown(s) ==
    /\ Moves(s, "counting", IF s \in failing THEN "failed" ELSE "idle")
    /\ live' = Minus1(live)
    /\ failing' = failing \ {s}
    /\ UNCHANGED <<platform, up, child, reaper, guarded, proc, lost>>

\* Back in start: the error takes one from LIVE, whoever took one before.
StartFails(s) ==
    /\ \E from \in {"failed", "unadopted"} : Moves(s, from, "idle")
    /\ live' = Minus1(live)
    /\ UNCHANGED <<platform, up, failing, child, reaper, guarded, proc, lost>>

-----------------------------------------------------------------------------
(* The operating system *)

\* A server dies, or is killed by its process id.
ServerExits(p) ==
    /\ up
    /\ proc[p] = "server"
    /\ proc' = [proc EXCEPT ![p] = "exited"]
    /\ UNCHANGED <<platform, up, live, place, failing, child, reaper, guarded, lost>>

StrangerComes(p) ==
    /\ proc[p] = "free"
    /\ \A q \in Pids : proc[q] # "stranger"
    /\ proc' = [proc EXCEPT ![p] = "stranger"]
    /\ UNCHANGED <<platform, up, live, place, failing, child, reaper, guarded, lost>>

StrangerGoes(p) ==
    /\ proc[p] = "stranger"
    /\ proc' = [proc EXCEPT ![p] = "free"]
    /\ UNCHANGED <<platform, up, live, place, failing, child, reaper, guarded, lost>>

\* The program dies without running any code.  The kernel kills what it guards
\* and cleans up what had exited.
ParentDies ==
    /\ up
    /\ up' = FALSE
    /\ proc' = [p \in Pids |-> IF p \in guarded \/ proc[p] = "exited" THEN "free" ELSE proc[p]]
    /\ guarded' = {}
    /\ UNCHANGED <<platform, live, place, failing, child, reaper, lost>>

\* macOS: the pipe is closed, `cat` ends and the shell kills the process id.
ReaperKills(s) ==
    /\ ~up
    /\ reaper[s] # NoPid
    /\ proc' = [proc EXCEPT ![reaper[s]] = "free"]
    /\ reaper' = [reaper EXCEPT ![s] = NoPid]
    /\ UNCHANGED <<platform, up, live, place, failing, child, guarded, lost>>

-----------------------------------------------------------------------------
Next ==
    \/ \E s \in Starters :
        \/ Counts(s)
        \/ IsRefused(s)
        \/ CannotStart(s)
        \/ Spawns(s)
        \/ Adopts(s)
        \/ CannotAdopt(s)
        \/ IsReady(s)
        \/ ExitsEarly(s)
        \/ IsNotReady(s)
        \/ IsStopped(s)
        \/ StandsDown(s)
        \/ Kills(s)
        \/ CountsDown(s)
        \/ StartFails(s)
        \/ ReaperKills(s)
    \/ \E p \in Pids : ServerExits(p) \/ StrangerComes(p) \/ StrangerGoes(p)
    \/ ParentDies

\* The shell of a dead parent's watchdog runs on.
Spec == Init /\ [][Next]_vars /\ \A s \in Starters : WF_vars(ReaperKills(s))
-----------------------------------------------------------------------------
\* While the program runs, every running server is some starter's child, and no
\* two starters share one: there is always a handle whose finish() stops it
\* (sidecar.rs:906-925, 646-655).
EveryServerHasAnOwner ==
    up => /\ \A p \in Pids : proc[p] = "server" => \E s \in Starters : child[s] = p
          /\ \A s, t \in Starters : child[s] = child[t] /\ child[s] # NoPid => s = t

\* A server that exited while it was waited for has lost its process id, and its
\* watchdog, still standing until finish() gets to it, holds a kill for that id.
ReapedEarly(s) == place[s] = "stopping" /\ s \in failing /\ child[s] = NoPid

\* A standing macOS watchdog names its own server, running or exited and not yet
\* waited for, so that its kill cannot land on a process that was given the id since
\* (sidecar.rs:464-466, 910-916), but for the moment between try_wait and finish()
\* in a start that is given up (sidecar.rs:696-698).
WatchdogNamesItsOwnServer ==
    up => \A s \in Starters : reaper[s] # NoPid =>
            \/ reaper[s] = child[s] /\ proc[child[s]] \in {"server", "exited"}
            \/ ReapedEarly(s)

\* A start that did not ask to run beside another server is admitted only when
\* no server is up or coming up (sidecar.rs:24-30), as long as no start was given
\* up half way: see LiveCountsTheServers for what is lost then.
ExclusiveRunsAlone ==
    [][\A s \in Starters \ Sharing :
        place[s] = "idle" /\ place'[s] = "starting" /\ lost = 0
            => \A t \in Starters : place[t] \notin Counted]_vars

\* LIVE, whatever interleaving of starts, refusals, failures and stops produced
\* it, is the number of starters between their two counts, less one for each
\* start that was given up after its server was spawned (sidecar.rs:535-549, 921-924).
LiveIsShortByTheLost ==
    LET counted == Cardinality({s \in Starters : place[s] \in Counted})
        undone  == Cardinality({s \in Starters : place[s] = "failed"} \cup failing)
    IN (live + lost) % (CounterMax + 1) = (counted + undone) % (CounterMax + 1)

\* When the program dies, by whatever means, its servers die too: all but one
\* not yet adopted and, on macOS, one whose watchdog was just stood down
\* (sidecar.rs:376-385, 451-466).
Unwatched(s) == place[s] = "spawned" \/ (platform = "macos" /\ place[s] = "killing")

ServersDieWithTheProgram ==
    ~up ~> \A s \in Starters : child[s] # NoPid /\ ~Unwatched(s) => proc[child[s]] # "server"

-----------------------------------------------------------------------------
\* sidecar.rs:927, "How many sidecars are alive right now": with every starter at
\* rest, LIVE is the number of sidecars held.
LiveCountsTheServers ==
    (\A s \in Starters : place[s] \in {"idle", "ready"})
        => live = Cardinality({s \in Starters : place[s] = "ready"})
=============================================================================
