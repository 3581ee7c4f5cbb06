--------------------------- MODULE Sidecar_proofs ---------------------------
(***************************************************************************)
(* What the model-server manager keeps, for any number of starters and     *)
(* process ids, any width of the counter and any number of failed starts.  *)
(* The process table comes first, then the counter LIVE, which needs sizes *)
(* of sets and arithmetic that wraps.                                      *)
(***************************************************************************)
EXTENDS Sidecar, Integers, FiniteSetTheorems, TLAPS

\* From the spawn to the wait, a starter has a child.
Holding == {"spawned", "waiting", "ready", "stopping", "killing"}

\* From the adoption to finish(), a watchdog stands.
Standing == {"waiting", "ready", "stopping"}

\* A start that is given up may have lost its child already.
ChildrenFit ==
    \A s \in Starters : /\ child[s] # NoPid => place[s] \in Holding
                        /\ place[s] \in Holding /\ s \notin failing => child[s] # NoPid

OneOwner == \A s, t \in Starters : child[s] = child[t] /\ child[s] # NoPid => s = t

\* An id of ours is not free until its process was waited for.
ChildrenKeepTheirIds ==
    up => \A s \in Starters : child[s] # NoPid => proc[child[s]] \in {"server", "exited"}

ServersAreHeld ==
    up => \A p \in Pids : proc[p] \in {"server", "exited"} => \E s \in Starters : child[s] = p

ReapersFit ==
    \A s \in Starters : reaper[s] # NoPid =>
        /\ place[s] \in Standing
        /\ reaper[s] = child[s] \/ ReapedEarly(s)

FailingFits == \A s \in failing : place[s] \in {"stopping", "killing", "counting"}

Watched(s) == child[s] # NoPid /\ ~Unwatched(s)

\* While the program runs, every child past its adoption is watched.
WatchdogsStand ==
    up => \A s \in Starters : Watched(s) =>
            IF platform = "macos" THEN reaper[s] = child[s] ELSE child[s] \in guarded

\* What a program that died has left running and watched is what a watchdog's
\* shell is about to kill: the kernel has ended everything else.
OnlyReapersAreLeft ==
    ~up => \A s \in Starters : Watched(s) /\ proc[child[s]] = "server" => reaper[s] = child[s]

TableInv ==
    /\ SidecarTypeOK
    /\ ChildrenFit
    /\ OneOwner
    /\ ChildrenKeepTheirIds
    /\ ServersAreHeld
    /\ ReapersFit
    /\ FailingFits
    /\ WatchdogsStand
    /\ OnlyReapersAreLeft

-----------------------------------------------------------------------------
\* The counter stays a counter.
LEMMA CounterWraps ==
    ASSUME NEW n \in 0 .. CounterMax
    PROVE  Plus1(n) \in 0 .. CounterMax /\ Minus1(n) \in 0 .. CounterMax
  BY SidecarAssumption DEF Plus1, Minus1

LEMMA TableInvInit == Init => TableInv
  <1> SUFFICES ASSUME Init
               PROVE  TableInv
    OBVIOUS
  <1>1. SidecarTypeOK
    BY SidecarAssumption DEF Init, SidecarTypeOK, Places, Counted
  <1>2. ChildrenFit /\ OneOwner /\ ReapersFit /\ FailingFits
    BY DEF Init, ChildrenFit, OneOwner, ReapersFit, FailingFits, Holding
  <1>3. ChildrenKeepTheirIds /\ ServersAreHeld /\ WatchdogsStand /\ OnlyReapersAreLeft
    BY DEF Init, ChildrenKeepTheirIds, ServersAreHeld, WatchdogsStand, OnlyReapersAreLeft, Watched
  <1> QED
    BY <1>1, <1>2, <1>3 DEF TableInv

\* Steps of a starter without a child, before it has one or after.
LEMMA EmptyHandedKeeps ==
    ASSUME TableInv, NEW s \in Starters,
           Counts(s) \/ IsRefused(s) \/ CannotStart(s) \/ CountsDown(s) \/ StartFails(s)
    PROVE  TableInv'
  <1> USE DEF Moves
  <1>1. /\ up
        /\ place[s] \notin Holding
        /\ child[s] = NoPid
        /\ \E to \in {"starting", "refusing", "idle", "failed"} :
              place' = [place EXCEPT ![s] = to]
        /\ live' \in {Plus1(live), Minus1(live)}
        /\ failing' = IF CountsDown(s) THEN failing \ {s} ELSE failing
        /\ UNCHANGED <<platform, up, child, reaper, guarded, proc, lost>>
    BY DEF Counts, IsRefused, CannotStart, CountsDown, StartFails, Holding, TableInv,
           ChildrenFit
  <1>2. SidecarTypeOK'
    BY <1>1, CounterWraps DEF TableInv, SidecarTypeOK, Places, Counted
  <1>3. \A t \in Starters : /\ place'[t] \in Holding <=> place[t] \in Holding
                            /\ place'[t] \in Standing <=> place[t] \in Standing
                            /\ place[t] \in Holding => place'[t] = place[t]
    BY <1>1 DEF TableInv, SidecarTypeOK, Holding, Standing
  <1>4. ChildrenFit' /\ OneOwner' /\ ChildrenKeepTheirIds' /\ ServersAreHeld' /\ ReapersFit'
    BY <1>1, <1>3 DEF TableInv, ChildrenFit, OneOwner, ChildrenKeepTheirIds, ServersAreHeld,
                      ReapersFit, ReapedEarly, Holding, Standing
  <1>5. FailingFits'
    BY <1>1 DEF TableInv, SidecarTypeOK, FailingFits, Counts, IsRefused, CannotStart, CountsDown,
                StartFails
  <1>6. \A t \in Starters : Watched(t)' <=> Watched(t)
    BY <1>1, <1>3 DEF TableInv, ChildrenFit, Watched, Unwatched, Holding
  <1>7. WatchdogsStand' /\ OnlyReapersAreLeft'
    BY <1>1, <1>6 DEF TableInv, WatchdogsStand, OnlyReapersAreLeft
  <1> QED
    BY <1>2, <1>4, <1>5, <1>7 DEF TableInv

LEMMA SpawnsKeeps ==
    ASSUME TableInv, NEW s \in Starters, Spawns(s)
    PROVE  TableInv'
  <1>1. PICK p \in Pids : /\ proc[p] = "free"
                          /\ proc' = [proc EXCEPT ![p] = "server"]
                          /\ child' = [child EXCEPT ![s] = p]
    BY DEF Spawns
  <1>2. /\ up /\ place[s] = "starting"
        /\ place' = [place EXCEPT ![s] = "spawned"]
        /\ UNCHANGED <<platform, up, live, failing, reaper, guarded, lost>>
    BY DEF Spawns, Moves
  <1>3. p # NoPid /\ child[s] = NoPid /\ \A t \in Starters : child[t] # p
    BY <1>1, <1>2, SidecarAssumption DEF TableInv, ChildrenFit, ChildrenKeepTheirIds, Holding
  <1>b. s \notin failing
    BY <1>2 DEF TableInv, FailingFits
  <1>4. SidecarTypeOK'
    BY <1>1, <1>2 DEF TableInv, SidecarTypeOK, Places, Counted
  <1>5. ChildrenFit' /\ OneOwner' /\ ChildrenKeepTheirIds' /\ ServersAreHeld'
    <2>1. ChildrenFit'
      BY <1>1, <1>2, <1>3 DEF TableInv, SidecarTypeOK, ChildrenFit, Holding
    <2>2. OneOwner'
      BY <1>1, <1>3 DEF TableInv, SidecarTypeOK, OneOwner
    <2>3. ChildrenKeepTheirIds'
      BY <1>1, <1>2 DEF TableInv, SidecarTypeOK, ChildrenKeepTheirIds
    <2>4. ServersAreHeld'
      <3> SUFFICES ASSUME NEW q \in Pids, proc'[q] \in {"server", "exited"}
                   PROVE  \E t \in Starters : child'[t] = q
        BY DEF ServersAreHeld
      <3>1. CASE q = p
        BY <1>1, <3>1 DEF TableInv, SidecarTypeOK
      <3>2. CASE q # p
        <4>1. PICK t \in Starters : child[t] = q
          BY <1>1, <1>2, <3>2 DEF TableInv, SidecarTypeOK, ServersAreHeld
        <4>2. t # s
          BY <1>3, <4>1, SidecarAssumption
        <4> QED
          BY <1>1, <4>1, <4>2 DEF TableInv, SidecarTypeOK
      <3> QED
        BY <3>1, <3>2
    <2> QED
      BY <2>1, <2>2, <2>3, <2>4
  <1>6. ReapersFit' /\ FailingFits'
    BY <1>1, <1>2 DEF TableInv, SidecarTypeOK, ReapersFit, ReapedEarly, FailingFits, Standing
  <1>7. WatchdogsStand' /\ OnlyReapersAreLeft'
    BY <1>1, <1>2 DEF TableInv, SidecarTypeOK, WatchdogsStand, OnlyReapersAreLeft, Watched,
                      Unwatched
  <1> QED
    BY <1>4, <1>5, <1>6, <1>7 DEF TableInv

LEMMA AdoptsKeeps ==
    ASSUME TableInv, NEW s \in Starters, Adopts(s)
    PROVE  TableInv'
  <1>1. /\ up /\ place[s] = "spawned"
        /\ place' = [place EXCEPT ![s] = "waiting"]
        /\ reaper' = IF platform = "macos" THEN [reaper EXCEPT ![s] = child[s]] ELSE reaper
        /\ guarded' = IF platform = "macos" THEN guarded ELSE guarded \cup {child[s]}
        /\ UNCHANGED <<platform, up, live, failing, child, proc, lost>>
    BY DEF Adopts, Moves
  <1>2. child[s] \in Pids /\ s \notin failing
    BY <1>1 DEF TableInv, SidecarTypeOK, ChildrenFit, FailingFits, Holding
  <1>3. SidecarTypeOK'
    BY <1>1, <1>2 DEF TableInv, SidecarTypeOK, Places, Counted
  <1>4. ChildrenFit' /\ OneOwner' /\ ChildrenKeepTheirIds' /\ ServersAreHeld'
    BY <1>1 DEF TableInv, SidecarTypeOK, ChildrenFit, OneOwner, ChildrenKeepTheirIds,
                ServersAreHeld, Holding
  <1>5. ReapersFit' /\ FailingFits'
    BY <1>1, <1>2 DEF TableInv, SidecarTypeOK, ReapersFit, ReapedEarly, FailingFits, Standing
  <1>6. WatchdogsStand' /\ OnlyReapersAreLeft'
    BY <1>1 DEF TableInv, SidecarTypeOK, WatchdogsStand, OnlyReapersAreLeft, Watched, Unwatched
  <1> QED
    BY <1>3, <1>4, <1>5, <1>6 DEF TableInv

\* Steps that leave every child, watchdog and process as they are.
LEMMA WaitingKeeps ==
    ASSUME TableInv, NEW s \in Starters,
           \/ IsReady(s) \/ IsNotReady(s) \/ IsStopped(s)
           \/ ExitsEarly(s) /\ platform = "windows"
    PROVE  TableInv'
  <1> USE DEF Moves
  <1>1. /\ up
        /\ place[s] \in Standing
        /\ \E to \in Standing : place' = [place EXCEPT ![s] = to]
        /\ lost' \in 0 .. MaxLost
        /\ failing' \in {failing, failing \cup {s}}
        /\ s \in failing' => place'[s] = "stopping"
        /\ place[s] \in {"waiting", "ready"}
        /\ UNCHANGED <<platform, up, live, child, reaper, guarded, proc>>
    <2>1. CASE IsReady(s)
      BY <2>1 DEF IsReady, Standing, TableInv, SidecarTypeOK, FailingFits
    <2>2. CASE IsNotReady(s) \/ (ExitsEarly(s) /\ platform = "windows")
      BY <2>2, SidecarAssumption DEF IsNotReady, ExitsEarly, GivesUp, Standing, TableInv, SidecarTypeOK
    <2>3. CASE IsStopped(s)
      BY <2>3 DEF IsStopped, Standing, TableInv, SidecarTypeOK, FailingFits
    <2> QED
      BY <2>1, <2>2, <2>3
  <1>2. SidecarTypeOK'
    BY <1>1 DEF TableInv, SidecarTypeOK, Places, Counted, Standing
  <1>3. \A t \in Starters : /\ place'[t] \in Holding <=> place[t] \in Holding
                            /\ place'[t] \in Standing <=> place[t] \in Standing
                            /\ place'[t] \in {"spawned", "killing"} => place'[t] = place[t]
                            /\ place[t] \in {"spawned", "killing"} => place'[t] = place[t]
    BY <1>1 DEF TableInv, SidecarTypeOK, Holding, Standing
  <1>4. ChildrenFit' /\ OneOwner' /\ ChildrenKeepTheirIds' /\ ServersAreHeld' /\ ReapersFit'
    <2>1. s \notin failing /\ child[s] # NoPid
      BY <1>1 DEF TableInv, FailingFits, ChildrenFit, Holding
    <2>2. \A t \in Starters : t # s => place'[t] = place[t] /\ (t \in failing' <=> t \in failing)
      BY <1>1 DEF TableInv, SidecarTypeOK
    <2> QED
      BY <1>1, <1>3, <2>1, <2>2
         DEF TableInv, ChildrenFit, OneOwner, ChildrenKeepTheirIds, ServersAreHeld,
             ReapersFit, ReapedEarly
  <1>5. FailingFits'
    BY <1>1 DEF TableInv, SidecarTypeOK, FailingFits
  <1>6. \A t \in Starters : Watched(t)' <=> Watched(t)
    BY <1>1, <1>3 DEF Watched, Unwatched
  <1>7. WatchdogsStand' /\ OnlyReapersAreLeft'
    BY <1>1, <1>6 DEF TableInv, WatchdogsStand, OnlyReapersAreLeft
  <1> QED
    BY <1>2, <1>4, <1>5, <1>7 DEF TableInv

LEMMA StandsDownKeeps ==
    ASSUME TableInv, NEW s \in Starters, StandsDown(s)
    PROVE  TableInv'
  <1>1. /\ up /\ place[s] = "stopping"
        /\ place' = [place EXCEPT ![s] = "killing"]
        /\ reaper' = [reaper EXCEPT ![s] = NoPid]
        /\ UNCHANGED <<platform, up, live, failing, child, guarded, proc, lost>>
    BY DEF StandsDown, Moves
  <1>2. SidecarTypeOK'
    BY <1>1 DEF TableInv, SidecarTypeOK, Places, Counted
  <1>3. ChildrenFit' /\ OneOwner' /\ ChildrenKeepTheirIds' /\ ServersAreHeld'
    BY <1>1 DEF TableInv, SidecarTypeOK, ChildrenFit, OneOwner, ChildrenKeepTheirIds,
                ServersAreHeld, Holding
  <1>4. ReapersFit' /\ FailingFits'
    BY <1>1 DEF TableInv, SidecarTypeOK, ReapersFit, ReapedEarly, FailingFits, Standing
  <1>5. WatchdogsStand' /\ OnlyReapersAreLeft'
    BY <1>1 DEF TableInv, SidecarTypeOK, WatchdogsStand, OnlyReapersAreLeft, Watched, Unwatched
  <1> QED
    BY <1>2, <1>3, <1>4, <1>5 DEF TableInv

\* The child is killed and waited for, at the end or because nobody watches it: by
\* then no watchdog has its id, but for the one of a server that exited early.
LEMMA KillingKeeps ==
    ASSUME TableInv, NEW s \in Starters,
           \/ CannotAdopt(s) \/ Kills(s)
           \/ ExitsEarly(s) /\ platform # "windows"
    PROVE  TableInv'
  <1> USE DEF Moves, KillsAndWaits
  <1>1. /\ up
        /\ \/ /\ place[s] = "spawned"
              /\ place' = [place EXCEPT ![s] = "unadopted"]
              /\ UNCHANGED <<failing, lost>>
           \/ /\ place[s] = "killing"
              /\ place' = [place EXCEPT ![s] = "counting"]
              /\ UNCHANGED <<failing, lost>>
           \/ /\ place[s] = "waiting"
              /\ place' = [place EXCEPT ![s] = "stopping"]
              /\ failing' = failing \cup {s}
              /\ lost' \in 0 .. MaxLost
        /\ proc' = [p \in Pids |-> IF p = child[s] THEN "free" ELSE proc[p]]
        /\ guarded' = guarded \ {child[s]}
        /\ child' = [child EXCEPT ![s] = NoPid]
        /\ UNCHANGED <<platform, up, live, reaper>>
    <2>1. CASE CannotAdopt(s) \/ Kills(s)
      BY <2>1 DEF CannotAdopt, Kills
    <2>2. CASE ExitsEarly(s) /\ platform # "windows"
      BY <2>2, SidecarAssumption DEF ExitsEarly, GivesUp, TableInv, SidecarTypeOK
    <2> QED
      BY <2>1, <2>2
  <1>2. /\ \A t \in Starters : t # s => /\ place'[t] = place[t]
                                        /\ child'[t] = child[t]
                                        /\ t \in failing' <=> t \in failing
        /\ child'[s] = NoPid
        /\ \/ place[s] = "spawned" /\ place'[s] = "unadopted" /\ s \notin failing'
           \/ place[s] = "killing" /\ place'[s] = "counting"
           \/ place[s] = "waiting" /\ place'[s] = "stopping" /\ s \in failing'
    BY <1>1 DEF TableInv, SidecarTypeOK, FailingFits
  <1>3. \A t \in Starters : t # s /\ child[t] # NoPid => child[t] # child[s]
    BY DEF TableInv, OneOwner
  <1>4. SidecarTypeOK'
    BY <1>1 DEF TableInv, SidecarTypeOK, Places, Counted
  <1>5. ChildrenFit' /\ OneOwner' /\ ChildrenKeepTheirIds'
    <2>1. ChildrenFit'
      BY <1>2 DEF TableInv, ChildrenFit, Holding
    <2>2. OneOwner'
      BY <1>2 DEF TableInv, OneOwner
    <2>3. ChildrenKeepTheirIds'
      BY <1>1, <1>2, <1>3 DEF TableInv, SidecarTypeOK, ChildrenKeepTheirIds
    <2> QED
      BY <2>1, <2>2, <2>3
  <1>6. ServersAreHeld'
    <2> SUFFICES ASSUME NEW p \in Pids, proc'[p] \in {"server", "exited"}
                 PROVE  \E t \in Starters : child'[t] = p
      BY DEF ServersAreHeld
    <2>1. p # child[s] /\ proc[p] \in {"server", "exited"}
      BY <1>1
    <2>2. PICK t \in Starters : child[t] = p
      BY <1>1, <2>1 DEF TableInv, ServersAreHeld
    <2> QED
      BY <1>2, <2>1, <2>2
  <1>7. ReapersFit' /\ FailingFits'
    <2>1. ReapersFit'
      BY <1>1, <1>2 DEF TableInv, ReapersFit, ReapedEarly, Standing
    <2>2. FailingFits'
      BY <1>1, <1>2, <1>4 DEF TableInv, FailingFits, SidecarTypeOK
    <2> QED
      BY <2>1, <2>2
  <1>8. WatchdogsStand' /\ OnlyReapersAreLeft'
    BY <1>1, <1>2, <1>3 DEF TableInv, WatchdogsStand, OnlyReapersAreLeft, Watched, Unwatched
  <1> QED
    BY <1>4, <1>5, <1>6, <1>7, <1>8 DEF TableInv

\* The operating system's steps while the program runs or not.
LEMMA SystemKeeps ==
    ASSUME TableInv, NEW p \in Pids, ServerExits(p) \/ StrangerComes(p) \/ StrangerGoes(p)
    PROVE  TableInv'
  <1>1. /\ UNCHANGED <<platform, up, live, place, failing, child, reaper, guarded, lost>>
        /\ \/ up /\ proc[p] = "server" /\ proc' = [proc EXCEPT ![p] = "exited"]
           \/ proc[p] = "free" /\ proc' = [proc EXCEPT ![p] = "stranger"]
           \/ proc[p] = "stranger" /\ proc' = [proc EXCEPT ![p] = "free"]
    BY DEF ServerExits, StrangerComes, StrangerGoes
  <1>2. SidecarTypeOK'
    BY <1>1 DEF TableInv, SidecarTypeOK
  <1>3. ChildrenFit' /\ OneOwner' /\ ReapersFit' /\ FailingFits'
    BY <1>1 DEF TableInv, ChildrenFit, OneOwner, ReapersFit, ReapedEarly, FailingFits
  <1>4. ChildrenKeepTheirIds' /\ ServersAreHeld'
    BY <1>1 DEF TableInv, SidecarTypeOK, ChildrenKeepTheirIds, ServersAreHeld
  <1>5. WatchdogsStand' /\ OnlyReapersAreLeft'
    BY <1>1 DEF TableInv, SidecarTypeOK, WatchdogsStand, OnlyReapersAreLeft, Watched, Unwatched
  <1> QED
    BY <1>2, <1>3, <1>4, <1>5 DEF TableInv

LEMMA ParentDiesKeeps ==
    ASSUME TableInv, ParentDies
    PROVE  TableInv'
  <1>1. /\ up /\ ~up'
        /\ proc' = [p \in Pids |-> IF p \in guarded \/ proc[p] = "exited" THEN "free"
                                   ELSE proc[p]]
        /\ guarded' = {}
        /\ UNCHANGED <<platform, live, place, failing, child, reaper, lost>>
    BY DEF ParentDies
  <1>2. SidecarTypeOK'
    <2>1. up' \in BOOLEAN
      BY DEF ParentDies
    <2> QED
      BY <1>1, <2>1 DEF TableInv, SidecarTypeOK
  <1>3. ChildrenFit' /\ OneOwner' /\ ReapersFit' /\ FailingFits'
    BY <1>1 DEF TableInv, ChildrenFit, OneOwner, ReapersFit, ReapedEarly, FailingFits
  <1>4. ChildrenKeepTheirIds' /\ ServersAreHeld' /\ WatchdogsStand'
    BY <1>1 DEF ChildrenKeepTheirIds, ServersAreHeld, WatchdogsStand
  <1>5. OnlyReapersAreLeft'
    BY <1>1 DEF TableInv, SidecarTypeOK, WatchdogsStand, OnlyReapersAreLeft, Watched, Unwatched
  <1> QED
    BY <1>2, <1>3, <1>4, <1>5 DEF TableInv

LEMMA ReaperKeeps ==
    ASSUME TableInv, NEW s \in Starters, ReaperKills(s)
    PROVE  TableInv'
  <1>1. /\ ~up /\ reaper[s] # NoPid
        /\ proc' = [proc EXCEPT ![reaper[s]] = "free"]
        /\ reaper' = [reaper EXCEPT ![s] = NoPid]
        /\ UNCHANGED <<platform, up, live, place, failing, child, guarded, lost>>
    BY DEF ReaperKills
  <1>2. SidecarTypeOK'
    BY <1>1 DEF TableInv, SidecarTypeOK
  <1>3. ChildrenFit' /\ OneOwner' /\ ReapersFit' /\ FailingFits'
    BY <1>1 DEF TableInv, SidecarTypeOK, ChildrenFit, OneOwner, ReapersFit, ReapedEarly,
                FailingFits
  <1>4. ChildrenKeepTheirIds' /\ ServersAreHeld' /\ WatchdogsStand'
    BY <1>1 DEF ChildrenKeepTheirIds, ServersAreHeld, WatchdogsStand
  <1>5. OnlyReapersAreLeft'
    BY <1>1 DEF TableInv, SidecarTypeOK, ReapersFit, OnlyReapersAreLeft, Watched, Unwatched
  <1> QED
    BY <1>2, <1>3, <1>4, <1>5 DEF TableInv

LEMMA TableInvNext == TableInv /\ [Next]_vars => TableInv'
  <1> SUFFICES ASSUME TableInv, [Next]_vars
               PROVE  TableInv'
    OBVIOUS
  <1>1. CASE UNCHANGED vars
    BY <1>1 DEF TableInv, vars, SidecarTypeOK, ChildrenFit, OneOwner, ChildrenKeepTheirIds,
                ServersAreHeld, ReapersFit, ReapedEarly, FailingFits, WatchdogsStand, OnlyReapersAreLeft,
                Watched, Unwatched
  <1> QED
    BY <1>1, EmptyHandedKeeps, SpawnsKeeps, AdoptsKeeps, WaitingKeeps, StandsDownKeeps,
       KillingKeeps, SystemKeeps, ParentDiesKeeps, ReaperKeeps DEF Next

LEMMA TableHolds == Spec => []TableInv
  BY TableInvInit, TableInvNext, PTL DEF Spec

-----------------------------------------------------------------------------
(* LIVE.  Two numbers are congruent when they differ by whole turns of the   *)
(* counter.                                                                  *)

Turn == CounterMax + 1

Congruent(x, y) == \E k \in Int : x = y + k * Turn

CountedOnes == {s \in Starters : place[s] \in Counted}
UndoneOnes == {s \in Starters : place[s] = "failed"} \cup failing

Due == Cardinality(CountedOnes) + Cardinality(UndoneOnes)

CounterInv == Congruent(live + lost, Due)

\* A start that is undone was given up.
UndoneWereLost == lost = 0 => UndoneOnes = {}

LEMMA TurnIsPositive == Turn \in Nat \ {0}
  BY SidecarAssumption DEF Turn

\* A whole turn more or less.
LEMMA OneTurn ==
    ASSUME NEW k \in Int
    PROVE  (k + 1) * Turn = k * Turn + Turn /\ (k - 1) * Turn = k * Turn - Turn
  BY TurnIsPositive

\* Counting up and down on the counter is counting up and down.
LEMMA CountingIsCongruent ==
    ASSUME NEW n \in 0 .. CounterMax, NEW l \in Nat, NEW d \in Nat, Congruent(n + l, d)
    PROVE  /\ Congruent(Plus1(n) + l, d + 1)
           /\ Congruent(Minus1(n) + l, d - 1)
           /\ Congruent(n + (l + 1), d + 1)
  <1>1. PICK k \in Int : n + l = d + k * Turn
    BY DEF Congruent
  <1>2. /\ k * Turn \in Int
        /\ (k + 1) * Turn = k * Turn + Turn
        /\ (k - 1) * Turn = k * Turn - Turn
    BY OneTurn, TurnIsPositive
  <1>3. Turn = CounterMax + 1 /\ CounterMax \in Nat
    BY SidecarAssumption DEF Turn
  <1>4. Congruent(Plus1(n) + l, d + 1)
    <2>1. CASE n = CounterMax
      <3>1. Plus1(n) + l = (d + 1) + (k - 1) * Turn
        BY <1>1, <1>2, <1>3, <2>1 DEF Plus1
      <3> QED
        BY <3>1 DEF Congruent
    <2>2. CASE n # CounterMax
      <3>1. Plus1(n) + l = (d + 1) + k * Turn
        BY <1>1, <1>2, <2>2 DEF Plus1
      <3> QED
        BY <3>1 DEF Congruent
    <2> QED
      BY <2>1, <2>2
  <1>5. Congruent(Minus1(n) + l, d - 1)
    <2>1. CASE n = 0
      <3>1. Minus1(n) + l = (d - 1) + (k + 1) * Turn
        BY <1>1, <1>2, <1>3, <2>1 DEF Minus1
      <3> QED
        BY <3>1 DEF Congruent
    <2>2. CASE n # 0
      <3>1. Minus1(n) + l = (d - 1) + k * Turn
        BY <1>1, <1>2, <2>2 DEF Minus1
      <3> QED
        BY <3>1 DEF Congruent
    <2> QED
      BY <2>1, <2>2
  <1>6. n + (l + 1) = (d + 1) + k * Turn
    BY <1>1, <1>2
  <1> QED
    BY <1>4, <1>5, <1>6 DEF Congruent

\* Congruent numbers leave the same remainder.
LEMMA CongruentRemainders ==
    ASSUME NEW x \in Nat, NEW y \in Nat, Congruent(x, y)
    PROVE  x % Turn = y % Turn
  <1>1. PICK k \in Int : x = y + k * Turn
    BY DEF Congruent
  <1>2. /\ x = Turn * (x \div Turn) + (x % Turn) /\ 0 <= x % Turn /\ x % Turn < Turn
        /\ y = Turn * (y \div Turn) + (y % Turn) /\ 0 <= y % Turn /\ y % Turn < Turn
        /\ x \div Turn \in Int /\ y \div Turn \in Int
        /\ x % Turn \in Int /\ y % Turn \in Int
    BY TurnIsPositive
  <1>. DEFINE r == x % Turn
              q == y % Turn
              i == x \div Turn
              j == (y \div Turn) + k
  <1>3. i * Turn + r = j * Turn + q
    BY <1>1, <1>2, TurnIsPositive
  <1>4. r \in Int /\ q \in Int /\ i \in Int /\ j \in Int /\ 0 <= r /\ r < Turn /\ 0 <= q /\ q < Turn
    BY <1>2
  <1>. HIDE DEF r, q, i, j
  <1>5. r = q
    BY <1>3, <1>4, TurnIsPositive
  <1> QED
    BY <1>5 DEF r, q

\* The two sets have sizes, and sharing none of their elements or growing by one
\* is what it should be.
LEMMA SizesAreNumbers ==
    ASSUME TableInv
    PROVE  /\ IsFiniteSet(CountedOnes) /\ Cardinality(CountedOnes) \in Nat
           /\ IsFiniteSet(UndoneOnes) /\ Cardinality(UndoneOnes) \in Nat
           /\ Cardinality(CountedOnes) <= CounterMax
  <1>1. IsFiniteSet(Starters) /\ Cardinality(Starters) <= CounterMax /\ CounterMax \in Nat
    BY SidecarAssumption
  <1>2. CountedOnes \in SUBSET Starters /\ UndoneOnes \in SUBSET Starters
    BY DEF TableInv, SidecarTypeOK, CountedOnes, UndoneOnes
  <1>3. /\ IsFiniteSet(CountedOnes) /\ Cardinality(CountedOnes) <= Cardinality(Starters)
        /\ IsFiniteSet(UndoneOnes)
    BY <1>1, <1>2, FS_Subset
  <1>4. /\ Cardinality(Starters) \in Nat
        /\ Cardinality(CountedOnes) \in Nat
        /\ Cardinality(UndoneOnes) \in Nat
    BY <1>1, <1>3, FS_CardinalityType
  <1> QED
    BY <1>1, <1>3, <1>4

LEMMA CounterInvInit == Init => CounterInv /\ UndoneWereLost
  <1> SUFFICES ASSUME Init
               PROVE  CounterInv /\ UndoneWereLost
    OBVIOUS
  <1>1. CountedOnes = {} /\ UndoneOnes = {}
    BY DEF Init, CountedOnes, UndoneOnes, Counted
  <1>2. Due = 0
    BY <1>1, FS_EmptySet DEF Due
  <1>3. live + lost = Due + 0 * Turn
    BY <1>2, TurnIsPositive DEF Init
  <1> QED
    BY <1>1, <1>3 DEF CounterInv, Congruent, UndoneWereLost

\* A starter counts, before it is refused or admitted.
LEMMA CountsCounts ==
    ASSUME TableInv, CounterInv, UndoneWereLost, NEW s \in Starters, Counts(s)
    PROVE  CounterInv' /\ UndoneWereLost'
  <1>1. /\ place[s] = "idle"
        /\ \E to \in {"starting", "refusing"} : place' = [place EXCEPT ![s] = to]
        /\ live' = Plus1(live)
        /\ UNCHANGED <<failing, lost>>
    BY DEF Counts, Moves
  <1>2. CountedOnes' = CountedOnes \cup {s} /\ s \notin CountedOnes /\ UndoneOnes' = UndoneOnes
    BY <1>1 DEF TableInv, SidecarTypeOK, CountedOnes, UndoneOnes, Counted
  <1>3. Cardinality(CountedOnes') = Cardinality(CountedOnes) + 1
    BY <1>2, SizesAreNumbers, FS_AddElement
  <1>4. Due \in Nat /\ Due' = Due + 1
    BY <1>2, <1>3, SizesAreNumbers DEF Due
  <1>5. CounterInv'
    BY <1>1, <1>4, CountingIsCongruent DEF TableInv, SidecarTypeOK, CounterInv
  <1> QED
    BY <1>1, <1>2, <1>5 DEF UndoneWereLost

\* A starter takes its count back, at rest from then on.
LEMMA LeavingCounts ==
    ASSUME TableInv, CounterInv, UndoneWereLost, NEW s \in Starters,
           \/ IsRefused(s) \/ CannotStart(s) \/ CountsDown(s)
           \/ StartFails(s) /\ place[s] = "unadopted"
    PROVE  CounterInv' /\ UndoneWereLost'
  <1>1. /\ place[s] \in {"refusing", "starting", "unadopted", "counting"}
        /\ \E to \in {"idle", "failed"} :
              /\ place' = [place EXCEPT ![s] = to]
              /\ to = "failed" <=> s \in failing
        /\ failing' = failing \ {s}
        /\ live' = Minus1(live)
        /\ UNCHANGED lost
    BY DEF IsRefused, CannotStart, StartFails, CountsDown, Moves, TableInv, FailingFits
  <1>2. CountedOnes' = CountedOnes \ {s} /\ s \in CountedOnes /\ UndoneOnes' = UndoneOnes
    BY <1>1 DEF TableInv, SidecarTypeOK, CountedOnes, UndoneOnes, Counted
  <1>3. Cardinality(CountedOnes') = Cardinality(CountedOnes) - 1
    BY <1>2, SizesAreNumbers, FS_RemoveElement
  <1>4. Due \in Nat /\ Due' = Due - 1
    BY <1>2, <1>3, SizesAreNumbers DEF Due
  <1>5. CounterInv'
    BY <1>1, <1>4, CountingIsCongruent DEF TableInv, SidecarTypeOK, CounterInv
  <1> QED
    BY <1>1, <1>2, <1>5 DEF UndoneWereLost

\* A start is given up: what is owed to the counter grows with what is lost.
LEMMA GivingUpCounts ==
    ASSUME TableInv, CounterInv, NEW s \in Starters, IsNotReady(s) \/ ExitsEarly(s)
    PROVE  CounterInv' /\ UndoneWereLost'
  <1>1. /\ place[s] = "waiting"
        /\ place' = [place EXCEPT ![s] = "stopping"]
        /\ failing' = failing \cup {s}
        /\ lost' = lost + 1
        /\ live' = live
    BY DEF IsNotReady, ExitsEarly, GivesUp, Moves
  <1>2. CountedOnes' = CountedOnes /\ UndoneOnes' = UndoneOnes \cup {s} /\ s \notin UndoneOnes
    BY <1>1 DEF TableInv, SidecarTypeOK, FailingFits, CountedOnes, UndoneOnes, Counted
  <1>3. Cardinality(UndoneOnes') = Cardinality(UndoneOnes) + 1
    BY <1>2, SizesAreNumbers, FS_AddElement
  <1>4. Due \in Nat /\ Due' = Due + 1
    BY <1>2, <1>3, SizesAreNumbers DEF Due
  <1>5. live \in 0 .. CounterMax /\ lost \in Nat
    BY SidecarAssumption DEF TableInv, SidecarTypeOK
  <1>6. CounterInv'
    BY <1>1, <1>4, <1>5, CountingIsCongruent DEF CounterInv
  <1> QED
    BY <1>1, <1>5, <1>6 DEF UndoneWereLost

\* The second count of a start that was given up.
LEMMA FailingCounts ==
    ASSUME TableInv, CounterInv, UndoneWereLost, NEW s \in Starters,
           StartFails(s), place[s] = "failed"
    PROVE  CounterInv' /\ UndoneWereLost'
  <1>1. /\ place[s] = "failed"
        /\ place' = [place EXCEPT ![s] = "idle"]
        /\ live' = Minus1(live)
        /\ UNCHANGED <<failing, lost>>
    BY DEF StartFails, Moves
  <1>2. CountedOnes' = CountedOnes /\ UndoneOnes' = UndoneOnes \ {s} /\ s \in UndoneOnes
    BY <1>1 DEF TableInv, SidecarTypeOK, FailingFits, CountedOnes, UndoneOnes, Counted
  <1>3. Cardinality(UndoneOnes') = Cardinality(UndoneOnes) - 1
    BY <1>2, SizesAreNumbers, FS_RemoveElement
  <1>4. Due \in Nat /\ Due' = Due - 1
    BY <1>2, <1>3, SizesAreNumbers DEF Due
  <1>5. CounterInv'
    BY <1>1, <1>4, CountingIsCongruent DEF TableInv, SidecarTypeOK, CounterInv
  <1> QED
    BY <1>1, <1>2, <1>5 DEF UndoneWereLost

\* Every other step leaves the counter, and who owes it what.
LEMMA OthersCount ==
    ASSUME TableInv, CounterInv, UndoneWereLost,
           \/ \E s \in Starters : \/ Spawns(s) \/ Adopts(s) \/ CannotAdopt(s) \/ IsReady(s)
                                  \/ IsStopped(s) \/ StandsDown(s) \/ Kills(s) \/ ReaperKills(s)
           \/ \E p \in Pids : ServerExits(p) \/ StrangerComes(p) \/ StrangerGoes(p)
           \/ ParentDies
           \/ UNCHANGED vars
    PROVE  CounterInv' /\ UndoneWereLost'
  <1>1. UNCHANGED <<live, failing, lost>>
    BY DEF Spawns, Adopts, CannotAdopt, IsReady, IsStopped, StandsDown, Kills, ReaperKills,
           ServerExits, StrangerComes, StrangerGoes, ParentDies, vars
  <1>2. \/ UNCHANGED place
        \/ \E s \in Starters, to \in Counted : /\ place[s] \in Counted
                                               /\ place' = [place EXCEPT ![s] = to]
    BY DEF Spawns, Adopts, CannotAdopt, IsReady, IsStopped, StandsDown, Kills, ReaperKills,
           ServerExits, StrangerComes, StrangerGoes, ParentDies, vars, Moves, Counted
  <1>3. CountedOnes' = CountedOnes /\ UndoneOnes' = UndoneOnes
    BY <1>1, <1>2 DEF TableInv, SidecarTypeOK, CountedOnes, UndoneOnes, Counted
  <1> QED
    BY <1>1, <1>3 DEF CounterInv, UndoneWereLost, Due, Congruent

LEMMA CounterInvNext ==
    TableInv /\ CounterInv /\ UndoneWereLost /\ [Next]_vars => CounterInv' /\ UndoneWereLost'
  <1> SUFFICES ASSUME TableInv, CounterInv, UndoneWereLost, [Next]_vars
               PROVE  CounterInv' /\ UndoneWereLost'
    OBVIOUS
  <1>1. ASSUME NEW s \in Starters, StartFails(s)
        PROVE  CounterInv' /\ UndoneWereLost'
    BY <1>1, LeavingCounts, FailingCounts DEF StartFails, Moves
  <1> QED
    BY <1>1, CountsCounts, LeavingCounts, GivingUpCounts, OthersCount DEF Next

LEMMA CounterHolds == Spec => [](TableInv /\ CounterInv /\ UndoneWereLost)
  BY TableInvInit, TableInvNext, CounterInvInit, CounterInvNext, PTL DEF Spec

-----------------------------------------------------------------------------
\* The manager keeps to its types: LIVE, whatever it is worth, wraps and never
\* leaves the range of a usize.
THEOREM SidecarTypeCorrect == Spec => []SidecarTypeOK
  <1>1. TableInv => SidecarTypeOK
    BY DEF TableInv
  <1> QED
    BY <1>1, TableHolds, PTL

\* Every running server has one handle that stops it (sidecar.rs:906-925, 646-655).
THEOREM ServersHaveOwners == Spec => []EveryServerHasAnOwner
  <1>1. TableInv => EveryServerHasAnOwner
    BY DEF TableInv, OneOwner, ServersAreHeld, EveryServerHasAnOwner
  <1> QED
    BY <1>1, TableHolds, PTL

\* A macOS watchdog's `kill -9` is for its own server as long as the program lives,
\* whatever became of that server and whoever is given ids, but for a server that
\* exited while it was waited for, until finish() stands its watchdog down
\* (sidecar.rs:464-466, 696-698, 910-916).
THEOREM WatchdogsKillTheirOwn == Spec => []WatchdogNamesItsOwnServer
  <1>1. TableInv => WatchdogNamesItsOwnServer
    BY DEF TableInv, ReapersFit, ChildrenKeepTheirIds, WatchdogNamesItsOwnServer
  <1> QED
    BY <1>1, TableHolds, PTL

\* When the program died, no server that was watched runs but one whose watchdog's
\* shell is still to kill it: what ServersDieWithTheProgram asks of every step
\* (sidecar.rs:376-385, 451-466).
THEOREM NothingWatchedIsForgotten == Spec => []OnlyReapersAreLeft
  <1>1. TableInv => OnlyReapersAreLeft
    BY DEF TableInv
  <1> QED
    BY <1>1, TableHolds, PTL

\* What LIVE is worth, whatever happened before (sidecar.rs:535-549, 921-924).
THEOREM LiveIsWorth == Spec => []LiveIsShortByTheLost
  <1>1. TableInv /\ CounterInv => LiveIsShortByTheLost
    <2> SUFFICES ASSUME TableInv, CounterInv
                 PROVE  LiveIsShortByTheLost
      OBVIOUS
    <2>1. live + lost \in Nat /\ Due \in Nat
      BY SizesAreNumbers, SidecarAssumption DEF TableInv, SidecarTypeOK, Due
    <2>2. (live + lost) % Turn = Due % Turn
      BY <2>1, CongruentRemainders DEF CounterInv
    <2> QED
      BY <2>2 DEF LiveIsShortByTheLost, Due, CountedOnes, UndoneOnes, Turn
  <1> QED
    BY <1>1, CounterHolds, PTL

\* Until a start is given up half way, an exclusive start is admitted only when
\* nobody holds a server or is about to (sidecar.rs:24-30).
THEOREM ExclusiveStartsAreAlone == Spec => ExclusiveRunsAlone
  <1>1. TableInv /\ CounterInv /\ UndoneWereLost /\ [Next]_vars
        => [\A s \in Starters \ Sharing :
               place[s] = "idle" /\ place'[s] = "starting" /\ lost = 0
                   => \A t \in Starters : place[t] \notin Counted]_vars
    <2> SUFFICES ASSUME TableInv, CounterInv, UndoneWereLost, Next,
                        NEW s \in Starters \ Sharing,
                        place[s] = "idle", place'[s] = "starting", lost = 0
                 PROVE  CountedOnes = {}
      BY DEF CountedOnes
    <2>1. live = 0
      <3>1. ASSUME NEW t \in Starters, Moves(t, "idle", IF live > 0 /\ t \notin Sharing
                                                        THEN "refusing" ELSE "starting")
            PROVE  live = 0
        BY <3>1 DEF Moves, TableInv, SidecarTypeOK
      <3>2. \E t \in Starters : Counts(t)
        BY DEF Next, Counts, IsRefused, CannotStart, Spawns, Adopts, CannotAdopt, IsReady,
               IsNotReady, ExitsEarly, GivesUp, IsStopped, StandsDown, Kills, CountsDown, StartFails, ReaperKills,
               ServerExits, StrangerComes, StrangerGoes, ParentDies, Moves, TableInv,
               SidecarTypeOK
      <3> QED
        BY <3>1, <3>2 DEF Counts
    <2>2. Due = Cardinality(CountedOnes)
      BY SizesAreNumbers, FS_EmptySet DEF UndoneWereLost, Due
    <2>3. 0 % Turn = Cardinality(CountedOnes) % Turn
      BY <2>1, <2>2, SizesAreNumbers, CongruentRemainders DEF CounterInv
    <2>4. Cardinality(CountedOnes) = 0
      <3>1. Cardinality(CountedOnes) \in 0 .. CounterMax
        BY SizesAreNumbers, SidecarAssumption
      <3>2. \A n \in 0 .. CounterMax : n % Turn = n
        BY SidecarAssumption DEF Turn
      <3> QED
        BY <2>3, <3>1, <3>2, SidecarAssumption
    <2> QED
      BY <2>4, SizesAreNumbers, FS_EmptySet
  <1> QED
    BY <1>1, CounterHolds, PTL DEF Spec, ExclusiveRunsAlone
=============================================================================
