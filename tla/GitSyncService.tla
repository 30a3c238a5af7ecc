--------------------------- MODULE GitSyncService ---------------------------
(***************************************************************************)
(* The life cycle of GitSyncService (api/services/git_sync.go): Initialize *)
(* and UpdateConfig start and stop it, Start prepares the repositories and *)
(* spawns a timer goroutine, and timers and HTTP handlers run operations   *)
(* in /data/.git-work.  What an operation does there is module GitSync.    *)
(*                                                                         *)
(* g.mu guards the fields only for a few lines at a time, so each of those *)
(* critical sections is one action; an operation is the exception: it      *)
(* keeps g.mu from its first line to its last.  Start runs git without     *)
(* g.mu, and the timer goroutine reads g.syncTicker and g.stopChan anew    *)
(* each time it comes back to its select.                                  *)
(***************************************************************************)
EXTENDS Integers, FiniteSets

CONSTANTS
    Updates,     \* calls of UpdateConfig, each made once
    Boot,        \* the call of Initialize in main
    Hand,        \* an HTTP handler that runs a manual Pull or Push
    NoOne,       \* g.mu is free
    Configs,     \* the configurations: records [on, mode, url]
    FaultKinds,  \* what may fail: "clone", "setup", "save", "ack", "crash"
    MaxFaults    \* bound on failures and crashes

Modes == {"off", "pull", "push"}  \* "sync" goes the way of "pull"
(* branch: "main" is the one a clone without --branch checks out.          *)
Config == [on : BOOLEAN, mode : Modes, url : {"A", "B"},
           branch : {"main", "other"}]

Starters == Updates \cup {Boot}   \* each runs Start once, then its timer
Callers == Starters \cup {Hand}   \* those who run operations

ASSUME GitSyncServiceAssumption ==
    /\ IsFiniteSet(Updates)
    /\ Boot \notin Updates /\ Hand \notin Starters /\ NoOne \notin Callers
    /\ Configs \subseteq Config
    /\ FaultKinds \subseteq {"clone", "setup", "save", "ack", "crash"}
    /\ MaxFaults \in Nat

VARIABLES
    running, cloning,  \* g.isRunning, g.isCloning
    cfg, db,           \* g.config and the row of git_sync_config
    repo,              \* /data/.git exists
    dir, cloner, url,  \* /data/.git-work: its state, its maker, its origin
    chan,              \* the current g.stopChan; every earlier one is closed
    tick, live,        \* the current g.syncTicker; the tickers not stopped
    lock,              \* the operation that holds g.mu
    at,                \* where each caller is
    setup,             \* starters inside initInExistingDirectory
    sel,               \* the ticker and channel each timer's select reads
    upd, new,          \* where each UpdateConfig is, and its argument
    faults,            \* failures so far
    missed,            \* bookkeeping: starters under way that an update met
                       \*   and could not stop, for it stops only a goroutine
                       \*   that waits on the current ticker and channel
    split              \* bookkeeping: the last save fell between the save and
                       \*   the swap of another update, or its answer was lost

fields == <<running, cloning, cfg>>
clone == <<dir, cloner, url>>
timer == <<chan, tick, live>>
marks == <<missed, split>>
vars == <<fields, db, repo, clone, timer, lock, at, setup, sel, upd, new,
          faults, marks>>

StartPlaces == {"begin", "init", "setup", "leave", "fail", "timer", "failed"}
EnsurePlaces == {"check", "remove", "clone"}
OpPlaces == {"reload", "want", "use"}
LoopPlaces == {"select", "waiting"}
Places == StartPlaces \cup EnsurePlaces \cup OpPlaces \cup LoopPlaces
              \cup {"idle", "done"}

TypeOK ==
    /\ running \in BOOLEAN /\ cloning \in BOOLEAN
    /\ cfg \in Config /\ db \in Configs
    /\ repo \in BOOLEAN
    /\ dir \in {"none", "partial", "ready"}
    /\ cloner \in Callers \cup {NoOne}
    /\ url \in {"A", "B"}
    /\ chan \in Nat /\ tick \in Nat /\ live \subseteq 1..tick
    /\ lock \in Callers \cup {NoOne}
    /\ at \in [Callers -> Places]
    /\ setup \subseteq Starters
    /\ sel \in [Starters -> [tick : Nat, chan : Nat]]
    /\ upd \in [Updates -> {"idle", "save", "swap", "done"}]
    /\ new \in [Updates -> Configs]
    /\ faults \in 0..MaxFaults
    /\ missed \subseteq Starters
    /\ split \in BOOLEAN

Booted(c) == IF c.on THEN "begin" ELSE "done"

Init ==
    /\ running = FALSE /\ cloning = FALSE
    /\ cfg \in Configs /\ db = cfg
    /\ repo \in BOOLEAN
    /\ dir = "none" /\ cloner = NoOne /\ url = "A"
    /\ chan = 1 /\ tick = 0 /\ live = {}
    /\ lock = NoOne
    /\ at = [p \in Callers |-> IF p = Boot THEN Booted(cfg) ELSE "idle"]
    /\ setup = {}
    /\ sel = [s \in Starters |-> [tick |-> 0, chan |-> 0]]
    /\ upd = [u \in Updates |-> "idle"]
    /\ new = [u \in Updates |-> cfg]
    /\ faults = 0
    /\ missed = {} /\ split = FALSE

Goto(p, place) == at' = [at EXCEPT ![p] = place]

(* The updates whose configuration is saved and not installed, and the     *)
(* calls of Start that are under way.                                      *)
Pending == {u \in Updates : upd[u] = "swap"}
Starting == {s \in Starters : at[s] \in StartPlaces \cup EnsurePlaces
                                /\ lock # s}

Fault(kind) ==
    /\ kind \in FaultKinds
    /\ faults < MaxFaults
    /\ faults' = faults + 1

-----------------------------------------------------------------------------
(* Start.                                                                  *)

(* Start: nothing to do when the flag is set, else set it.                 *)
StartBegin(s) ==
    /\ at[s] = "begin" /\ lock = NoOne
    /\ IF running THEN Goto(s, "done") ELSE Goto(s, "init")
    /\ running' = TRUE
    /\ UNCHANGED <<cloning, cfg, db, repo, clone, timer, lock, setup, sel, upd,
                   new, faults, marks>>

(* initRepository: with a /data/.git, configure it; without one,           *)
(* initInExistingDirectory announces itself as cloning.                    *)
InitRepository(s) ==
    /\ at[s] = "init"
    /\ \/ /\ repo
          /\ Goto(s, "check")
          /\ UNCHANGED <<cloning, setup, faults, marks>>
       \/ /\ repo
          /\ Fault("setup")
          /\ Goto(s, "fail")
          /\ UNCHANGED <<cloning, setup, marks>>
       \/ /\ ~repo /\ lock = NoOne
          /\ cloning' = TRUE
          /\ setup' = setup \cup {s}
          /\ Goto(s, "setup")
          /\ UNCHANGED faults
    /\ UNCHANGED <<running, cfg, db, repo, clone, timer, lock, sel, upd, new,
                   marks>>

(* initInExistingDirectory: git init, then the rest of the set-up.         *)
InitInExistingDirectory(s) ==
    /\ at[s] = "setup"
    /\ \/ repo' = TRUE /\ Goto(s, "check") /\ UNCHANGED faults
       \/ Fault("setup") /\ repo' \in {repo, TRUE} /\ Goto(s, "fail")
    /\ UNCHANGED <<fields, db, clone, timer, lock, setup, sel, upd, new,
                   marks>>

(* The deferred isCloning = FALSE, then initRepository's result.           *)
LeaveInit(s) ==
    /\ at[s] \in {"leave", "fail"}
    /\ IF s \in setup THEN lock = NoOne /\ cloning' = FALSE
                      ELSE UNCHANGED cloning
    /\ setup' = setup \ {s}
    /\ Goto(s, IF at[s] = "leave" THEN "timer" ELSE "failed")
    /\ UNCHANGED <<running, cfg, db, repo, clone, timer, lock, sel, upd, new,
                   faults, marks>>

StartFails(s) ==
    /\ at[s] = "failed" /\ lock = NoOne
    /\ running' = FALSE
    /\ Goto(s, "done")
    /\ UNCHANGED <<cloning, cfg, db, repo, clone, timer, lock, setup, sel, upd,
                   new, faults, marks>>

(* The end of Start: with a mode other than off, startSyncTimer.  It looks *)
(* at g.config as it is now, and not at g.isRunning again.                 *)
StartTimer(s) ==
    /\ at[s] = "timer"
    /\ IF cfg.mode = "off"
       THEN Goto(s, "done") /\ UNCHANGED <<tick, live>>
       ELSE /\ tick' = tick + 1
            /\ live' = live \cup {tick + 1}
            /\ Goto(s, "select")
    /\ UNCHANGED <<fields, db, repo, clone, chan, lock, setup, sel, upd, new,
                   faults, marks>>

-----------------------------------------------------------------------------
(* The timer goroutine.                                                    *)

(* The select evaluates g.syncTicker.C and g.stopChan.                     *)
Select(s) ==
    /\ at[s] = "select"
    /\ sel' = [sel EXCEPT ![s] = [tick |-> tick, chan |-> chan]]
    /\ Goto(s, "waiting")
    /\ UNCHANGED <<fields, db, repo, clone, timer, lock, setup, upd, new,
                   faults, marks>>

Tick(s) ==
    /\ at[s] = "waiting" /\ sel[s].tick \in live
    /\ Goto(s, CASE cfg.mode = "off"  -> "select"
                 [] cfg.mode = "pull" -> "want"
                 [] cfg.mode = "push" -> "reload")
    /\ UNCHANGED <<fields, db, repo, clone, timer, lock, setup, sel, upd, new,
                   faults, marks>>

(* The channel the select reads has been closed.                           *)
TimerStops(s) ==
    /\ at[s] = "waiting" /\ sel[s].chan # chan
    /\ Goto(s, "done")
    /\ UNCHANGED <<fields, db, repo, clone, timer, lock, setup, sel, upd, new,
                   faults, marks>>

-----------------------------------------------------------------------------
(* An operation of a timer or a handler.                                   *)

Returned(p) == IF p = Hand THEN "idle" ELSE "select"

(* A manual Pull, or a Push, at any time.                                  *)
ManualCall ==
    /\ at[Hand] = "idle"
    /\ \E place \in {"want", "reload"} : Goto(Hand, place)
    /\ UNCHANGED <<fields, db, repo, clone, timer, lock, setup, sel, upd, new,
                   faults, marks>>

(* Push first reloads the configuration and gives up when it is disabled.  *)
Reload(p) ==
    /\ at[p] = "reload" /\ lock = NoOne
    /\ cfg' = db
    /\ Goto(p, IF db.on THEN "want" ELSE Returned(p))
    /\ UNCHANGED <<running, cloning, db, repo, clone, timer, lock, setup, sel,
                   upd, new, faults, marks>>

LockOperation(p) ==
    /\ at[p] = "want" /\ lock = NoOne
    /\ lock' = p
    /\ Goto(p, "check")
    /\ UNCHANGED <<fields, db, repo, clone, timer, setup, sel, upd, new,
                   faults, marks>>

(* The rest of the operation, and the deferred g.mu.Unlock().              *)
EndOperation(p) ==
    /\ at[p] = "use"
    /\ lock' = NoOne
    /\ Goto(p, Returned(p))
    /\ UNCHANGED <<fields, db, repo, clone, timer, setup, sel, upd, new,
                   faults, marks>>

-----------------------------------------------------------------------------
(* ensureWorkingDirectory, which Start calls without g.mu and operations   *)
(* call with it.                                                           *)

Ensured(p) == Goto(p, IF lock = p THEN "use" ELSE "leave") /\ UNCHANGED lock
NotEnsured_KeepsLock(p) ==
    /\ Goto(p, IF lock = p THEN Returned(p) ELSE "fail")
    /\ UNCHANGED lock

NotEnsured(p) ==
    IF lock = p THEN Goto(p, Returned(p)) /\ lock' = NoOne
                ELSE Goto(p, "fail") /\ UNCHANGED lock

(* A .git directory in .git-work is taken for a clone, finished or not.    *)
EnsureCheck(p) ==
    /\ at[p] = "check"
    /\ IF dir = "none" THEN Goto(p, "remove") /\ UNCHANGED lock ELSE Ensured(p)
    /\ UNCHANGED <<fields, db, repo, clone, timer, setup, sel, upd, new,
                   faults, marks>>

(* RemoveAll, and git clone creates .git.                                  *)
EnsureClone(p) ==
    /\ at[p] = "remove"
    /\ dir' = "partial" /\ cloner' = p /\ url' = cfg.url
    /\ Goto(p, "clone")
    /\ UNCHANGED <<fields, db, repo, timer, lock, setup, sel, upd, new, faults,
                   marks>>

EnsureEnds_AnyClone(p) ==
    /\ at[p] = "clone"
    /\ UNCHANGED dir
    /\ Ensured(p)
    /\ UNCHANGED <<fields, db, repo, cloner, url, timer, setup, sel, upd, new,
                   faults, marks>>

(* The clone ends; git removes what it made of a clone that fails, and a   *)
(* clone whose directory was removed under it fails.  A clone of a remote  *)
(* that lacks the branch is one of its default branch, whose name goes     *)
(* into the configuration in memory and nowhere else.                      *)
EnsureEnds(p) ==
    /\ at[p] = "clone"
    /\ \/ /\ cloner = p /\ dir' = "ready" /\ Ensured(p)
          /\ cfg' \in {cfg, [cfg EXCEPT !.branch = "main"]}
          /\ UNCHANGED faults
       \/ /\ cloner = p /\ dir' = "none" /\ NotEnsured(p)
          /\ Fault("clone")
          /\ UNCHANGED cfg
       \/ /\ cloner # p /\ NotEnsured(p)
          /\ UNCHANGED <<cfg, dir, faults>>
    /\ UNCHANGED <<running, cloning, db, repo, cloner, url, timer, setup, sel,
                   upd, new, marks>>

-----------------------------------------------------------------------------
(* UpdateConfig, at any time.                                              *)

(* Refused while isCloning.                                                *)
UpdateConfig(u) ==
    /\ upd[u] = "idle" /\ lock = NoOne
    /\ new' \in {[new EXCEPT ![u] = c] : c \in Configs}
    /\ upd' = [upd EXCEPT ![u] = IF cloning THEN "done" ELSE "save"]
    /\ UNCHANGED <<fields, db, repo, clone, timer, lock, at, setup, sel, faults,
                   marks>>

SaveConfig_Skipped(u) ==
    /\ upd[u] = "save"
    /\ upd' = [upd EXCEPT ![u] = "swap"]
    /\ split' = (Pending # {})
    /\ UNCHANGED <<fields, db, repo, clone, timer, lock, at, setup, sel, new,
                   faults, missed>>

(* The database first; its error ends the update, also when the answer of  *)
(* a statement that was executed got lost.                                 *)
SaveConfig(u) ==
    /\ upd[u] = "save"
    /\ \/ /\ db' = new[u]
          /\ upd' = [upd EXCEPT ![u] = "swap"]
          /\ split' = (Pending # {})
          /\ UNCHANGED faults
       \/ /\ Fault("save")
          /\ upd' = [upd EXCEPT ![u] = "done"]
          /\ UNCHANGED <<db, split>>
       \/ /\ Fault("ack")
          /\ db' = new[u]
          /\ upd' = [upd EXCEPT ![u] = "done"]
          /\ split' = TRUE
    /\ UNCHANGED <<fields, repo, clone, timer, lock, at, setup, sel, new, missed>>

StopSync_KeepsChannel ==
    /\ running' = FALSE
    /\ live' = live \ {tick}
    /\ UNCHANGED chan

(* Stop: close g.stopChan and make another, stop the ticker.               *)
StopSync ==
    /\ chan' = chan + 1
    /\ live' = live \ {tick}
    /\ running' = FALSE

(* Starts and timers that are neither over nor stopped, and those of them  *)
(* that the stop of an update ends.                                        *)
UnderWay ==
    {s \in Starters : /\ at[s] \notin {"idle", "done"}
                      /\ ~(/\ at[s] = "waiting"
                           /\ sel[s].chan # chan /\ sel[s].tick \notin live)}
Stoppable ==
    {s \in Starters : running /\ ~cloning /\ at[s] = "waiting"
                        /\ sel[s] = [tick |-> tick, chan |-> chan]}

SwapConfig_OnlyStarts(u) ==
    /\ upd[u] = "swap" /\ lock = NoOne
    /\ IF running /\ ~cloning /\ new[u].on
       THEN StopSync ELSE UNCHANGED <<chan, live, running>>
    /\ cfg' = new[u]
    /\ Goto(u, Booted(new[u]))
    /\ upd' = [upd EXCEPT ![u] = "done"]
    /\ missed' = missed \cup (UnderWay \ Stoppable)
    /\ UNCHANGED <<cloning, db, repo, clone, tick, lock, setup, sel, new, faults,
                   split>>

(* Stop when running and not cloning, install the configuration, and spawn *)
(* a goroutine that starts when it is enabled.                             *)
SwapConfig(u) ==
    /\ upd[u] = "swap" /\ lock = NoOne
    /\ IF running /\ ~cloning THEN StopSync ELSE UNCHANGED <<chan, live, running>>
    /\ cfg' = new[u]
    /\ Goto(u, Booted(new[u]))
    /\ upd' = [upd EXCEPT ![u] = "done"]
    /\ missed' = missed \cup (UnderWay \ Stoppable)
    /\ UNCHANGED <<cloning, db, repo, clone, tick, lock, setup, sel, new, faults,
                   split>>

(* The process dies and main runs Initialize again.                        *)
Restart ==
    /\ Fault("crash")
    /\ running' = FALSE /\ cloning' = FALSE
    /\ cfg' = db
    /\ chan' = 1 /\ tick' = 0 /\ live' = {}
    /\ lock' = NoOne /\ cloner' = NoOne
    /\ at' = [p \in Callers |-> CASE p = Boot -> Booted(db)
                                  [] p = Hand -> "idle"
                                  [] OTHER -> "done"]
    /\ setup' = {}
    /\ sel' = [s \in Starters |-> [tick |-> 0, chan |-> 0]]
    /\ upd' = [u \in Updates |-> IF upd[u] = "idle" THEN "idle" ELSE "done"]
    /\ new' = [u \in Updates |-> db]
    /\ missed' = {} /\ split' = FALSE
    /\ UNCHANGED <<db, repo, dir, url>>

-----------------------------------------------------------------------------
Start(s) ==
    \/ StartBegin(s) \/ InitRepository(s) \/ InitInExistingDirectory(s)
    \/ LeaveInit(s) \/ StartFails(s) \/ StartTimer(s)

Operate(p) ==
    \/ Reload(p) \/ LockOperation(p) \/ EndOperation(p)
    \/ EnsureCheck(p) \/ EnsureClone(p) \/ EnsureEnds(p)

Next ==
    \/ \E s \in Starters : Start(s) \/ Select(s) \/ Tick(s) \/ TimerStops(s)
    \/ \E p \in Callers : Operate(p)
    \/ ManualCall
    \/ \E u \in Updates : UpdateConfig(u) \/ SaveConfig(u) \/ SwapConfig(u)
    \/ Restart

Spec == Init /\ [][Next]_vars

(* Git commands end, a waiter for g.mu gets it in the end (Go's mutexes    *)
(* are fair), and a timer takes a closed channel.  Nothing makes a user or *)
(* a ticker act.                                                           *)
Fairness ==
    /\ \A s \in Starters : SF_vars(Start(s)) /\ WF_vars(Select(s) \/ TimerStops(s))
    /\ \A p \in Callers : SF_vars(Operate(p))
    /\ \A u \in Updates : SF_vars(SaveConfig(u) \/ SwapConfig(u))
FairSpec == Spec /\ Fairness

-----------------------------------------------------------------------------
(* Properties.                                                             *)

Timers == {s \in Starters : at[s] \in LoopPlaces \cup {"reload", "want", "use"}
                              \/ lock = s}
(* Timers that wait, for a channel nobody has closed.                      *)
Lasting == {s \in Starters : at[s] = "waiting" /\ sel[s].chan = chan}

(* However starts, stops, ticks and failing clones overlap: of the timers  *)
(* that no update tried to stop in vain there is at most one, it waits for *)
(* a ticker that nobody has stopped, and there is none while the service   *)
(* is disabled.  So automatic operations happen once each and as long as   *)
(* they are wanted, unless an update met a Start at work, or a timer in an *)
(* operation or with a replaced ticker, or memory and database parted.     *)
TimerFollowsConfig ==
    /\ Cardinality(Lasting \ missed) <= 1
    /\ \A s \in Lasting \ missed : sel[s].tick \in live
    /\ (Pending = {} /\ ~split /\ ~cfg.on) => Lasting \subseteq missed

(* Between two updates the memory and the database hold one configuration, *)
(* but for the branch a clone fell back to, unless two updates crossed or  *)
(* the answer of the last save was lost.                                   *)
SameSettings(c, d) == c = [d EXCEPT !.branch = c.branch]
ConfigAgrees == (Pending = {} /\ ~split) => SameSettings(cfg, db)

(* An operation goes ahead only in a finished clone, though Start clones   *)
(* without g.mu and several callers find the clone missing.  There are two *)
(* exceptions, which the code does not tell from a clone: one that a Start *)
(* is making right then, and one whose maker died.                         *)
OperatesInWholeClone ==
    [][\A p \in Callers :
          (at[p] # "use" /\ at'[p] = "use") =>
              \/ dir' = "ready"
              \/ dir' = "partial" /\ cloner' = NoOne
              \/ dir' = "partial" /\ \E s \in Starters : /\ cloner' = s /\ s # lock'
                                                       /\ at'[s] = "clone"]_vars

(* An operation talks to the repository that is configured.  It does not   *)
(* hold, and no run checks it: a new URL never reaches an existing clone.  *)
OperatesOnConfiguredRepo ==
    \A p \in Callers : lock = p /\ at[p] = "use" => url = cfg.url

(* Whoever holds g.mu is inside an operation, and nobody else is.          *)
MutexHeld ==
    \A p \in Callers : (at[p] = "use" => lock = p)
                       /\ (lock = p => at[p] \in EnsurePlaces \cup {"use"})

(* Once the service is disabled its timers end, unless it is enabled       *)
(* again; but for those that an update could not stop, and unless memory   *)
(* and database have parted.                                               *)
DisabledServiceStops ==
    (~cfg.on /\ ~split) ~> (cfg.on \/ split \/ Timers \subseteq missed)

(* "Enable sync: Master toggle for Git synchronization"                    *)
(* (docs/architecture/GIT_SYNC_FEATURE.md:21): when it is off, automatic   *)
(* operations come to an end or it is switched on again.                   *)
MasterToggle == ~cfg.on ~> (cfg.on \/ Timers = {})

(* Every call of Start and every operation ends, though they compete for   *)
(* g.mu with each other and with UpdateConfig.                             *)
StartsEnd ==
    \A s \in Starters : s \in Starting ~> s \notin Starting
OperationsEnd ==
    \A p \in Callers :
        at[p] = "want" ~> at[p] \in {"idle", "select", "begin", "done"}
CallsEnd == StartsEnd /\ OperationsEnd

-----------------------------------------------------------------------------
(* What holds beyond the properties the runs check.                        *)

(* While the toggle is off, and memory and database have not parted, every *)
(* call of Start and every timer that is still under way is one that an    *)
(* update met and could not stop: what else is left of timers waits for a  *)
(* ticker that is stopped, on a channel that is closed.                    *)
DisabledIsQuiet ==
    (Pending = {} /\ ~split /\ ~cfg.on) => UnderWay \subseteq missed

(* How many steps of its own a call of Start or an operation has before it *)
(* at most.                                                                *)
StepsLeft(p) ==
    CASE at[p] = "begin" -> 8
      [] at[p] \in {"init", "reload"} -> 7
      [] at[p] \in {"setup", "want"} -> 6
      [] at[p] = "check" -> 5
      [] at[p] = "remove" -> 4
      [] at[p] = "clone" -> 3
      [] at[p] \in {"leave", "fail", "use"} -> 2
      [] at[p] \in {"timer", "failed"} -> 1
      [] at[p] \in {"select", "waiting", "idle", "done"} -> 0

(* Neither a clone that fails, nor one that is removed while it runs, nor  *)
(* another caller sends a start or an operation back: only a tick, a user, *)
(* an update or a restart begins one anew.                                 *)
CallsOnlyAdvance ==
    [][\A p \in Callers :
          /\ Operate(p) \/ (p \in Starters /\ Start(p)) => StepsLeft(p)' < StepsLeft(p)
          /\ StepsLeft(p)' > StepsLeft(p) =>
                \/ p \in Starters /\ Tick(p)
                \/ p = Hand /\ ManualCall
                \/ p \in Updates /\ SwapConfig(p)
                \/ Restart]_vars
=============================================================================
