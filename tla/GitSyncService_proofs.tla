----------------------- MODULE GitSyncService_proofs -----------------------
(***************************************************************************)
(* Proofs about GitSyncService, for any number of updates, starts, timers, *)
(* manual calls, failures and restarts that overlap in any way: types and  *)
(* g.mu, the timers that no update could stop set apart, memory and        *)
(* database, the clones operations find, and that calls only go forward.   *)
(***************************************************************************)
EXTENDS GitSyncService, FiniteSetTheorems, TLAPS

-----------------------------------------------------------------------------
(* Types and the mutex.                                                    *)

LEMMA TypeInit == Init => TypeOK
<1> SUFFICES ASSUME Init PROVE TypeOK
    OBVIOUS
<1>1. cfg \in Config /\ 0 \in 0..MaxFaults
    BY GitSyncServiceAssumption DEF Init
<1> QED
    BY <1>1 DEF Init, TypeOK, Booted, Places, StartPlaces

LEMMA FaultType ==
    ASSUME TypeOK, NEW k, Fault(k) PROVE faults' \in 0..MaxFaults
    BY GitSyncServiceAssumption DEF TypeOK, Fault

LEMMA GotoType ==
    ASSUME TypeOK, NEW p, NEW q \in Places, Goto(p, q)
    PROVE  at' \in [Callers -> Places]
    BY DEF TypeOK, Goto

LEMMA TypeStart ==
    ASSUME TypeOK, NEW s \in Starters, Start(s) PROVE TypeOK'
<1> USE DEF fields, clone, timer, marks, Places, StartPlaces, EnsurePlaces, LoopPlaces
<1>1. CASE StartBegin(s)
    BY <1>1, GotoType DEF StartBegin, TypeOK
<1>2. CASE InitRepository(s)
  <2>1. at' \in [Callers -> Places] /\ faults' \in 0..MaxFaults
      BY <1>2, GotoType, FaultType DEF InitRepository, TypeOK
  <2>2. setup' \subseteq Starters /\ cloning' \in BOOLEAN
      BY <1>2 DEF InitRepository, TypeOK
  <2> QED
      BY <1>2, <2>1, <2>2 DEF InitRepository, TypeOK
<1>3. CASE InitInExistingDirectory(s)
  <2>1. at' \in [Callers -> Places] /\ faults' \in 0..MaxFaults
      BY <1>3, GotoType, FaultType DEF InitInExistingDirectory, TypeOK
  <2>2. repo' \in BOOLEAN
      BY <1>3 DEF InitInExistingDirectory, TypeOK
  <2> QED
      BY <1>3, <2>1, <2>2 DEF InitInExistingDirectory, TypeOK
<1>4. CASE LeaveInit(s)
  <2>1. at' \in [Callers -> Places]
      BY <1>4, GotoType DEF LeaveInit
  <2>2. cloning' \in BOOLEAN /\ setup' \subseteq Starters
      BY <1>4 DEF LeaveInit, TypeOK
  <2> QED
      BY <1>4, <2>1, <2>2 DEF LeaveInit, TypeOK
<1>5. CASE StartFails(s)
    BY <1>5, GotoType DEF StartFails, TypeOK
<1>6. CASE StartTimer(s)
  <2>1. at' \in [Callers -> Places]
      BY <1>6, GotoType DEF StartTimer
  <2>2. tick' \in Nat /\ live' \subseteq 1..tick'
    <3>1. /\ tick + 1 \in Nat /\ tick + 1 \in 1..(tick + 1)
          /\ \A n \in 1..tick : n \in 1..(tick + 1)
        BY DEF TypeOK
    <3> QED
        BY <1>6, <3>1 DEF StartTimer, TypeOK
  <2> QED
      BY <1>6, <2>1, <2>2 DEF StartTimer, TypeOK
<1> QED
    BY <1>1, <1>2, <1>3, <1>4, <1>5, <1>6 DEF Start

LEMMA TypeOperate ==
    ASSUME TypeOK, NEW p \in Callers, Operate(p) PROVE TypeOK'
<1> USE DEF fields, clone, timer, marks, Places, StartPlaces, EnsurePlaces, LoopPlaces,
            OpPlaces
<1>1. CASE Reload(p)
  <2>1. at' \in [Callers -> Places]
      BY <1>1, GotoType DEF Reload, Returned
  <2>2. cfg' \in Config
      BY <1>1, GitSyncServiceAssumption DEF Reload, TypeOK
  <2> QED
      BY <1>1, <2>1, <2>2 DEF Reload, TypeOK
<1>2. CASE LockOperation(p)
    BY <1>2, GotoType DEF LockOperation, TypeOK
<1>3. CASE EndOperation(p)
    BY <1>3, GotoType DEF EndOperation, Returned, TypeOK
<1>4. CASE EnsureCheck(p)
    BY <1>4, GotoType DEF EnsureCheck, Ensured, TypeOK
<1>5. CASE EnsureClone(p)
  <2>1. url' \in {"A", "B"}
      BY <1>5, GitSyncServiceAssumption DEF EnsureClone, TypeOK, Config
  <2> QED
      BY <1>5, <2>1, GotoType DEF EnsureClone, TypeOK
<1>6. CASE EnsureEnds(p)
  <2>1. at' \in [Callers -> Places]
      BY <1>6, GotoType DEF EnsureEnds, Ensured, NotEnsured, Returned
  <2>2. lock' \in {lock, NoOne} /\ dir' \in {"none", "partial", "ready"}
      BY <1>6 DEF EnsureEnds, Ensured, NotEnsured, TypeOK
  <2>3. faults' \in 0..MaxFaults
      BY <1>6, FaultType DEF EnsureEnds, TypeOK
  <2>4. cfg' \in Config
      BY <1>6 DEF EnsureEnds, TypeOK, Config
  <2> QED
      BY <1>6, <2>1, <2>2, <2>3, <2>4 DEF EnsureEnds, TypeOK
<1> QED
    BY <1>1, <1>2, <1>3, <1>4, <1>5, <1>6 DEF Operate

LEMMA TypeNext == TypeOK /\ [Next]_vars => TypeOK'
<1> SUFFICES ASSUME TypeOK, [Next]_vars PROVE TypeOK'
    OBVIOUS
<1> USE DEF fields, clone, timer, marks
<1>1. ASSUME NEW s \in Starters, Select(s) \/ Tick(s) \/ TimerStops(s) PROVE TypeOK'
  <2>1. cfg.mode \in {"off", "pull", "push"}
      BY GitSyncServiceAssumption DEF TypeOK, Config, Modes
  <2>2. at' \in [Callers -> Places]
      BY <1>1, <2>1, GotoType
      DEF Select, Tick, TimerStops, Places, LoopPlaces, OpPlaces
  <2> QED
      BY <1>1, <2>2 DEF Select, Tick, TimerStops, TypeOK
<1>2. CASE ManualCall
    BY <1>2, GotoType DEF ManualCall, TypeOK, Places, OpPlaces
<1>3. ASSUME NEW u \in Updates, UpdateConfig(u) PROVE TypeOK'
    BY <1>3 DEF UpdateConfig, TypeOK
<1>4. ASSUME NEW u \in Updates, SaveConfig(u) PROVE TypeOK'
  <2>1. new[u] \in Configs
      BY DEF TypeOK
  <2>2. /\ db' \in Configs /\ split' \in BOOLEAN
        /\ upd' \in [Updates -> {"idle", "save", "swap", "done"}]
      BY <1>4, <2>1 DEF SaveConfig, TypeOK
  <2>3. faults' \in 0..MaxFaults
      BY <1>4, FaultType DEF SaveConfig, TypeOK
  <2> QED
      BY <1>4, <2>2, <2>3 DEF SaveConfig, TypeOK
<1>5. ASSUME NEW u \in Updates, SwapConfig(u) PROVE TypeOK'
  <2>1. at' \in [Callers -> Places]
      BY <1>5, GotoType DEF SwapConfig, Booted, Places, StartPlaces
  <2>2. chan' \in Nat /\ live' \subseteq 1..tick /\ running' \in BOOLEAN
    <3>1. chan + 1 \in Nat
        BY DEF TypeOK
    <3>2. live' \subseteq live
        BY <1>5 DEF SwapConfig, StopSync
    <3> QED
        BY <1>5, <3>1, <3>2 DEF SwapConfig, StopSync, TypeOK
  <2>3. cfg' \in Config /\ missed' \subseteq Starters
    <3>1. new[u] \in Config
        BY GitSyncServiceAssumption DEF TypeOK
    <3> QED
        BY <1>5, <3>1 DEF SwapConfig, UnderWay, TypeOK
  <2>4. upd' \in [Updates -> {"idle", "save", "swap", "done"}]
      BY <1>5 DEF SwapConfig, TypeOK
  <2> QED
      BY <1>5, <2>1, <2>2, <2>3, <2>4 DEF SwapConfig, TypeOK
<1>6. CASE Restart
  <2>1. at' \in [Callers -> Places]
      BY <1>6 DEF Restart, Booted, Places, StartPlaces
  <2>2. 0 \in Nat /\ 1 \in Nat
      OBVIOUS
  <2>3. upd' \in [Updates -> {"idle", "save", "swap", "done"}]
      BY <1>6 DEF Restart
  <2>4. cfg' \in Config /\ new' \in [Updates -> Configs]
      BY <1>6, GitSyncServiceAssumption DEF Restart, TypeOK
  <2>5. missed' \subseteq Starters /\ split' \in BOOLEAN
      BY <1>6 DEF Restart
  <2>6. sel' \in [Starters -> [tick : Nat, chan : Nat]]
      BY <1>6, <2>2 DEF Restart
  <2>7. faults' \in 0..MaxFaults
      BY <1>6, FaultType DEF Restart
  <2>8. setup' \subseteq Starters /\ live' \subseteq 1..tick'
      BY <1>6 DEF Restart
  <2> QED
      BY <1>6, <2>1, <2>2, <2>3, <2>4, <2>5, <2>6, <2>7, <2>8 DEF Restart, TypeOK
<1>7. CASE UNCHANGED vars
    BY <1>7 DEF vars, TypeOK
<1> QED
    BY <1>1, <1>2, <1>3, <1>4, <1>5, <1>6, <1>7, TypeStart, TypeOperate DEF Next

(* Every variable keeps its type.                                          *)
THEOREM TypeCorrect == Spec => []TypeOK
    BY TypeInit, TypeNext, PTL DEF Spec

LEMMA MutexNext == TypeOK /\ MutexHeld /\ [Next]_vars => MutexHeld'
<1> SUFFICES ASSUME TypeOK, MutexHeld, [Next]_vars PROVE MutexHeld'
    OBVIOUS
<1> USE DEF fields, clone, timer, marks
<1>1. ASSUME NEW p \in Callers, NEW q \in Places, Goto(p, q), lock' = lock,
             q = "use" <=> at[p] = "use",
             lock = p => q \in EnsurePlaces \cup {"use"}
      PROVE  MutexHeld'
    BY <1>1 DEF Goto, TypeOK, MutexHeld
<1>2. ASSUME NEW s \in Starters, Start(s) PROVE MutexHeld'
  <2>1. s \in Callers /\ lock # s
      BY <1>2 DEF Start, StartBegin, InitRepository, InitInExistingDirectory,
                  LeaveInit, StartFails, StartTimer, MutexHeld, EnsurePlaces, Callers
  <2> QED
      BY <1>2, <1>1, <2>1
      DEF Start, StartBegin, InitRepository, InitInExistingDirectory, LeaveInit,
          StartFails, StartTimer, Places, StartPlaces, EnsurePlaces, LoopPlaces
<1>3. ASSUME NEW s \in Starters, Select(s) \/ Tick(s) \/ TimerStops(s) PROVE MutexHeld'
  <2>1. s \in Callers /\ lock # s
      BY <1>3 DEF Select, Tick, TimerStops, MutexHeld, EnsurePlaces, Callers
  <2>2. cfg.mode \in {"off", "pull", "push"}
      BY GitSyncServiceAssumption DEF TypeOK, Config, Modes
  <2> QED
      BY <1>3, <1>1, <2>1, <2>2
      DEF Select, Tick, TimerStops, Places, LoopPlaces, OpPlaces
<1>4. ASSUME NEW p \in Callers, Reload(p) PROVE MutexHeld'
  <2>1. lock # p
      BY <1>4, GitSyncServiceAssumption DEF Reload
  <2> QED
      BY <1>4, <1>1, <2>1 DEF Reload, Returned, Places, LoopPlaces, OpPlaces
<1>5. ASSUME NEW p \in Callers, LockOperation(p) PROVE MutexHeld'
  <2>1. \A q \in Callers : at[q] # "use"
      BY <1>5, GitSyncServiceAssumption DEF LockOperation, MutexHeld
  <2> QED
      BY <1>5, <2>1 DEF LockOperation, Goto, TypeOK, MutexHeld, EnsurePlaces
<1>6. ASSUME NEW p \in Callers, lock = p, lock' = NoOne, NEW q \in Places,
             Goto(p, q), q # "use"
      PROVE  MutexHeld'
    BY <1>6, GitSyncServiceAssumption DEF Goto, TypeOK, MutexHeld
<1>7. ASSUME NEW p \in Callers, EndOperation(p) PROVE MutexHeld'
    BY <1>7, <1>6 DEF EndOperation, Returned, MutexHeld, Places, LoopPlaces
<1>8. ASSUME NEW p \in Callers, Ensured(p), at[p] \in EnsurePlaces PROVE MutexHeld'
    BY <1>8 DEF Ensured, Goto, TypeOK, MutexHeld, EnsurePlaces
<1>9. ASSUME NEW p \in Callers, NotEnsured(p), at[p] \in EnsurePlaces PROVE MutexHeld'
  <2>1. CASE lock = p
      BY <1>9, <1>6, <2>1 DEF NotEnsured, Returned, Places, LoopPlaces
  <2>2. CASE lock # p
      BY <1>9, <1>1, <2>2 DEF NotEnsured, Places, StartPlaces, EnsurePlaces
  <2> QED
      BY <2>1, <2>2
<1>10. ASSUME NEW p \in Callers, EnsureCheck(p) \/ EnsureClone(p) \/ EnsureEnds(p)
       PROVE  MutexHeld'
    BY <1>10, <1>1, <1>8, <1>9
    DEF EnsureCheck, EnsureClone, EnsureEnds, Places, EnsurePlaces
<1>11. CASE ManualCall
  <2>1. Hand \in Callers /\ lock # Hand
      BY <1>11 DEF ManualCall, MutexHeld, EnsurePlaces, Callers
  <2> QED
      BY <1>11, <1>1, <2>1 DEF ManualCall, Places, OpPlaces
<1>12. ASSUME NEW u \in Updates, UpdateConfig(u) \/ SaveConfig(u) PROVE MutexHeld'
    BY <1>12 DEF UpdateConfig, SaveConfig, MutexHeld
<1>13. ASSUME NEW u \in Updates, SwapConfig(u) PROVE MutexHeld'
  <2>1. u \in Callers /\ lock # u /\ at[u] # "use"
      BY <1>13, GitSyncServiceAssumption
      DEF SwapConfig, MutexHeld, Callers, Starters
  <2> QED
      BY <1>13, <1>1, <2>1 DEF SwapConfig, Booted, Places, StartPlaces
<1>14. CASE Restart
    BY <1>14, GitSyncServiceAssumption DEF Restart, Booted, MutexHeld
<1>15. CASE UNCHANGED vars
    BY <1>15 DEF vars, MutexHeld
<1> QED
    BY <1>2, <1>3, <1>4, <1>5, <1>7, <1>10, <1>11, <1>12, <1>13, <1>14, <1>15
    DEF Next, Operate

(* g.mu is held from the first line of an operation to its last, whatever  *)
(* overlaps and fails.                                                     *)
THEOREM LockHeld == Spec => []MutexHeld
<1>1. Init => MutexHeld
    BY GitSyncServiceAssumption DEF Init, MutexHeld, Booted
<1> QED
    BY <1>1, MutexNext, TypeCorrect, PTL DEF Spec

-----------------------------------------------------------------------------
(* Where callers are.                                                      *)

(* An update not yet installed has started nothing; selects have read      *)
(* tickers and channels that exist; the handler clones only with g.mu.     *)
UpdatesFree ==
    \A u \in Updates : upd[u] # "done" => at[u] \in {"idle", "done"}
Bounds == \A s \in Starters : sel[s].tick <= tick /\ sel[s].chan <= chan
HandInv == at[Hand] \in {"idle", "reload", "want"} \/ lock = Hand

PlaceInv == UpdatesFree /\ Bounds /\ HandInv

(* What a starter that does not move is, it stays.                         *)
Stays(t) == at'[t] = at[t] /\ sel'[t] = sel[t] /\ (lock' = t <=> lock = t)

(* Who moves, and how far: every step but an update, a restart or a new    *)
(* timer moves one caller.                                                 *)
Moves(p) ==
    /\ p \in Callers
    /\ at[p] \in {"idle", "done"} => p = Hand
    /\ \A t \in Starters \ {p} : Stays(t)
    /\ p # Hand => at'[Hand] = at[Hand] /\ (lock' = Hand <=> lock = Hand)
    /\ upd' = upd /\ new' = new /\ marks' = marks /\ db' = db

(* Where a caller goes, it is then.                                        *)
LEMMA GotoMovesTo ==
    ASSUME TypeOK, NEW p \in Callers, NEW place, Goto(p, place)
    PROVE  at'[p] = place
    BY DEF TypeOK, Goto

LEMMA StartMoves ==
    ASSUME TypeOK, MutexHeld, NEW s \in Starters, Start(s)
    PROVE  /\ Moves(s) /\ sel' = sel /\ cfg' = cfg /\ chan' = chan
           /\ lock' = lock /\ lock # s /\ clone' = clone
           /\ at[s] \in StartPlaces
           /\ at'[s] \in StartPlaces \cup {"check", "select", "done"}
           /\ StartTimer(s) \/ (timer' = timer /\ at'[s] # "select")
<1>1. s \in Callers /\ s # Hand
    BY GitSyncServiceAssumption DEF Callers
<1>2. lock # s /\ at[s] \in StartPlaces
    BY <1>1 DEF Start, StartBegin, InitRepository, InitInExistingDirectory,
       LeaveInit, StartFails, StartTimer, StartPlaces, MutexHeld, EnsurePlaces
<1>3. PICK q \in StartPlaces \cup {"check", "select", "done"} :
          Goto(s, q) /\ (StartTimer(s) \/ q # "select")
  <2>1. \/ \E q \in {"init", "check", "setup", "timer", "fail", "failed", "done"} :
              Goto(s, q)
        \/ StartTimer(s) /\ \E q \in {"select", "done"} : Goto(s, q)
      BY DEF Start, StartBegin, InitRepository, InitInExistingDirectory,
         LeaveInit, StartFails, StartTimer
  <2> QED
      BY <2>1 DEF StartPlaces
<1>4. /\ sel' = sel /\ cfg' = cfg /\ chan' = chan /\ lock' = lock
      /\ clone' = clone /\ upd' = upd /\ new' = new /\ marks' = marks /\ db' = db
      /\ StartTimer(s) \/ timer' = timer
    BY DEF Start, StartBegin, InitRepository, InitInExistingDirectory,
       LeaveInit, StartFails, StartTimer, fields, clone, timer, marks
<1>5. at'[s] = q /\ \A p \in Callers \ {s} : at'[p] = at[p]
    BY <1>1, <1>3 DEF Goto, TypeOK
<1>6. Moves(s)
    BY <1>1, <1>2, <1>4, <1>5 DEF Moves, Stays, Callers, StartPlaces
<1> QED
    BY <1>2, <1>3, <1>4, <1>5, <1>6

LEMMA TimerMoves ==
    ASSUME TypeOK, MutexHeld, NEW s \in Starters,
           Select(s) \/ Tick(s) \/ TimerStops(s)
    PROVE  /\ Moves(s) /\ timer' = timer /\ cfg' = cfg
           /\ lock' = lock /\ lock # s /\ clone' = clone
           /\ at'[s] \in {"select", "waiting", "want", "reload", "done"}
           /\ sel'[s] \in {sel[s], [tick |-> tick, chan |-> chan]}
<1>1. s \in Callers /\ s # Hand
    BY GitSyncServiceAssumption DEF Callers
<1>2. lock # s /\ at[s] \in {"select", "waiting"}
    BY <1>1 DEF Select, Tick, TimerStops, MutexHeld, EnsurePlaces
<1>3. cfg.mode \in {"off", "pull", "push"}
    BY DEF TypeOK, Config, Modes
<1>4. PICK q \in {"select", "waiting", "want", "reload", "done"} : Goto(s, q)
    BY <1>3 DEF Select, Tick, TimerStops
<1>5. at'[s] = q /\ \A p \in Callers \ {s} : at'[p] = at[p]
    BY <1>1, <1>4 DEF Goto, TypeOK
<1>6. /\ sel'[s] \in {sel[s], [tick |-> tick, chan |-> chan]}
      /\ \A t \in Starters \ {s} : sel'[t] = sel[t]
    BY DEF Select, Tick, TimerStops, TypeOK
<1>7. /\ timer' = timer /\ cfg' = cfg /\ lock' = lock /\ clone' = clone
      /\ upd' = upd /\ new' = new /\ marks' = marks /\ db' = db
    BY DEF Select, Tick, TimerStops, fields, clone, timer, marks
<1>8. Moves(s)
    BY <1>1, <1>2, <1>5, <1>6, <1>7 DEF Moves, Stays, Callers
<1> QED
    BY <1>2, <1>4, <1>5, <1>6, <1>7, <1>8

LEMMA OperateMoves ==
    ASSUME TypeOK, MutexHeld, NEW p \in Callers, Operate(p)
    PROVE  /\ Moves(p) /\ timer' = timer /\ sel' = sel
           /\ at[p] \in {"reload", "want", "use"} \cup EnsurePlaces
           /\ at[p] \in EnsurePlaces /\ lock # p =>
                 lock' # p /\ at'[p] \in EnsurePlaces \cup {"leave", "fail"}
           /\ at[p] \in {"reload", "want"} \/ lock = p =>
                 \/ at'[p] \in {"want", Returned(p)}
                 \/ lock' = p
           /\ at'[p] # "waiting"
<1>1. /\ timer' = timer /\ sel' = sel /\ upd' = upd /\ new' = new
      /\ marks' = marks /\ db' = db
      /\ at[p] \in {"reload", "want", "use"} \cup EnsurePlaces
    BY DEF Operate, Reload, LockOperation, EndOperation, EnsureCheck, EnsureClone,
       EnsureEnds, fields, clone, timer, marks, EnsurePlaces
<1>2. PICK q : Goto(p, q)
    BY DEF Operate, Reload, LockOperation, EndOperation, EnsureCheck, EnsureClone,
       EnsureEnds, Ensured, NotEnsured
<1>3. at'[p] = q /\ \A c \in Callers \ {p} : at'[c] = at[c]
    BY <1>2 DEF Goto, TypeOK
<1>4. lock' = lock \/ (lock = NoOne /\ lock' = p) \/ (lock = p /\ lock' = NoOne)
    BY DEF Operate, Reload, LockOperation, EndOperation, EnsureCheck, EnsureClone,
       EnsureEnds, Ensured, NotEnsured, MutexHeld
<1>5. Moves(p)
    BY <1>1, <1>3, <1>4, GitSyncServiceAssumption
    DEF Moves, Stays, Callers, EnsurePlaces
<1>6. ASSUME at[p] \in EnsurePlaces, lock # p
      PROVE  lock' # p /\ at'[p] \in EnsurePlaces \cup {"leave", "fail"}
    BY <1>6, GotoMovesTo DEF Operate, Reload, LockOperation, EndOperation,
       EnsureCheck, EnsureClone, EnsureEnds, Ensured, NotEnsured, EnsurePlaces
<1>7. ASSUME at[p] \in {"reload", "want"} \/ lock = p
      PROVE  at'[p] \in {"want", Returned(p)} \/ lock' = p
    BY <1>7, GotoMovesTo DEF Operate, Reload, LockOperation, EndOperation,
       EnsureCheck, EnsureClone, EnsureEnds, Ensured, NotEnsured
<1>8. at'[p] # "waiting"
    BY GotoMovesTo DEF Operate, Reload, LockOperation, EndOperation,
       EnsureCheck, EnsureClone, EnsureEnds, Ensured, NotEnsured, Returned
<1> QED
    BY <1>1, <1>5, <1>6, <1>7, <1>8

LEMMA PlacesMove ==
    ASSUME TypeOK, PlaceInv, NEW p, Moves(p), timer' = timer,
           p \in Starters => sel'[p] \in {sel[p], [tick |-> tick, chan |-> chan]},
           p = Hand => HandInv'
    PROVE  PlaceInv'
<1>1. UpdatesFree'
    BY GitSyncServiceAssumption
    DEF PlaceInv, UpdatesFree, Moves, Stays, Starters, Callers
<1>2. Bounds'
  <2> SUFFICES ASSUME NEW s \in Starters
               PROVE  sel'[s].tick <= tick /\ sel'[s].chan <= chan
      BY DEF Bounds, timer
  <2> QED
      BY DEF PlaceInv, Bounds, Moves, Stays, TypeOK
<1>3. HandInv'
    BY DEF PlaceInv, HandInv, Moves
<1> QED
    BY <1>1, <1>2, <1>3 DEF PlaceInv

LEMMA PlacesNext ==
    ASSUME TypeOK, MutexHeld, PlaceInv, [Next]_vars PROVE PlaceInv'
<1>1. ASSUME NEW s \in Starters, Start(s) PROVE PlaceInv'
  <2>1. UpdatesFree' /\ HandInv'
      BY <1>1, StartMoves, GitSyncServiceAssumption
      DEF PlaceInv, UpdatesFree, HandInv, Moves, Stays, Starters, Callers, StartPlaces
  <2>2. sel' = sel /\ chan' = chan /\ tick' \in {tick, tick + 1}
      BY <1>1, StartMoves DEF StartTimer, timer
  <2>3. Bounds'
      BY <2>2 DEF PlaceInv, Bounds, TypeOK
  <2> QED
      BY <2>1, <2>3 DEF PlaceInv
<1>2. ASSUME NEW s \in Starters, Select(s) \/ Tick(s) \/ TimerStops(s)
      PROVE  PlaceInv'
    BY <1>2, TimerMoves, PlacesMove, GitSyncServiceAssumption
<1>3. ASSUME NEW p \in Callers, Operate(p) PROVE PlaceInv'
  <2>1. p = Hand => HandInv'
      BY <1>3, OperateMoves DEF PlaceInv, HandInv, Returned, EnsurePlaces, MutexHeld
  <2> QED
      BY <1>3, <2>1, OperateMoves, PlacesMove
<1>4. CASE ManualCall
  <2>1. Hand \in Callers /\ Hand \notin Starters
      BY GitSyncServiceAssumption DEF Callers
  <2>2. at'[Hand] \in {"want", "reload"} /\ \A s \in Starters : at'[s] = at[s]
      BY <1>4, <2>1 DEF ManualCall, Goto, TypeOK, Callers
  <2> QED
      BY <1>4, <2>1, <2>2
      DEF ManualCall, timer, PlaceInv, UpdatesFree, Bounds, HandInv, Starters
<1>5. ASSUME NEW u \in Updates, UpdateConfig(u) \/ SaveConfig(u) PROVE PlaceInv'
  <2>1. \A v \in Updates : upd'[v] # "done" => upd[v] # "done"
      BY <1>5 DEF UpdateConfig, SaveConfig, TypeOK
  <2>2. UNCHANGED <<at, sel, tick, chan, lock>>
      BY <1>5 DEF UpdateConfig, SaveConfig, timer
  <2> QED
      BY <2>1, <2>2 DEF PlaceInv, UpdatesFree, Bounds, HandInv
<1>6. ASSUME NEW u \in Updates, SwapConfig(u) PROVE PlaceInv'
  <2>1. u \in Callers /\ u # Hand
      BY GitSyncServiceAssumption DEF Callers, Starters
  <2>2. /\ \A c \in Callers \ {u} : at'[c] = at[c]
        /\ upd'[u] = "done" /\ \A v \in Updates \ {u} : upd'[v] = upd[v]
        /\ chan' \in {chan, chan + 1} /\ tick' = tick /\ sel' = sel /\ lock' = lock
      BY <1>6, <2>1 DEF SwapConfig, StopSync, Goto, TypeOK
  <2>3. UpdatesFree' /\ HandInv'
      BY <2>1, <2>2, GitSyncServiceAssumption
      DEF PlaceInv, UpdatesFree, HandInv, Callers, Starters
  <2>4. Bounds'
      BY <2>2 DEF PlaceInv, Bounds, TypeOK
  <2> QED
      BY <2>3, <2>4 DEF PlaceInv
<1>7. CASE Restart
  <2>1. /\ \A u \in Updates : at'[u] = "done"
        /\ at'[Hand] = "idle"
      BY <1>7, GitSyncServiceAssumption DEF Restart, Callers, Starters
  <2>2. \A s \in Starters : sel'[s].tick <= tick' /\ sel'[s].chan <= chan'
      BY <1>7 DEF Restart
  <2> QED
      BY <2>1, <2>2 DEF PlaceInv, UpdatesFree, Bounds, HandInv
<1>8. CASE UNCHANGED vars
    BY <1>8 DEF vars, timer, PlaceInv, UpdatesFree, Bounds, HandInv
<1> QED
    BY <1>1, <1>2, <1>3, <1>4, <1>5, <1>6, <1>7, <1>8 DEF Next

LEMMA PlaceInvariant == Spec => []PlaceInv
<1>1. Init => PlaceInv
    BY GitSyncServiceAssumption
    DEF Init, PlaceInv, UpdatesFree, Bounds, HandInv, Callers, Starters
<1> QED
    BY <1>1, PlacesNext, TypeCorrect, LockHeld, PTL DEF Spec

-----------------------------------------------------------------------------
(* Starters that no update tried to stop in vain.                          *)

(* A loop that comes back to its select finds the current ticker and       *)
(* channel.                                                                *)
Looping(s) == at[s] \in {"select", "reload", "want", "waiting"} \/ lock = s

Fresh == UnderWay \ missed
Runs(s) ==
    /\ Looping(s) => tick \in live
    /\ at[s] = "waiting" => sel[s].tick \in live /\ sel[s].chan = chan

FreshInv == (\A s, t \in Fresh : s = t) /\ (\A s \in Fresh : Runs(s))

(* Only an update or a restart sets a starter under way.                   *)
LEMMA FreshShrinks ==
    ASSUME TypeOK, PlaceInv, NEW p, Moves(p), chan' = chan,
           \/ timer' = timer
           \/ tick' = tick + 1 /\ live' = live \cup {tick + 1},
           p \in Starters => p \in UnderWay \/ p \notin UnderWay'
    PROVE  UnderWay' \subseteq UnderWay /\ Fresh' \subseteq Fresh
<1> SUFFICES ASSUME NEW s \in UnderWay' PROVE s \in UnderWay
    BY DEF Fresh, Moves, marks
<1>0. s \in Starters /\ s # Hand
    BY GitSyncServiceAssumption DEF UnderWay
<1>1. CASE s = p
    BY <1>0, <1>1
<1>2. CASE s # p
  <2>1. at'[s] = at[s] /\ sel'[s] = sel[s]
      BY <1>0, <1>2 DEF Moves, Stays
  <2>2. sel[s].tick \in Nat /\ sel[s].tick <= tick /\ tick \in Nat
      BY <1>0 DEF TypeOK, PlaceInv, Bounds
  <2>3. sel[s].tick \in live' => sel[s].tick \in live
      BY <2>2 DEF timer
  <2> QED
      BY <1>0, <2>1, <2>3 DEF UnderWay
<1> QED
    BY <1>1, <1>2

LEMMA RunsOn ==
    ASSUME TypeOK, FreshInv, NEW p, Moves(p), Fresh' \subseteq Fresh,
           chan' = chan, live \subseteq live', tick \in live => tick' \in live',
           p \in Starters => (Runs(p) => Runs(p)')
    PROVE  FreshInv'
<1>1. ASSUME NEW s \in Fresh' PROVE Runs(s)'
  <2>1. s \in Fresh /\ Runs(s)
      BY <1>1 DEF FreshInv
  <2>2. s \in Starters
      BY <2>1 DEF Fresh, UnderWay
  <2>3. CASE s = p
      BY <2>1, <2>2, <2>3
  <2>4. CASE s # p
      BY <2>1, <2>2, <2>4 DEF Runs, Looping, Moves, Stays
  <2> QED
      BY <2>3, <2>4
<1> QED
    BY <1>1 DEF FreshInv

(* An update leaves at most itself, a restart at most Initialize.          *)
LEMMA FreshSwap ==
    ASSUME TypeOK, PlaceInv, NEW u \in Updates, SwapConfig(u)
    PROVE  Fresh' \subseteq {u} /\ at'[u] = Booted(new[u]) /\ lock' # u
<1>0. u \in Callers /\ u # Hand /\ lock = NoOne /\ NoOne \notin Callers
    BY GitSyncServiceAssumption DEF SwapConfig, Callers, Starters
<1>1. /\ \A c \in Callers \ {u} : at'[c] = at[c]
      /\ at'[u] = Booted(new[u])
      /\ sel' = sel /\ lock' = lock /\ tick' = tick
      /\ missed' = missed \cup (UnderWay \ Stoppable)
      /\ live' \subseteq live /\ chan' \in {chan, chan + 1}
    BY <1>0 DEF SwapConfig, StopSync, Goto, TypeOK
<1>2. ASSUME NEW s \in UnderWay', s # u PROVE s \in UnderWay \ Stoppable
  <2>1. s \in Starters /\ s \in Callers /\ at'[s] = at[s]
      BY <1>1, <1>2 DEF UnderWay, Callers
  <2>2. sel[s].tick \in Nat /\ sel[s].chan \in Nat /\ sel[s].chan <= chan /\ chan \in Nat
      BY <2>1 DEF TypeOK, PlaceInv, Bounds
  <2>3. sel[s].chan # chan => sel[s].chan # chan'
      BY <1>1, <2>2
  <2>4. s \in UnderWay
      BY <1>1, <1>2, <2>1, <2>3 DEF UnderWay
  <2>5. ASSUME s \in Stoppable PROVE FALSE
    <3>1. /\ running /\ ~cloning /\ at[s] = "waiting"
          /\ sel[s].tick = tick /\ sel[s].chan = chan
        BY <2>5 DEF Stoppable
    <3>2. chan' = chan + 1 /\ live' = live \ {tick}
        BY <3>1 DEF SwapConfig, StopSync
    <3>3. sel'[s].chan # chan' /\ sel'[s].tick \notin live'
        BY <1>1, <2>2, <3>1, <3>2
    <3> QED
        BY <1>2, <2>1, <3>1, <3>3 DEF UnderWay
  <2> QED
      BY <2>4, <2>5
<1> QED
    BY <1>0, <1>1, <1>2 DEF Fresh

LEMMA FreshRestart ==
    ASSUME Restart
    PROVE  Fresh' \subseteq {Boot} /\ at'[Boot] = Booted(db) /\ lock' # Boot
<1>1. \A s \in Starters \ {Boot} : at'[s] = "done"
    BY GitSyncServiceAssumption DEF Restart, Callers
<1>2. at'[Boot] = Booted(db) /\ lock' # Boot
    BY GitSyncServiceAssumption DEF Restart, Callers, Starters
<1> QED
    BY <1>1, <1>2 DEF Fresh, UnderWay

LEMMA FreshNext ==
    ASSUME TypeOK, MutexHeld, PlaceInv, FreshInv, [Next]_vars PROVE FreshInv'
<1>1. ASSUME NEW s \in Starters, Start(s) PROVE FreshInv'
  <2>1. /\ Moves(s) /\ chan' = chan /\ lock' # s
        /\ at[s] \in StartPlaces
        /\ at'[s] \in StartPlaces \cup {"check", "select", "done"}
        /\ StartTimer(s) \/ (timer' = timer /\ at'[s] # "select")
      BY <1>1, StartMoves
  <2>2. s \in UnderWay
      BY <2>1 DEF StartPlaces, UnderWay
  <2>3. \/ timer' = timer
        \/ tick' = tick + 1 /\ live' = live \cup {tick + 1}
      BY <2>1 DEF StartTimer, timer
  <2>4. at'[s] = "select" => tick' \in live'
    <3>1. CASE StartTimer(s)
        BY <3>1, GotoMovesTo DEF StartTimer, Callers
    <3> QED
        BY <2>1, <3>1
  <2>5. Fresh' \subseteq Fresh
      BY <2>1, <2>2, <2>3, FreshShrinks
  <2>6. live \subseteq live' /\ (tick \in live => tick' \in live')
      BY <2>3 DEF timer
  <2>7. Runs(s)'
      BY <2>1, <2>4 DEF Runs, Looping, StartPlaces
  <2> QED
      BY <2>1, <2>5, <2>6, <2>7, RunsOn
<1>2. ASSUME NEW s \in Starters, Select(s) \/ Tick(s) \/ TimerStops(s)
      PROVE  FreshInv'
  <2>1. /\ Moves(s) /\ timer' = timer /\ lock' # s
        /\ at'[s] \in {"select", "waiting", "want", "reload", "done"}
      BY <1>2, TimerMoves
  <2>2. /\ at[s] \in {"select", "waiting"}
        /\ Tick(s) => sel[s].tick \in live
        /\ TimerStops(s) => at'[s] = "done"
        /\ at'[s] = "waiting" => Select(s)
    <3>1. s \in Callers /\ cfg.mode \in Modes
        BY DEF Callers, TypeOK, Config
    <3> QED
        BY <1>2, <3>1, GotoMovesTo DEF Select, Tick, TimerStops, Modes
  <2>3. s \in UnderWay \/ s \notin UnderWay'
      BY <1>2, <2>2 DEF UnderWay, Select
  <2>4. Fresh' \subseteq Fresh
      BY <2>1, <2>3, FreshShrinks DEF timer
  <2>5. Select(s) => sel'[s].tick = tick /\ sel'[s].chan = chan
      BY DEF Select, TypeOK
  <2>6. Runs(s) => Runs(s)'
      BY <2>1, <2>2, <2>5 DEF Runs, Looping, timer
  <2> QED
      BY <2>1, <2>4, <2>6, RunsOn DEF timer
<1>3. ASSUME NEW p \in Callers, Operate(p) PROVE FreshInv'
  <2>1. /\ Moves(p) /\ timer' = timer /\ sel' = sel /\ at'[p] # "waiting"
        /\ at[p] \in {"reload", "want", "use"} \cup EnsurePlaces
        /\ at[p] \in EnsurePlaces /\ lock # p =>
              lock' # p /\ at'[p] \in EnsurePlaces \cup {"leave", "fail"}
      BY <1>3, OperateMoves
  <2>2. p \in Starters => p \in UnderWay
      BY <2>1 DEF UnderWay, EnsurePlaces
  <2>3. Fresh' \subseteq Fresh
      BY <2>1, <2>2, FreshShrinks DEF timer
  <2>4. Looping(p)' => Looping(p)
      BY <2>1 DEF Looping, EnsurePlaces, MutexHeld
  <2>5. Runs(p) => Runs(p)'
      BY <2>1, <2>4 DEF Runs, timer
  <2> QED
      BY <2>1, <2>3, <2>5, RunsOn DEF timer
<1>4. ASSUME UNCHANGED <<timer, sel, missed, lock>>,
             \A s \in Starters : at'[s] = at[s]
      PROVE  FreshInv'
    BY <1>4 DEF FreshInv, Fresh, UnderWay, Runs, Looping, timer
<1>5. CASE ManualCall
    BY <1>4, <1>5, GitSyncServiceAssumption DEF ManualCall, Goto, TypeOK, Callers, marks
<1>6. ASSUME NEW u \in Updates, UpdateConfig(u) \/ SaveConfig(u) PROVE FreshInv'
    BY <1>4, <1>6 DEF UpdateConfig, SaveConfig, marks
<1>7. ASSUME NEW s \in Starters, Fresh' \subseteq {s},
             at'[s] \in {"begin", "done"}, lock' # s
      PROVE  FreshInv'
    BY <1>7 DEF FreshInv, Runs, Looping
<1>8. ASSUME NEW u \in Updates, SwapConfig(u) PROVE FreshInv'
    BY <1>7, <1>8, FreshSwap DEF Booted, Starters
<1>9. CASE Restart
    BY <1>7, <1>9, FreshRestart DEF Booted, Starters
<1>10. CASE UNCHANGED vars
    BY <1>4, <1>10 DEF vars, marks
<1> QED
    BY <1>1, <1>2, <1>3, <1>5, <1>6, <1>8, <1>9, <1>10 DEF Next

LEMMA FreshInvariant == Spec => []FreshInv
<1>1. ASSUME Init PROVE FreshInv
  <2>1. \A s \in Starters : at[s] = IF s = Boot THEN Booted(cfg) ELSE "idle"
      BY <1>1 DEF Init, Callers
  <2>2. Fresh \subseteq {Boot} /\ lock # Boot
      BY <1>1, <2>1, GitSyncServiceAssumption
      DEF Init, Fresh, UnderWay, Callers, Starters
  <2> QED
      BY <2>1, <2>2 DEF FreshInv, Runs, Looping, Booted, Starters
<1> QED
    BY <1>1, FreshNext, TypeCorrect, LockHeld, PlaceInvariant, PTL DEF Spec

-----------------------------------------------------------------------------
(* Memory and database.                                                    *)

(* While they have not parted, the update that saved last is the one to be *)
(* installed; between updates they agree, and what is under way then is    *)
(* wanted.                                                                 *)
SavedInv == ~split => \A u \in Pending : db = new[u] /\ Pending = {u}
AgreedInv ==
    (~split /\ Pending = {}) => SameSettings(cfg, db) /\ (Fresh # {} => db.on)
SplitInv == SavedInv /\ AgreedInv

LEMMA SameReflexive == ASSUME NEW c \in Config PROVE SameSettings(c, c)
    BY DEF SameSettings, Config

LEMMA SplitSteady ==
    ASSUME SplitInv, upd' = upd, new' = new, db' = db, split' = split,
           Fresh' \subseteq Fresh,
           SameSettings(cfg, db) => SameSettings(cfg', db)
    PROVE  SplitInv'
    BY DEF SplitInv, SavedInv, AgreedInv, Pending

LEMMA FreshSteady ==
    ASSUME TypeOK, MutexHeld, PlaceInv, NEW p \in Callers,
           \/ p \in Starters /\ (Start(p) \/ Select(p) \/ Tick(p) \/ TimerStops(p))
           \/ Operate(p)
    PROVE  /\ Fresh' \subseteq Fresh /\ upd' = upd /\ new' = new /\ split' = split
           /\ db' = db
<1>1. CASE p \in Starters /\ Start(p)
  <2>1. Moves(p) /\ chan' = chan /\ at[p] \in StartPlaces
      BY <1>1, StartMoves
  <2>2. p \in UnderWay
      BY <1>1, <2>1 DEF StartPlaces, UnderWay
  <2>3. \/ timer' = timer
        \/ tick' = tick + 1 /\ live' = live \cup {tick + 1}
      BY <1>1, StartMoves DEF StartTimer, timer
  <2> QED
      BY <2>1, <2>2, <2>3, FreshShrinks DEF Moves, marks
<1>2. CASE p \in Starters /\ (Select(p) \/ Tick(p) \/ TimerStops(p))
  <2>1. Moves(p) /\ timer' = timer
      BY <1>2, TimerMoves
  <2>2. TimerStops(p) => at'[p] = "done"
      BY GotoMovesTo DEF TimerStops
  <2>3. p \in UnderWay \/ p \notin UnderWay'
      BY <1>2, <2>2 DEF UnderWay, Select, Tick
  <2> QED
      BY <2>1, <2>3, FreshShrinks DEF Moves, marks, timer
<1>3. CASE Operate(p)
  <2>1. /\ Moves(p) /\ timer' = timer
        /\ at[p] \in {"reload", "want", "use"} \cup EnsurePlaces
      BY <1>3, OperateMoves
  <2>2. p \in Starters => p \in UnderWay
      BY <2>1 DEF UnderWay, EnsurePlaces
  <2> QED
      BY <2>1, <2>2, FreshShrinks DEF Moves, marks, timer
<1> QED
    BY <1>1, <1>2, <1>3

LEMMA SplitNext ==
    ASSUME TypeOK, MutexHeld, PlaceInv, SplitInv, [Next]_vars PROVE SplitInv'
<1>0. /\ Starters \subseteq Callers /\ db \in Config
      /\ \A u \in Updates : new[u] \in Config
    BY GitSyncServiceAssumption DEF Callers, TypeOK
<1>1. ASSUME NEW s \in Starters, Start(s) \/ Select(s) \/ Tick(s) \/ TimerStops(s)
      PROVE  SplitInv'
  <2>1. cfg' = cfg
      BY <1>1, StartMoves, TimerMoves
  <2> QED
      BY <1>0, <1>1, <2>1, FreshSteady, SplitSteady
<1>2. ASSUME NEW p \in Callers, Operate(p) PROVE SplitInv'
  <2>1. cfg' \in {cfg, db, [cfg EXCEPT !.branch = "main"]}
      BY <1>2 DEF Operate, Reload, LockOperation, EndOperation, EnsureCheck,
         EnsureClone, EnsureEnds, fields
  <2>2. SameSettings(cfg, db) => SameSettings(cfg', db)
      BY <1>0, <2>1, SameReflexive DEF SameSettings, Config, TypeOK
  <2> QED
      BY <1>2, <2>2, FreshSteady, SplitSteady
<1>3. CASE ManualCall
  <2>1. \A s \in Starters : at'[s] = at[s]
      BY <1>3, GitSyncServiceAssumption DEF ManualCall, Goto, TypeOK, Callers
  <2>2. Fresh' = Fresh
      BY <1>3, <2>1 DEF ManualCall, Fresh, UnderWay, timer, marks
  <2> QED
      BY <1>3, <2>2, SplitSteady DEF ManualCall, fields, marks
<1>4. ASSUME NEW u \in Updates, UpdateConfig(u) PROVE SplitInv'
  <2>1. Pending' = Pending /\ \A v \in Pending : new'[v] = new[v]
      BY <1>4 DEF UpdateConfig, Pending, TypeOK
  <2>2. Fresh' = Fresh
      BY <1>4 DEF UpdateConfig, Fresh, UnderWay, timer, marks
  <2> QED
      BY <1>4, <2>1, <2>2 DEF UpdateConfig, SplitInv, SavedInv, AgreedInv, fields, marks
<1>5. ASSUME NEW u \in Updates, SaveConfig(u) PROVE SplitInv'
  <2>1. Fresh' = Fresh
      BY <1>5 DEF SaveConfig, Fresh, UnderWay, timer
  <2>2. CASE split' = TRUE
      BY <2>2 DEF SplitInv, SavedInv, AgreedInv
  <2>3. CASE db' = new[u] /\ upd' = [upd EXCEPT ![u] = "swap"] /\ split' = (Pending # {})
    <3>1. Pending' = Pending \cup {u}
        BY <2>3 DEF Pending, TypeOK
    <3>2. ASSUME ~split' PROVE Pending' = {u}
        BY <2>3, <3>1, <3>2
    <3> QED
        BY <1>5, <2>3, <3>1, <3>2 DEF SaveConfig, SplitInv, SavedInv, AgreedInv
  <2>4. CASE upd' = [upd EXCEPT ![u] = "done"] /\ UNCHANGED <<db, split>>
    <3>1. Pending' = Pending
        BY <1>5, <2>4 DEF SaveConfig, Pending, TypeOK
    <3> QED
        BY <1>5, <2>1, <2>4, <3>1
        DEF SaveConfig, SplitInv, SavedInv, AgreedInv, fields
  <2> QED
      BY <1>5, <2>2, <2>3, <2>4 DEF SaveConfig
<1>6. ASSUME NEW u \in Updates, SwapConfig(u) PROVE SplitInv'
  <2>1. SUFFICES ASSUME ~split' PROVE SplitInv'
      BY DEF SplitInv, SavedInv, AgreedInv
  <2>2. u \in Pending /\ Pending' = Pending \ {u} /\ ~split
      BY <1>6, <2>1 DEF SwapConfig, Pending, TypeOK
  <2>3. Pending' = {} /\ db' = new[u] /\ cfg' = new[u]
      BY <1>6, <2>2 DEF SwapConfig, SplitInv, SavedInv
  <2>4. Fresh' # {} => db'.on
    <3>1. ASSUME Fresh' # {} PROVE new[u].on
      <4>1. u \in Fresh' /\ at'[u] = Booted(new[u])
          BY <1>6, <3>1, FreshSwap
      <4>2. at'[u] # "done"
          BY <4>1 DEF Fresh, UnderWay
      <4> QED
          BY <4>1, <4>2 DEF Booted
    <3> QED
        BY <2>3, <3>1
  <2>5. SameSettings(cfg', db')
      BY <1>0, <2>3, SameReflexive
  <2> QED
      BY <2>3, <2>4, <2>5 DEF SplitInv, SavedInv, AgreedInv
<1>7. CASE Restart
  <2>1. Pending' = {}
      BY <1>7 DEF Restart, Pending
  <2>2. cfg' = db /\ db' = db
      BY <1>7 DEF Restart
  <2>3. Fresh' # {} => db'.on
    <3>1. ASSUME Fresh' # {} PROVE db.on
      <4>1. Boot \in Fresh' /\ at'[Boot] = Booted(db)
          BY <1>7, <3>1, FreshRestart
      <4>2. at'[Boot] # "done"
          BY <4>1 DEF Fresh, UnderWay
      <4> QED
          BY <4>1, <4>2 DEF Booted
    <3> QED
        BY <2>2, <3>1
  <2>4. SameSettings(cfg', db')
      BY <1>0, <2>2, SameReflexive
  <2> QED
      BY <2>1, <2>3, <2>4 DEF SplitInv, SavedInv, AgreedInv
<1>8. CASE UNCHANGED vars
  <2>1. Fresh' = Fresh
      BY <1>8 DEF vars, Fresh, UnderWay, timer, marks
  <2> QED
      BY <1>8, <2>1, SplitSteady DEF vars, fields, marks
<1> QED
    BY <1>1, <1>2, <1>3, <1>4, <1>5, <1>6, <1>7, <1>8 DEF Next

LEMMA SplitInvariant == Spec => []SplitInv
<1>1. ASSUME Init PROVE SplitInv
  <2>1. Pending = {} /\ cfg = db /\ db \in Config
      BY <1>1, GitSyncServiceAssumption DEF Init, Pending
  <2>2. Fresh # {} => db.on
    <3>1. ASSUME NEW s \in Fresh PROVE db.on
      <4>1. s \in Starters /\ at[s] \notin {"idle", "done"}
          BY <3>1 DEF Fresh, UnderWay
      <4>2. at[s] = Booted(cfg)
          BY <1>1, <4>1 DEF Init, Callers
      <4> QED
          BY <2>1, <4>1, <4>2 DEF Booted
    <3> QED
        BY <3>1
  <2> QED
      BY <2>1, <2>2, SameReflexive DEF SplitInv, SavedInv, AgreedInv
<1> QED
    BY <1>1, SplitNext, TypeCorrect, LockHeld, PlaceInvariant, PTL DEF Spec

-----------------------------------------------------------------------------
(* Of the timers that no update tried to stop in vain there is at most     *)
(* one, it waits for a live ticker, and there is none while the service is *)
(* disabled and memory and database have not parted, whatever overlaps.    *)
THEOREM TimerFollows == Spec => []TimerFollowsConfig
<1>1. TypeOK /\ FreshInv /\ SplitInv => TimerFollowsConfig
  <2> SUFFICES ASSUME TypeOK, FreshInv, SplitInv PROVE TimerFollowsConfig
      OBVIOUS
  <2>1. Lasting \ missed \subseteq Fresh
      BY DEF Lasting, Fresh, UnderWay
  <2>2. Cardinality(Lasting \ missed) <= 1
    <3>1. CASE Lasting \ missed = {}
        BY <3>1, FS_EmptySet
    <3>2. ASSUME NEW s \in Lasting \ missed PROVE Cardinality(Lasting \ missed) = 1
      <4>1. Lasting \ missed = {s}
          BY <2>1, <3>2 DEF FreshInv
      <4> QED
          BY <4>1, FS_Singleton
    <3> QED
        BY <3>1, <3>2
  <2>3. \A s \in Lasting \ missed : sel[s].tick \in live
      BY <2>1 DEF FreshInv, Runs, Lasting
  <2>4. ASSUME Pending = {}, ~split, ~cfg.on PROVE Lasting \subseteq missed
    <3>1. cfg.on = db.on
        BY <2>4, GitSyncServiceAssumption
        DEF SplitInv, AgreedInv, SameSettings, TypeOK, Config
    <3>2. Fresh = {}
        BY <2>4, <3>1 DEF SplitInv, AgreedInv
    <3> QED
        BY <2>1, <3>2
  <2> QED
      BY <2>2, <2>3, <2>4 DEF TimerFollowsConfig
<1> QED
    BY <1>1, TypeCorrect, FreshInvariant, SplitInvariant, PTL

(* Memory and database hold one configuration between updates, but for the *)
(* branch, unless two updates crossed or the last answer was lost.         *)
THEOREM ConfigsAgree == Spec => []ConfigAgrees
<1>1. SplitInv => ConfigAgrees
    BY DEF SplitInv, AgreedInv, ConfigAgrees
<1> QED
    BY <1>1, SplitInvariant, PTL

(* While the toggle is off and they have not parted, all that is under way *)
(* is what an update met and could not stop.                               *)
THEOREM DisabledStaysQuiet == Spec => []DisabledIsQuiet
<1>1. TypeOK /\ SplitInv => DisabledIsQuiet
  <2> SUFFICES ASSUME TypeOK, SplitInv, Pending = {}, ~split, ~cfg.on
               PROVE  UnderWay \subseteq missed
      BY DEF DisabledIsQuiet
  <2>1. cfg.on = db.on
      BY GitSyncServiceAssumption
      DEF SplitInv, AgreedInv, SameSettings, TypeOK, Config
  <2> QED
      BY <2>1 DEF SplitInv, AgreedInv, Fresh
<1> QED
    BY <1>1, TypeCorrect, SplitInvariant, PTL

-----------------------------------------------------------------------------
(* Clones.                                                                 *)

(* A clone that is not whole has a maker at work, or one that died.        *)
CloneInv ==
    dir = "partial" =>
        \/ cloner = NoOne
        \/ cloner \in Callers /\ at[cloner] = "clone"

LEMMA CloneNext ==
    ASSUME TypeOK, MutexHeld, PlaceInv, CloneInv, [Next]_vars PROVE CloneInv'
<1>1. ASSUME dir' = dir, cloner' = cloner,
             \A c \in Callers : at[c] = "clone" => at'[c] = "clone"
      PROVE  CloneInv'
    BY <1>1 DEF CloneInv
<1>2. ASSUME NEW p \in Callers, NEW q, Goto(p, q), at[p] # "clone",
             dir' = dir, cloner' = cloner
      PROVE  CloneInv'
    BY <1>1, <1>2 DEF Goto, TypeOK
<1>3. ASSUME NEW s \in Starters, Start(s) PROVE CloneInv'
  <2>1. /\ \A c \in Callers \ {s} : at'[c] = at[c]
        /\ at[s] # "clone" /\ clone' = clone
    <3>1. Moves(s) /\ at[s] \in StartPlaces /\ clone' = clone /\ s # Hand
        BY <1>3, StartMoves, GitSyncServiceAssumption
    <3> QED
        BY <3>1 DEF Moves, Stays, Callers, StartPlaces
  <2> QED
      BY <1>1, <2>1 DEF clone
<1>4. ASSUME NEW s \in Starters, Select(s) \/ Tick(s) \/ TimerStops(s) PROVE CloneInv'
  <2>1. Moves(s) /\ clone' = clone /\ s # Hand
      BY <1>4, TimerMoves, GitSyncServiceAssumption
  <2>2. at[s] # "clone" /\ \A c \in Callers \ {s} : at'[c] = at[c]
      BY <1>4, <2>1 DEF Moves, Stays, Callers, Select, Tick, TimerStops
  <2> QED
      BY <1>1, <2>1, <2>2 DEF clone
<1>5. ASSUME NEW p \in Callers, Reload(p) \/ LockOperation(p) \/ EndOperation(p)
      PROVE  CloneInv'
    BY <1>2, <1>5 DEF Reload, LockOperation, EndOperation, clone
<1>6. ASSUME NEW p \in Callers, EnsureCheck(p) PROVE CloneInv'
    BY <1>2, <1>6 DEF EnsureCheck, Ensured, clone
<1>7. ASSUME NEW p \in Callers, EnsureClone(p) PROVE CloneInv'
    BY <1>7, GotoMovesTo DEF EnsureClone, CloneInv
<1>8. ASSUME NEW p \in Callers, EnsureEnds(p) PROVE CloneInv'
  <2>1. \A c \in Callers \ {p} : at'[c] = at[c]
      BY <1>8, OperateMoves DEF Operate, Moves, Stays, Callers
  <2>2. \/ dir' \in {"none", "ready"}
        \/ cloner # p /\ dir' = dir
      BY <1>8 DEF EnsureEnds
  <2>3. cloner' = cloner
      BY <1>8 DEF EnsureEnds
  <2> QED
      BY <2>1, <2>2, <2>3 DEF CloneInv
<1>9. CASE ManualCall
    BY <1>2, <1>9 DEF ManualCall, Callers, clone
<1>10. ASSUME NEW u \in Updates, UpdateConfig(u) \/ SaveConfig(u) PROVE CloneInv'
    BY <1>1, <1>10 DEF UpdateConfig, SaveConfig, clone
<1>11. ASSUME NEW u \in Updates, SwapConfig(u) PROVE CloneInv'
  <2>1. u \in Callers /\ at[u] # "clone"
      BY <1>11 DEF SwapConfig, PlaceInv, UpdatesFree, Callers, Starters
  <2> QED
      BY <1>2, <1>11, <2>1 DEF SwapConfig, clone
<1>12. CASE Restart
    BY <1>12 DEF Restart, CloneInv
<1>13. CASE UNCHANGED vars
    BY <1>13 DEF vars, clone, CloneInv
<1> QED
    BY <1>3, <1>4, <1>5, <1>6, <1>7, <1>8, <1>9, <1>10, <1>11, <1>12, <1>13
    DEF Next, Operate

LEMMA WholeNext ==
    ASSUME TypeOK, MutexHeld, PlaceInv, CloneInv, [Next]_vars,
           NEW p \in Callers, at[p] # "use", at'[p] = "use"
    PROVE  \/ dir' = "ready"
           \/ dir' = "partial" /\ cloner' = NoOne
           \/ dir' = "partial" /\ \E s \in Starters : /\ cloner' = s /\ s # lock'
                                                    /\ at'[s] = "clone"
<1>1. lock' = p
  <2>1. MutexHeld'
      BY MutexNext
  <2> QED
      BY <2>1 DEF MutexHeld
<1>2. EnsureCheck(p) \/ EnsureEnds(p)
  <2>1. ASSUME NEW c \in Callers, Moves(c) PROVE c = p
    <3>1. CASE p \in Starters
        BY <2>1, <3>1 DEF Moves, Stays
    <3>2. CASE p = Hand
        BY <2>1, <3>2 DEF Moves
    <3> QED
        BY <3>1, <3>2 DEF Callers
  <2>2. ~\E s \in Starters : Start(s) \/ Select(s) \/ Tick(s) \/ TimerStops(s)
    <3>1. ASSUME NEW s \in Starters, Start(s) PROVE FALSE
        BY <2>1, <3>1, StartMoves DEF Callers, StartPlaces
    <3>2. ASSUME NEW s \in Starters, Select(s) \/ Tick(s) \/ TimerStops(s)
          PROVE  FALSE
        BY <2>1, <3>2, TimerMoves DEF Callers
    <3> QED
        BY <3>1, <3>2
  <2>3. ~ManualCall
      BY GotoMovesTo DEF ManualCall, Goto, TypeOK, Callers
  <2>4. ASSUME NEW u \in Updates PROVE ~(UpdateConfig(u) \/ SaveConfig(u) \/ SwapConfig(u))
    <3>1. ASSUME SwapConfig(u) PROVE FALSE
        BY <3>1, <1>1, GitSyncServiceAssumption DEF SwapConfig, Callers
    <3> QED
        BY <3>1 DEF UpdateConfig, SaveConfig
  <2>5. ~Restart
      BY <1>1, GitSyncServiceAssumption DEF Restart, Callers
  <2>6. ~UNCHANGED vars
      BY DEF vars
  <2>7. PICK c \in Callers : Operate(c)
      BY <2>2, <2>3, <2>4, <2>5, <2>6 DEF Next
  <2>8. c = p
      BY <2>1, <2>7, OperateMoves
  <2>9. \A q \in Places : Goto(p, q) => q = "use"
      BY GotoMovesTo
  <2> QED
      BY <2>7, <2>8, <2>9 DEF Operate, Reload, LockOperation, EndOperation,
         EnsureClone, Returned, Places, EnsurePlaces, OpPlaces, LoopPlaces
<1>3. CASE EnsureEnds(p)
  <2>1. NotEnsured(p) => at'[p] # "use"
      BY GotoMovesTo DEF NotEnsured, Returned
  <2> QED
      BY <1>3, <2>1 DEF EnsureEnds
<1>4. CASE EnsureCheck(p)
  <2>1. UNCHANGED <<dir, cloner>> /\ at[p] = "check"
      BY <1>4 DEF EnsureCheck, clone
  <2>2. dir # "none"
      BY <1>4, GotoMovesTo DEF EnsureCheck
  <2>3. ASSUME dir = "partial", cloner # NoOne
        PROVE  cloner \in Starters /\ cloner # lock' /\ at'[cloner] = "clone"
    <3>1. cloner \in Callers /\ at[cloner] = "clone" /\ cloner # p
        BY <2>1, <2>3 DEF CloneInv
    <3>2. at'[cloner] = "clone"
        BY <1>4, <3>1 DEF EnsureCheck, Ensured, Goto, TypeOK
    <3>3. cloner # Hand
      <4>1. lock = p
          BY <1>1, <1>4, <2>2 DEF EnsureCheck, Ensured
      <4> QED
          BY <3>1, <4>1 DEF PlaceInv, HandInv
    <3> QED
        BY <1>1, <3>1, <3>2, <3>3 DEF Callers
  <2> QED
      BY <2>1, <2>2, <2>3 DEF TypeOK
<1> QED
    BY <1>2, <1>3, <1>4

(* An operation goes ahead in a finished clone, in one that a Start is     *)
(* making right then, or in one whose maker died, and in no other.         *)
THEOREM WholeClones == Spec => OperatesInWholeClone
<1>1. Init => CloneInv
    BY DEF Init, CloneInv
<1>2. TypeOK /\ MutexHeld /\ PlaceInv /\ CloneInv /\ [Next]_vars => CloneInv'
    BY CloneNext
<1>3. TypeOK /\ MutexHeld /\ PlaceInv /\ CloneInv /\ [Next]_vars =>
        [\A p \in Callers :
          (at[p] # "use" /\ at'[p] = "use") =>
              \/ dir' = "ready"
              \/ dir' = "partial" /\ cloner' = NoOne
              \/ dir' = "partial" /\ \E s \in Starters : /\ cloner' = s /\ s # lock'
                                                       /\ at'[s] = "clone"]_vars
    BY WholeNext
<1> QED
    BY <1>1, <1>2, <1>3, TypeCorrect, LockHeld, PlaceInvariant, PTL
    DEF Spec, OperatesInWholeClone

-----------------------------------------------------------------------------
(* A caller moves only itself.                                             *)
LEMMA GotoMoves ==
    ASSUME TypeOK, NEW p \in Callers, NEW q, NEW place, Goto(q, place)
    PROVE  /\ p = q => at'[p] = place
           /\ p # q => at'[p] = at[p]
    BY DEF TypeOK, Goto

LEMMA SameSteps ==
    ASSUME NEW p, at'[p] = at[p] PROVE StepsLeft(p)' = StepsLeft(p)
    BY DEF StepsLeft

LEMMA StepsAreFew ==
    ASSUME TypeOK, NEW p \in Callers PROVE StepsLeft(p) \in 0..8
<1>1. at[p] \in Places
    BY DEF TypeOK
<1> QED
    BY <1>1 DEF StepsLeft, Places, StartPlaces, EnsurePlaces, OpPlaces, LoopPlaces

LEMMA StartAdvances ==
    ASSUME TypeOK, NEW s \in Starters, Start(s)
    PROVE  /\ StepsLeft(s)' < StepsLeft(s)
           /\ \A p \in Callers \ {s} : at'[p] = at[p]
<1>1. s \in Callers
    BY DEF Callers
<1> USE <1>1, GotoMoves DEF StepsLeft
<1>2. CASE StartBegin(s)
    BY <1>2 DEF StartBegin
<1>3. CASE InitRepository(s)
    BY <1>3 DEF InitRepository
<1>4. CASE InitInExistingDirectory(s)
  <2>1. at[s] = "setup" /\ (Goto(s, "check") \/ Goto(s, "fail"))
      BY <1>4 DEF InitInExistingDirectory
  <2> QED
      BY <2>1
<1>5. CASE LeaveInit(s)
    BY <1>5 DEF LeaveInit
<1>6. CASE StartFails(s)
    BY <1>6 DEF StartFails
<1>7. CASE StartTimer(s)
    BY <1>7 DEF StartTimer
<1> QED
    BY <1>2, <1>3, <1>4, <1>5, <1>6, <1>7 DEF Start

LEMMA OperateAdvances ==
    ASSUME TypeOK, NEW q \in Callers, Operate(q)
    PROVE  /\ StepsLeft(q)' < StepsLeft(q)
           /\ \A p \in Callers \ {q} : at'[p] = at[p]
<1> USE GotoMoves DEF StepsLeft, Returned
<1>1. CASE Reload(q)
    BY <1>1 DEF Reload
<1>2. CASE LockOperation(q)
    BY <1>2 DEF LockOperation
<1>3. CASE EndOperation(q)
    BY <1>3 DEF EndOperation
<1>4. CASE EnsureCheck(q)
    BY <1>4 DEF EnsureCheck, Ensured
<1>5. CASE EnsureClone(q)
    BY <1>5 DEF EnsureClone
<1>6. CASE EnsureEnds(q)
    BY <1>6 DEF EnsureEnds, Ensured, NotEnsured
<1> QED
    BY <1>1, <1>2, <1>3, <1>4, <1>5, <1>6 DEF Operate

(* Each call of Start takes at most eight steps of its own, each operation *)
(* seven, whatever fails and whoever else runs.                            *)
THEOREM CallsAdvance == Spec => CallsOnlyAdvance
<1> DEFINE Advances(p) ==
        /\ Operate(p) \/ (p \in Starters /\ Start(p)) => StepsLeft(p)' < StepsLeft(p)
        /\ StepsLeft(p)' > StepsLeft(p) =>
              \/ p \in Starters /\ Tick(p)
              \/ p = Hand /\ ManualCall
              \/ p \in Updates /\ SwapConfig(p)
              \/ Restart
<1>1. ASSUME TypeOK, TypeOK', Next, NEW p \in Callers PROVE Advances(p)
  <2>1. StepsLeft(p) \in 0..8 /\ StepsLeft(p)' \in 0..8
    <3>1. TypeOK' => StepsLeft(p)' \in 0..8
      <4>1. TypeOK' => at'[p] \in Places
          BY DEF TypeOK
      <4> QED
          BY <4>1 DEF StepsLeft, Places, StartPlaces, EnsurePlaces, OpPlaces, LoopPlaces
    <3> QED
        BY <1>1, <3>1, StepsAreFew
  <2>2. Operate(p) \/ (p \in Starters /\ Start(p)) => StepsLeft(p)' < StepsLeft(p)
      BY <1>1, StartAdvances, OperateAdvances
  <2> DEFINE Raises == StepsLeft(p)' > StepsLeft(p)
  <2>3. at'[p] = at[p] => ~Raises
      BY <2>1, SameSteps
  <2>4. Operate(p) \/ (p \in Starters /\ Start(p)) => ~Raises
      BY <2>1, <2>2
  <2> HIDE DEF Raises
  <2>5. ASSUME NEW s \in Starters, Start(s) \/ Select(s) \/ Tick(s) \/ TimerStops(s), Raises
        PROVE  p \in Starters /\ Tick(p)
    <3>1. p = s
        BY <1>1, <2>3, <2>5, StartAdvances, GotoMoves DEF Select, Tick, TimerStops
    <3>2. ~(Select(p) \/ TimerStops(p))
      <4>1. Select(p) \/ TimerStops(p) => StepsLeft(p)' = StepsLeft(p)
          BY <1>1, GotoMoves DEF Select, TimerStops, StepsLeft
      <4> QED
          BY <2>1, <2>5, <4>1 DEF Raises
    <3> QED
        BY <2>4, <2>5, <3>1, <3>2
  <2>6. ASSUME NEW q \in Callers, Operate(q), Raises PROVE FALSE
      BY <1>1, <2>3, <2>4, <2>6, OperateAdvances
  <2>7. ASSUME ManualCall, Raises PROVE p = Hand
      BY <1>1, <2>3, <2>7, GotoMoves DEF ManualCall
  <2>8. ASSUME NEW u \in Updates, UpdateConfig(u) \/ SaveConfig(u), Raises PROVE FALSE
      BY <2>3, <2>8 DEF UpdateConfig, SaveConfig
  <2>9. ASSUME NEW u \in Updates, SwapConfig(u), Raises
        PROVE  p \in Updates /\ SwapConfig(p)
      BY <1>1, <2>3, <2>9, GotoMoves DEF SwapConfig
  <2>10. Raises => \/ p \in Starters /\ Tick(p)
                   \/ p = Hand /\ ManualCall
                   \/ p \in Updates /\ SwapConfig(p)
                   \/ Restart
      BY <1>1, <2>5, <2>6, <2>7, <2>8, <2>9 DEF Next
  <2> QED
      BY <2>2, <2>10 DEF Raises
<1> HIDE DEF Advances
<1>2. TypeOK /\ TypeOK' /\ [Next]_vars => [\A p \in Callers : Advances(p)]_vars
    BY <1>1
<1>3. Spec => [][\A p \in Callers : Advances(p)]_vars
    BY <1>2, TypeCorrect, PTL DEF Spec
<1> QED
    BY <1>3 DEF CallsOnlyAdvance, Advances
=============================================================================
