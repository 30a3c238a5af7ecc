-------------------------- MODULE Inventory_proofs --------------------------
(***************************************************************************)
(* Proofs about Inventory, for any hosts, groups, requests, edits and      *)
(* callers and any number of failures and crashes: types, that the manager *)
(* is an InventoryStore, that top-level groups name no deleted host, that  *)
(* file or backup survives, that the older list is stored, and that        *)
(* memory, file and older list agree whenever the watcher has nothing left *)
(* to do.                                                                  *)
(***************************************************************************)
EXTENDS Inventory, TLAPS

-----------------------------------------------------------------------------
(* Documents.                                                              *)

LEMMA NullDoc == Null \in Doc /\ Fresh \in Doc
    BY DEF Doc, Null, Fresh

LEMMA ParseType ==
    ASSUME NEW q, NEW c \in Contents, c # Broken
    PROVE  Parse(q, c) \in Doc
    BY NullDoc DEF Parse, Contents

LEMMA RequestType ==
    ASSUME NEW q \in Request
    PROVE  /\ q.op \in {"CreateHost", "UpdateHost", "DeleteHost", "AddHostToGroup",
                        "RemoveHostFromGroup", "CreateGroup", "UpdateGroupMetadata"}
           /\ q.op \in {"CreateHost", "UpdateHost", "DeleteHost", "AddHostToGroup",
                        "RemoveHostFromGroup"} => q.host \in Hosts
           /\ q.op \in {"AddHostToGroup", "RemoveHostFromGroup", "CreateGroup",
                        "UpdateGroupMetadata"} => q.group \in Groups
    BY DEF Request, HostRequest, GroupRequest, MemberRequest

(* A document cut between two entries is a document.                       *)
LEMMA CutType ==
    ASSUME NEW d \in Doc, NEW hs \in SUBSET d.hosts, NEW gs \in SUBSET d.groups
    PROVE  Cut(d, hs, gs) \in Doc
<1>1. hs \subseteq Hosts /\ gs \subseteq Groups /\ d.bare \cap gs \subseteq Groups
    BY DEF Doc
<1>2. [g \in Groups |-> IF g \in gs THEN d.member[g] ELSE {}] \in [Groups -> SUBSET Hosts]
    BY DEF Doc
<1>3. [g \in Groups |-> IF g \in gs THEN d.children[g] ELSE {}] \in [Groups -> SUBSET Groups]
    BY DEF Doc
<1>4. [g \in Groups |-> IF hs = {} THEN {} ELSE d.nested[g]] \in [Groups -> SUBSET Hosts]
    BY DEF Doc
<1>5. (d.all /\ (hs = {} => d.hosts = {})) \in BOOLEAN
    BY DEF Doc
<1>6. d.noted \cap (hs \cup gs) \in SUBSET (Hosts \cup Groups)
    BY DEF Doc
<1> QED
    BY <1>1, <1>2, <1>3, <1>4, <1>5, <1>6 DEF Cut, Doc

LEMMA TornType == ASSUME NEW d \in Doc PROVE Torn(d) \subseteq Contents
    BY CutType DEF Torn, Contents

LEMMA NotedType ==
    ASSUME NEW d \in Doc, NEW x \in Hosts \cup Groups, NEW note
    PROVE  Noted(d, x, note) \in SUBSET (Hosts \cup Groups)
    BY DEF Noted, Doc

LEMMA MembersDoc ==
    ASSUME NEW d \in Doc, NEW G \in SUBSET Groups, NEW B \in SUBSET Groups,
           NEW M \in [Groups -> SUBSET Hosts]
    PROVE  [d EXCEPT !.groups = G, !.bare = B, !.member = M] \in Doc
    BY DEF Doc

(* Every operation makes a document of a document.                         *)
LEMMA EffectType ==
    ASSUME NEW q \in Request, NEW d \in Doc
    PROVE  Effect(q, d) \in Doc
<1>1. CASE q.op = "CreateHost"
    BY <1>1, RequestType, NotedType DEF Effect, CreateHost, Doc
<1>2. CASE q.op = "UpdateHost"
    BY <1>2, RequestType, NotedType DEF Effect, UpdateHost, Doc
<1>3. CASE q.op = "DeleteHost"
    BY <1>3, RequestType DEF Effect, DeleteHost, Doc
<1>4. CASE q.op = "AddHostToGroup"
  <2> DEFINE B == IF q.group \in d.groups THEN d.bare ELSE d.bare \cup {q.group}
             M == [d.member EXCEPT ![q.group] = @ \cup {q.host}]
  <2>1. q.host \in Hosts /\ q.group \in Groups
      BY <1>4, RequestType
  <2>2. B \in SUBSET Groups /\ M \in [Groups -> SUBSET Hosts]
      BY <2>1 DEF Doc
  <2>3. d.groups \cup {q.group} \in SUBSET Groups
      BY <2>1 DEF Doc
  <2>4. Effect(q, d) =
            [d EXCEPT !.groups = d.groups \cup {q.group}, !.bare = B, !.member = M]
      BY <1>4 DEF Effect, AddHostToGroup, Doc
  <2> HIDE DEF B, M
  <2>5. [d EXCEPT !.groups = d.groups \cup {q.group}, !.bare = B, !.member = M] \in Doc
      BY <2>2, <2>3, MembersDoc, Zenon
  <2> QED
      BY <2>4, <2>5, Zenon
<1>5. CASE q.op = "RemoveHostFromGroup"
  <2> DEFINE left == d.member[q.group] \ {q.host}
             gone == left = {} /\ q.group \in d.bare /\ d.children[q.group] = {}
             G == IF gone THEN d.groups \ {q.group} ELSE d.groups
             B == IF gone THEN d.bare \ {q.group} ELSE d.bare
  <2>1. left \subseteq Hosts
      BY <1>5, RequestType DEF Doc
  <2>2. [d.member EXCEPT ![q.group] = left] \in [Groups -> SUBSET Hosts]
      BY <2>1 DEF Doc
  <2>3. G \in SUBSET Groups /\ B \in SUBSET Groups
      BY DEF Doc
  <2>4. Effect(q, d) = [d EXCEPT !.groups = G, !.bare = B,
                                 !.member = [d.member EXCEPT ![q.group] = left]]
      BY <1>5 DEF Effect, RemoveHostFromGroup, Doc
  <2> HIDE DEF left, gone, G, B
  <2>5. [d EXCEPT !.groups = G, !.bare = B,
                  !.member = [d.member EXCEPT ![q.group] = left]] \in Doc
      BY <2>2, <2>3, MembersDoc, Zenon
  <2> QED
      BY <2>4, <2>5, Zenon
<1>6. CASE q.op = "CreateGroup"
  <2> DEFINE G == d.groups \cup {q.group}
             N == d.noted \cup {q.group}
             C == [p \in Groups |-> IF p = q.parent /\ p \in d.groups \cup {q.group}
                                   THEN d.children[p] \cup {q.group} ELSE d.children[p]]
  <2>1. q.group \in Groups
      BY <1>6, RequestType
  <2>2. G \in SUBSET Groups /\ N \in SUBSET (Hosts \cup Groups)
      BY <2>1 DEF Doc
  <2>3. C \in [Groups -> SUBSET Groups]
      BY <2>1 DEF Doc
  <2>4. Effect(q, d) = [d EXCEPT !.groups = G, !.noted = N, !.children = C]
      BY <1>6 DEF Effect, CreateGroup, Doc
  <2> HIDE DEF G, N, C
  <2>5. [d EXCEPT !.groups = G, !.noted = N, !.children = C] \in Doc
      BY <2>2, <2>3 DEF Doc
  <2> QED
      BY <2>4, <2>5, Zenon
<1>7. CASE q.op = "UpdateGroupMetadata"
    BY <1>7, RequestType DEF Effect, UpdateGroupMetadata, Doc
<1> QED
    BY <1>1, <1>2, <1>3, <1>4, <1>5, <1>6, <1>7, RequestType

(* Every operation keeps a document sound: this is where DeleteHost's walk *)
(* through the groups and AddHostToGroup's check of the host are needed.   *)
LEMMA EffectSound ==
    ASSUME NEW q \in Request, NEW d \in Doc, Sound(d), Accepts(q, d)
    PROVE  Sound(Effect(q, d))
<1>1. CASE q.op = "CreateHost"
    BY <1>1, RequestType DEF Effect, CreateHost, Doc, Sound
<1>2. CASE q.op = "UpdateHost"
    BY <1>2, RequestType DEF Effect, UpdateHost, Doc, Sound
<1>3. CASE q.op = "DeleteHost"
  <2>1. Effect(q, d) = DeleteHost(q, d)
      BY <1>3 DEF Effect
  <2>2. /\ DeleteHost(q, d).hosts = d.hosts \ {q.host}
        /\ DeleteHost(q, d).groups = d.groups /\ DeleteHost(q, d).children = d.children
        /\ \A g \in Groups : DeleteHost(q, d).member[g] = d.member[g] \ {q.host}
      BY DEF DeleteHost, Doc
  <2> QED
      BY <2>1, <2>2 DEF Sound
<1>4. CASE q.op = "AddHostToGroup"
  <2>1. /\ Effect(q, d).hosts = d.hosts
        /\ Effect(q, d).groups = d.groups \cup {q.group}
        /\ Effect(q, d).children = d.children
        /\ Effect(q, d).member = [d.member EXCEPT ![q.group] = @ \cup {q.host}]
      BY <1>4 DEF Effect, AddHostToGroup, Doc
  <2>2. q.host \in d.hosts /\ q.group \in Groups
      BY <1>4, RequestType DEF Accepts
  <2>3. \A g \in Groups : d.member[g] \subseteq d.hosts
                          /\ (g \notin d.groups => d.member[g] = {} /\ d.children[g] = {})
      BY DEF Sound
  <2> QED
      BY <2>1, <2>2, <2>3 DEF Sound, Doc
<1>5. CASE q.op = "RemoveHostFromGroup"
  <2> DEFINE left == d.member[q.group] \ {q.host}
             gone == left = {} /\ q.group \in d.bare /\ d.children[q.group] = {}
  <2>1. /\ Effect(q, d).hosts = d.hosts
        /\ Effect(q, d).groups = IF gone THEN d.groups \ {q.group} ELSE d.groups
        /\ Effect(q, d).children = d.children
        /\ Effect(q, d).member = [d.member EXCEPT ![q.group] = left]
      BY <1>5 DEF Effect, RemoveHostFromGroup, Doc
  <2>2. q.group \in Groups
      BY <1>5, RequestType
  <2>3. \A g \in Groups : d.member[g] \subseteq d.hosts
                          /\ (g \notin d.groups => d.member[g] = {} /\ d.children[g] = {})
      BY DEF Sound
  <2> QED
      BY <2>1, <2>2, <2>3 DEF Sound, Doc
<1>6. CASE q.op = "CreateGroup"
    BY <1>6, RequestType DEF Effect, CreateGroup, Doc, Sound
<1>7. CASE q.op = "UpdateGroupMetadata"
    BY <1>7, RequestType DEF Effect, UpdateGroupMetadata, Doc, Sound
<1> QED
    BY <1>1, <1>2, <1>3, <1>4, <1>5, <1>6, <1>7, RequestType

LEMMA HostsInType == ASSUME NEW c \in Contents PROVE HostsIn(c) \subseteq Names
    BY DEF HostsIn, Doc, Names

-----------------------------------------------------------------------------
(* Types, the mutex, and what the holder of the mutex knows.               *)

Asked == \A c \in Callers : at[c] # "idle" => req[c] \in Requests
Mutex == \A c \in Callers : mu = c <=> at[c] \notin {"idle", "lock"}
ParsesLatest == \A c \in Callers : at[c] = "apply" => local[c] = data
SavesDoc == (\E c \in Callers : at[c] \in Saving) => data \in Doc
IInv == TypeOK /\ Asked /\ Mutex /\ ParsesLatest /\ SavesDoc

LEMMA InitInv == Init => IInv
<1> SUFFICES ASSUME Init PROVE IInv
    OBVIOUS
<1>1. Empty \in Contents /\ Edits \subseteq Contents
    BY InventoryAssumption DEF Contents
<1>2. 0 \in 0..MaxCalls /\ 0 \in 0..MaxEvents /\ 0 \in 0..MaxFaults
    BY InventoryAssumption
<1>3. TypeOK
    BY <1>1, <1>2 DEF Init, TypeOK, Places
<1> QED
    BY <1>3, InventoryAssumption DEF Init, IInv, Asked, Mutex, ParsesLatest, SavesDoc, Saving

LEMMA FaultType == ASSUME TypeOK, Fault
                   PROVE  /\ faults' \in 0..MaxFaults
                          /\ calls' \in 0..MaxCalls /\ events' \in 0..MaxEvents
    BY InventoryAssumption DEF TypeOK, Fault

LEMMA LoadedType ==
    ASSUME TypeOK, NEW l \in Loaders, NEW ok, Loaded(l, ok)
    PROVE  /\ loader' \in [Loaders -> {"idle", "load", "read", "upsert", "assign"}]
           /\ buf' \in [Loaders -> Contents]
           /\ phase' \in {"init", "load", "stat", "up", "down"}
           /\ touched' = touched
    BY DEF TypeOK, Loaded, LoaderGoto, Contents

(* A caller that has im.mu and goes on, and one that returns.              *)
LEMMA GoesOn ==
    ASSUME IInv, NEW c \in Callers, at[c] \notin {"idle", "lock"},
           NEW p \in Places \ {"idle", "lock", "apply"}, Goto(c, p),
           mu' = mu, req' = req,
           p = "retry" \/ data' \in Doc
    PROVE  Asked' /\ Mutex' /\ ParsesLatest' /\ SavesDoc'
<1>1. \A b \in Callers : b # c => at[b] \in {"idle", "lock"}
    BY DEF IInv, Mutex
<1>2. \A b \in Callers : at'[b] = IF b = c THEN p ELSE at[b]
    BY DEF Goto, IInv, TypeOK
<1> QED
    BY <1>1, <1>2 DEF IInv, Asked, Mutex, ParsesLatest, SavesDoc, Saving

LEMMA Returns ==
    ASSUME IInv, NEW c \in Callers, at[c] \notin {"idle", "lock"}, Return(c)
    PROVE  /\ Asked' /\ Mutex' /\ ParsesLatest' /\ SavesDoc'
           /\ mu' \in Callers \cup {NoOne} /\ at' \in [Callers -> Places]
           /\ req' \in [Callers -> Requests \cup {NoRequest}]
           /\ local' \in [Callers -> Contents]
<1>1. \A b \in Callers : b # c => at[b] \in {"idle", "lock"}
    BY DEF IInv, Mutex
<1>2. \A b \in Callers : /\ at'[b] = IF b = c THEN "idle" ELSE at[b]
                         /\ b # c => req'[b] = req[b]
    BY DEF Return, Goto, IInv, TypeOK
<1>3. mu' = NoOne
    BY DEF Return
<1>4. Asked' /\ Mutex' /\ ParsesLatest' /\ SavesDoc'
    BY <1>1, <1>2, <1>3, InventoryAssumption
    DEF IInv, Asked, Mutex, ParsesLatest, SavesDoc, Saving
<1> QED
    BY <1>4 DEF Return, Goto, IInv, TypeOK, Contents, Places

LEMMA LoadType ==
    ASSUME IInv, Load
    PROVE  /\ data' \in Contents /\ missed' \in BOOLEAN /\ faults' \in 0..MaxFaults
           /\ \A c \in Callers : at[c] # "apply" /\ at[c] \notin Saving
<1>1. faults' \in 0..MaxFaults
    BY InventoryAssumption DEF Load, IInv, TypeOK
<1> QED
    BY <1>1, InventoryAssumption DEF Load, IInv, TypeOK, Mutex, Saving

LEMMA Saves ==
    ASSUME IInv, NEW c \in Callers, at[c] \in Saving
    PROVE  data \in Doc
    BY DEF IInv, SavesDoc

(* The steps of a caller.                                                  *)
LEMMA CallerInv ==
    ASSUME IInv, NEW c \in Callers, Call(c) \/ Caller(c)
    PROVE  IInv'
<1> USE DEF disks, manager, older, watch, counters
<1>1. CASE Call(c)
  <2>1. TypeOK'
      BY <1>1, InventoryAssumption DEF Call, Goto, IInv, TypeOK, Places
  <2> QED
      BY <1>1, <2>1
      DEF Call, Goto, IInv, TypeOK, Asked, Mutex, ParsesLatest, SavesDoc, Saving
<1>2. CASE Acquire(c)
  <2>1. TypeOK'
      BY <1>2 DEF Acquire, Goto, IInv, TypeOK, Places
  <2>2. \A b \in Callers : at[b] \in {"idle", "lock"}
      BY <1>2, InventoryAssumption DEF Acquire, IInv, Mutex
  <2> QED
      BY <1>2, <2>1, <2>2
      DEF Acquire, Goto, IInv, TypeOK, Asked, Mutex, ParsesLatest, SavesDoc, Saving
<1>3. CASE Refuse(c)
    BY <1>3, Returns DEF Refuse, IInv, TypeOK
<1>4. CASE Apply(c)
  <2> DEFINE q == req[c]
             d == Parse(q, local[c])
  <2>1. q \in Request /\ d \in Doc
      BY <1>4, ParseType, InventoryAssumption DEF Apply, IInv, TypeOK, Asked
  <2>2. Effect(q, d) \in Doc /\ Effect(q, d) \in Contents
      BY <2>1, EffectType DEF Contents
  <2> HIDE DEF q, d
  <2>3. TypeOK'
      BY <1>4, <2>2 DEF Apply, Goto, IInv, TypeOK, Places, q, d
  <2>4. Asked' /\ Mutex' /\ ParsesLatest' /\ SavesDoc'
      BY <1>4, <2>2, GoesOn DEF Apply, Places, q, d
  <2> QED
      BY <2>3, <2>4 DEF IInv
<1>5. CASE Backup(c)
  <2>1. exposed' \in BOOLEAN /\ Empty \in Contents
      BY <1>5 DEF Backup, Contents
  <2>2. calls' \in 0..MaxCalls /\ events' \in 0..MaxEvents /\ faults' \in 0..MaxFaults
      BY <1>5, FaultType DEF Backup, IInv, TypeOK
  <2>3. TypeOK'
      BY <1>5, <2>1, <2>2 DEF Backup, Goto, IInv, TypeOK, Places
  <2> QED
      BY <1>5, <2>3, Saves, GoesOn DEF Backup, Places, IInv, Saving
<1>6. CASE Copy(c)
  <2>2. exposed' \in BOOLEAN /\ bak' \in Contents
      BY <1>6 DEF Copy, IInv, TypeOK
  <2>3. calls' \in 0..MaxCalls /\ events' \in 0..MaxEvents /\ faults' \in 0..MaxFaults
      BY <1>6, FaultType DEF Copy, IInv, TypeOK
  <2>4. at' \in [Callers -> Places]
      BY <1>6 DEF Copy, Goto, IInv, TypeOK, Places
  <2>1. TypeOK'
      BY <1>6, <2>2, <2>3, <2>4 DEF Copy, IInv, TypeOK
  <2> QED
      BY <1>6, <2>1, Saves, GoesOn DEF Copy, Places, IInv, Saving
<1>7. CASE Truncate(c)
  <2>1. calls' \in 0..MaxCalls /\ events' \in 0..MaxEvents /\ faults' \in 0..MaxFaults
      BY <1>7, FaultType DEF Truncate, IInv, TypeOK
  <2>2. file' \in Contents /\ missed' \in BOOLEAN /\ touched' \in BOOLEAN
      BY <1>7, Saves, TornType DEF Truncate, Touch, IInv, TypeOK, Saving
  <2>3. CASE Return(c)
      BY <1>7, <2>1, <2>2, <2>3, Returns DEF Truncate, Touch, IInv, TypeOK
  <2>4. CASE Goto(c, "write") /\ Keep
    <3>1. TypeOK'
        BY <1>7, <2>1, <2>2, <2>4
        DEF Truncate, Touch, Keep, Goto, IInv, TypeOK, Places
    <3> QED
        BY <1>7, <2>4, <3>1, Saves, GoesOn DEF Truncate, Keep, Places, IInv, Saving
  <2> QED
      BY <1>7, <2>3, <2>4 DEF Truncate
<1>8. CASE Write(c)
  <2>1. maimed' \in BOOLEAN
      BY <1>8 DEF Write, IInv, TypeOK
  <2> QED
      BY <1>8, <2>1, Returns, FaultType DEF Write, Touch, IInv, TypeOK
<1> QED
    BY <1>1, <1>2, <1>3, <1>4, <1>5, <1>6, <1>7, <1>8 DEF Caller, Save

LEMMA SourceType == TypeOK => Source \subseteq Contents
    BY InventoryAssumption DEF TypeOK, Source, Contents

(* The steps of everything else.                                           *)
LEMMA OtherInv ==
    ASSUME IInv,
           (\E l \in Loaders : Loading(l)) \/ Reload \/ Boot \/ Watcher \/ Edit \/ Crash
    PROVE  IInv'
<1> USE DEF IInv, Asked, Mutex, ParsesLatest, SavesDoc, disks, manager, older,
            watch, counters, LoaderGoto
<1>1. ASSUME NEW l \in Loaders, ReadFile(l) PROVE IInv'
  <2>1. missed' \in BOOLEAN
      BY <1>1 DEF ReadFile, TypeOK
  <2>2. faults' \in 0..MaxFaults
    <3>1. \A n \in 0..MaxFaults : n < MaxFaults => n + 1 \in 0..MaxFaults
        BY InventoryAssumption
    <3> QED
        BY <1>1, <3>1 DEF ReadFile, TypeOK
  <2>3. TypeOK'
    <3>1. CASE Loaded(l, FALSE)
        BY <1>1, <2>1, <2>2, <3>1, LoadedType DEF ReadFile, TypeOK
    <3>2. CASE ~Loaded(l, FALSE)
      <4>1. buf' \in [Loaders -> Contents]
          BY <1>1, <3>2, SourceType DEF ReadFile, TypeOK
      <4>2. loader' \in [Loaders -> {"idle", "load", "read", "upsert", "assign"}]
          BY <1>1, <3>2 DEF ReadFile, TypeOK
      <4> QED
          BY <1>1, <3>2, <4>1, <4>2 DEF ReadFile, TypeOK
    <3> QED
        BY <3>1, <3>2
  <2> QED
      BY <1>1, <2>3 DEF ReadFile
<1>2. ASSUME NEW l \in Loaders, UpsertHosts(l) PROVE IInv'
  <2>1. HostsIn(buf[l]) \subseteq Names
      BY HostsInType DEF TypeOK
  <2>2. db' \subseteq Names /\ missed' \in BOOLEAN
      BY <1>2, <2>1 DEF UpsertHosts, TypeOK
  <2>3. faults' \in 0..MaxFaults /\ calls' \in 0..MaxCalls /\ events' \in 0..MaxEvents
      BY <1>2, FaultType DEF UpsertHosts, TypeOK
  <2>4. /\ loader' \in [Loaders -> {"idle", "load", "read", "upsert", "assign"}]
        /\ buf' \in [Loaders -> Contents]
        /\ phase' \in {"init", "load", "stat", "up", "down"} /\ touched' = touched
    <3>1. CASE Loaded(l, FALSE)
        BY <3>1, LoadedType
    <3>2. CASE ~Loaded(l, FALSE)
        BY <1>2, <3>2 DEF UpsertHosts, TypeOK
    <3> QED
        BY <3>1, <3>2
  <2>5. UNCHANGED <<disks, manager, invPath, listed>>
      BY <1>2 DEF UpsertHosts
  <2>6. TypeOK'
      BY <2>2, <2>3, <2>4, <2>5 DEF TypeOK
  <2> QED
      BY <2>5, <2>6
<1>3. ASSUME NEW l \in Loaders, AssignHosts(l) PROVE IInv'
    BY <1>3, LoadedType, HostsInType DEF AssignHosts, TypeOK
<1>4. CASE Reload
    BY <1>4, InventoryAssumption DEF Reload, TypeOK, Loaders
<1>5. CASE Boot
  <2>1. CASE BootLoad
    <3>1. data' \in Contents /\ missed' \in BOOLEAN /\ faults' \in 0..MaxFaults
        BY <2>1, LoadType DEF BootLoad
    <3> QED
        BY <2>1, <3>1, LoadType DEF BootLoad, TypeOK
  <2>2. CASE BootStat
    <3>1. missed' \in BOOLEAN
        BY <2>2 DEF BootStat, TypeOK
    <3> QED
        BY <2>2, <3>1 DEF BootStat, TypeOK
  <2>3. CASE Start
      BY <2>3 DEF Start, TypeOK, Loaders
  <2> QED
      BY <1>5, <2>1, <2>2, <2>3 DEF Boot
<1>6. CASE Watcher
  <2>1. CASE WatcherStat
      BY <2>1 DEF WatcherStat, TypeOK, Loaders
  <2>2. CASE WatcherLoad
    <3>1. /\ data' \in Contents /\ missed' \in BOOLEAN /\ faults' \in 0..MaxFaults
          /\ \A c \in Callers : at[c] # "apply" /\ at[c] \notin Saving
        BY <2>2, LoadType DEF WatcherLoad
    <3>2. TypeOK'
        BY <2>2, <3>1 DEF WatcherLoad, TypeOK, Loaders
    <3> QED
        BY <2>2, <3>1, <3>2 DEF WatcherLoad
  <2> QED
      BY <1>6, <2>1, <2>2 DEF Watcher
<1>7. CASE Edit
  <2>1. exposed' \in BOOLEAN /\ file' \in Contents
      BY <1>7, InventoryAssumption DEF Edit, Contents
  <2>2. events' \in 0..MaxEvents
      BY <1>7, InventoryAssumption DEF Edit, TypeOK
  <2>3. touched' \in BOOLEAN /\ missed' \in BOOLEAN /\ phase' = phase
      BY <1>7 DEF Edit, Touch
  <2> QED
      BY <1>7, <2>1, <2>2, <2>3 DEF Edit, TypeOK
<1>8. CASE Crash
  <2>1. maimed' \in BOOLEAN /\ exposed' \in BOOLEAN
      BY <1>8 DEF Crash, TypeOK
  <2> QED
      BY <1>8, <2>1, FaultType, InventoryAssumption
      DEF Crash, TypeOK, Contents, Places, Saving
<1> QED
    BY <1>1, <1>2, <1>3, <1>4, <1>5, <1>6, <1>7, <1>8 DEF Loading

LEMMA NextInv == IInv /\ [Next]_vars => IInv'
<1>1. ASSUME IInv, UNCHANGED vars PROVE IInv'
    BY <1>1 DEF vars, disks, manager, older, watch, counters, IInv, TypeOK,
                Asked, Mutex, ParsesLatest, SavesDoc
<1> QED
    BY <1>1, CallerInv, OtherInv DEF Next

(* Between its lock and its unlock a caller holds im.mu, alone, and has    *)
(* parsed the latest document.                                             *)
THEOREM Invariant == Spec => []IInv
    BY InitInv, NextInv, PTL DEF Spec

(* Every variable keeps its type.                                          *)
THEOREM TypeCorrect == Spec => []TypeOK
    BY Invariant, PTL DEF IInv

-----------------------------------------------------------------------------
(* The manager is an InventoryStore.                                       *)

Pending == \E c \in Callers : at[c] \in Saving

LEMMA PendingIs ==
    ASSUME IInv, NEW c \in Callers, at[c] \notin {"idle", "lock"}
    PROVE  /\ Pending <=> at[c] \in Saving
           /\ \A p \in Places : Goto(c, p) => (Pending' <=> p \in Saving)
<1>1. \A b \in Callers : b # c => at[b] \in {"idle", "lock"}
    BY DEF IInv, Mutex
<1>2. ASSUME NEW p \in Places, Goto(c, p)
      PROVE  \A b \in Callers : at'[b] = IF b = c THEN p ELSE at[b]
    BY <1>2 DEF Goto, IInv, TypeOK
<1> QED
    BY <1>1, <1>2 DEF Pending, Saving

LEMMA NotPending ==
    ASSUME IInv, mu = NoOne
    PROVE  \A c \in Callers : at[c] \in {"idle", "lock"}
    BY InventoryAssumption DEF IInv, Mutex

(* Nothing the store sees changes.                                         *)
LEMMA Stutters ==
    ASSUME data' = data, file' = file, Pending' <=> Pending
    PROVE  UNCHANGED Store!svars
    BY DEF Store!svars, Pending

LEMMA StoreInit == Init => Store!StoreInit
    BY DEF Init, Store!StoreInit, Saving

(* A caller's request is applied as the store applies it, since what it    *)
(* has parsed is still the document in memory.                             *)
LEMMA StoreApply ==
    ASSUME IInv, NEW c \in Callers, Apply(c)
    PROVE  [Store!StoreNext]_(Store!svars)
<1> DEFINE q == req[c]
           d == Parse(q, data)
<1>1. /\ q \in Requests /\ local[c] = data /\ data # Broken /\ file' = file
      /\ Accepts(q, d) /\ at[c] = "apply"
    BY DEF Apply, IInv, Asked, ParsesLatest, disks
<1>2. ~Pending
    BY <1>1, PendingIs DEF Saving
<1>3. CASE Goto(c, "retry") /\ data' = data
  <2>1. ~Pending'
      BY <1>1, <1>3, PendingIs DEF Saving, Places
  <2> QED
      BY <1>1, <1>2, <1>3, <2>1, Stutters
<1>4. CASE ~Retries(q, d) /\ data' = Effect(q, d) /\ Goto(c, "backup")
  <2>1. Pending'
      BY <1>1, <1>4, PendingIs DEF Saving, Places
  <2>2. /\ Store!Parse(q, data) = d
        /\ Store!Accepts(q, d) /\ ~Store!Retries(q, d)
        /\ data' = Store!Effect(q, d)
      BY <1>1, <1>4
      DEF Store!Parse, Parse, Store!Fresh, Fresh, Store!Null, Null,
          Store!Accepts, Accepts, Store!Retries, Retries, Store!Effect, Effect,
          Store!CreateHost, CreateHost, Store!UpdateHost, UpdateHost,
          Store!DeleteHost, DeleteHost, Store!AddHostToGroup, AddHostToGroup,
          Store!RemoveHostFromGroup, RemoveHostFromGroup,
          Store!CreateGroup, CreateGroup, Store!UpdateGroupMetadata,
          UpdateGroupMetadata, Store!Noted, Noted
  <2> HIDE DEF q, d
  <2>3. Store!Apply
      BY <1>1, <1>2, <2>1, <2>2 DEF Store!Apply, Pending
  <2> QED
      BY <2>3 DEF Store!StoreNext
<1> QED
    BY <1>1, <1>3, <1>4 DEF Apply

(* The file is written, or is not, before another caller gets im.mu.       *)
LEMMA StoreWrite ==
    ASSUME IInv, NEW c \in Callers, Truncate(c) \/ Write(c)
    PROVE  [Store!StoreNext]_(Store!svars)
<1>1. data' = data /\ Pending /\ at[c] \notin {"idle", "lock"}
    BY PendingIs DEF Truncate, Write, Saving
<1>2. CASE file' \in Torn(data) /\ Goto(c, "write")
  <2>1. Pending'
      BY <1>1, <1>2, PendingIs DEF Saving, Places
  <2>2. Torn(data) = Store!Torn(data)
      BY DEF Torn, Store!Torn, Cut, Store!Cut
  <2> QED
      BY <1>1, <1>2, <2>1, <2>2 DEF Store!StoreNext, Store!Tear, Pending
<1>3. CASE file' \in {file, data} /\ Return(c)
  <2>1. ~Pending'
      BY <1>1, <1>3, PendingIs DEF Return, Saving, Places
  <2> QED
      BY <1>1, <1>3, <2>1
      DEF Store!StoreNext, Store!Flush, Store!Fail, Pending
<1> QED
    BY <1>2, <1>3 DEF Truncate, Write

LEMMA StoreLoad ==
    ASSUME IInv, Load, at' = at, file' = file
    PROVE  [Store!StoreNext]_(Store!svars)
<1>1. ~Pending /\ (Pending' <=> Pending) /\ data' \in {data, file}
    BY NotPending DEF Load, Pending, Saving
<1> QED
    BY <1>1, Stutters DEF Store!StoreNext, Store!Read, Pending

LEMMA StoreStep == IInv /\ [Next]_vars => [Store!StoreNext]_(Store!svars)
<1> SUFFICES ASSUME IInv, [Next]_vars PROVE [Store!StoreNext]_(Store!svars)
    OBVIOUS
<1> USE DEF disks, manager, older, watch, counters
<1>1. ASSUME UNCHANGED <<file, data, at>> PROVE [Store!StoreNext]_(Store!svars)
    BY <1>1, Stutters DEF Pending
<1>2. ASSUME NEW c \in Callers, Call(c) PROVE [Store!StoreNext]_(Store!svars)
  <2>1. \A b \in Callers : at'[b] \in Saving <=> at[b] \in Saving
      BY <1>2 DEF Call, Goto, IInv, TypeOK, Saving
  <2> QED
      BY <1>2, <2>1, Stutters DEF Call, Pending
<1>3. ASSUME NEW c \in Callers, Acquire(c) PROVE [Store!StoreNext]_(Store!svars)
  <2>1. \A b \in Callers : at'[b] \in Saving <=> at[b] \in Saving
      BY <1>3 DEF Acquire, Goto, IInv, TypeOK, Saving
  <2> QED
      BY <1>3, <2>1, Stutters DEF Acquire, Pending
<1>4. ASSUME NEW c \in Callers, Refuse(c) PROVE [Store!StoreNext]_(Store!svars)
  <2>1. \A b \in Callers : at'[b] \in Saving <=> at[b] \in Saving
      BY <1>4 DEF Refuse, Return, Goto, IInv, TypeOK, Saving
  <2> QED
      BY <1>4, <2>1, Stutters DEF Refuse, Pending
<1>5. ASSUME NEW c \in Callers, Backup(c) \/ Copy(c)
      PROVE  [Store!StoreNext]_(Store!svars)
  <2>1. \A b \in Callers : at'[b] \in Saving <=> at[b] \in Saving
      BY <1>5 DEF Backup, Copy, Goto, IInv, TypeOK, Saving
  <2> QED
      BY <1>5, <2>1, Stutters DEF Backup, Copy, Pending
<1>6. ASSUME NEW l \in Loaders, Loading(l) PROVE [Store!StoreNext]_(Store!svars)
    BY <1>1, <1>6 DEF Loading, ReadFile, UpsertHosts, AssignHosts
<1>7. CASE Reload
    BY <1>1, <1>7 DEF Reload
<1>8. CASE Boot
    BY <1>1, <1>8, StoreLoad DEF Boot, BootLoad, BootStat, Start
<1>9. CASE Watcher
    BY <1>1, <1>9, StoreLoad DEF Watcher, WatcherStat, WatcherLoad
<1>10. CASE Edit
  <2>1. Pending' <=> Pending
      BY <1>10 DEF Edit, Pending
  <2> QED
      BY <1>10, <2>1 DEF Edit, Store!StoreNext, Store!Edit, Pending
<1>11. CASE Crash
  <2>1. ~Pending'
      BY <1>11 DEF Crash, Pending, Saving
  <2> QED
      BY <1>11, <2>1 DEF Crash, Store!StoreNext, Store!Restart, Pending
<1>12. CASE UNCHANGED vars
    BY <1>1, <1>12 DEF vars
<1> QED
    BY <1>2, <1>3, <1>4, <1>5, <1>6, <1>7, <1>8, <1>9, <1>10, <1>11, <1>12,
       StoreApply, StoreWrite DEF Next, Caller, Save

(* No accepted request is lost: whatever callers, edits, reloads, failures *)
(* and crashes meet, the manager's document and file are an InventoryStore.*)
THEOREM Refinement == Spec => ImplementsStore
    BY Invariant, StoreInit, StoreStep, PTL DEF Spec, ImplementsStore, Store!StoreSpec

-----------------------------------------------------------------------------
(* No group names a host that all.hosts lacks.                             *)

EditsAreSound == \A e \in Edits : Sound(e)
AllSound ==
    \/ maimed
    \/ /\ Sound(data) /\ Sound(bak)
       /\ \A c \in Callers : Sound(local[c])
       /\ (\A c \in Callers : at[c] # "write") => Sound(file)

LEMMA NoDocSound == Sound(Empty) /\ Sound(Broken) /\ Sound(Null) /\ Sound(Fresh)
    BY DocAssumption DEF Sound, Null, Fresh

LEMMA ParseSound ==
    ASSUME NEW q, NEW c, Sound(c) PROVE Sound(Parse(q, c))
    BY NoDocSound DEF Parse

LEMMA ReturnSound ==
    ASSUME IInv, \A b \in Callers : Sound(local[b]), NEW c \in Callers, Return(c)
    PROVE  \A b \in Callers : Sound(local'[b])
    BY NoDocSound DEF Return, IInv, TypeOK

(* While someone else than a writer holds im.mu, nobody writes.            *)
LEMMA NobodyWrites ==
    ASSUME IInv, NEW c \in Callers, at[c] \notin {"idle", "lock", "write"}
    PROVE  \A b \in Callers : at[b] # "write"
    BY DEF IInv, Mutex

LEMMA CallerSound ==
    ASSUME IInv, AllSound, ~maimed, NEW c \in Callers, Call(c) \/ Caller(c)
    PROVE  AllSound'
<1> USE DEF disks, manager, older, watch, counters
<1>1. Sound(data) /\ Sound(bak) /\ \A b \in Callers : Sound(local[b])
    BY DEF AllSound
<1>2. ASSUME UNCHANGED <<file, bak, data, local>>, NEW p \in Places \ {"write"}, Goto(c, p),
             at[c] # "write"
      PROVE  AllSound'
  <2>1. (\A b \in Callers : at'[b] # "write") => \A b \in Callers : at[b] # "write"
      BY <1>2 DEF Goto, IInv, TypeOK
  <2> QED
      BY <1>1, <1>2, <2>1 DEF AllSound, Sound
<1>3. CASE Call(c)
    BY <1>2, <1>3 DEF Call, Places
<1>4. CASE Acquire(c)
  <2>1. \A b \in Callers : Sound(local'[b]) /\ (at[b] = "write" => at'[b] = "write")
      BY <1>1, <1>4 DEF Acquire, Goto, IInv, TypeOK
  <2> QED
      BY <1>1, <1>4, <2>1 DEF Acquire, AllSound, Sound
<1>5. CASE Refuse(c)
  <2>1. \A b \in Callers : Sound(local'[b])
      BY <1>1, <1>5, ReturnSound DEF Refuse
  <2>2. Sound(file)
      BY <1>5, NobodyWrites DEF Refuse, AllSound
  <2> QED
      BY <1>1, <1>5, <2>1, <2>2 DEF Refuse, AllSound, Sound
<1>6. CASE Apply(c)
  <2> DEFINE q == req[c]
             d == Parse(q, local[c])
  <2>1. q \in Request /\ d \in Doc /\ Accepts(q, d)
      BY <1>6, ParseType, InventoryAssumption DEF Apply, IInv, TypeOK, Asked
  <2>2. Sound(Effect(q, d))
      BY <1>1, <2>1, ParseSound, EffectSound
  <2> HIDE DEF q, d
  <2>3. Sound(data)'
      BY <1>1, <1>6, <2>2 DEF Apply, Sound, q, d
  <2>4. Sound(file)
      BY <1>6, NobodyWrites DEF Apply, AllSound
  <2> QED
      BY <1>1, <1>6, <2>3, <2>4 DEF Apply, AllSound, Sound
<1>7. CASE Backup(c) \/ Copy(c)
  <2>1. Sound(file)
      BY <1>7, NobodyWrites DEF Backup, Copy, AllSound
  <2>2. \A b \in Callers : Sound(local'[b])
      BY <1>1, <1>7, <2>1 DEF Backup, Copy, IInv, TypeOK
  <2>3. Sound(bak)'
      BY <1>1, <1>7, NoDocSound DEF Backup, Copy, Sound
  <2> QED
      BY <1>1, <1>7, <2>1, <2>2, <2>3 DEF Backup, Copy, AllSound, Sound
<1>8. CASE Truncate(c)
  <2>1. CASE Goto(c, "write") /\ Keep
    <3>1. at'[c] = "write"
        BY <2>1 DEF Goto, IInv, TypeOK
    <3> QED
        BY <1>1, <1>8, <2>1, <3>1 DEF Truncate, Keep, AllSound, Sound
  <2>2. CASE Return(c) /\ file' = file
    <3>1. \A b \in Callers : Sound(local'[b])
        BY <1>1, <2>2, ReturnSound
    <3>2. Sound(file)
        BY <1>8, NobodyWrites DEF Truncate, AllSound
    <3> QED
        BY <1>1, <1>8, <2>2, <3>1, <3>2 DEF Truncate, AllSound, Sound
  <2> QED
      BY <1>8, <2>1, <2>2 DEF Truncate
<1>9. CASE Write(c)
  <2>1. \A b \in Callers : Sound(local'[b])
      BY <1>1, <1>9, ReturnSound DEF Write
  <2>2. maimed' \/ Sound(file')
      BY <1>1, <1>9 DEF Write, Sound
  <2> QED
      BY <1>1, <1>9, <2>1, <2>2 DEF Write, AllSound, Sound
<1> QED
    BY <1>3, <1>4, <1>5, <1>6, <1>7, <1>8, <1>9 DEF Caller, Save

LEMMA SoundStep ==
    ASSUME EditsAreSound, IInv, AllSound, [Next]_vars
    PROVE  AllSound'
<1> USE DEF disks, manager, older, watch, counters
<1>1. maimed => maimed'
    BY DEF Next, Call, Caller, Save, Acquire, Refuse, Apply, Backup, Copy, Truncate, Write,
           Loading, ReadFile, UpsertHosts, AssignHosts, Reload, Boot, BootLoad, BootStat,
           Start, Watcher, WatcherStat, WatcherLoad, Edit, Crash, vars
<1>2. CASE maimed
    BY <1>1, <1>2 DEF AllSound
<1>3. CASE ~maimed
  <2>1. ASSUME UNCHANGED <<file, bak, data, local, at>> PROVE AllSound'
      BY <1>3, <2>1 DEF AllSound, Sound
  <2>2. ASSUME UNCHANGED <<bak, local, at, file>>, Load PROVE AllSound'
    <3>1. Sound(file)
        BY <1>3, <2>2, InventoryAssumption DEF AllSound, Load, IInv, Mutex
    <3> QED
        BY <1>3, <2>2, <3>1 DEF AllSound, Sound, Load
  <2>3. CASE Edit
      BY <1>3, <2>3 DEF Edit, AllSound, Sound, EditsAreSound
  <2>4. CASE Crash
      BY <1>3, <2>4, NoDocSound DEF Crash, AllSound, Sound
  <2>5. CASE Boot \/ Watcher
      BY <2>1, <2>2, <2>5
      DEF Boot, BootLoad, BootStat, Start, Watcher, WatcherStat, WatcherLoad
  <2>6. ASSUME NEW l \in Loaders, Loading(l) PROVE AllSound'
      BY <2>1, <2>6 DEF Loading, ReadFile, UpsertHosts, AssignHosts
  <2>7. CASE Reload \/ UNCHANGED vars
      BY <2>1, <2>7 DEF Reload, vars
  <2> QED
      BY <1>3, <2>3, <2>4, <2>5, <2>6, <2>7, CallerSound DEF Next
<1> QED
    BY <1>2, <1>3

(* If users write no inventory with a member that all.hosts lacks, there   *)
(* never is one, in memory, in the backup, or in the file but while it is  *)
(* being written, unless a save cut short left one.                        *)
THEOREM DeletedStaysDeleted == ASSUME EditsAreSound PROVE Spec => []NoDangling
<1>1. Init => AllSound
    BY NoDocSound DEF Init, AllSound, EditsAreSound
<1>2. IInv /\ AllSound /\ [Next]_vars => AllSound'
    BY SoundStep
<1>3. AllSound => NoDangling
    BY DEF AllSound, NoDangling
<1> QED
    BY <1>1, <1>2, <1>3, Invariant, PTL DEF Spec

-----------------------------------------------------------------------------
(* The inventory or its backup survives.                                   *)

(* Unless the save is exposed: while the backup is being written the file  *)
(* is whole, and before the file is truncated the backup is.               *)
BackInv ==
    /\ Recoverable
    /\ \A c \in Callers : ~exposed =>
          /\ at[c] = "copy" => local[c] = whole /\ file = whole
          /\ at[c] = "truncate" => bak = whole

LEMMA BackStep == ASSUME IInv, BackInv, [Next]_vars PROVE BackInv'
<1> USE DEF disks, manager, older, watch, counters, Recoverable
<1>1. ASSUME UNCHANGED <<file, bak, whole, exposed, at, local>> PROVE BackInv'
    BY <1>1 DEF BackInv
<1>2. ASSUME NEW c \in Callers, at[c] \notin {"idle", "lock"},
             NEW p \in Places, Goto(c, p)
      PROVE  \A b \in Callers : IF b = c THEN at'[b] = p ELSE at'[b] \in {"idle", "lock"}
    BY <1>2 DEF Goto, IInv, TypeOK, Mutex
<1>3. ASSUME NEW c \in Callers, Call(c) PROVE BackInv'
    BY <1>3 DEF Call, Goto, IInv, TypeOK, BackInv
<1>4. ASSUME NEW c \in Callers, Acquire(c) PROVE BackInv'
  <2>1. \A b \in Callers : at'[b] \in {"idle", "lock", "apply"}
      BY <1>4, NotPending DEF Acquire, Goto, IInv, TypeOK
  <2> QED
      BY <1>4, <2>1 DEF Acquire, BackInv
<1>5. ASSUME NEW c \in Callers, Refuse(c) PROVE BackInv'
    BY <1>5, <1>2 DEF Refuse, Return, BackInv, Places
<1>6. ASSUME NEW c \in Callers, Apply(c) PROVE BackInv'
    BY <1>6, <1>2 DEF Apply, BackInv, Places
<1>7. ASSUME NEW c \in Callers, Backup(c) PROVE BackInv'
  <2>1. CASE Goto(c, "copy") /\ local' = [local EXCEPT ![c] = file]
             /\ exposed' = (file # whole)
    <3>1. local'[c] = file
        BY <2>1 DEF IInv, TypeOK
    <3> QED
        BY <1>7, <1>2, <2>1, <3>1 DEF Backup, BackInv, Places
  <2>2. CASE exposed'
      BY <2>2 DEF BackInv
  <2> QED
      BY <1>7, <2>1, <2>2 DEF Backup
<1>8. ASSUME NEW c \in Callers, Copy(c) PROVE BackInv'
  <2>1. CASE exposed'
      BY <2>1 DEF BackInv
  <2>2. CASE bak' = local[c] /\ exposed' = exposed /\ ~exposed
      BY <1>8, <1>2, <2>2 DEF Copy, BackInv, Places
  <2> QED
      BY <1>8, <2>1, <2>2 DEF Copy
<1>9. ASSUME NEW c \in Callers, Truncate(c) PROVE BackInv'
  <2>1. \A b \in Callers : at'[b] \in {"idle", "lock", "write"}
      BY <1>9, <1>2 DEF Truncate, Return, Places
  <2>2. exposed' \/ whole' \in {file', bak'}
      BY <1>9 DEF Truncate, BackInv
  <2> QED
      BY <2>1, <2>2 DEF BackInv
<1>10. ASSUME NEW c \in Callers, Write(c) PROVE BackInv'
  <2>1. \A b \in Callers : at'[b] \in {"idle", "lock"}
      BY <1>10, <1>2 DEF Write, Return, Places
  <2>2. exposed' \/ whole' \in {file', bak'}
      BY <1>10 DEF Write, BackInv
  <2> QED
      BY <2>1, <2>2 DEF BackInv
<1>11. CASE Edit
    BY <1>11 DEF Edit, BackInv
<1>12. CASE Crash
    BY <1>12 DEF Crash, BackInv
<1>13. CASE Boot \/ Watcher \/ Reload
    BY <1>1, <1>13
    DEF Boot, BootLoad, BootStat, Start, Watcher, WatcherStat, WatcherLoad, Reload
<1>14. ASSUME NEW l \in Loaders, Loading(l) PROVE BackInv'
    BY <1>1, <1>14 DEF Loading, ReadFile, UpsertHosts, AssignHosts
<1> QED
    BY <1>1, <1>3, <1>4, <1>5, <1>6, <1>7, <1>8, <1>9, <1>10, <1>11, <1>12,
       <1>13, <1>14 DEF Next, Caller, Save, vars

(* One of file and backup holds what was last written in full, but for     *)
(* the saves that are exposed.                                             *)
THEOREM FileOrBackup == Spec => []Recoverable
<1>1. Init => BackInv
    BY DEF Init, BackInv, Recoverable
<1>2. IInv /\ BackInv /\ [Next]_vars => BackInv'
    BY BackStep
<1>3. BackInv => Recoverable
    BY DEF BackInv
<1> QED
    BY <1>1, <1>2, <1>3, Invariant, PTL DEF Spec

-----------------------------------------------------------------------------
(* The older list is stored.                                               *)

UpsertedFirst ==
    \A l \in Loaders : loader[l] = "assign" => HostsIn(buf[l]) \subseteq db
ListInv == ListedIsStored /\ UpsertedFirst

LEMMA ListStep == ASSUME IInv, ListInv, [Next]_vars PROVE ListInv'
<1> USE DEF disks, manager, older, watch, counters, ListInv, ListedIsStored,
            UpsertedFirst
<1>1. ASSUME UNCHANGED older PROVE ListInv'
    BY <1>1
<1>2. ASSUME NEW l \in Loaders, NEW p \in {"idle", "load", "read", "upsert"},
             LoaderGoto(l, p), listed' = listed, db \subseteq db',
             \A k \in Loaders \ {l} : buf'[k] = buf[k]
      PROVE  ListInv'
    BY <1>2 DEF LoaderGoto, IInv, TypeOK
<1>3. ASSUME NEW l \in Loaders, ReadFile(l) PROVE ListInv'
    BY <1>3, <1>2 DEF ReadFile, Loaded, IInv, TypeOK
<1>4. ASSUME NEW l \in Loaders, UpsertHosts(l) PROVE ListInv'
  <2>1. CASE Loaded(l, FALSE) /\ db \subseteq db'
      BY <1>4, <1>2, <2>1 DEF UpsertHosts, Loaded, IInv, TypeOK
  <2>2. CASE db' = db \cup HostsIn(buf[l]) /\ LoaderGoto(l, "assign") /\ buf' = buf
      BY <1>4, <2>2 DEF UpsertHosts, LoaderGoto, IInv, TypeOK
  <2> QED
      BY <1>4, <2>1, <2>2 DEF UpsertHosts
<1>5. ASSUME NEW l \in Loaders, AssignHosts(l) PROVE ListInv'
    BY <1>5 DEF AssignHosts, Loaded, LoaderGoto, IInv, TypeOK
<1>6. CASE Reload
    BY <1>6, <1>2 DEF Reload, Loaders
<1>7. CASE Boot
    BY <1>1, <1>2, <1>7 DEF Boot, BootLoad, BootStat, Start, Loaders
<1>8. CASE Watcher
    BY <1>2, <1>8 DEF Watcher, WatcherStat, WatcherLoad, Loaders
<1>9. CASE Crash
    BY <1>9 DEF Crash
<1>10. ASSUME NEW c \in Callers, Call(c) \/ Caller(c) PROVE ListInv'
    BY <1>1, <1>10 DEF Call, Caller, Acquire, Refuse, Apply, Save, Backup, Copy,
                       Truncate, Write
<1> QED
    BY <1>1, <1>3, <1>4, <1>5, <1>6, <1>7, <1>8, <1>9, <1>10
    DEF Next, Loading, Edit, vars

(* A host is in the table before it is on the list.                        *)
THEOREM ListedHostsHaveRows == Spec => []ListedIsStored
<1>1. Init => ListInv
    BY DEF Init, ListInv, ListedIsStored, UpsertedFirst
<1>2. IInv /\ ListInv /\ [Next]_vars => ListInv'
    BY ListStep
<1>3. ListInv => ListedIsStored
    BY DEF ListInv
<1> QED
    BY <1>1, <1>2, <1>3, Invariant, PTL DEF Spec

-----------------------------------------------------------------------------
(* When the watcher rests, memory, file and older list agree.              *)

(* Who can be at work in which phase of the process.                       *)
Phases ==
    /\ phase # "up" => /\ \A c \in Callers : at[c] = "idle"
                       /\ loader["watcher"] = "idle" /\ loader["post"] = "idle"
    /\ phase # "init" => loader["boot"] = "idle"

(* What holds once no change is to be seen any more and none was missed.   *)
Own == invPath = "own"
ListAgrees == Own => file = Empty \/ listed = HostsIn(file)
Settled ==
    /\ Own /\ loader["boot"] \in {"upsert", "assign"} => buf["boot"] = file
    /\ Own /\ loader["watcher"] \in {"upsert", "assign"} => buf["watcher"] = file
    /\ phase \in {"load", "stat", "up"} /\ loader["watcher"] = "idle" => ListAgrees
    /\ /\ phase \in {"stat", "up"} /\ loader["watcher"] # "load"
       /\ \A c \in Callers : at[c] \notin Saving
       => data = file
AgreeInv ==
    /\ Phases
    /\ \A c \in Callers : at[c] = "write" =>
          touched \/ missed \/ loader["watcher"] = "load"
    /\ ~touched /\ ~missed => Settled

LEMMA AgreeInit == Init => AgreeInv
    BY DEF Init, AgreeInv, Phases, Settled, Loaders

(* A change, or one that was missed, leaves nothing to show.               *)
LEMMA Unsettled ==
    ASSUME AgreeInv, Phases', touched' \/ missed'
    PROVE  AgreeInv'
    BY DEF AgreeInv

LEMMA CallerAgrees ==
    ASSUME IInv, AgreeInv, NEW c \in Callers, Call(c) \/ Caller(c)
    PROVE  AgreeInv'
<1> USE DEF disks, manager, older, watch, counters, Own
<1>1. UNCHANGED <<loader, buf, invPath, listed, phase>> /\ phase = "up"
    BY DEF Call, Caller, Save, Acquire, Refuse, Apply, Backup, Copy, Truncate, Write, Touch,
           AgreeInv, Phases
<1>2. Phases'
    BY <1>1 DEF AgreeInv, Phases
<1>3. ASSUME UNCHANGED <<file, data, watch>>, NEW p \in Places, p # "write", Goto(c, p),
             at[c] \notin Saving \/ p \in Saving
      PROVE  AgreeInv'
  <2>1. \A b \in Callers : at'[b] = IF b = c THEN p ELSE at[b]
      BY <1>3 DEF IInv, TypeOK, Goto
  <2>2. (\A b \in Callers : at'[b] \notin Saving) => \A b \in Callers : at[b] \notin Saving
      BY <1>3, <2>1
  <2>3. Settled => Settled'
      BY <1>1, <1>3, <2>2 DEF Settled, ListAgrees
  <2> QED
      BY <1>1, <1>2, <1>3, <2>1, <2>3 DEF AgreeInv
<1>4. CASE Call(c) \/ Acquire(c) \/ Refuse(c)
    BY <1>3, <1>4 DEF Call, Acquire, Refuse, Return, Places, Saving
<1>5. CASE Apply(c)
  <2>1. CASE Goto(c, "retry") /\ UNCHANGED data
      BY <1>3, <1>5, <2>1 DEF Apply, Places, Saving
  <2>2. CASE Goto(c, "backup")
    <3>1. at'[c] = "backup" /\ \A b \in Callers \ {c} : at'[b] = at[b]
        BY <2>2 DEF IInv, TypeOK, Goto
    <3>2. Settled => Settled'
        BY <1>1, <1>5, <3>1 DEF Apply, Settled, ListAgrees, Saving
    <3> QED
        BY <1>1, <1>2, <1>5, <3>1, <3>2 DEF Apply, AgreeInv
  <2> QED
      BY <1>5, <2>1, <2>2 DEF Apply
<1>6. CASE Backup(c) \/ Copy(c)
    BY <1>3, <1>6 DEF Backup, Copy, Places, Saving
<1>7. CASE Truncate(c)
    BY <1>1, <1>2, <1>7, Unsettled DEF Truncate, Touch, Return, Goto, IInv, TypeOK
<1>8. CASE Write(c)
  <2>1. at[c] = "write" /\ \A b \in Callers : at'[b] = IF b = c THEN "idle" ELSE at[b]
      BY <1>8 DEF Write, Return, Goto, IInv, TypeOK
  <2>2. CASE Touch
      BY <1>2, <2>1, <2>2, Unsettled DEF Touch
  <2>3. CASE UNCHANGED <<file, watch>>
    <3>1. touched \/ missed \/ loader["watcher"] = "load"
        BY <2>1 DEF AgreeInv
    <3>2. loader["watcher"] = "load" /\ Settled => Settled'
        BY <1>1, <2>3 DEF Settled, ListAgrees
    <3> QED
        BY <1>1, <1>2, <2>1, <2>3, <3>1, <3>2 DEF AgreeInv
  <2> QED
      BY <1>8, <2>2, <2>3 DEF Write
<1> QED
    BY <1>4, <1>5, <1>6, <1>7, <1>8 DEF Caller, Save

(* Where a load goes, and the process with it.                             *)
GoesTo(l, p) ==
    /\ LoaderGoto(l, p)
    /\ IF p = "idle" /\ l = "boot" THEN phase' \in {"load", "down"} ELSE phase' = phase
    /\ ~missed' => ~missed

LEMMA LoadingGoes ==
    ASSUME IInv, NEW l \in Loaders, Loading(l)
    PROVE  \E p \in {"idle", "upsert", "assign"} : GoesTo(l, p)
<1> USE DEF watch, counters
<1>1. ~missed' => ~missed
    BY DEF Loading, ReadFile, UpsertHosts, AssignHosts, IInv, TypeOK
<1>2. ASSUME NEW ok \in BOOLEAN, Loaded(l, ok) PROVE GoesTo(l, "idle")
    BY <1>1, <1>2 DEF Loaded, GoesTo
<1>3. ASSUME NEW p \in {"upsert", "assign"}, LoaderGoto(l, p), UNCHANGED phase
      PROVE  GoesTo(l, p)
    BY <1>1, <1>3 DEF GoesTo
<1>4. \/ Loaded(l, TRUE) \/ Loaded(l, FALSE)
      \/ UNCHANGED phase /\ (LoaderGoto(l, "upsert") \/ LoaderGoto(l, "assign"))
    BY DEF Loading, ReadFile, UpsertHosts, AssignHosts
<1> QED
    BY <1>2, <1>3, <1>4

LEMMA LoadingAgrees ==
    ASSUME IInv, AgreeInv, NEW l \in Loaders, Loading(l)
    PROVE  AgreeInv'
<1> USE DEF disks, manager, older, watch, counters, Own
<1>1. UNCHANGED <<file, data, at, touched, invPath>>
    BY DEF Loading, ReadFile, UpsertHosts, AssignHosts, Loaded
<1>2. PICK p \in {"idle", "upsert", "assign"} : GoesTo(l, p)
    BY LoadingGoes
<1>3. /\ loader'[l] = p /\ loader[l] \in {"read", "upsert", "assign"}
      /\ \A k \in Loaders \ {l} : loader'[k] = loader[k] /\ buf'[k] = buf[k]
    BY <1>2
    DEF GoesTo, Loading, ReadFile, UpsertHosts, AssignHosts, Loaded, LoaderGoto, IInv, TypeOK
<1>4. /\ l # "boot" => phase' = phase /\ phase = "up"
      /\ l = "boot" => phase = "init"
    BY <1>2, <1>3 DEF AgreeInv, Phases, Loaders, GoesTo
<1>5. Phases'
    BY <1>1, <1>2, <1>3, <1>4 DEF AgreeInv, Phases, Loaders, GoesTo
<1>6. \A c \in Callers :
        at'[c] = "write" => touched' \/ missed' \/ loader'["watcher"] = "load"
    BY <1>1, <1>2, <1>3 DEF AgreeInv, GoesTo, Loaders
<1>7. ASSUME ~touched', ~missed' PROVE Settled'
  <2>1. ~missed /\ Settled
      BY <1>1, <1>2, <1>7 DEF AgreeInv, GoesTo
  <2>2. Own /\ p \in {"upsert", "assign"} => l = "post" \/ buf'[l] = file
      BY <1>3, <2>1
      DEF Loading, ReadFile, Source, UpsertHosts, AssignHosts, Loaded, LoaderGoto, Settled,
          IInv, TypeOK, Loaders
  <2>3. (l = "watcher" /\ p = "idle") \/ (l = "boot" /\ phase' = "load") \/ ListAgrees
        => ListAgrees'
    <3>1. CASE ReadFile(l)
      <4>1. listed' = listed
          BY <3>1 DEF ReadFile
      <4>2. Own /\ l = "watcher" /\ p = "idle" => file = Empty
          BY <1>2, <1>7, <3>1 DEF ReadFile, Source, GoesTo, LoaderGoto, IInv, TypeOK
      <4>3. l = "boot" => phase' # "load"
          BY <1>4, <3>1 DEF ReadFile, Loaded
      <4> QED
          BY <1>1, <4>1, <4>2, <4>3 DEF ListAgrees
    <3>2. CASE UpsertHosts(l)
      <4>1. listed' = listed
          BY <3>2 DEF UpsertHosts
      <4>2. ~(l = "watcher" /\ p = "idle")
          BY <1>2, <1>7, <3>2 DEF UpsertHosts, GoesTo, LoaderGoto, IInv, TypeOK
      <4>3. l = "boot" => phase' # "load"
          BY <1>4, <3>2 DEF UpsertHosts, Loaded
      <4> QED
          BY <1>1, <4>1, <4>2, <4>3 DEF ListAgrees
    <3>3. CASE AssignHosts(l)
      <4>1. /\ listed' = HostsIn(buf[l]) /\ loader[l] = "assign"
            /\ Own /\ l = "post" => buf[l] = file
          BY <1>7, <3>3 DEF AssignHosts, IInv, TypeOK
      <4> QED
          BY <1>1, <2>1, <4>1 DEF Settled, ListAgrees, Loaders
    <3> QED
        BY <3>1, <3>2, <3>3 DEF Loading
  <2>4. \A k \in Loaders \ {"post"} :
            Own /\ loader'[k] \in {"upsert", "assign"} => buf'[k] = file
      BY <1>3, <2>1, <2>2 DEF Settled, Loaders
  <2>5. ASSUME phase' \in {"load", "stat", "up"}, loader'["watcher"] = "idle"
        PROVE  ListAgrees'
    <3>1. CASE l = "boot"
        BY <1>2, <1>4, <2>3, <2>5, <3>1 DEF GoesTo
    <3>2. CASE l = "watcher"
      <4>1. p = "idle"
          BY <1>3, <2>5, <3>2
      <4> QED
          BY <2>3, <3>2, <4>1
    <3>3. CASE l = "post"
        BY <1>3, <1>4, <2>1, <2>3, <2>5, <3>3 DEF Settled, Loaders
    <3> QED
        BY <3>1, <3>2, <3>3 DEF Loaders
  <2>6. phase' \in {"stat", "up"} => phase' = phase
      BY <1>2 DEF GoesTo
  <2>7. loader'["watcher"] # "load" <=> loader["watcher"] # "load"
      BY <1>3 DEF Loaders
  <2> QED
      BY <1>1, <2>1, <2>4, <2>5, <2>6, <2>7 DEF Settled, Loaders
<1> QED
    BY <1>5, <1>6, <1>7 DEF AgreeInv

LEMMA OthersAgree ==
    ASSUME IInv, AgreeInv, Reload \/ Boot \/ Watcher \/ Edit \/ Crash \/ UNCHANGED vars
    PROVE  AgreeInv'
<1> USE DEF disks, manager, older, watch, counters, Own
<1>1. CASE Reload
    BY <1>1 DEF Reload, LoaderGoto, IInv, TypeOK, AgreeInv, Phases, Settled, ListAgrees,
                Loaders
<1>2. CASE BootLoad
  <2>1. data' = file \/ missed'
      BY <1>2 DEF BootLoad, Load
  <2>2. /\ phase = "load" /\ phase' = "stat" /\ UNCHANGED <<file, at, touched, older>>
        /\ ~missed' => ~missed
      BY <1>2 DEF BootLoad, Load, IInv, TypeOK
  <2> QED
      BY <2>1, <2>2 DEF AgreeInv, Phases, Settled, ListAgrees
<1>3. CASE BootStat
  <2>1. /\ phase = "stat" /\ phase' = "up" /\ UNCHANGED <<file, data, at, older>>
        /\ ~missed' => ~missed /\ ~touched
      BY <1>3 DEF BootStat, IInv, TypeOK
  <2>2. Phases'
      BY <2>1 DEF AgreeInv, Phases
  <2>3. \A c \in Callers : at'[c] = "idle"
      BY <2>1 DEF AgreeInv, Phases
  <2>4. ~missed' => Settled'
      BY <2>1 DEF AgreeInv, Phases, Settled, ListAgrees
  <2> QED
      BY <2>2, <2>3, <2>4 DEF AgreeInv
<1>4. CASE Start
    BY <1>4 DEF Start, LoaderGoto, IInv, TypeOK, AgreeInv, Phases, Settled, ListAgrees,
                Loaders
<1>5. CASE WatcherStat
  <2>1. /\ phase = "up" /\ loader'["watcher"] = "load"
        /\ \A l \in Loaders \ {"watcher"} : loader'[l] = loader[l]
        /\ UNCHANGED <<file, data, at, buf, listed, phase>>
      BY <1>5 DEF WatcherStat, LoaderGoto, IInv, TypeOK, Loaders
  <2>2. Phases'
      BY <2>1 DEF AgreeInv, Phases, Loaders
  <2>3. Settled'
      BY <2>1 DEF AgreeInv, Phases, Settled, Loaders
  <2> QED
      BY <2>1, <2>2, <2>3 DEF AgreeInv
<1>6. CASE WatcherLoad
  <2>1. /\ loader["watcher"] = "load" /\ loader'["watcher"] = "read"
        /\ \A l \in Loaders \ {"watcher"} : loader'[l] = loader[l]
        /\ UNCHANGED <<file, at, buf, listed, phase, touched>>
        /\ data' = file \/ missed'
        /\ ~missed' => ~missed
      BY <1>6 DEF WatcherLoad, Load, LoaderGoto, IInv, TypeOK, Loaders
  <2>2. \A c \in Callers : at[c] # "write"
      BY <1>6, InventoryAssumption DEF WatcherLoad, Load, IInv, Mutex
  <2>3. Phases'
      BY <2>1 DEF AgreeInv, Phases, Loaders
  <2>4. ~touched' /\ ~missed' => Settled'
      BY <2>1 DEF AgreeInv, Phases, Settled, Loaders
  <2> QED
      BY <2>1, <2>2, <2>3, <2>4 DEF AgreeInv
<1>7. CASE Edit
  <2>1. UNCHANGED <<at, loader, phase>> /\ (touched' \/ missed')
      BY <1>7 DEF Edit, Touch
  <2> QED
      BY <2>1 DEF AgreeInv, Phases
<1>8. CASE Crash
    BY <1>8 DEF Crash, AgreeInv, Phases, Settled, Loaders
<1>9. CASE UNCHANGED vars
    BY <1>9 DEF vars, AgreeInv, Phases, Settled, ListAgrees
<1> QED
    BY <1>1, <1>2, <1>3, <1>4, <1>5, <1>6, <1>7, <1>8, <1>9 DEF Boot, Watcher

(* When the watcher has nothing to do and no save is under way, what the   *)
(* manager has and what the older list names is what the file holds,       *)
(* unless a load that failed or was overtaken missed a change, for any     *)
(* callers, requests, edits and crashes.                                   *)
THEOREM WatcherSettles == Spec => []RestMeansAgreed
<1>1. IInv /\ AgreeInv /\ [Next]_vars => AgreeInv'
    BY CallerAgrees, LoadingAgrees, OthersAgree DEF Next
<1>2. AgreeInv => RestMeansAgreed
    BY DEF AgreeInv, Settled, ListAgrees, Own, RestMeansAgreed, WatcherRests, Agrees, Loaders
<1> QED
    BY <1>1, <1>2, AgreeInit, Invariant, PTL DEF Spec
=============================================================================
