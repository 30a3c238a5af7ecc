------------------------------ MODULE Inventory ------------------------------
(***************************************************************************)
(* The inventory: the file users and git edit, the InventoryManager that   *)
(* handlers read and write it through (services/inventory_manager.go), the *)
(* watcher that polls its timestamp (services/inventory_watcher.go), and   *)
(* the older list of hosts with its copy in the table hosts                *)
(* (services/inventory.go, database/db_hosts.go), which the watcher and    *)
(* POST /inventory/reload load from the same file.                         *)
(*                                                                         *)
(* One action is one access to the file, to the shared memory or to the    *)
(* database.  im.mu keeps callers of the manager apart; nothing keeps      *)
(* users and the loads of the older list off the file.                     *)
(***************************************************************************)
EXTENDS InventoryDoc, Naturals

CONSTANTS
    Callers,    \* handlers that call the manager
    NoOne,      \* im.mu is free
    NoRequest,  \* an idle caller has none
    Requests,   \* the requests that come
    Edits,      \* the documents users write
    Ghost,      \* the hosts the INI parser sees in a file that is not INI
    MaxCalls,   \* bound on requests
    MaxEvents,  \* bound on edits and on POST /inventory/reload, together
    MaxFaults   \* bound on failures and crashes

ASSUME InventoryAssumption ==
    /\ NoOne \notin Callers /\ NoRequest \notin Requests /\ Ghost \notin Hosts
    /\ Requests \subseteq Request /\ Edits \subseteq Doc /\ Edits # {}
    /\ MaxCalls \in Nat /\ MaxEvents \in Nat /\ MaxFaults \in Nat

VARIABLES
    file, bak,  \* the inventory and its backup
    data,       \* im.data
    mu,         \* who holds im.mu
    at,         \* where each caller is
    req,        \* what it was asked for
    local,      \* the contents it has read
    phase,      \* of the process: "init", "load", "stat", "up" or "down"
    loader,     \* where each load of the older list is
    buf,        \* what it has read
    invPath,    \* which file it is from: "own", the manager's, since boot;
                \* "other", or "back" to the manager's, since a reload said so
    listed,     \* the older list
    db,         \* names in the table hosts
    touched,    \* the file is newer than lastModTime
    whole,      \* the contents last written in full, by a user or a save
    exposed,    \* no copy of them is sure to survive the save under way
    maimed,     \* a save cut short left groups with hosts that all.hosts lacks
    missed,     \* a change was not seen, or seen and not taken over
    calls, events, faults

disks == <<file, bak, whole, exposed, maimed>>
manager == <<data, mu, at, req, local>>
older == <<loader, buf, invPath, listed, db>>
watch == <<phase, touched, missed>>
counters == <<calls, events, faults>>
vars == <<disks, manager, older, watch, counters>>

Loaders == {"boot", "watcher", "post"}
Places == {"idle", "lock", "apply", "backup", "copy", "truncate", "write", "retry"}
Names == Hosts \cup {Ghost}
Saving == {"backup", "copy", "truncate", "write"}

TypeOK ==
    /\ file \in Contents /\ bak \in Contents /\ whole \in Contents
    /\ data \in Contents
    /\ mu \in Callers \cup {NoOne}
    /\ at \in [Callers -> Places]
    /\ req \in [Callers -> Requests \cup {NoRequest}]
    /\ local \in [Callers -> Contents]
    /\ phase \in {"init", "load", "stat", "up", "down"}
    /\ loader \in [Loaders -> {"idle", "load", "read", "upsert", "assign"}]
    /\ buf \in [Loaders -> Contents]
    /\ listed \subseteq Names /\ db \subseteq Names
    /\ touched \in BOOLEAN /\ exposed \in BOOLEAN /\ missed \in BOOLEAN
    /\ maimed \in BOOLEAN /\ invPath \in {"own", "other", "back"}
    /\ calls \in 0..MaxCalls /\ events \in 0..MaxEvents /\ faults \in 0..MaxFaults

Init ==
    /\ file \in Edits /\ bak = Empty /\ whole = file
    /\ exposed = FALSE /\ maimed = FALSE
    /\ data = Empty /\ mu = NoOne
    /\ at = [c \in Callers |-> "idle"]
    /\ req = [c \in Callers |-> NoRequest]
    /\ local = [c \in Callers |-> Empty]
    /\ phase = "init"
    /\ loader = [l \in Loaders |-> IF l = "boot" THEN "read" ELSE "idle"]
    /\ buf = [l \in Loaders |-> Empty]
    /\ listed = {} /\ db = {} /\ invPath = "own"
    /\ touched = FALSE /\ missed = FALSE
    /\ calls = 0 /\ events = 0 /\ faults = 0

Goto(c, place) == at' = [at EXCEPT ![c] = place]
LoaderGoto(l, place) == loader' = [loader EXCEPT ![l] = place]
Fault ==
    /\ faults < MaxFaults
    /\ faults' = faults + 1
    /\ UNCHANGED <<calls, events>>

(* The file changes: its timestamp moves on, and whoever missed an earlier *)
(* change will look again.                                                 *)
Touch == touched' = TRUE /\ missed' = FALSE /\ UNCHANGED phase
Untouched == UNCHANGED watch

(* No top-level group has a member that all.hosts lacks.                   *)
Sound(c) == c \in Doc => \A g \in Groups :
    /\ c.member[g] \subseteq c.hosts
    /\ g \notin c.groups => c.member[g] = {} /\ c.children[g] = {}

-----------------------------------------------------------------------------
(* A caller of the InventoryManager.                                       *)

Call(c) ==
    /\ phase = "up" /\ at[c] = "idle" /\ calls < MaxCalls
    /\ \E q \in Requests : req' = [req EXCEPT ![c] = q]
    /\ Goto(c, "lock")
    /\ calls' = calls + 1
    /\ UNCHANGED <<disks, data, mu, local, older, watch, events, faults>>

(* Mutant: the operation takes the lock for readers.                       *)
Acquire_Shared(c) ==
    /\ at[c] \in {"lock", "retry"}
    /\ mu' = c
    /\ local' = [local EXCEPT ![c] = data]
    /\ Goto(c, "apply")
    /\ UNCHANGED <<disks, data, req, older, watch, counters>>

(* Lock im.mu and parse.  A retry locks again what its caller has locked.  *)
Acquire(c) ==
    /\ at[c] \in {"lock", "retry"}
    /\ mu = NoOne
    /\ mu' = c
    /\ local' = [local EXCEPT ![c] = data]
    /\ Goto(c, "apply")
    /\ UNCHANGED <<disks, data, req, older, watch, counters>>

(* Unlock and return; a caller that is idle has nothing in its hands.      *)
Return(c) ==
    /\ Goto(c, "idle") /\ mu' = NoOne
    /\ req' = [req EXCEPT ![c] = NoRequest]
    /\ local' = [local EXCEPT ![c] = Empty]
Keep == UNCHANGED <<mu, req, local>>

(* Mutant: an error return that forgets to unlock.                         *)
Refuse_KeepsLock(c) ==
    /\ at[c] = "apply"
    /\ local[c] # Broken => ~Accepts(req[c], Parse(req[c], local[c]))
    /\ Goto(c, "idle")
    /\ UNCHANGED <<disks, data, mu, req, local, older, watch, counters>>

(* The contents do not parse or do not allow the operation.                *)
Refuse(c) ==
    /\ at[c] = "apply"
    /\ local[c] # Broken => ~Accepts(req[c], Parse(req[c], local[c]))
    /\ Return(c)
    /\ UNCHANGED <<disks, data, older, watch, counters>>

Apply(c) ==
    LET q == req[c]
        d == Parse(q, local[c])
    IN  /\ at[c] = "apply" /\ local[c] # Broken /\ Accepts(q, d)
        /\ \/ Retries(q, d) /\ Goto(c, "retry") /\ UNCHANGED data
           \/ ~Retries(q, d) /\ data' = Effect(q, d) /\ Goto(c, "backup")
        /\ UNCHANGED <<disks, mu, req, local, older, watch, counters>>

(* saveInternal: read the file for the backup and open the backup.  A save *)
(* that finds a torn file replaces the backup by it.                       *)
Backup(c) ==
    /\ at[c] = "backup"
    /\ \/ /\ local' = [local EXCEPT ![c] = file]
          /\ bak' = Empty
          /\ exposed' = (file # whole)
          /\ Goto(c, "copy")
          /\ UNCHANGED counters
       \/ Fault /\ exposed' = TRUE /\ Goto(c, "truncate") /\ UNCHANGED <<local, bak>>
    /\ UNCHANGED <<file, whole, maimed, data, mu, req, older, watch>>

(* Mutant: the backup is a copy of the new contents.                       *)
Copy_OfData(c) ==
    /\ at[c] = "copy"
    /\ \/ bak' = data /\ UNCHANGED <<exposed, counters>>
       \/ Fault /\ exposed' = TRUE /\ UNCHANGED bak
    /\ Goto(c, "truncate")
    /\ UNCHANGED <<file, whole, maimed, data, mu, req, local, older, watch>>

Copy(c) ==
    /\ at[c] = "copy"
    /\ \/ bak' = local[c] /\ UNCHANGED <<exposed, counters>>
       \/ Fault /\ exposed' = TRUE /\ UNCHANGED bak
    /\ Goto(c, "truncate")
    /\ UNCHANGED <<file, whole, maimed, data, mu, req, local, older, watch>>

(* os.WriteFile truncates the file first; until it returns the file is     *)
(* empty or holds a beginning of the document, which may well be YAML.     *)
Truncate(c) ==
    /\ at[c] = "truncate"
    /\ \/ /\ file' \in Torn(data)
          /\ Touch
          /\ Goto(c, "write")
          /\ Keep
          /\ UNCHANGED counters
       \/ /\ Fault
          /\ Return(c)
          /\ missed' = TRUE
          /\ UNCHANGED <<file, phase, touched>>
    /\ UNCHANGED <<bak, whole, exposed, maimed, data, older>>

Write(c) ==
    /\ at[c] = "write"
    /\ \/ /\ file' = data /\ whole' = data /\ exposed' = FALSE
          /\ Touch
          /\ UNCHANGED <<maimed, counters>>
       \/ /\ Fault
          /\ maimed' = (maimed \/ ~Sound(file))
          /\ UNCHANGED <<file, whole, exposed, watch>>
    /\ Return(c)
    /\ UNCHANGED <<bak, data, older>>

-----------------------------------------------------------------------------
(* A load of the older list: read the file, upsert its hosts, replace the  *)
(* list.  It takes neither im.mu nor a lock of its own before the list's.  *)

(* detectInventoryFormat: every line of what is no YAML, or has no hosts,  *)
(* names a host; no lines are an error.                                    *)
HostsIn(c) == IF c \in Doc /\ c.hosts # {} THEN c.hosts ELSE {Ghost}

(* Mutant: the watcher takes the time of its last load for the file's.     *)
Loaded_Now(l, ok) ==
    /\ LoaderGoto(l, "idle")
    /\ buf' = [buf EXCEPT ![l] = Empty]
    /\ phase' = IF l # "boot" THEN phase ELSE IF ok THEN "load" ELSE "down"
    /\ touched' = (touched /\ l # "watcher")

(* What follows a load, by who made it.                                    *)
Loaded(l, ok) ==
    /\ LoaderGoto(l, "idle")
    /\ buf' = [buf EXCEPT ![l] = Empty]
    /\ phase' = IF l # "boot" THEN phase ELSE IF ok THEN "load" ELSE "down"
    /\ UNCHANGED touched

(* POST /inventory/reload.  A path it gives replaces the older list's, and *)
(* not the manager's, for all loads to come.                               *)
Reload ==
    /\ phase = "up" /\ loader["post"] = "idle" /\ events < MaxEvents
    /\ LoaderGoto("post", "read")
    /\ invPath' \in {invPath, "other", IF invPath = "own" THEN "own" ELSE "back"}
    /\ events' = events + 1
    /\ UNCHANGED <<disks, manager, buf, listed, db, watch, calls, faults>>

(* What its path leads to: another file is one that users write, or none.  *)
Source == IF invPath = "other" THEN Edits \cup {Empty} ELSE {file}

ReadFile(l) ==
    /\ loader[l] = "read"
    /\ \/ /\ \E c \in Source \ {Empty} : buf' = [buf EXCEPT ![l] = c]
          /\ LoaderGoto(l, "upsert")
          /\ UNCHANGED <<watch, faults>>
       \/ /\ Empty \in Source
          /\ Loaded(l, FALSE)
          /\ UNCHANGED <<missed, faults>>
       \/ /\ faults < MaxFaults /\ faults' = faults + 1
          /\ Loaded(l, FALSE)
          /\ missed' = (missed \/ l = "watcher")
    /\ UNCHANGED <<disks, manager, invPath, listed, db, calls, events>>

(* UpsertHosts adds and updates rows one by one and deletes none.          *)
UpsertHosts(l) ==
    /\ loader[l] = "upsert"
    /\ \/ /\ db' = db \cup HostsIn(buf[l])
          /\ LoaderGoto(l, "assign")
          /\ UNCHANGED <<buf, watch, counters>>
       \/ /\ Fault
          /\ \E some \in SUBSET HostsIn(buf[l]) : db' = db \cup some
          /\ Loaded(l, FALSE)
          /\ missed' = (missed \/ l = "watcher")
    /\ UNCHANGED <<disks, manager, invPath, listed>>

(* A list from contents that are no longer the file's, after the watcher   *)
(* has seen the newer ones, is a change missed.                            *)
AssignHosts(l) ==
    /\ loader[l] = "assign"
    /\ listed' = HostsIn(buf[l])
    /\ Loaded(l, TRUE)
    /\ missed' = (missed \/ (l = "post" /\ invPath = "own" /\ buf[l] # file))
    /\ UNCHANGED <<disks, manager, invPath, db, counters>>

-----------------------------------------------------------------------------
(* The watcher, and the manager's first load in StartInventoryWatcher.     *)

(* Load into the manager, which waits for im.mu.                           *)
Load ==
    /\ mu = NoOne
    /\ \/ data' = file /\ UNCHANGED <<missed, faults>>
       \/ faults < MaxFaults /\ faults' = faults + 1 /\ missed' = TRUE /\ UNCHANGED data

BootLoad ==
    /\ phase = "load"
    /\ Load
    /\ phase' = "stat"
    /\ UNCHANGED <<disks, mu, at, req, local, older, touched, calls, events>>

(* The timestamp is taken after the load.                                  *)
BootStat ==
    /\ phase = "stat"
    /\ phase' = "up"
    /\ missed' = (missed \/ touched) /\ touched' = FALSE
    /\ UNCHANGED <<disks, manager, older, counters>>

(* checkAndReloadInventory: what it stats now becomes lastModTime when it  *)
(* is done, so that a change in between is seen by the next tick.          *)
WatcherStat ==
    /\ phase = "up" /\ loader["watcher"] = "idle" /\ touched
    /\ touched' = FALSE
    /\ LoaderGoto("watcher", "load")
    /\ UNCHANGED <<disks, manager, buf, invPath, listed, db, phase, missed, counters>>

WatcherLoad ==
    /\ loader["watcher"] = "load"
    /\ Load
    /\ LoaderGoto("watcher", "read")
    /\ UNCHANGED <<disks, mu, at, req, local, buf, invPath, listed, db, phase,
                   touched, calls, events>>

-----------------------------------------------------------------------------
(* A user, or a git pull, replaces the file.  rsync -a, and mv of a        *)
(* backup, bring the file's own, older time with them, which the watcher   *)
(* does not take for a change (modTime.After).                             *)
Edit ==
    /\ events < MaxEvents
    /\ file' \in Edits /\ whole' = file'
    /\ exposed' = (\E c \in Callers : at[c] \in {"copy", "truncate"})
    /\ \/ Touch
       \/ touched' = FALSE /\ missed' = TRUE /\ UNCHANGED phase
    /\ events' = events + 1
    /\ UNCHANGED <<bak, maimed, manager, older, calls, faults>>

(* The process dies, or never came up; the files stay as they are.         *)
Crash ==
    /\ phase # "down"
    /\ Fault
    /\ phase' = "down"
    /\ data' = Empty /\ mu' = NoOne
    /\ at' = [c \in Callers |-> "idle"]
    /\ req' = [c \in Callers |-> NoRequest]
    /\ local' = [c \in Callers |-> Empty]
    /\ loader' = [l \in Loaders |-> "idle"]
    /\ buf' = [l \in Loaders |-> Empty]
    /\ listed' = {} /\ invPath' = "own"
    /\ touched' = FALSE /\ missed' = FALSE
    /\ exposed' = (exposed /\ whole \notin {file, bak})
    /\ maimed' = (maimed \/ ~Sound(file))
    /\ UNCHANGED <<file, bak, whole, db>>

Start ==
    /\ phase = "down"
    /\ phase' = "init"
    /\ LoaderGoto("boot", "read")
    /\ UNCHANGED <<disks, manager, buf, invPath, listed, db, touched, missed, counters>>

-----------------------------------------------------------------------------
Save(c) == Backup(c) \/ Copy(c) \/ Truncate(c) \/ Write(c)
Caller(c) == Acquire(c) \/ Refuse(c) \/ Apply(c) \/ Save(c)
Loading(l) == ReadFile(l) \/ UpsertHosts(l) \/ AssignHosts(l)
Boot == BootLoad \/ BootStat \/ Start
Watcher == WatcherStat \/ WatcherLoad

Next ==
    \/ \E c \in Callers : Call(c) \/ Caller(c)
    \/ \E l \in Loaders : Loading(l)
    \/ Reload \/ Boot \/ Watcher \/ Edit \/ Crash

Spec == Init /\ [][Next]_vars

(* Goroutines run: the callers', main's (the container is restarted), the  *)
(* watcher's, whose ticker ticks, and the handler of a reload.             *)
FairSpec ==
    /\ Spec
    /\ \A c \in Callers : WF_vars(Caller(c))
    /\ WF_vars(Boot \/ Loading("boot"))
    /\ WF_vars(Watcher \/ Loading("watcher"))
    /\ WF_vars(Loading("post"))

-----------------------------------------------------------------------------
(* Whatever happens to the process, one of the inventory and its backup    *)
(* holds the contents last written in full (saveInternal's backup), but    *)
(* for a backup that failed unnoticed, an edit that falls between backup   *)
(* and truncation, and a save on top of a torn file.                       *)
Recoverable == exposed \/ whole \in {file, bak}

(* No top-level group has a member that all.hosts lacks: a host that was   *)
(* deleted stays out of them, and only existing hosts join them, whatever  *)
(* requests meet (AddHostToGroup, DeleteHost), unless a save cut short     *)
(* left a file in which that is so, which is then loaded.                  *)
NoDangling ==
    \/ maimed
    \/ /\ Sound(data) /\ Sound(bak)
       /\ (\A c \in Callers : at[c] # "write") => Sound(file)

(* Stated but not checked, since the code does not make it so: a group     *)
(* under all.children, which GetGroups lists with the others, loses a host *)
(* that is deleted "completely" too (DeleteHost).                          *)
NoNestedDangling == data \in Doc => \A g \in Groups : data.nested[g] \subseteq data.hosts

(* The older list never names a host the table hosts lacks, so a stack or  *)
(* container of a listed host finds its row (loadInventory).               *)
ListedIsStored == listed \subseteq db

(* The manager is an InventoryStore: no request that was accepted is lost. *)
Store == INSTANCE InventoryStore WITH
    memory <- data, disk <- file, pending <- \E c \in Callers : at[c] \in Saving
ImplementsStore == Store!StoreSpec

Stuck == \E c \in Callers : at[c] = "retry"

(* A call returns, unless one has met a group without vars: that one waits *)
(* for itself (UpdateGroupMetadata).                                       *)
CallsReturn == \A c \in Callers : at[c] # "idle" ~> at[c] = "idle" \/ Stuck

(* When the file stops changing, the manager and the older list end up     *)
(* with what it holds, also when it changed while they were loading it     *)
(* (checkAndReloadInventory), unless a failed or overtaken load missed a   *)
(* change or its timestamp hid it, a caller waits for itself, or the       *)
(* process cannot come up; the older list unless it was given another path.*)
Agrees == data = file /\ (file # Empty /\ invPath = "own" => listed = HostsIn(file))
Converges == <>[](Agrees \/ missed \/ Stuck \/ phase # "up")

(* What Converges rests on: when the watcher has nothing to do and no save *)
(* is under way, memory, file and older list agree, whatever requests,     *)
(* edits, reloads and crashes came before, unless a change was missed (the *)
(* older list: or it got another path).  A POST /inventory/reload may still *)
(* be running.                                                             *)
WatcherRests == phase = "up" /\ ~touched /\ loader["watcher"] = "idle"
RestMeansAgreed ==
    WatcherRests /\ ~missed /\ (\A c \in Callers : at[c] \notin Saving) => Agrees

(* No caller waits for the mutex it holds.                                 *)
NoSelfWait == \A c \in Callers : at[c] \in {"lock", "retry"} => mu # c
=============================================================================
