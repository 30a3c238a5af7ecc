------------------------------- MODULE GitSync -------------------------------
(***************************************************************************)
(* The two atomic operations of GitSyncService (api/services/git_sync.go): *)
(* atomicPull (Git -> /data) and atomicPush (/data -> Git), and Sync,      *)
(* which picks one of them.  They run on one host over                     *)
(*   - data     the files of /data, edited by users at any time,           *)
(*   - work     the checkout in /data/.git-work, with its branch (head)    *)
(*              and its remote-tracking branch (tracking),                 *)
(*   - remote   the branch of the remote repository, to which other        *)
(*              clients push at any time.                                  *)
(* A directory's content is one version number, 0 when it does not exist;  *)
(* git's object store is the pair hist/tree: hist[c] is c and all its      *)
(* ancestors, tree[c] its files.                                           *)
(*                                                                         *)
(* One action is one git command that changes something (with the commands *)
(* before it that only read) or one directory copy, so edits, remote       *)
(* commits, failures and a crash of the process fall between any two.      *)
(***************************************************************************)
EXTENDS Integers, FiniteSets

CONSTANTS
    Workers,      \* goroutines that call Pull, Push or Sync: timer and handlers
    NoWorker,     \* "nobody holds g.mu"
    Ops,          \* the public calls the workers make: {"pull","push","sync"}
    FaultKinds,   \* what may fail: see FaultKind
    DivergedPull, \* what `git pull` may do when head and remote have diverged
    MaxFaults,    \* bound on failures and crashes
    MaxCommits,   \* bound on commits
    MaxVersion    \* bound on distinct contents, i.e. on edits

(* The directory of the inventory file and DD_UI_DOCKER_DIR, in the order  *)
(* both copy functions visit them.                                         *)
Dirs == {1, 2}
FirstDir == 1
LastDir == 2

FaultKind == {"network",  \* a git command that needs the remote fails
              "ack",      \* a push reaches the remote, its answer is lost
              "capture",  \* rsync and cp from /data both fail
              "apply",    \* rsync and cp to /data both fail
              "commit",   \* git status, git add or git commit fails
              "backup",   \* git cherry or git branch fails
              "reset",    \* git reset fails
              "crash"}    \* the process dies and is restarted

(* "refused": git's default since 2.33, whose message ("divergent          *)
(* branches") none of the code's substrings match; "diverged": a message   *)
(* that says so in the code's words; "merge": a global pull.rebase=false.  *)
DivergedPulls == {"refused", "diverged", "merge"}

CommitIds == 1..MaxCommits
Versions == 0..MaxVersion
Missing == 0      \* the directory does not exist
Trees == [Dirs -> Versions]
NoHash == 0
Hashes == CommitIds \cup {NoHash}

ASSUME GitSyncAssumption ==
    /\ NoWorker \notin Workers
    /\ Ops \subseteq {"pull", "push", "sync"}
    /\ FaultKinds \subseteq FaultKind
    /\ DivergedPull \subseteq DivergedPulls
    /\ MaxFaults \in Nat
    /\ MaxCommits \in Nat \ {0}
    /\ MaxVersion \in Nat \ {0}

VARIABLES
    hist, tree,   \* the commits, of both repositories
    commits,      \* how many exist: their ids are 1..commits
    remote,       \* head of the branch in the remote repository
    cloned,       \* /data/.git-work holds a clone
    head,         \* head of the branch in /data/.git-work
    tracking,     \* origin/<branch> in /data/.git-work
    branches,     \* commits kept by the backup branches
    merging,      \* MERGE_HEAD of a pull that met conflicts (or no commit)
    work,         \* files of /data/.git-work
    data,         \* files of /data
    dataHead,     \* HEAD of /data/.git, fixed by Start (or no commit)
    dbHash,       \* git_sync_config.last_sync_hash
    cfgHash,      \* g.config.LastSyncHash
    lock,         \* holder of g.mu
    pc, op, dir, original,  \* of each worker: its place and its locals
    result        \* what its last call returned, if it returned

(* Bookkeeping that no code reads.                                         *)
VARIABLES
    fresh,        \* the next unused version
    faults,       \* failures so far
    edited,       \* directories edited since the running operation began
                  \* or, when that is later, since it captured them
    unsaved,      \* directories the running operation failed to put aside
                  \* and went on: not captured or not committed by a pull,
                  \* all of them when a push could not make its backup
    unreset,      \* the running pull failed to reset the checkout, and went on
    synced,       \* remote head when an operation last succeeded
    foreign       \* commits other clients made

repoVars == <<hist, tree, commits, remote>>
cloneVars == <<cloned, head, tracking, branches, merging>>
hashVars == <<dataHead, dbHash, cfgHash>>
spoiltVars == <<unsaved, unreset>>
markVars == <<edited, unsaved, unreset, synced, foreign>>
vars == <<repoVars, cloneVars, work, data, hashVars, lock,
          pc, op, dir, original, result, fresh, faults, edited, spoiltVars,
          synced, foreign>>

Places == {"idle", "waiting", "clone", "fetch",
           "cherry", "clear", "refetch",         \* a push whose pull conflicted
           "fetchDiverged", "cherryDiverged",    \* a push whose pull diverged
           "move", "fetchAgain",
           "capture", "commit", "push", "reset", "apply", "record"}
Results == {"none", "ok", "unchanged", "conflict", "error"}

TypeOK ==
    /\ hist \in [CommitIds -> SUBSET CommitIds]
    /\ tree \in [CommitIds -> Trees]
    /\ commits \in CommitIds
    /\ remote \in CommitIds /\ head \in CommitIds /\ tracking \in CommitIds
    /\ cloned \in BOOLEAN
    /\ branches \subseteq CommitIds
    /\ merging \in Hashes
    /\ work \in Trees
    /\ data \in Trees
    /\ dataHead \in Hashes /\ dbHash \in Hashes /\ cfgHash \in Hashes
    /\ lock \in Workers \cup {NoWorker}
    /\ pc \in [Workers -> Places]
    /\ op \in [Workers -> {"pull", "push"}]
    /\ dir \in [Workers -> Dirs]
    /\ original \in [Workers -> CommitIds]
    /\ result \in [Workers -> Results]
    /\ fresh \in 1..(MaxVersion + 1)
    /\ faults \in 0..MaxFaults
    /\ edited \subseteq Dirs
    /\ unsaved \subseteq Dirs
    /\ unreset \in BOOLEAN
    /\ synced \in CommitIds
    /\ foreign \subseteq CommitIds

(* Start has run on a remote with one commit; /data may hold other files,  *)
(* in which case the checkout in /data failed and /data/.git has no HEAD.  *)
Init ==
    /\ hist = [c \in CommitIds |-> IF c = 1 THEN {1} ELSE {}]
    /\ tree = [c \in CommitIds |-> [d \in Dirs |-> 1]]
    /\ commits = 1
    /\ remote = 1 /\ head = 1 /\ tracking = 1
    /\ cloned \in BOOLEAN
    /\ branches = {}
    /\ merging = NoHash
    /\ work = [d \in Dirs |-> 1]
    /\ data = [d \in Dirs |-> 1]
    /\ dataHead \in {1, NoHash}
    /\ dbHash = NoHash
    /\ cfgHash = NoHash
    /\ lock = NoWorker
    /\ pc = [w \in Workers |-> "idle"]
    /\ op = [w \in Workers |-> "pull"]
    /\ dir = [w \in Workers |-> FirstDir]
    /\ original = [w \in Workers |-> 1]
    /\ result = [w \in Workers |-> "none"]
    /\ fresh = 2
    /\ faults = 0
    /\ edited = {}
    /\ unsaved = {}
    /\ unreset = FALSE
    /\ synced = 1
    /\ foreign = {}

-----------------------------------------------------------------------------
(* Git, as far as the code relies on it.                                   *)

IsAncestor(a, b) == a \in hist[b]

(* `git commit`: a child of p, or the merge of p and q, with files t.      *)
NewCommit(p, q, t) ==
    LET c == commits + 1
    IN  /\ c \in CommitIds
        /\ commits' = c
        /\ hist' = [hist EXCEPT ![c] = hist[p] \cup hist[q] \cup {c}]
        /\ tree' = [tree EXCEPT ![c] = t]

Dirty == {d \in Dirs : work[d] # tree[head][d]}
Differ(a, b) == {d \in Dirs : tree[a][d] # tree[b][d]}

MergeBase == CHOOSE c \in hist[head] \cap hist[remote] :
                \A e \in hist[head] \cap hist[remote] : e <= c
Conflicts == {d \in Differ(head, remote) \cap Differ(head, MergeBase) :
                 d \in Differ(remote, MergeBase)}
MergedTree == [d \in Dirs |-> IF d \in Differ(head, MergeBase)
                              THEN tree[head][d] ELSE tree[remote][d]]

(* The checkout after moving from head to a commit with files t: what git  *)
(* does not touch keeps its uncommitted content, and git refuses to move   *)
(* when what it would touch has some.                                      *)
Moved(t) == [d \in Dirs |-> IF t[d] # tree[head][d] THEN t[d] ELSE work[d]]
Blocked == Dirty \cap Differ(head, remote) \cap Differ(remote, MergeBase) # {}

UpToDate == IsAncestor(remote, head)
FastForwards == ~UpToDate /\ IsAncestor(head, remote)
Diverged == ~UpToDate /\ ~IsAncestor(head, remote)

(* `git pull` fetched and succeeded.                                       *)
PullSucceeds ==
    /\ merging = NoHash
    /\ tracking' = remote
    /\ \/ /\ UpToDate
          /\ UNCHANGED <<head, work, hist, tree, commits>>
       \/ /\ FastForwards
          /\ ~Blocked
          /\ head' = remote
          /\ work' = Moved(tree[remote])
          /\ UNCHANGED <<hist, tree, commits>>
       \/ /\ Diverged
          /\ "merge" \in DivergedPull
          /\ Conflicts = {}
          /\ ~Blocked
          /\ NewCommit(head, remote, MergedTree)
          /\ head' = commits'
          /\ work' = Moved(MergedTree)
    /\ UNCHANGED merging

(* `git pull` fetched and failed.  A conflict leaves MERGE_HEAD behind; the *)
(* half merged files are read by nothing before a reset or a copy of both  *)
(* directories replaces them.                                              *)
PullConflicts ==
    /\ merging = NoHash
    /\ Diverged /\ "merge" \in DivergedPull /\ Conflicts # {} /\ ~Blocked
    /\ tracking' = remote
    /\ merging' = remote
PullSaysDiverged ==
    /\ merging = NoHash
    /\ Diverged /\ "diverged" \in DivergedPull
    /\ tracking' = remote
    /\ UNCHANGED merging
PullRefused ==
    /\ merging = NoHash
    /\ \/ Diverged /\ "refused" \in DivergedPull
       \/ ~UpToDate /\ DivergedPull # {"diverged"} /\ Blocked
       \/ FastForwards /\ Blocked
    /\ tracking' = remote
    /\ UNCHANGED merging

Fault(kind) ==
    /\ kind \in FaultKinds
    /\ faults < MaxFaults
    /\ faults' = faults + 1

(* `git pull` failed before it fetched: no network, or a merge that an     *)
(* earlier call left unfinished.                                           *)
PullFails ==
    /\ \/ Fault("network")
       \/ merging # NoHash /\ UNCHANGED faults
    /\ UNCHANGED <<tracking, merging>>

(* What a copy that does not finish leaves of its destination: rsync       *)
(* failed, RemoveAll took the rest, and cp failed too.  It is gone, or it  *)
(* holds some of the files, a content of its own.                          *)
LeavesTorn(v) ==
    /\ v \in {Missing, fresh} \cap Versions
    /\ fresh' = IF v = fresh THEN fresh + 1 ELSE fresh

-----------------------------------------------------------------------------
(* Helpers over a worker's place.                                          *)

Goto(w, place) == pc' = [pc EXCEPT ![w] = place]

Return_KeepsLock(w, r) ==
    /\ Goto(w, "idle")
    /\ result' = [result EXCEPT ![w] = r]
    /\ UNCHANGED lock

(* A return: the deferred g.mu.Unlock() runs on every path.                *)
Return(w, r) ==
    /\ Goto(w, "idle")
    /\ lock' = NoWorker
    /\ result' = [result EXCEPT ![w] = r]

Continue(w, place) ==
    /\ Goto(w, place)
    /\ UNCHANGED <<lock, result>>

(* After one directory: the other one, or on to the next place.            *)
CopyNext(w, place) ==
    IF dir[w] = LastDir
    THEN Continue(w, place) /\ UNCHANGED dir
    ELSE dir' = [dir EXCEPT ![w] = dir[w] + 1] /\ Continue(w, pc[w])

(* The bound on commits: a call begins, and another client commits, only   *)
(* while the running calls keep room for what they may still commit.       *)
PerCall == IF "merge" \in DivergedPull THEN 2 ELSE 1
Running == {w \in Workers : pc[w] # "idle"}
Room(n) == commits + PerCall * Cardinality(Running) + n <= MaxCommits
MayCall(w) == pc[w] = "idle" /\ Room(PerCall)

-----------------------------------------------------------------------------
(* Pull: nothing precedes atomicPull but a read of the configuration.      *)
Pull(w) ==
    /\ "pull" \in Ops /\ MayCall(w)
    /\ op' = [op EXCEPT ![w] = "pull"]
    /\ Goto(w, "waiting")
    /\ result' = [result EXCEPT ![w] = "none"]
    /\ UNCHANGED <<repoVars, cloneVars, work, data, hashVars, lock, dir,
                   original, fresh, faults, markVars>>

(* Push: reloads the configuration under g.mu, releases it, then calls     *)
(* atomicPush, which takes it again.                                       *)
Push(w) ==
    /\ "push" \in Ops /\ MayCall(w)
    /\ lock = NoWorker
    /\ cfgHash' = dbHash
    /\ op' = [op EXCEPT ![w] = "push"]
    /\ Goto(w, "waiting")
    /\ result' = [result EXCEPT ![w] = "none"]
    /\ UNCHANGED <<repoVars, cloneVars, work, data, dataHead, dbHash, lock,
                   dir, original, fresh, faults, markVars>>

(* What an ls-remote run in workPath tells the caller; an error reads as   *)
(* "not changed", and without a clone there is no workPath to run it in.   *)
RemoteChanged == cfgHash # NoHash /\ cfgHash # remote
RemoteSeen == {RemoteChanged /\ cloned} \cup
              (IF "network" \in FaultKinds THEN {FALSE} ELSE {})

(* Sync's answer from detectConflict's view (l1, r1) and its own (l2, r2). *)
SyncDecision(l1, r1, l2, r2) ==
    CASE (l1 /\ r1) \/ (l2 /\ r2) -> "conflict"
      [] l2 /\ ~r2 /\ ~(l1 /\ r1) -> "push"
      [] r2 /\ ~l2 /\ ~(l1 /\ r1) -> "pull"
      [] OTHER -> "unchanged"

(* Sync: detectConflict, a fetch, and the decision, all without g.mu.      *)
(* hasLocalChanges looks at modification times younger than a day, which   *)
(* say nothing of the contents: any answer, each time it is asked.         *)
Sync(w) ==
    /\ "sync" \in Ops /\ MayCall(w)
    /\ \E l1, l2 \in BOOLEAN, r1, r2 \in RemoteSeen :
          LET decision == SyncDecision(l1, r1, l2, r2)
          IN  \/ /\ decision \in {"conflict", "unchanged"}
                 /\ result' = [result EXCEPT ![w] = decision]
                 /\ UNCHANGED <<pc, op>>
              \/ /\ decision \in {"push", "pull"}
                 /\ op' = [op EXCEPT ![w] = decision]
                 /\ Goto(w, "waiting")
                 /\ result' = [result EXCEPT ![w] = "none"]
    /\ tracking' \in IF cloned THEN {tracking, remote} ELSE {tracking}
    /\ UNCHANGED <<repoVars, cloned, head, branches, merging, work, data,
                   hashVars, lock, dir, original, fresh, faults, markVars>>

(* g.mu.Lock() at the top of atomicPull and atomicPush.                    *)
Acquire(w) ==
    /\ pc[w] = "waiting"
    /\ lock = NoWorker
    /\ lock' = w
    /\ edited' = {}
    /\ unsaved' = {} /\ unreset' = FALSE
    /\ Goto(w, "clone")
    /\ UNCHANGED <<repoVars, cloneVars, work, data, hashVars, op, dir,
                   original, result, fresh, faults, synced, foreign>>

(* ensureWorkingDirectory: clone the branch unless a clone is there.       *)
EnsureWorkingDirectory(w) ==
    /\ pc[w] = "clone"
    /\ \/ /\ cloned
          /\ Continue(w, "fetch")
          /\ UNCHANGED <<cloned, head, tracking, work, faults>>
       \/ /\ ~cloned
          /\ cloned' = TRUE
          /\ head' = remote /\ tracking' = remote
          /\ work' = tree[remote]
          /\ Continue(w, "fetch")
          /\ UNCHANGED faults
       \/ /\ ~cloned
          /\ Fault("network")
          /\ Return(w, "error")
          /\ UNCHANGED <<cloned, head, tracking, work>>
    /\ UNCHANGED <<repoVars, branches, merging, data, hashVars, op, dir,
                   original, fresh, markVars>>

ToCapture_SkipsFirst(w) ==
    /\ Continue(w, "capture")
    /\ dir' = [dir EXCEPT ![w] = LastDir]

ToCapture(w) ==
    /\ Continue(w, "capture")
    /\ dir' = [dir EXCEPT ![w] = FirstDir]

(* atomicPull step 1: pull, and remember HEAD; any failure leads to a      *)
(* reset to origin/<branch> (Move) and to the second pull.                 *)
PullFetch(w) ==
    /\ pc[w] = "fetch" /\ op[w] = "pull"
    /\ \/ /\ PullSucceeds
          /\ original' = [original EXCEPT ![w] = head']
          /\ ToCapture(w)
          /\ UNCHANGED faults
       \/ /\ \/ PullFails
             \/ UNCHANGED faults /\ (PullConflicts \/ PullSaysDiverged
                                                    \/ PullRefused)
          /\ Continue(w, "move")
          /\ UNCHANGED <<hist, tree, commits, head, work, original, dir>>
    /\ UNCHANGED <<remote, cloned, branches, data, hashVars, op, fresh,
                   markVars>>

(* The second pull; when it fails too, atomicPull returns.                 *)
PullFetchAgain(w) ==
    /\ pc[w] = "fetchAgain"
    /\ \/ /\ PullSucceeds
          /\ original' = [original EXCEPT ![w] = head']
          /\ ToCapture(w)
          /\ UNCHANGED faults
       \/ /\ \/ PullFails
             \/ UNCHANGED faults /\ (PullConflicts \/ PullSaysDiverged
                                                    \/ PullRefused)
          /\ Return(w, "error")
          /\ UNCHANGED <<hist, tree, commits, head, work, original, dir>>
    /\ UNCHANGED <<remote, cloned, branches, data, hashVars, op, fresh,
                   markVars>>

(* atomicPush step 1: pull; a conflict or a message that the branch has    *)
(* diverged leads to a backup and a reset, any other failure is ignored.   *)
PushFetch(w) ==
    /\ pc[w] = "fetch" /\ op[w] = "push"
    /\ \/ PullSucceeds /\ ToCapture(w) /\ UNCHANGED faults
       \/ /\ \/ PullConflicts /\ Continue(w, "cherry") /\ UNCHANGED <<faults, dir>>
             \/ /\ PullSaysDiverged
                /\ Continue(w, "fetchDiverged") /\ UNCHANGED <<faults, dir>>
             \/ PullRefused /\ ToCapture(w) /\ UNCHANGED faults
             \/ PullFails /\ ToCapture(w)
          /\ UNCHANGED <<hist, tree, commits, head, work>>
    /\ UNCHANGED <<remote, cloned, branches, data, hashVars, op, original,
                   fresh, markVars>>

(* What `git cherry origin/<branch> HEAD` lists: the commits of HEAD that  *)
(* origin/<branch> lacks, merges left out.                                 *)
IsMerge(c) == c # 1 /\ ~\E p \in hist[c] \ {c} : hist[c] = hist[p] \cup {c}
Listed_IfSeveral ==
    LET own == {c \in hist[head] \ hist[tracking] : ~IsMerge(c)}
    IN  IF Cardinality(own) > 1 THEN own ELSE {}

Listed == {c \in hist[head] \ hist[tracking] : ~IsMerge(c)}

(* The backup: git cherry, and git branch when it lists something.  That   *)
(* either fails is not noticed.                                            *)
PushBackup(w) ==
    /\ pc[w] \in {"cherry", "cherryDiverged"}
    /\ \/ /\ branches' = IF Listed = {} THEN branches ELSE branches \cup {head}
          /\ UNCHANGED <<faults, unsaved>>
       \/ /\ Fault("backup")
          /\ unsaved' = Dirs
          /\ UNCHANGED branches
    /\ Continue(w, IF pc[w] = "cherry" THEN "clear" ELSE "move")
    /\ UNCHANGED <<repoVars, cloned, head, tracking, merging, work, data,
                   hashVars, op, dir, original, fresh, edited, unreset,
                   synced, foreign>>

(* git reset --hard HEAD ends the merge that conflicted.                   *)
PushClear(w) ==
    /\ pc[w] = "clear"
    /\ \/ /\ merging' = NoHash
          /\ work' = tree[head]
          /\ UNCHANGED faults
       \/ Fault("reset") /\ UNCHANGED <<merging, work>>
    /\ Continue(w, "refetch")
    /\ UNCHANGED <<repoVars, cloned, head, tracking, branches, data, hashVars,
                   op, dir, original, fresh, markVars>>

(* git fetch, whose failure is ignored.                                    *)
PushRefetch(w) ==
    /\ pc[w] \in {"refetch", "fetchDiverged"}
    /\ \/ tracking' = remote /\ UNCHANGED faults
       \/ Fault("network") /\ UNCHANGED tracking
    /\ Continue(w, IF pc[w] = "refetch" THEN "move" ELSE "cherryDiverged")
    /\ UNCHANGED <<repoVars, cloned, head, branches, merging, work, data,
                   hashVars, op, dir, original, fresh, markVars>>

(* git reset --hard origin/<branch>, of both operations.                   *)
Move(w) ==
    /\ pc[w] = "move"
    /\ \/ /\ head' = tracking
          /\ work' = tree[tracking]
          /\ merging' = NoHash
          /\ UNCHANGED faults
       \/ Fault("reset") /\ UNCHANGED <<head, work, merging>>
    /\ \/ op[w] = "pull" /\ Continue(w, "fetchAgain") /\ UNCHANGED dir
       \/ op[w] = "push" /\ ToCapture(w)
    /\ UNCHANGED <<repoVars, cloned, tracking, branches, data, hashVars, op,
                   original, fresh, markVars>>

(* copyFromDataToGit, one directory: mirror it (a directory missing from   *)
(* /data is removed), or fail, which ends the copy.  atomicPush returns    *)
(* the error; atomicPull only logs it.                                     *)
CopyFromDataToGit(w) ==
    /\ pc[w] = "capture"
    /\ \/ /\ work' = [work EXCEPT ![dir[w]] = data[dir[w]]]
          /\ edited' = edited \ {dir[w]}
          /\ CopyNext(w, "commit")
          /\ UNCHANGED <<faults, fresh, unsaved>>
       \/ /\ Fault("capture")
          /\ data[dir[w]] # Missing
          /\ \E v \in Versions : /\ LeavesTorn(v)
                                 /\ work' = [work EXCEPT ![dir[w]] = v]
          /\ IF op[w] = "pull" THEN Continue(w, "commit")
                               ELSE Return(w, "error")
          /\ unsaved' = {d \in Dirs : d >= dir[w]}
          /\ UNCHANGED <<edited, dir>>
    /\ UNCHANGED <<repoVars, cloneVars, data, hashVars, op, original, unreset,
                   synced, foreign>>

(* `git commit` of the checkout; it also concludes a merge that was left   *)
(* unfinished.                                                             *)
Commit ==
    /\ NewCommit(head, IF merging = NoHash THEN head ELSE merging, work)
    /\ head' = commits'
    /\ merging' = NoHash
Nothing == Dirty = {} /\ merging = NoHash

(* atomicPull step 2: commit what differs from HEAD; a failing status, add *)
(* or commit is at most logged.                                            *)
PullCommit(w) ==
    /\ pc[w] = "commit" /\ op[w] = "pull"
    /\ \/ /\ Nothing
          /\ Continue(w, "reset")
          /\ UNCHANGED <<hist, tree, commits, head, merging, faults, unsaved>>
       \/ /\ ~Nothing
          /\ Commit
          /\ Continue(w, "push")
          /\ UNCHANGED <<faults, unsaved>>
       \/ /\ ~Nothing
          /\ Fault("commit")
          /\ unsaved' = Dirs
          /\ Continue(w, "reset")
          /\ UNCHANGED <<hist, tree, commits, head, merging>>
    /\ UNCHANGED <<remote, cloned, tracking, branches, work, data, hashVars,
                   op, dir, original, fresh, edited, unreset, synced, foreign>>

(* atomicPush steps 3 and 4: "nothing to commit" returns at once.          *)
PushCommit(w) ==
    /\ pc[w] = "commit" /\ op[w] = "push"
    /\ \/ /\ Nothing
          /\ Return(w, "unchanged")
          /\ UNCHANGED <<hist, tree, commits, head, merging, faults>>
       \/ /\ ~Nothing
          /\ Commit
          /\ Continue(w, "push")
          /\ UNCHANGED faults
       \/ /\ ~Nothing
          /\ Fault("commit")
          /\ Return(w, "error")
          /\ UNCHANGED <<hist, tree, commits, head, merging>>
    /\ UNCHANGED <<remote, cloned, tracking, branches, work, data, hashVars,
                   op, dir, original, fresh, markVars>>

(* `git push origin <branch>`, never forced: the remote takes it only if   *)
(* its own head is an ancestor.                                            *)
GitPushAccepted ==
    /\ IsAncestor(remote, head)
    /\ remote' = head
    /\ tracking' = head
    /\ UNCHANGED faults

GitPushFails_TracksAnyway ==
    /\ \/ ~IsAncestor(remote, head) /\ UNCHANGED faults
       \/ Fault("network")
    /\ tracking' = head
    /\ UNCHANGED remote

GitPushFails ==
    \/ /\ ~IsAncestor(remote, head)
       /\ UNCHANGED <<remote, tracking, faults>>
    \/ /\ Fault("network")
       /\ UNCHANGED <<remote, tracking>>
    \/ /\ Fault("ack")
       /\ IsAncestor(remote, head)
       /\ remote' = head
       /\ UNCHANGED tracking

PullPush_IgnoresFailure(w) ==
    /\ pc[w] = "push" /\ op[w] = "pull"
    /\ (GitPushAccepted \/ GitPushFails) /\ Continue(w, "reset")
    /\ UNCHANGED <<hist, tree, commits, cloned, head, branches, merging, work,
                   data, hashVars, op, dir, original, fresh, markVars>>

(* atomicPull: the preservation commit must reach the remote.              *)
PullPush(w) ==
    /\ pc[w] = "push" /\ op[w] = "pull"
    /\ \/ GitPushAccepted /\ Continue(w, "reset")
       \/ GitPushFails /\ Return(w, "error")
    /\ UNCHANGED <<hist, tree, commits, cloned, head, branches, merging, work,
                   data, hashVars, op, dir, original, fresh, markVars>>

(* atomicPush step 5.                                                      *)
PushPush(w) ==
    /\ pc[w] = "push" /\ op[w] = "push"
    /\ \/ GitPushAccepted /\ Continue(w, "record")
       \/ GitPushFails /\ Return(w, "error")
    /\ UNCHANGED <<hist, tree, commits, cloned, head, branches, merging, work,
                   data, hashVars, op, dir, original, fresh, markVars>>

PullReset_Soft(w) ==
    /\ pc[w] = "reset"
    /\ head' = original[w]
    /\ dir' = [dir EXCEPT ![w] = FirstDir]
    /\ Continue(w, "apply")
    /\ UNCHANGED <<repoVars, cloned, tracking, branches, merging, work, data,
                   hashVars, op, original, fresh, faults, markVars>>

(* atomicPull step 3: back to the HEAD it remembered; a failing reset is   *)
(* not noticed.                                                            *)
PullReset(w) ==
    /\ pc[w] = "reset"
    /\ \/ /\ head' = original[w]
          /\ work' = tree[original[w]]
          /\ merging' = NoHash
          /\ UNCHANGED <<faults, unreset>>
       \/ /\ Fault("reset")
          /\ unreset' = TRUE
          /\ UNCHANGED <<head, work, merging>>
    /\ dir' = [dir EXCEPT ![w] = FirstDir]
    /\ Continue(w, "apply")
    /\ UNCHANGED <<repoVars, cloned, tracking, branches, data, hashVars, op,
                   original, fresh, edited, unsaved, synced, foreign>>

(* copyFromGitToData, one directory, as the other way.                     *)
CopyFromGitToData(w) ==
    /\ pc[w] = "apply"
    /\ \/ /\ data' = [data EXCEPT ![dir[w]] = work[dir[w]]]
          /\ CopyNext(w, "record")
          /\ UNCHANGED <<faults, fresh>>
       \/ /\ Fault("apply")
          /\ work[dir[w]] # Missing
          /\ \E v \in Versions : /\ LeavesTorn(v)
                                 /\ data' = [data EXCEPT ![dir[w]] = v]
          /\ Return(w, "error")
          /\ UNCHANGED dir
    /\ UNCHANGED <<repoVars, cloneVars, work, hashVars, op, original,
                   markVars>>

(* The last step of both: last_sync_hash becomes the HEAD of /data/.git    *)
(* (getCurrentCommit runs in syncPath), if it has one.                     *)
Record(w) ==
    /\ pc[w] = "record"
    /\ dbHash' = IF dataHead = NoHash THEN dbHash ELSE dataHead
    /\ synced' = remote
    /\ Return(w, "ok")
    /\ UNCHANGED <<repoVars, cloneVars, work, data, dataHead, cfgHash, op,
                   dir, original, fresh, faults, edited, spoiltVars, foreign>>

-----------------------------------------------------------------------------
(* The surroundings.                                                       *)

(* A user, the file editor of the web UI or the inventory manager writes   *)
(* under /data; none of them takes g.mu.                                   *)
UserEdit(d) ==
    /\ fresh \in Versions
    /\ data' = [data EXCEPT ![d] = fresh]
    /\ fresh' = fresh + 1
    /\ edited' = edited \cup {d}
    /\ UNCHANGED <<repoVars, cloneVars, work, hashVars, lock, pc, op, dir,
                   original, result, faults, spoiltVars, synced, foreign>>

(* Another client of the remote pushes a commit.                           *)
RemoteCommit(d) ==
    /\ fresh \in Versions /\ Room(1)
    /\ NewCommit(remote, remote, [tree[remote] EXCEPT ![d] = fresh])
    /\ remote' = commits'
    /\ foreign' = foreign \cup {commits'}
    /\ fresh' = fresh + 1
    /\ UNCHANGED <<cloneVars, work, data, hashVars, lock, pc, op, dir,
                   original, result, faults, edited, spoiltVars, synced>>

(* The process dies and starts again: Initialize reloads the               *)
(* configuration; what is on disk stays as it is, and a copy the crash     *)
(* interrupts leaves its destination torn.                                 *)
Restart ==
    /\ Fault("crash")
    /\ pc' = [w \in Workers |-> "idle"]
    /\ lock' = NoWorker
    /\ result' = [w \in Workers |-> "none"]
    /\ cfgHash' = dbHash
    /\ \/ UNCHANGED <<work, data, fresh>>
       \/ \E w \in Workers, v \in Versions :
             /\ LeavesTorn(v)
             /\ \/ /\ pc[w] = "capture"
                   /\ work' = [work EXCEPT ![dir[w]] = v]
                   /\ UNCHANGED data
                \/ /\ pc[w] = "apply"
                   /\ data' = [data EXCEPT ![dir[w]] = v]
                   /\ UNCHANGED work
    /\ UNCHANGED <<repoVars, cloneVars, dataHead, dbHash, op, dir, original,
                   markVars>>

Call(w) == Pull(w) \/ Push(w) \/ Sync(w)

Step(w) ==
    \/ Acquire(w) \/ EnsureWorkingDirectory(w)
    \/ PullFetch(w) \/ PushFetch(w) \/ PullFetchAgain(w)
    \/ PushBackup(w) \/ PushClear(w) \/ PushRefetch(w) \/ Move(w)
    \/ CopyFromDataToGit(w)
    \/ PullCommit(w) \/ PushCommit(w)
    \/ PullPush(w) \/ PushPush(w)
    \/ PullReset(w) \/ CopyFromGitToData(w) \/ Record(w)

Next ==
    \/ \E w \in Workers : Call(w) \/ Step(w)
    \/ \E d \in Dirs : UserEdit(d) \/ RemoteCommit(d)
    \/ Restart

Spec == Init /\ [][Next]_vars

(* Every git command and copy of a running operation returns, so a call    *)
(* keeps moving; a goroutine waiting for g.mu is admitted in the end       *)
(* (Go's mutex is fair after 1 ms), hence strong fairness on Acquire.      *)
Fairness == \A w \in Workers : WF_vars(Step(w)) /\ SF_vars(Acquire(w))
FairSpec == Spec /\ Fairness

-----------------------------------------------------------------------------
(* Properties.                                                             *)

(* A pull overwrites a directory of /data, or loses it in a copy that      *)
(* fails, only while the remote or the checkout's own branch has its       *)
(* content in a commit ("never lose track of what was overwritten"),       *)
(* unless someone edited it after it was captured or this pull went on     *)
(* after it had failed to capture or to commit it.  Nor does a crash in    *)
(* the middle of a copy lose anything else.                                *)
OverwrittenIsPreserved ==
    [][\A d \in Dirs : data'[d] # data[d] =>
          \/ UserEdit(d)
          \/ d \in edited
          \/ d \in unsaved
          \/ \E c \in hist[remote] \cup hist[head] : tree[c][d] = data[d]]_vars

(* A pull that succeeds leaves one whole commit in /data, never a mix of   *)
(* two, in every directory no user edited meanwhile: unless neither its    *)
(* commit nor its reset went through, and it returned nil all the same.    *)
PullInstallsOneCommit ==
    \A w \in Workers : (pc[w] = "record" /\ op[w] = "pull") =>
        \/ unreset /\ unsaved = Dirs
        \/ \E c \in hist[head] : \A d \in Dirs \ edited : data[d] = tree[c][d]

(* A push that reaches the remote publishes exactly what /data held when   *)
(* it was captured, whatever the pull before it brought or failed to.      *)
PushPublishesData ==
    [][\A w \in Workers : (PushPush(w) /\ remote' # remote) =>
          \A d \in Dirs \ edited : tree[remote'][d] = data[d]]_vars

(* When a push moves its branch onto origin/<branch>, several commands     *)
(* after it looked what that would drop, and while Sync may fetch without  *)
(* g.mu, no commit of its own but merges is dropped: origin/<branch> or a  *)
(* backup branch has it, unless the backup failed and nobody noticed.      *)
PushKeepsCommits ==
    [][\A w \in Workers : (Move(w) /\ op[w] = "push" /\ unsaved = {}) =>
          \A c \in hist[head] \ hist[head'] :
              IsMerge(c) \/ \E b \in branches : c \in hist[b]]_vars

(* A pull that preserves local changes publishes them and then goes back   *)
(* to the commit it started from: it leaves /data strictly behind the      *)
(* remote it just moved, with other files.  The next pull brings the       *)
(* preserved files back, and in turn preserves the ones it finds.          *)
PreservingFallsBehind ==
    [][\A w \in Workers : (PullPush(w) /\ pc'[w] = "reset") =>
          /\ original[w] \in hist'[remote']
          /\ remote' \notin hist'[original[w]]
          /\ tree'[remote'] # tree'[original[w]]]_vars

(* The remote-tracking branch never runs ahead of the remote or onto       *)
(* another line, also under Sync's fetch, which takes no lock: a reset to  *)
(* origin/<branch> always lands on a state the remote had.                 *)
TrackingBehindRemote == cloned => IsAncestor(tracking, remote)

(* Only the holder of g.mu is between Lock and Unlock, so two operations   *)
(* never interleave in .git-work; and nobody holds g.mu when all are idle  *)
(* (no error path forgets the unlock).                                     *)
Inside(w) == pc[w] \notin {"idle", "waiting"}
LockDiscipline == \A w \in Workers : Inside(w) <=> lock = w

(* Every call returns, on every error path, with faults and other workers  *)
(* competing for g.mu.                                                     *)
CallsReturn == \A w \in Workers : pc[w] # "idle" ~> pc[w] = "idle"

-----------------------------------------------------------------------------
(* The invariants the proofs of the above rest on.                         *)

(* hist[c] is closed under taking ancestors and knows only commits.        *)
GraphOK ==
    \A c \in 1..commits :
        /\ c \in hist[c]
        /\ hist[c] \subseteq 1..commits
        /\ \A b \in hist[c] : hist[b] \subseteq hist[c]

RefsOK ==
    /\ remote \in 1..commits /\ head \in 1..commits /\ tracking \in 1..commits
    /\ merging \in 0..commits
    /\ branches \subseteq 1..commits
    /\ \A w \in Workers : original[w] \in 1..commits

(* Every branch names an existing commit, the ancestry stays a partial     *)
(* order, and origin/<branch> stays behind the remote, whatever fetches,   *)
(* merges, resets and lost acknowledgements do to the three branches.      *)
HistoryInv == GraphOK /\ RefsOK /\ IsAncestor(tracking, remote)

Captured(d) == work[d] = data[d] \/ d \in edited
Kept(h, d) ==
    \/ d \in edited \/ d \in unsaved
    \/ \E c \in hist[h] \cup hist[remote] : tree[c][d] = data[d]

PullPhase(w) ==
    /\ pc[w] \in {"capture", "commit"} => head = original[w]
    /\ pc[w] = "capture" => \A d \in Dirs : d < dir[w] => Captured(d)
    /\ pc[w] \in {"commit", "push"} =>
          \A d \in Dirs : Captured(d) \/ d \in unsaved
    /\ pc[w] = "push" => tree[head] = work
    /\ pc[w] \in {"push", "reset", "apply"} => original[w] \in hist[head]
    /\ pc[w] = "reset" => /\ \A d \in Dirs : Kept(original[w], d)
                          /\ work = tree[head] \/ unsaved = Dirs
    /\ pc[w] = "apply" => /\ \A d \in Dirs : Kept(head, d)
                          /\ work = tree[head] \/ (unreset /\ unsaved = Dirs)

(* Where a pull stands on its way to overwriting /data: what it has copied *)
(* out, then that the commit holds it, then that the remote does.          *)
PreservationInv ==
    \A w \in Workers :
        /\ pc[w] \in {"reset", "apply"} => op[w] = "pull"
        /\ op[w] = "pull" => PullPhase(w)

(* What a push that gives up its branch has put aside before it does.      *)
BackedInv ==
    \A w \in Workers :
        (op[w] = "push" /\ unsaved = {} /\ pc[w] \in {"clear", "refetch", "move"}) =>
            \A c \in hist[head] : \/ c \in hist[tracking] \/ IsMerge(c)
                                  \/ \E b \in branches : c \in hist[b]

-----------------------------------------------------------------------------
(* What holds beyond the properties the runs check.                        *)

(* How many steps of its own a call still has before it, at most.          *)
StepsLeft(w) ==
    CASE pc[w] = "idle" -> 0
      [] pc[w] = "record" -> 1
      [] pc[w] = "apply" -> 4 - dir[w]
      [] pc[w] = "reset" -> 4
      [] pc[w] = "push" -> 5
      [] pc[w] = "commit" -> 6
      [] pc[w] = "capture" -> 9 - dir[w]
      [] pc[w] = "fetchAgain" -> 9
      [] pc[w] = "move" -> 10
      [] pc[w] \in {"refetch", "cherryDiverged"} -> 11
      [] pc[w] \in {"clear", "fetchDiverged"} -> 12
      [] pc[w] = "cherry" -> 13
      [] pc[w] = "fetch" -> 14
      [] pc[w] = "clone" -> 15
      [] pc[w] = "waiting" -> 16

(* No retry runs more than once, no error path goes back, and no other     *)
(* caller, edit, client or restart sets a call back: each step of a call   *)
(* brings its return nearer, and only a new call takes it away.            *)
CallsOnlyAdvance ==
    [][\A w \in Workers :
          /\ Step(w) => StepsLeft(w)' < StepsLeft(w)
          /\ StepsLeft(w)' > StepsLeft(w) => Call(w)]_vars

(* What a pull's preservation commit is to the commit it will go back to.  *)
BehindInv ==
    \A w \in Workers : op[w] = "pull" =>
        /\ pc[w] \in {"capture", "commit"} =>
              head = original[w] /\ merging = NoHash
        /\ pc[w] = "push" => /\ original[w] \in hist[head]
                             /\ head \notin hist[original[w]]
                             /\ tree[head] # tree[original[w]]

-----------------------------------------------------------------------------
(* What the comments and the design promise beyond that, and the code does *)
(* not keep: no run checks these.                                          *)

(* When a push returns nil, the remote holds /data, unless another client  *)
(* committed something the push did not fetch: "pushes local state".  It   *)
(* fails when a push finds nothing to commit after one whose commit was    *)
(* never sent.                                                             *)
PushEndsInSync ==
    [][\A w \in Workers :
          (op[w] = "push" /\ (PushCommit(w) \/ Record(w))
              /\ pc'[w] = "idle" /\ result'[w] \in {"ok", "unchanged"}) =>
              \/ foreign \cap (hist[remote] \ hist[head]) # {}
              \/ \A d \in Dirs \ edited : data[d] = tree[remote][d]]_vars

LocalChanged == \E d \in Dirs : data[d] # tree[synced][d]

(* Sync does not push over a remote that changed since the last successful *)
(* operation while /data changed too: that is the conflict it looks for.   *)
(* It fails until a restart loads the hash of the last operation.          *)
SyncDetectsConflict ==
    [][\A w \in Workers : (Sync(w) /\ pc'[w] = "waiting" /\ op'[w] = "push") =>
          remote = synced \/ ~LocalChanged]_vars
=============================================================================
