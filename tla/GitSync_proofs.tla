--------------------------- MODULE GitSync_proofs ---------------------------
(***************************************************************************)
(* What GitSync promises for every number of workers, commits, versions    *)
(* and faults.                                                             *)
(***************************************************************************)
EXTENDS GitSync, TLAPS

(* A new commit's ancestors are commits, its files a tree.                 *)
LEMMA NewCommitType ==
  ASSUME TypeOK, NEW p \in CommitIds, NEW q \in CommitIds, NEW t \in Trees,
         NewCommit(p, q, t)
  PROVE  /\ hist' \in [CommitIds -> SUBSET CommitIds]
         /\ tree' \in [CommitIds -> Trees]
         /\ commits' \in CommitIds
BY DEF TypeOK, NewCommit

(* A pull that goes through leaves well-typed commits and a typed checkout. *)
LEMMA PullSucceedsType ==
  ASSUME TypeOK, PullSucceeds
  PROVE  /\ hist' \in [CommitIds -> SUBSET CommitIds]
         /\ tree' \in [CommitIds -> Trees]
         /\ commits' \in CommitIds
         /\ head' \in CommitIds
         /\ tracking' \in CommitIds
         /\ work' \in Trees
         /\ merging' \in Hashes
<1>1. MergedTree \in Trees
  BY DEF TypeOK, MergedTree, Trees
<1>2. ASSUME NEW t \in Trees PROVE Moved(t) \in Trees
  BY DEF TypeOK, Moved, Trees
<1>3. CASE UNCHANGED <<hist, tree, commits>>
  BY <1>1, <1>2, <1>3 DEF TypeOK, PullSucceeds
<1>4. CASE NewCommit(head, remote, MergedTree) /\ head' = commits'
                                               /\ work' = Moved(MergedTree)
  BY <1>1, <1>2, <1>4, NewCommitType DEF TypeOK, PullSucceeds
<1> QED
  BY <1>3, <1>4 DEF PullSucceeds

(* So does one that fails, whatever its caller makes of it.                *)
FetchFails ==
    \/ PullFails
    \/ UNCHANGED faults /\ (PullConflicts \/ PullSaysDiverged \/ PullRefused)

LEMMA FetchFailsType ==
  ASSUME TypeOK, FetchFails
  PROVE  /\ tracking' \in CommitIds /\ merging' \in Hashes
         /\ faults' \in 0..MaxFaults
BY GitSyncAssumption
DEF TypeOK, FetchFails, PullFails, PullConflicts, PullSaysDiverged, PullRefused,
    Fault, Hashes

(* What a copy that fails leaves is a content.                             *)
LEMMA LeavesTornType ==
  ASSUME TypeOK, NEW v \in Versions, LeavesTorn(v)
  PROVE  fresh' \in 1..(MaxVersion + 1)
BY GitSyncAssumption DEF TypeOK, LeavesTorn, Versions, Missing

(* Every variable keeps its type, through every operation, failure and     *)
(* restart.                                                                *)
THEOREM TypeCorrect == Spec => []TypeOK
<1>1. Init => TypeOK
  <2> SUFFICES ASSUME Init PROVE TypeOK
    OBVIOUS
  <2>1. /\ 1 \in CommitIds /\ NoHash \in Hashes /\ 1 \in Hashes
        /\ 1 \in Versions /\ 2 \in 1..(MaxVersion + 1) /\ FirstDir \in Dirs
    BY GitSyncAssumption
    DEF CommitIds, Hashes, NoHash, Versions, FirstDir, Dirs
  <2>2. /\ hist \in [CommitIds -> SUBSET CommitIds]
        /\ tree \in [CommitIds -> Trees] /\ work \in Trees /\ data \in Trees
    BY <2>1 DEF Init, Trees
  <2>3. /\ commits \in CommitIds /\ remote \in CommitIds /\ head \in CommitIds
        /\ tracking \in CommitIds /\ merging \in Hashes /\ dataHead \in Hashes
        /\ dbHash \in Hashes /\ cfgHash \in Hashes /\ synced \in CommitIds
    BY <2>1 DEF Init
  <2>4. /\ pc \in [Workers -> Places] /\ op \in [Workers -> {"pull", "push"}]
        /\ dir \in [Workers -> Dirs] /\ original \in [Workers -> CommitIds]
        /\ result \in [Workers -> Results]
    BY <2>1 DEF Init, Places, Results
  <2>5. /\ branches \subseteq CommitIds /\ edited \subseteq Dirs
        /\ unsaved \subseteq Dirs /\ foreign \subseteq CommitIds
        /\ cloned \in BOOLEAN /\ unreset \in BOOLEAN
        /\ lock \in Workers \cup {NoWorker}
    BY DEF Init
  <2>6. fresh \in 1..(MaxVersion + 1) /\ faults \in 0..MaxFaults
    BY <2>1, GitSyncAssumption DEF Init
  <2> QED
    BY <2>2, <2>3, <2>4, <2>5, <2>6 DEF TypeOK
<1>2. TypeOK /\ [Next]_vars => TypeOK'
  <2> SUFFICES ASSUME TypeOK, [Next]_vars PROVE TypeOK'
    OBVIOUS
  <2> USE DEF vars, repoVars, cloneVars, hashVars, markVars, spoiltVars
  <2>1. ASSUME NEW w \in Workers, Pull(w) PROVE TypeOK'
    BY <2>1 DEF TypeOK, Pull, Goto, Places, Results
  <2>2. ASSUME NEW w \in Workers, Push(w) PROVE TypeOK'
    BY <2>2 DEF TypeOK, Push, Goto, Places, Results
  <2>3. ASSUME NEW w \in Workers, Sync(w) PROVE TypeOK'
    BY <2>3 DEF TypeOK, Sync, Goto, Places, Results
  <2>4. ASSUME NEW w \in Workers, Acquire(w) PROVE TypeOK'
    BY <2>4 DEF TypeOK, Acquire, Goto, Places
  <2>5. ASSUME NEW w \in Workers, EnsureWorkingDirectory(w) PROVE TypeOK'
    <3> USE <2>5, GitSyncAssumption DEF TypeOK, EnsureWorkingDirectory,
            Continue, Return, Goto, Fault
    <3>1. (cloned \in BOOLEAN)'
      OBVIOUS
    <3>2. (head \in CommitIds)'
      OBVIOUS
    <3>3. (tracking \in CommitIds)'
      OBVIOUS
    <3>4. (work \in Trees)'
      BY DEF Trees, Dirs
    <3>5. (pc \in [Workers -> Places])'
      BY DEF Places
    <3>6. (lock \in Workers \cup {NoWorker})'
      OBVIOUS
    <3>7. (result \in [Workers -> Results])'
      BY DEF Results
    <3>8. (faults \in 0..MaxFaults)'
      OBVIOUS
    <3> QED
      BY <3>1, <3>2, <3>3, <3>4, <3>5, <3>6, <3>7, <3>8
  <2>6. ASSUME NEW w \in Workers, PullFetch(w) PROVE TypeOK'
    <3> USE <2>6, GitSyncAssumption DEF TypeOK, PullFetch, ToCapture,
            Continue, Return, Goto
    <3>1. /\ hist' \in [CommitIds -> SUBSET CommitIds]
          /\ tree' \in [CommitIds -> Trees]
          /\ commits' \in CommitIds
          /\ head' \in CommitIds
          /\ tracking' \in CommitIds
          /\ work' \in Trees
          /\ merging' \in Hashes
      BY PullSucceedsType, FetchFailsType DEF FetchFails
    <3>2. (pc \in [Workers -> Places])'
      BY DEF Places
    <3>3. (lock \in Workers \cup {NoWorker})'
      OBVIOUS
    <3>4. (result \in [Workers -> Results])'
      BY DEF Results
    <3>5. (dir \in [Workers -> Dirs])'
      BY DEF Dirs, FirstDir, LastDir
    <3>6. (faults \in 0..MaxFaults)'
      BY FetchFailsType DEF FetchFails
    <3>7. (original \in [Workers -> CommitIds])'
      BY <3>1
    <3> QED
      BY <3>1, <3>2, <3>3, <3>4, <3>5, <3>6, <3>7
  <2>6a. ASSUME NEW w \in Workers, PullFetchAgain(w) PROVE TypeOK'
    <3> USE <2>6a, GitSyncAssumption DEF TypeOK, PullFetchAgain, ToCapture,
            Continue, Return, Goto
    <3>1. /\ hist' \in [CommitIds -> SUBSET CommitIds]
          /\ tree' \in [CommitIds -> Trees]
          /\ commits' \in CommitIds
          /\ head' \in CommitIds
          /\ tracking' \in CommitIds
          /\ work' \in Trees
          /\ merging' \in Hashes
      BY PullSucceedsType, FetchFailsType DEF FetchFails
    <3>2. (pc \in [Workers -> Places])'
      BY DEF Places
    <3>3. (lock \in Workers \cup {NoWorker})'
      OBVIOUS
    <3>4. (result \in [Workers -> Results])'
      BY DEF Results
    <3>5. (dir \in [Workers -> Dirs])'
      BY DEF Dirs, FirstDir, LastDir
    <3>6. (faults \in 0..MaxFaults)'
      BY FetchFailsType DEF FetchFails
    <3>7. (original \in [Workers -> CommitIds])'
      BY <3>1
    <3> QED
      BY <3>1, <3>2, <3>3, <3>4, <3>5, <3>6, <3>7
  <2>7. ASSUME NEW w \in Workers, PushFetch(w) PROVE TypeOK'
    <3> USE <2>7, GitSyncAssumption DEF TypeOK, PushFetch, ToCapture,
            Continue, Return, Goto
    <3>1. /\ hist' \in [CommitIds -> SUBSET CommitIds]
          /\ tree' \in [CommitIds -> Trees]
          /\ commits' \in CommitIds
          /\ head' \in CommitIds
          /\ tracking' \in CommitIds
          /\ work' \in Trees
          /\ merging' \in Hashes
      BY PullSucceedsType, FetchFailsType DEF FetchFails
    <3>2. (pc \in [Workers -> Places])'
      BY DEF Places
    <3>3. (lock \in Workers \cup {NoWorker})'
      OBVIOUS
    <3>4. (result \in [Workers -> Results])'
      BY DEF Results
    <3>5. (dir \in [Workers -> Dirs])'
      BY DEF Dirs, FirstDir, LastDir
    <3>6. (faults \in 0..MaxFaults)'
      BY FetchFailsType DEF FetchFails
    <3>7. (original \in [Workers -> CommitIds])'
      BY <3>1
    <3> QED
      BY <3>1, <3>2, <3>3, <3>4, <3>5, <3>6, <3>7
  <2>7a. ASSUME NEW w \in Workers, PushBackup(w) PROVE TypeOK'
    BY <2>7a, GitSyncAssumption
    DEF TypeOK, PushBackup, Continue, Goto, Fault, Places
  <2>7b. ASSUME NEW w \in Workers, PushClear(w) PROVE TypeOK'
    BY <2>7b, GitSyncAssumption
    DEF TypeOK, PushClear, Continue, Goto, Fault, Places, Hashes
  <2>7c. ASSUME NEW w \in Workers, PushRefetch(w) PROVE TypeOK'
    BY <2>7c, GitSyncAssumption
    DEF TypeOK, PushRefetch, Continue, Goto, Fault, Places
  <2>7d. ASSUME NEW w \in Workers, Move(w) PROVE TypeOK'
    <3> USE <2>7d, GitSyncAssumption DEF TypeOK, Move, ToCapture, Continue, Goto,
            Fault
    <3>1. (head \in CommitIds)' /\ (work \in Trees)' /\ (merging \in Hashes)'
      BY DEF Hashes
    <3>2. (pc \in [Workers -> Places])'
      BY DEF Places
    <3>3. (dir \in [Workers -> Dirs])'
      BY DEF Dirs, FirstDir
    <3>4. (faults \in 0..MaxFaults)'
      OBVIOUS
    <3> QED
      BY <3>1, <3>2, <3>3, <3>4
  <2>8. ASSUME NEW w \in Workers, CopyFromDataToGit(w) PROVE TypeOK'
    <3> USE <2>8, GitSyncAssumption DEF TypeOK, CopyFromDataToGit,
            CopyNext, Continue, Return, Goto, Fault
    <3>1. (work \in Trees)'
      BY DEF Trees, Dirs
    <3>2. (pc \in [Workers -> Places])'
      BY DEF Places
    <3>3. (lock \in Workers \cup {NoWorker})'
      OBVIOUS
    <3>4. (result \in [Workers -> Results])'
      BY DEF Results
    <3>5. (dir \in [Workers -> Dirs])'
      BY DEF Dirs, FirstDir, LastDir
    <3>6. (faults \in 0..MaxFaults)'
      OBVIOUS
    <3>7. (edited \subseteq Dirs)' /\ (unsaved \subseteq Dirs)'
      OBVIOUS
    <3>8. (fresh \in 1..(MaxVersion + 1))'
      BY LeavesTornType
    <3> QED
      BY <3>1, <3>2, <3>3, <3>4, <3>5, <3>6, <3>7, <3>8
  <2>9. ASSUME NEW w \in Workers, PullCommit(w) PROVE TypeOK'
    <3> USE <2>9, GitSyncAssumption DEF TypeOK, PullCommit, Continue, Return,
            Goto, Fault
    <3>1. /\ hist' \in [CommitIds -> SUBSET CommitIds]
          /\ tree' \in [CommitIds -> Trees]
          /\ commits' \in CommitIds
      <4>1. (IF merging = NoHash THEN head ELSE merging) \in CommitIds
        BY DEF Hashes
      <4> QED
        BY <4>1, NewCommitType DEF Commit
    <3>2. (head \in CommitIds)' /\ (merging \in Hashes)'
      BY <3>1 DEF Commit, Hashes
    <3>3. (pc \in [Workers -> Places])'
      BY DEF Places
    <3>4. (lock \in Workers \cup {NoWorker})'
      OBVIOUS
    <3>5. (result \in [Workers -> Results])'
      BY DEF Results
    <3>6. (faults \in 0..MaxFaults)'
      OBVIOUS
    <3> QED
      BY <3>1, <3>2, <3>3, <3>4, <3>5, <3>6
  <2>10. ASSUME NEW w \in Workers, PushCommit(w) PROVE TypeOK'
    <3> USE <2>10, GitSyncAssumption DEF TypeOK, PushCommit, Continue, Return,
            Goto, Fault
    <3>1. /\ hist' \in [CommitIds -> SUBSET CommitIds]
          /\ tree' \in [CommitIds -> Trees]
          /\ commits' \in CommitIds
      <4>1. (IF merging = NoHash THEN head ELSE merging) \in CommitIds
        BY DEF Hashes
      <4> QED
        BY <4>1, NewCommitType DEF Commit
    <3>2. (head \in CommitIds)' /\ (merging \in Hashes)'
      BY <3>1 DEF Commit, Hashes
    <3>3. (pc \in [Workers -> Places])'
      BY DEF Places
    <3>4. (lock \in Workers \cup {NoWorker})'
      OBVIOUS
    <3>5. (result \in [Workers -> Results])'
      BY DEF Results
    <3>6. (faults \in 0..MaxFaults)'
      OBVIOUS
    <3> QED
      BY <3>1, <3>2, <3>3, <3>4, <3>5, <3>6
  <2>11. ASSUME NEW w \in Workers, PullPush(w) PROVE TypeOK'
    BY <2>11, GitSyncAssumption
    DEF TypeOK, PullPush, GitPushAccepted, GitPushFails, Continue, Return, Goto,
        Fault, Places, Results
  <2>12. ASSUME NEW w \in Workers, PushPush(w) PROVE TypeOK'
    BY <2>12, GitSyncAssumption
    DEF TypeOK, PushPush, GitPushAccepted, GitPushFails, Continue, Return, Goto,
        Fault, Places, Results
  <2>13. ASSUME NEW w \in Workers, PullReset(w) PROVE TypeOK'
    <3> USE <2>13, GitSyncAssumption DEF TypeOK, PullReset, Continue, Goto, Fault
    <3>1. (head \in CommitIds)' /\ (work \in Trees)' /\ (merging \in Hashes)'
      BY DEF Hashes
    <3>2. (pc \in [Workers -> Places])'
      BY DEF Places
    <3>3. (dir \in [Workers -> Dirs])'
      BY DEF Dirs, FirstDir
    <3>4. (faults \in 0..MaxFaults)'
      OBVIOUS
    <3>5. (unreset \in BOOLEAN)'
      OBVIOUS
    <3> QED
      BY <3>1, <3>2, <3>3, <3>4, <3>5
  <2>14. ASSUME NEW w \in Workers, CopyFromGitToData(w) PROVE TypeOK'
    <3> USE <2>14, GitSyncAssumption DEF TypeOK, CopyFromGitToData,
            CopyNext, Continue, Return, Goto, Fault
    <3>1. (data \in Trees)'
      BY DEF Trees, Dirs
    <3>2. (pc \in [Workers -> Places])'
      BY DEF Places
    <3>3. (lock \in Workers \cup {NoWorker})'
      OBVIOUS
    <3>4. (result \in [Workers -> Results])'
      BY DEF Results
    <3>5. (dir \in [Workers -> Dirs])'
      BY DEF Dirs, FirstDir, LastDir
    <3>6. (faults \in 0..MaxFaults)'
      OBVIOUS
    <3>7. (fresh \in 1..(MaxVersion + 1))'
      BY LeavesTornType
    <3> QED
      BY <3>1, <3>2, <3>3, <3>4, <3>5, <3>6, <3>7
  <2>15. ASSUME NEW w \in Workers, Record(w) PROVE TypeOK'
    BY <2>15 DEF TypeOK, Record, Return, Goto, Places, Results
  <2>16. ASSUME NEW d \in Dirs, UserEdit(d) PROVE TypeOK'
    BY <2>16, GitSyncAssumption DEF TypeOK, UserEdit, Trees, Versions
  <2>17. ASSUME NEW d \in Dirs, RemoteCommit(d) PROVE TypeOK'
    <3> USE <2>17, GitSyncAssumption DEF TypeOK, RemoteCommit, Versions
    <3>1. [tree[remote] EXCEPT ![d] = fresh] \in Trees
      BY DEF Trees
    <3>2. /\ hist' \in [CommitIds -> SUBSET CommitIds]
          /\ tree' \in [CommitIds -> Trees]
          /\ commits' \in CommitIds
      BY <3>1, NewCommitType
    <3> QED
      BY <3>2
  <2>18. CASE Restart
    <3>1. (work \in Trees)' /\ (data \in Trees)' /\ (fresh \in 1..(MaxVersion + 1))'
      <4>1. CASE UNCHANGED <<work, data, fresh>>
        BY <4>1 DEF TypeOK
      <4>2. ASSUME NEW w \in Workers, NEW v \in Versions, LeavesTorn(v),
                   \/ work' = [work EXCEPT ![dir[w]] = v] /\ UNCHANGED data
                   \/ data' = [data EXCEPT ![dir[w]] = v] /\ UNCHANGED work
            PROVE  (work \in Trees)' /\ (data \in Trees)'
                   /\ (fresh \in 1..(MaxVersion + 1))'
        <5>1. (fresh \in 1..(MaxVersion + 1))'
          BY <4>2, LeavesTornType
        <5>2. \A t \in Trees, d \in Dirs : [t EXCEPT ![d] = v] \in Trees
          BY DEF Trees
        <5>3. work \in Trees /\ data \in Trees /\ dir[w] \in Dirs
          BY DEF TypeOK
        <5> QED
          BY <4>2, <5>1, <5>2, <5>3
      <4> QED
        BY <2>18, <4>1, <4>2 DEF Restart
    <3>2. /\ (pc \in [Workers -> Places])' /\ (result \in [Workers -> Results])'
          /\ (lock \in Workers \cup {NoWorker})' /\ (cfgHash \in Hashes)'
          /\ (faults \in 0..MaxFaults)'
      BY <2>18, GitSyncAssumption DEF TypeOK, Restart, Fault, Places, Results
    <3>3. UNCHANGED <<repoVars, cloneVars, dataHead, dbHash, op, dir, original,
                      markVars>>
      BY <2>18 DEF Restart
    <3> QED
      BY <3>1, <3>2, <3>3 DEF TypeOK
  <2>19. CASE UNCHANGED vars
    BY <2>19 DEF TypeOK
  <2> QED
    BY <2>1, <2>2, <2>3, <2>4, <2>5, <2>6, <2>6a, <2>7, <2>7a, <2>7b, <2>7c,
       <2>7d, <2>8, <2>9, <2>10, <2>11, <2>12, <2>13, <2>14, <2>15, <2>16,
       <2>17, <2>18, <2>19
    DEF Next, Call, Step
<1> QED
  BY <1>1, <1>2, PTL DEF Spec

-----------------------------------------------------------------------------
(* g.mu is held by whoever is between Lock and Unlock, and by nobody else, *)
(* through every return and restart: two operations never share .git-work. *)
THEOREM LockHeld == Spec => []LockDiscipline
<1>1. Init => LockDiscipline
  BY GitSyncAssumption DEF Init, LockDiscipline, Inside
<1>2. TypeOK /\ LockDiscipline /\ [Next]_vars => LockDiscipline'
  <2> SUFFICES ASSUME TypeOK, LockDiscipline, [Next]_vars PROVE LockDiscipline'
    OBVIOUS
  <2> USE GitSyncAssumption DEF LockDiscipline, Inside, TypeOK, Goto, Return,
          Continue, CopyNext, ToCapture
  <2>1. ASSUME NEW w \in Workers, Call(w) PROVE LockDiscipline'
    <3>1. /\ UNCHANGED lock
          /\ \/ pc' = pc
             \/ pc[w] = "idle" /\ pc' = [pc EXCEPT ![w] = "waiting"]
      BY <2>1 DEF Call, Pull, Push, Sync, MayCall
    <3> QED
      BY <3>1
  <2>2. ASSUME NEW w \in Workers, Acquire(w) PROVE LockDiscipline'
    BY <2>2 DEF Acquire
  <2>3. ASSUME NEW w \in Workers, EnsureWorkingDirectory(w)
        PROVE LockDiscipline'
    BY <2>3 DEF EnsureWorkingDirectory
  <2>4. ASSUME NEW w \in Workers, PullFetch(w) \/ PullFetchAgain(w)
        PROVE LockDiscipline'
    BY <2>4 DEF PullFetch, PullFetchAgain
  <2>5. ASSUME NEW w \in Workers, PushFetch(w) PROVE LockDiscipline'
    BY <2>5 DEF PushFetch
  <2>5a. ASSUME NEW w \in Workers,
                PushBackup(w) \/ PushClear(w) \/ PushRefetch(w) \/ Move(w)
         PROVE  LockDiscipline'
    BY <2>5a DEF PushBackup, PushClear, PushRefetch, Move
  <2>6. ASSUME NEW w \in Workers, CopyFromDataToGit(w) PROVE LockDiscipline'
    BY <2>6 DEF CopyFromDataToGit
  <2>7. ASSUME NEW w \in Workers, PullCommit(w) PROVE LockDiscipline'
    BY <2>7 DEF PullCommit
  <2>8. ASSUME NEW w \in Workers, PushCommit(w) PROVE LockDiscipline'
    BY <2>8 DEF PushCommit
  <2>9. ASSUME NEW w \in Workers, PullPush(w) PROVE LockDiscipline'
    BY <2>9 DEF PullPush
  <2>10. ASSUME NEW w \in Workers, PushPush(w) PROVE LockDiscipline'
    BY <2>10 DEF PushPush
  <2>11. ASSUME NEW w \in Workers, PullReset(w) PROVE LockDiscipline'
    BY <2>11 DEF PullReset
  <2>12. ASSUME NEW w \in Workers, CopyFromGitToData(w) PROVE LockDiscipline'
    BY <2>12 DEF CopyFromGitToData
  <2>13. ASSUME NEW w \in Workers, Record(w) PROVE LockDiscipline'
    BY <2>13 DEF Record
  <2>14. ASSUME NEW d \in Dirs, UserEdit(d) \/ RemoteCommit(d)
         PROVE LockDiscipline'
    BY <2>14 DEF UserEdit, RemoteCommit, cloneVars, hashVars
  <2>15. CASE Restart
    BY <2>15 DEF Restart
  <2>16. CASE UNCHANGED vars
    BY <2>16 DEF vars
  <2> QED
    BY <2>1, <2>2, <2>3, <2>4, <2>5, <2>5a, <2>6, <2>7, <2>8, <2>9, <2>10,
       <2>11, <2>12, <2>13, <2>14, <2>15, <2>16
    DEF Next, Step
<1> QED
  BY <1>1, <1>2, TypeCorrect, PTL DEF Spec

-----------------------------------------------------------------------------
(* A commit is only ever added: the others keep ancestors and files.       *)
Extends ==
    /\ commits' \in Nat /\ commits <= commits'
    /\ \A c \in 1..commits : hist'[c] = hist[c] /\ tree'[c] = tree[c]

(* A new commit extends the graph.                                         *)
LEMMA NewCommitGraph ==
  ASSUME TypeOK, GraphOK, NEW p \in 1..commits, NEW q \in 1..commits,
         NEW t, NewCommit(p, q, t)
  PROVE  /\ GraphOK'
         /\ Extends
         /\ commits' \in 1..commits' /\ commits' = commits + 1
         /\ hist'[commits'] = hist[p] \cup hist[q] \cup {commits'}
         /\ tree'[commits'] = t
<1> DEFINE c == commits + 1
<1>1. /\ commits \in Nat /\ c \in CommitIds /\ commits' = c
      /\ 1..commits \subseteq CommitIds
  BY GitSyncAssumption DEF TypeOK, NewCommit, CommitIds
<1>2. /\ hist'[c] = hist[p] \cup hist[q] \cup {c} /\ tree'[c] = t
      /\ \A b \in 1..commits : hist'[b] = hist[b] /\ tree'[b] = tree[b]
  BY <1>1 DEF TypeOK, NewCommit
<1>3. \A b \in 1..commits' : b \in 1..commits \/ b = c
  BY <1>1
<1>4. \A b \in 1..commits : /\ b \in hist'[b] /\ hist'[b] \subseteq 1..commits'
                            /\ \A a \in hist'[b] : hist'[a] \subseteq hist'[b]
  BY <1>1, <1>2 DEF GraphOK
<1>5. /\ c \in hist'[c] /\ hist'[c] \subseteq 1..commits'
      /\ \A a \in hist'[c] : hist'[a] \subseteq hist'[c]
  BY <1>1, <1>2 DEF GraphOK
<1>6. GraphOK'
  BY <1>1, <1>3, <1>4, <1>5 DEF GraphOK
<1> QED
  BY <1>1, <1>2, <1>6 DEF Extends

(* Nothing changes in the graph when no commit is made.                    *)
LEMMA SameGraph ==
  ASSUME TypeOK, GraphOK, UNCHANGED <<hist, tree, commits>>
  PROVE  GraphOK' /\ Extends
BY GitSyncAssumption DEF GraphOK, Extends, TypeOK, CommitIds

(* What a successful pull leaves.                                          *)
LEMMA PullSucceedsGraph ==
  ASSUME TypeOK, HistoryInv, PullSucceeds
  PROVE  /\ GraphOK' /\ Extends
         /\ head' \in 1..commits' /\ tracking' = remote
         /\ merging' = merging
<1>1. CASE UNCHANGED <<hist, tree, commits>> /\ head' \in {head, remote}
  BY <1>1, SameGraph DEF PullSucceeds, HistoryInv, RefsOK
<1>2. CASE NewCommit(head, remote, MergedTree) /\ head' = commits'
  BY <1>2, NewCommitGraph DEF PullSucceeds, HistoryInv, RefsOK
<1> QED
  BY <1>1, <1>2 DEF PullSucceeds

(* The invariant about history, from its parts one step later.             *)
LEMMA HistoryStep ==
  ASSUME TypeOK, HistoryInv, GraphOK', Extends,
         remote' \in 1..commits', remote \in hist'[remote'],
         head' \in 1..commits',
         tracking' \in {tracking, remote} \/ tracking' = remote',
         merging' \in {merging, remote, NoHash},
         branches' \subseteq branches \cup {head},
         \A w \in Workers : original'[w] \in {original[w], head'}
  PROVE  HistoryInv'
<1>1. /\ tracking \in 1..commits /\ remote \in 1..commits
      /\ merging \in 0..commits
      /\ branches \cup {head} \subseteq 1..commits
      /\ \A w \in Workers : original[w] \in 1..commits
  BY DEF HistoryInv, RefsOK
<1>2. 1..commits \subseteq 1..commits' /\ 0..commits \subseteq 0..commits'
  BY GitSyncAssumption DEF TypeOK, CommitIds, Extends
<1>3. merging' \in 0..commits'
  BY <1>1, <1>2, GitSyncAssumption DEF NoHash, TypeOK, CommitIds, Extends
<1>4. RefsOK'
  BY <1>1, <1>2, <1>3 DEF RefsOK
<1>5. /\ hist'[remote] = hist[remote]
      /\ remote' \in hist'[remote']
      /\ hist'[remote] \subseteq hist'[remote']
  BY <1>1, <1>2 DEF Extends, GraphOK
<1>6. IsAncestor(tracking, remote)'
  BY <1>5 DEF IsAncestor, HistoryInv
<1> QED
  BY <1>4, <1>6 DEF HistoryInv

(* One step of the system, as history sees it.                             *)
LEMMA HistoryNext ==
  ASSUME TypeOK, TypeOK', HistoryInv, [Next]_vars
  PROVE  /\ HistoryInv' /\ Extends
         /\ remote \in hist'[remote']
<1> USE DEF repoVars, cloneVars
<1>a. /\ GraphOK /\ RefsOK
      /\ remote \in hist[remote] /\ commits \in Nat
  <2>1. /\ GraphOK /\ RefsOK /\ commits \in 1..MaxCommits
    BY DEF HistoryInv, TypeOK, CommitIds
  <2>2. commits \in Nat
    BY <2>1, GitSyncAssumption
  <2>3. remote \in hist[remote]
    BY <2>1 DEF GraphOK, RefsOK
  <2> QED
    BY <2>1, <2>2, <2>3
<1> DEFINE Goal == HistoryInv' /\ Extends /\ remote \in hist'[remote']
<1>b. ASSUME UNCHANGED <<hist, tree, commits, remote>>,
             head' \in 1..commits, tracking' \in {tracking, remote},
             merging' \in {merging, remote, NoHash},
             branches' \subseteq branches \cup {head},
             \A w \in Workers : original'[w] \in {original[w], head'}
      PROVE  Goal
  BY <1>a, <1>b, SameGraph, HistoryStep DEF RefsOK
<1>r. /\ head \in 1..commits /\ remote \in 1..commits /\ tracking \in 1..commits
      /\ \A w \in Workers : original[w] \in 1..commits
  BY <1>a DEF RefsOK
<1> HIDE DEF Goal
<1>1. ASSUME NEW w \in Workers, Pull(w) \/ Push(w) \/ Acquire(w)
                                \/ CopyFromDataToGit(w)
                                \/ CopyFromGitToData(w) \/ Record(w)
      PROVE  Goal
  BY <1>1, <1>b, <1>r DEF Pull, Push, Acquire, CopyFromDataToGit,
     CopyFromGitToData, Record
<1>2. ASSUME NEW w \in Workers, Sync(w) PROVE Goal
  BY <1>2, <1>b, <1>r DEF Sync
<1>3. ASSUME NEW w \in Workers, EnsureWorkingDirectory(w) PROVE Goal
  BY <1>3, <1>b, <1>r DEF EnsureWorkingDirectory
<1>4. ASSUME NEW w \in Workers,
             PullFetch(w) \/ PullFetchAgain(w) \/ PushFetch(w)
      PROVE  Goal
  <2>1. /\ UNCHANGED <<remote, cloned, branches>>
        /\ \A v \in Workers : original'[v] \in {original[v], head'}
    BY <1>4 DEF PullFetch, PullFetchAgain, PushFetch, TypeOK
  <2>2. CASE PullSucceeds
    <3>1. /\ GraphOK' /\ Extends
          /\ head' \in 1..commits' /\ tracking' = remote /\ merging' = merging
      BY <2>2, PullSucceedsGraph
    <3>2. remote' \in 1..commits' /\ remote \in hist'[remote']
      BY <1>a, <2>1, <3>1 DEF RefsOK, Extends
    <3> QED
      BY <2>1, <3>1, <3>2, HistoryStep DEF Goal
  <2>3. CASE FetchFails /\ UNCHANGED <<hist, tree, commits, head>>
    <3>1. tracking' \in {tracking, remote} /\ merging' \in {merging, remote}
      BY <2>3 DEF FetchFails, PullFails, PullConflicts, PullSaysDiverged,
         PullRefused
    <3> QED
      BY <1>b, <1>r, <2>1, <2>3, <3>1
  <2> QED
    BY <1>4, <2>2, <2>3 DEF PullFetch, PullFetchAgain, PushFetch, FetchFails
<1>5. ASSUME NEW w \in Workers, PushBackup(w) \/ PushClear(w) \/ PushRefetch(w)
      PROVE  Goal
  BY <1>5, <1>b, <1>r DEF PushBackup, PushClear, PushRefetch
<1>5a. ASSUME NEW w \in Workers, Move(w) PROVE Goal
  BY <1>5a, <1>b, <1>r DEF Move
<1>6. ASSUME NEW w \in Workers, PullCommit(w) \/ PushCommit(w)
      PROVE  Goal
  <2>1. UNCHANGED <<remote, cloned, tracking, branches, original>>
    BY <1>6 DEF PullCommit, PushCommit
  <2>2. CASE Commit
    <3>1. (IF merging = NoHash THEN head ELSE merging) \in 1..commits
      BY <1>a, GitSyncAssumption DEF RefsOK, NoHash
    <3>2. GraphOK' /\ Extends /\ head' \in 1..commits' /\ merging' = NoHash
      BY <1>r, <2>2, <3>1, NewCommitGraph, HistoryInv DEF Commit, HistoryInv
    <3>3. remote' \in 1..commits' /\ remote \in hist'[remote']
      BY <1>a, <2>1, <3>2 DEF RefsOK, Extends
    <3> QED
      BY <2>1, <3>2, <3>3, HistoryStep DEF Goal
  <2>3. CASE UNCHANGED <<hist, tree, commits, head, merging>>
    BY <1>b, <1>r, <2>1, <2>3
  <2> QED
    BY <1>6, <2>2, <2>3 DEF PullCommit, PushCommit
<1>7. ASSUME NEW w \in Workers, PullPush(w) \/ PushPush(w)
      PROVE  Goal
  <2>1. /\ UNCHANGED <<hist, tree, commits, cloned, head, branches, merging,
                      original>>
        /\ \/ UNCHANGED <<remote, tracking>>
           \/ IsAncestor(remote, head) /\ remote' = head
              /\ tracking' \in {tracking, head}
    BY <1>7 DEF PullPush, PushPush, GitPushAccepted, GitPushFails
  <2>2. remote \in hist'[remote'] /\ remote' \in 1..commits'
    BY <1>a, <2>1 DEF RefsOK, IsAncestor
  <2> QED
    BY <1>a, <1>r, <2>1, <2>2, SameGraph, HistoryStep DEF Goal
<1>8. ASSUME NEW w \in Workers, PullReset(w) PROVE Goal
  BY <1>8, <1>b, <1>r DEF PullReset
<1>9. ASSUME NEW d \in Dirs, UserEdit(d) PROVE Goal
  BY <1>9, <1>b, <1>r DEF UserEdit
<1>10. ASSUME NEW d \in Dirs, RemoteCommit(d) PROVE Goal
  <2>1. /\ NewCommit(remote, remote, [tree[remote] EXCEPT ![d] = fresh])
        /\ remote' = commits'
        /\ UNCHANGED <<cloned, head, tracking, branches, merging, original>>
    BY <1>10 DEF RemoteCommit
  <2>2. /\ GraphOK' /\ Extends /\ commits' \in 1..commits'
        /\ commits' = commits + 1
        /\ hist'[commits'] = hist[remote] \cup hist[remote] \cup {commits'}
    BY <1>a, <2>1, NewCommitGraph DEF RefsOK
  <2>3. remote \in hist'[remote'] /\ head' \in 1..commits'
    BY <1>a, <2>1, <2>2 DEF RefsOK, TypeOK, CommitIds
  <2> QED
    BY <1>a, <2>1, <2>2, <2>3, HistoryStep DEF Goal
<1>11. CASE Restart
  <2>1. /\ UNCHANGED <<hist, tree, commits, remote>>
        /\ UNCHANGED <<head, tracking, branches, merging, original>>
    BY <1>11 DEF Restart
  <2> QED
    BY <2>1, <1>b, <1>r DEF Goal
<1>12. CASE UNCHANGED vars
  <2>1. /\ UNCHANGED <<hist, tree, commits, remote>>
        /\ UNCHANGED <<head, tracking, branches, merging, original>>
    BY <1>12 DEF vars
  <2> QED
    BY <2>1, <1>b, <1>r DEF Goal
<1> QED
  BY <1>1, <1>2, <1>3, <1>4, <1>5, <1>5a, <1>6, <1>7, <1>8, <1>9, <1>10,
     <1>11, <1>12
  DEF Next, Call, Step, Goal

(* The commit graph and the three branches stay as git promises.           *)
THEOREM HistoryKept == Spec => []HistoryInv
<1>1. Init => HistoryInv
  BY GitSyncAssumption
  DEF Init, HistoryInv, GraphOK, RefsOK, IsAncestor, CommitIds, NoHash
<1> QED
  BY <1>1, HistoryNext, TypeCorrect, PTL DEF Spec

(* origin/<branch> never runs ahead of the remote.                         *)
THEOREM TrackingKept == Spec => []TrackingBehindRemote
<1>1. HistoryInv => TrackingBehindRemote
  BY DEF HistoryInv, TrackingBehindRemote
<1> QED
  BY <1>1, HistoryKept, PTL

-----------------------------------------------------------------------------
(* What the remote and a branch h that stays where it is once held, they   *)
(* keep.                                                                   *)
LEMMA HistoryKeeps ==
  ASSUME TypeOK, HistoryInv, HistoryInv', Extends, remote \in hist'[remote'],
         NEW h \in 1..commits, NEW d, NEW v,
         \E c \in hist[h] \cup hist[remote] : tree[c][d] = v
  PROVE  \E c \in hist'[h] \cup hist'[remote'] : tree'[c][d] = v
<1>1. PICK c \in hist[h] \cup hist[remote] : tree[c][d] = v
  OBVIOUS
<1>2. /\ remote \in 1..commits
      /\ hist[remote] \subseteq 1..commits /\ hist[h] \subseteq 1..commits
  BY DEF HistoryInv, GraphOK, RefsOK
<1>3. tree'[c][d] = v /\ hist'[h] = hist[h] /\ hist'[remote] = hist[remote]
  BY <1>1, <1>2 DEF Extends
<1>4. hist'[remote] \subseteq hist'[remote']
  BY DEF HistoryInv, GraphOK, RefsOK
<1> QED
  BY <1>1, <1>3, <1>4

(* What a step of the system leaves of one caller's pull when it is not a  *)
(* step of that pull: edits only ever put directories into edited.         *)
LEMMA PhaseUndisturbed ==
  ASSUME TypeOK, HistoryInv, HistoryInv', Extends, remote \in hist'[remote'],
         NEW w \in Workers, PullPhase(w),
         pc'[w] = pc[w], dir'[w] = dir[w], original'[w] = original[w],
         head' = head, work' = work, edited \subseteq edited',
         unsaved' = unsaved, unreset' = unreset,
         \A d \in Dirs : data'[d] = data[d] \/ d \in edited'
  PROVE  PullPhase(w)'
<1>1. \A d \in Dirs : Captured(d) => Captured(d)'
  BY DEF Captured
<1>2. /\ original[w] \in 1..commits /\ head \in 1..commits
      /\ tree'[head'] = tree[head] /\ hist'[head'] = hist[head]
  BY DEF HistoryInv, RefsOK, Extends
<1>3. ASSUME NEW h \in 1..commits, NEW d \in Dirs, Kept(h, d)
      PROVE  \/ d \in edited' \/ d \in unsaved'
             \/ \E c \in hist'[h] \cup hist'[remote'] : tree'[c][d] = data'[d]
  BY <1>3, HistoryKeeps DEF Kept
<1>4. ASSUME NEW d \in Dirs, Kept(head, d) PROVE Kept(head, d)'
  BY <1>2, <1>3, <1>4 DEF Kept
<1>5. ASSUME NEW d \in Dirs, Kept(original[w], d) PROVE Kept(original[w], d)'
  BY <1>2, <1>3, <1>5 DEF Kept
<1> QED
  BY <1>1, <1>2, <1>4, <1>5 DEF PullPhase

(* A caller outside g.mu has one step, to take it, and not while another   *)
(* is inside.                                                              *)
LEMMA OneInside ==
  ASSUME TypeOK, LockDiscipline, NEW w \in Workers, NEW u \in Workers,
         Inside(w), Step(u)
  PROVE  u = w
<1>1. CASE Acquire(u)
  BY <1>1, GitSyncAssumption DEF Acquire, LockDiscipline
<1>2. CASE ~Acquire(u)
  <2>1. pc[u] \notin {"idle", "waiting"}
    BY <1>2 DEF Step, EnsureWorkingDirectory, PullFetch, PullFetchAgain,
        PushFetch, PushBackup, PushClear, PushRefetch, Move, CopyFromDataToGit,
        PullCommit, PushCommit, PullPush, PushPush, PullReset,
        CopyFromGitToData, Record
  <2> QED
    BY <2>1 DEF LockDiscipline, Inside
<1> QED
  BY <1>1, <1>2

(* Only its own steps, calls and a restart change where a caller is.       *)
LEMMA OthersStay ==
  ASSUME TypeOK, NEW w \in Workers, NEW u \in Workers, Step(u), u # w
  PROVE  pc'[w] = pc[w]
BY DEF TypeOK, Step, Acquire, EnsureWorkingDirectory, PullFetch, PullFetchAgain,
   PushFetch, PushBackup, PushClear, PushRefetch, Move, CopyFromDataToGit,
   PullCommit, PushCommit, PullPush, PushPush, PullReset, CopyFromGitToData,
   Record, ToCapture, CopyNext, Continue, Return, Goto

(* A step keeps PreservationInv, also one that fails.                      *)
LEMMA PreservationNext ==
  ASSUME TypeOK, TypeOK', LockDiscipline, HistoryInv, PreservationInv,
         [Next]_vars
  PROVE  PreservationInv'
<1>a. HistoryInv' /\ Extends /\ remote \in hist'[remote']
  BY HistoryNext
<1>b. SUFFICES ASSUME NEW w \in Workers,
                      pc'[w] \in {"capture", "commit", "push", "reset", "apply"}
               PROVE  /\ pc'[w] \in {"reset", "apply"} => op'[w] = "pull"
                      /\ op'[w] = "pull" => PullPhase(w)'
  BY DEF PreservationInv, PullPhase
<1> DEFINE Goal == /\ pc'[w] \in {"reset", "apply"} => op'[w] = "pull"
                   /\ op'[w] = "pull" => PullPhase(w)'
<1>c. /\ pc[w] \in {"reset", "apply"} => op[w] = "pull"
      /\ op[w] = "pull" => PullPhase(w)
  BY DEF PreservationInv
<1>d. ASSUME pc'[w] = pc[w], dir'[w] = dir[w], original'[w] = original[w],
             op'[w] = op[w], head' = head, work' = work,
             edited \subseteq edited', unsaved' = unsaved, unreset' = unreset,
             \A d \in Dirs : data'[d] = data[d] \/ d \in edited'
      PROVE  Goal
  BY <1>a, <1>c, <1>d, PhaseUndisturbed
<1>e. /\ head \in 1..commits /\ head \in hist[head]
      /\ original[w] \in 1..commits /\ original[w] \in hist[original[w]]
  BY DEF HistoryInv, RefsOK, GraphOK
<1> HIDE DEF Goal
<1>1. ASSUME NEW u \in Workers, Call(u) PROVE Goal
  <2>1. pc[u] = "idle" /\ pc'[u] \in {"idle", "waiting"}
    BY <1>1 DEF Call, Pull, Push, Sync, MayCall, Goto, TypeOK
  <2>2. u # w
    BY <1>b, <2>1
  <2>3. /\ pc'[w] = pc[w] /\ op'[w] = op[w]
        /\ UNCHANGED <<dir, original, head, work, data, edited, unsaved, unreset>>
    BY <1>1, <2>2 DEF Call, Pull, Push, Sync, Goto, TypeOK, cloneVars, markVars
  <2> QED
    BY <1>d, <2>3
<1>2. ASSUME NEW u \in Workers, Step(u), u # w PROVE Goal
  <2>1. pc'[w] = pc[w]
    BY <1>2, OthersStay
  <2>2. Inside(w)
    BY <1>b, <2>1 DEF Inside
  <2> QED
    BY <1>2, <2>2, OneInside
<1>3. CASE \/ Acquire(w) \/ EnsureWorkingDirectory(w) \/ Record(w)
           \/ PushBackup(w) \/ PushClear(w) \/ PushRefetch(w)
  BY <1>b, <1>3 DEF Acquire, EnsureWorkingDirectory, Record, PushBackup,
     PushClear, PushRefetch, Continue, Return, Goto, TypeOK
<1>4. CASE PullFetch(w) \/ PullFetchAgain(w)
  <2>1. /\ pc'[w] = "capture" /\ dir'[w] = FirstDir /\ original'[w] = head'
    BY <1>b, <1>4 DEF PullFetch, PullFetchAgain, ToCapture, Continue, Return,
       Goto, TypeOK
  <2>2. \A d \in Dirs : ~(d < FirstDir)
    BY DEF Dirs, FirstDir
  <2> QED
    BY <2>1, <2>2 DEF Goal, PullPhase
<1>5. CASE PushFetch(w) \/ PushCommit(w) \/ PushPush(w)
  <2>1. /\ op'[w] = "push" /\ pc'[w] \notin {"reset", "apply"}
    BY <1>5 DEF PushFetch, PushCommit, PushPush, ToCapture, Continue, Return,
        Goto, TypeOK
  <2> QED
    BY <2>1 DEF Goal
<1>5a. CASE Move(w)
  <2>1. op'[w] = "push" /\ pc'[w] \notin {"reset", "apply"}
    BY <1>b, <1>5a DEF Move, ToCapture, Continue, Goto, TypeOK
  <2> QED
    BY <2>1 DEF Goal
<1>6. CASE CopyFromDataToGit(w)
  <2>1. /\ pc[w] = "capture" /\ op' = op /\ UNCHANGED <<head, original, data>>
    BY <1>6 DEF CopyFromDataToGit, cloneVars
  <2>2. SUFFICES ASSUME op[w] = "pull" PROVE PullPhase(w)'
    BY <1>6, <2>1 DEF Goal, CopyFromDataToGit, CopyNext, Continue, Return,
       Goto, TypeOK
  <2>3. head = original[w] /\ \A d \in Dirs : d < dir[w] => Captured(d)
    BY <1>c, <2>1, <2>2 DEF PullPhase
  <2>4. CASE /\ work' = [work EXCEPT ![dir[w]] = data[dir[w]]]
             /\ edited' = edited \ {dir[w]}
             /\ CopyNext(w, "commit") /\ unsaved' = unsaved
    <3>1. IF dir[w] = LastDir THEN pc'[w] = "commit"
          ELSE pc'[w] = "capture" /\ dir'[w] = dir[w] + 1
      BY <2>1, <2>4 DEF CopyNext, Continue, Goto, TypeOK
    <3>2. \A d \in Dirs : d < dir[w] \/ d = dir[w] => Captured(d)'
      BY <2>1, <2>3, <2>4 DEF Captured, TypeOK, Trees
    <3>3. CASE dir[w] = LastDir
      <4>1. \A d \in Dirs : Captured(d)'
        BY <3>2, <3>3 DEF Dirs, LastDir
      <4> QED
        BY <2>1, <2>3, <3>1, <3>3, <4>1 DEF PullPhase
    <3>4. CASE dir[w] # LastDir
      <4>1. \A d \in Dirs : d < dir'[w] => Captured(d)'
        BY <3>1, <3>2, <3>4 DEF Dirs, TypeOK
      <4> QED
        BY <2>1, <2>3, <3>1, <3>4, <4>1 DEF PullPhase
    <3> QED
      BY <3>3, <3>4
  <2>5. CASE /\ \E v \in Versions : work' = [work EXCEPT ![dir[w]] = v]
             /\ pc'[w] = "commit" /\ edited' = edited
             /\ unsaved' = {d \in Dirs : d >= dir[w]}
    <3>1. ASSUME NEW d \in Dirs PROVE Captured(d)' \/ d \in unsaved'
      <4>1. CASE d < dir[w]
        <5>1. work'[d] = work[d]
          BY <2>5, <4>1 DEF TypeOK, Trees, Dirs
        <5> QED
          BY <2>1, <2>3, <2>5, <4>1, <5>1 DEF Captured
      <4>2. CASE ~(d < dir[w])
        BY <2>5, <4>2 DEF TypeOK, Dirs
      <4> QED
        BY <4>1, <4>2
    <3> QED
      BY <2>1, <2>3, <2>5, <3>1 DEF PullPhase
  <2> QED
    BY <1>6, <2>2, <2>4, <2>5 DEF CopyFromDataToGit, Continue, Goto, TypeOK
<1>7. CASE PullCommit(w)
  <2>1. /\ op[w] = "pull" /\ op' = op /\ pc[w] = "commit"
        /\ UNCHANGED <<work, data, edited, original, remote>>
    BY <1>7 DEF PullCommit
  <2>2. /\ head = original[w]
        /\ \A d \in Dirs : Captured(d) \/ d \in unsaved
    BY <1>c, <2>1 DEF PullPhase
  <2>3. CASE Nothing /\ UNCHANGED <<hist, tree, head, unsaved>> /\ pc'[w] = "reset"
    <3>1. work = tree[head]
      BY <1>e, <2>3 DEF Nothing, Dirty, TypeOK, Trees, HistoryInv, RefsOK
    <3>2. \A d \in Dirs : Kept(original[w], d)'
      BY <1>e, <2>1, <2>2, <2>3, <3>1 DEF Kept, Captured
    <3> QED
      BY <1>e, <2>1, <2>2, <2>3, <3>1, <3>2 DEF Goal, PullPhase
  <2>4. CASE Commit /\ unsaved' = unsaved /\ pc'[w] = "push"
    <3>1. (IF merging = NoHash THEN head ELSE merging) \in 1..commits
      BY <1>e, GitSyncAssumption DEF HistoryInv, RefsOK, NoHash
    <3>2. tree'[head'] = work' /\ hist[head] \subseteq hist'[head']
      BY <1>e, <2>1, <2>4, <3>1, NewCommitGraph DEF Commit, HistoryInv
    <3>3. \A d \in Dirs : Captured(d)' \/ d \in unsaved'
      BY <2>1, <2>2, <2>4 DEF Captured
    <3> QED
      BY <1>e, <2>1, <2>2, <2>4, <3>2, <3>3 DEF Goal, PullPhase
  <2>5. CASE /\ unsaved' = Dirs /\ pc'[w] = "reset"
             /\ UNCHANGED <<hist, tree, commits, head>>
    BY <1>e, <2>1, <2>2, <2>5 DEF Goal, PullPhase, Kept
  <2> QED
    BY <1>7, <2>3, <2>4, <2>5 DEF PullCommit, Continue, Goto, TypeOK
<1>8. CASE PullPush(w)
  <2>1. /\ op[w] = "pull" /\ op' = op /\ pc[w] = "push" /\ pc'[w] = "reset"
        /\ UNCHANGED <<work, data, edited, unsaved, original, tree, hist, head>>
        /\ remote' = head
    BY <1>b, <1>8 DEF PullPush, GitPushAccepted, Return, Continue, Goto, TypeOK,
       markVars
  <2>2. /\ tree[head] = work /\ original[w] \in hist[head]
        /\ \A d \in Dirs : Captured(d) \/ d \in unsaved
    BY <1>c, <2>1 DEF PullPhase
  <2>3. \A d \in Dirs : Kept(original[w], d)'
    BY <1>e, <2>1, <2>2 DEF Kept, Captured
  <2> QED
    BY <2>1, <2>2, <2>3 DEF Goal, PullPhase
<1>9. CASE PullReset(w)
  <2>1. /\ op' = op /\ pc[w] = "reset" /\ pc'[w] = "apply"
        /\ UNCHANGED <<data, edited, unsaved, original, tree, hist, remote>>
    BY <1>9 DEF PullReset, Continue, Goto, TypeOK, repoVars
  <2>2. /\ op[w] = "pull" /\ original[w] \in hist[head]
        /\ \A d \in Dirs : Kept(original[w], d)
        /\ work = tree[head] \/ unsaved = Dirs
    BY <1>c, <2>1 DEF PullPhase
  <2>3. \/ head' = original[w] /\ work' = tree[original[w]]
        \/ UNCHANGED <<head, work>> /\ unreset' = TRUE
    BY <1>9 DEF PullReset
  <2>4. original[w] \in hist'[head'] /\ hist[original[w]] \subseteq hist[head']
    BY <1>e, <2>1, <2>2, <2>3 DEF HistoryInv, GraphOK
  <2>5. \A d \in Dirs : Kept(head, d)'
    BY <2>1, <2>2, <2>4 DEF Kept
  <2>6. work' = tree'[head'] \/ (unreset' /\ unsaved' = Dirs)
    BY <2>1, <2>2, <2>3
  <2> QED
    BY <2>1, <2>2, <2>4, <2>5, <2>6 DEF Goal, PullPhase
<1>10. CASE CopyFromGitToData(w)
  <2>1. /\ op' = op /\ pc[w] = "apply" /\ pc'[w] = "apply"
        /\ UNCHANGED <<work, edited, unsaved, unreset, original, tree, hist,
                      remote, head>>
        /\ data' = [data EXCEPT ![dir[w]] = work[dir[w]]]
    BY <1>b, <1>10 DEF CopyFromGitToData, CopyNext, Continue, Return, Goto,
       TypeOK, repoVars, cloneVars, markVars
  <2>2. /\ op[w] = "pull"
        /\ work = tree[head] \/ (unreset /\ unsaved = Dirs)
        /\ original[w] \in hist[head]
        /\ \A d \in Dirs : Kept(head, d)
    BY <1>c, <2>1 DEF PullPhase
  <2>3. ASSUME NEW d \in Dirs PROVE Kept(head, d)'
    <3>1. data'[d] \in {data[d], work[d]}
      BY <2>1 DEF TypeOK, Trees
    <3> QED
      BY <1>e, <2>1, <2>2, <3>1 DEF Kept
  <2> QED
    BY <2>1, <2>2, <2>3 DEF Goal, PullPhase
<1>11. ASSUME NEW d \in Dirs, UserEdit(d) PROVE Goal
  BY <1>11, <1>d DEF UserEdit, TypeOK, Trees, cloneVars, spoiltVars
<1>12. ASSUME NEW d \in Dirs, RemoteCommit(d) PROVE Goal
  BY <1>12, <1>d DEF RemoteCommit, cloneVars, spoiltVars
<1>13. CASE Restart
  BY <1>b, <1>13 DEF Restart
<1>14. CASE UNCHANGED vars
  <2>1. UNCHANGED <<pc, dir, original, op, head, work, edited, unsaved, unreset,
                    data>>
    BY <1>14 DEF vars, cloneVars, spoiltVars
  <2> QED
    BY <2>1, <1>d DEF Goal
<1> QED
  BY <1>1, <1>2, <1>3, <1>4, <1>5, <1>5a, <1>6, <1>7, <1>8, <1>9, <1>10,
     <1>11, <1>12, <1>13, <1>14
  DEF Next, Step, Goal

LEMMA PreservationInvariant == Spec => []PreservationInv
<1>1. Init => PreservationInv
  BY DEF Init, PreservationInv, PullPhase
<1> QED
  BY <1>1, PreservationNext, TypeCorrect, LockHeld, HistoryKept, PTL DEF Spec

(* A pull overwrites or tears a directory only while a commit of the       *)
(* remote or of the checkout holds it, unless someone edited it or the     *)
(* pull went on after it failed to put it aside: for any number of callers, *)
(* edits, clients, failures and crashes.                                   *)
THEOREM PullPreserves == Spec => OverwrittenIsPreserved
<1>1. TypeOK /\ PreservationInv /\ [Next]_vars =>
        [\A d \in Dirs : data'[d] # data[d] =>
            \/ UserEdit(d)
            \/ d \in edited
            \/ d \in unsaved
            \/ \E c \in hist[remote] \cup hist[head] : tree[c][d] = data[d]]_vars
  <2> SUFFICES ASSUME TypeOK, PreservationInv, Next,
                      NEW d \in Dirs, data'[d] # data[d]
               PROVE  UserEdit(d) \/ Kept(head, d)
    BY DEF Kept
  <2>1. \/ \E w \in Workers : CopyFromGitToData(w)
        \/ \E e \in Dirs : UserEdit(e)
        \/ Restart
    <3>1. ASSUME NEW w \in Workers,
                 \/ Call(w) \/ Acquire(w) \/ EnsureWorkingDirectory(w)
                 \/ CopyFromDataToGit(w) \/ PullReset(w) \/ Record(w)
          PROVE  FALSE
      BY <3>1 DEF Call, Pull, Push, Sync, Acquire, EnsureWorkingDirectory,
         CopyFromDataToGit, PullReset, Record
    <3>2. ASSUME NEW w \in Workers,
                 \/ PullFetch(w) \/ PullFetchAgain(w) \/ PushFetch(w)
                 \/ PushBackup(w) \/ PushClear(w) \/ PushRefetch(w) \/ Move(w)
          PROVE  FALSE
      BY <3>2 DEF PullFetch, PullFetchAgain, PushFetch, PushBackup, PushClear,
         PushRefetch, Move
    <3>3. ASSUME NEW w \in Workers,
                 PullCommit(w) \/ PushCommit(w) \/ PullPush(w) \/ PushPush(w)
          PROVE  FALSE
      BY <3>3 DEF PullCommit, PushCommit, PullPush, PushPush
    <3>4. ASSUME NEW e \in Dirs, RemoteCommit(e) PROVE FALSE
      BY <3>4 DEF RemoteCommit
    <3> QED
      BY <3>1, <3>2, <3>3, <3>4 DEF Next, Step
  <2>2. ASSUME NEW w \in Workers, pc[w] = "apply" PROVE Kept(head, d)
    BY <2>2 DEF PreservationInv, PullPhase
  <2>3. ASSUME NEW e \in Dirs, UserEdit(e) PROVE UserEdit(d)
    BY <2>3 DEF UserEdit, TypeOK, Trees
  <2>4. ASSUME NEW w \in Workers, CopyFromGitToData(w) PROVE pc[w] = "apply"
    BY <2>4 DEF CopyFromGitToData
  <2>5. CASE Restart
    BY <2>2, <2>5 DEF Restart
  <2> QED
    BY <2>1, <2>2, <2>3, <2>4, <2>5
<1> QED
  BY <1>1, TypeCorrect, PreservationInvariant, PTL
  DEF Spec, OverwrittenIsPreserved

-----------------------------------------------------------------------------
(* What an operation has carried over so far: a push from /data into the   *)
(* checkout and then into its commit, a pull from the checkout into /data. *)
Carried(w) ==
    /\ pc[w] = "capture" /\ op[w] = "push" =>
          \A d \in Dirs : d < dir[w] => Captured(d)
    /\ pc[w] = "commit" /\ op[w] = "push" => \A d \in Dirs : Captured(d)
    /\ pc[w] = "push" /\ op[w] = "push" =>
          work = tree[head] /\ \A d \in Dirs : Captured(d)
    /\ pc[w] = "apply" => \A d \in Dirs : d < dir[w] => Captured(d)
    /\ pc[w] = "record" /\ op[w] = "pull" =>
          /\ work = tree[head] \/ (unreset /\ unsaved = Dirs)
          /\ \A d \in Dirs : Captured(d)
CarriedInv == \A w \in Workers : Carried(w)

(* A step that leaves an operation where it is: users only put directories *)
(* into edited, other clients only add commits.                            *)
LEMMA CarriedUndisturbed ==
  ASSUME TypeOK, HistoryInv, Extends, NEW w \in Workers, Carried(w),
         pc'[w] = pc[w], dir'[w] = dir[w], op'[w] = op[w],
         head' = head, work' = work, edited \subseteq edited',
         unsaved' = unsaved, unreset' = unreset,
         \A d \in Dirs : data'[d] = data[d] \/ d \in edited'
  PROVE  Carried(w)'
<1>1. \A d \in Dirs : Captured(d) => Captured(d)'
  BY DEF Captured
<1>2. tree'[head'] = tree[head]
  BY DEF HistoryInv, RefsOK, Extends
<1> QED
  BY <1>1, <1>2 DEF Carried

LEMMA CarriedNext ==
  ASSUME TypeOK, TypeOK', LockDiscipline, HistoryInv, PreservationInv,
         CarriedInv, [Next]_vars
  PROVE  CarriedInv'
<1>a. Extends
  BY HistoryNext
<1> SUFFICES ASSUME NEW w \in Workers PROVE Carried(w)'
  BY DEF CarriedInv
<1>b. Carried(w)
  BY DEF CarriedInv
<1>c. ASSUME pc'[w] \notin {"capture", "commit", "push", "apply", "record"}
      PROVE  Carried(w)'
  BY <1>c DEF Carried
<1>d. ASSUME pc'[w] = pc[w], dir'[w] = dir[w], op'[w] = op[w], head' = head, work' = work,
             edited \subseteq edited', unsaved' = unsaved, unreset' = unreset,
             \A d \in Dirs : data'[d] = data[d] \/ d \in edited'
      PROVE  Carried(w)'
  BY <1>a, <1>b, <1>d, CarriedUndisturbed
<1>1. ASSUME NEW u \in Workers, Call(u) PROVE Carried(w)'
  <2>1. pc[u] = "idle" /\ pc'[u] \in {"idle", "waiting"}
    BY <1>1 DEF Call, Pull, Push, Sync, MayCall, Goto, TypeOK
  <2>2. CASE u # w
    <3>1. /\ pc'[w] = pc[w] /\ op'[w] = op[w]
          /\ UNCHANGED <<dir, head, work, data, edited, unsaved, unreset>>
      BY <1>1, <2>2 DEF Call, Pull, Push, Sync, Goto, TypeOK, cloneVars, markVars
    <3> QED
      BY <1>d, <3>1
  <2> QED
    BY <1>c, <2>1, <2>2
<1>2. ASSUME NEW u \in Workers, Step(u), u # w PROVE Carried(w)'
  <2>1. pc'[w] = pc[w]
    BY <1>2, OthersStay
  <2>2. pc[w] \in {"idle", "waiting"}
    BY <1>2, OneInside DEF Inside
  <2> QED
    BY <1>c, <2>1, <2>2
<1>3. CASE \/ Acquire(w) \/ EnsureWorkingDirectory(w) \/ Record(w)
           \/ PushBackup(w) \/ PushClear(w) \/ PushRefetch(w)
  BY <1>c, <1>3 DEF Acquire, EnsureWorkingDirectory, Record, PushBackup,
     PushClear, PushRefetch, Continue, Return, Goto, TypeOK
<1>4. CASE PullFetch(w) \/ PullFetchAgain(w) \/ PushFetch(w) \/ Move(w)
  <2>1. \/ pc'[w] \in {"idle", "move", "cherry", "fetchDiverged", "fetchAgain"}
        \/ pc'[w] = "capture" /\ dir'[w] = FirstDir
    BY <1>4 DEF PullFetch, PullFetchAgain, PushFetch, Move, ToCapture, Continue,
       Return, Goto, TypeOK
  <2>2. \A d \in Dirs : ~(d < FirstDir)
    BY DEF Dirs, FirstDir
  <2> QED
    BY <2>1, <2>2 DEF Carried
<1>5. CASE CopyFromDataToGit(w)
  <2>1. CASE op[w] = "pull" \/ pc'[w] = "idle"
    <3>1. pc'[w] \in {"idle", "capture", "commit"} /\ op' = op
      BY <1>5 DEF CopyFromDataToGit, CopyNext, Continue, Return, Goto, TypeOK
    <3> QED
      BY <2>1, <3>1 DEF Carried
  <2>2. CASE op[w] # "pull" /\ pc'[w] # "idle"
    <3>1. /\ pc[w] = "capture" /\ op' = op /\ data' = data
          /\ work' = [work EXCEPT ![dir[w]] = data[dir[w]]]
          /\ edited' = edited \ {dir[w]}
          /\ IF dir[w] = LastDir THEN pc'[w] = "commit"
             ELSE pc'[w] = "capture" /\ dir'[w] = dir[w] + 1
      BY <1>5, <2>2 DEF CopyFromDataToGit, CopyNext, Continue, Return, Goto, TypeOK
    <3>2. op[w] = "push" /\ \A d \in Dirs : d < dir[w] => Captured(d)
      BY <1>b, <2>2, <3>1 DEF Carried, TypeOK
    <3>3. \A d \in Dirs : d < dir[w] \/ d = dir[w] => Captured(d)'
      BY <3>1, <3>2 DEF Captured, TypeOK, Trees
    <3>4. CASE dir[w] = LastDir
      <4>1. \A d \in Dirs : Captured(d)'
        BY <3>3, <3>4 DEF Dirs, LastDir
      <4> QED
        BY <3>1, <3>2, <3>4, <4>1 DEF Carried
    <3>5. CASE dir[w] # LastDir
      <4>1. \A d \in Dirs : d < dir'[w] => Captured(d)'
        BY <3>1, <3>3, <3>5 DEF Dirs, TypeOK
      <4> QED
        BY <3>1, <3>2, <3>5, <4>1 DEF Carried
    <3> QED
      BY <3>4, <3>5
  <2> QED
    BY <2>1, <2>2
<1>6. CASE PullCommit(w)
  BY <1>6 DEF PullCommit, Continue, Goto, TypeOK, Carried
<1>7. CASE PushCommit(w)
  <2>1. CASE pc'[w] = "idle"
    BY <1>c, <2>1
  <2>2. CASE pc'[w] # "idle"
    <3>1. /\ pc[w] = "commit" /\ op[w] = "push" /\ op' = op /\ pc'[w] = "push"
          /\ UNCHANGED <<work, data, edited>>
          /\ Commit
      BY <1>7, <2>2 DEF PushCommit, Continue, Return, Goto, TypeOK, markVars
    <3>2. tree'[head'] = work'
      <4>1. /\ (IF merging = NoHash THEN head ELSE merging) \in 1..commits
            /\ head \in 1..commits
        BY GitSyncAssumption DEF HistoryInv, RefsOK, NoHash
      <4> QED
        BY <3>1, <4>1, NewCommitGraph DEF Commit, HistoryInv
    <3>3. \A d \in Dirs : Captured(d)'
      BY <1>b, <3>1 DEF Carried, Captured
    <3> QED
      BY <3>1, <3>2, <3>3 DEF Carried
  <2> QED
    BY <2>1, <2>2
<1>8. CASE PullPush(w)
  BY <1>8 DEF PullPush, Continue, Return, Goto, TypeOK, Carried
<1>9. CASE PushPush(w)
  BY <1>9 DEF PushPush, Continue, Return, Goto, TypeOK, Carried
<1>10. CASE PullReset(w)
  <2>1. pc'[w] = "apply" /\ dir'[w] = FirstDir
    BY <1>10 DEF PullReset, Continue, Goto, TypeOK
  <2>2. \A d \in Dirs : ~(d < FirstDir)
    BY DEF Dirs, FirstDir
  <2> QED
    BY <2>1, <2>2 DEF Carried
<1>11. CASE CopyFromGitToData(w)
  <2>1. CASE pc'[w] = "idle"
    BY <1>c, <2>1
  <2>2. CASE pc'[w] # "idle"
    <3>1. /\ op' = op /\ pc[w] = "apply"
          /\ UNCHANGED <<work, edited, unsaved, unreset, tree, head>>
          /\ data' = [data EXCEPT ![dir[w]] = work[dir[w]]]
          /\ IF dir[w] = LastDir THEN pc'[w] = "record"
             ELSE pc'[w] = "apply" /\ dir'[w] = dir[w] + 1
      BY <1>11, <2>2 DEF CopyFromGitToData, CopyNext, Continue, Return, Goto,
         TypeOK, repoVars, cloneVars, markVars
    <3>2. /\ work = tree[head] \/ (unreset /\ unsaved = Dirs)
          /\ \A d \in Dirs : d < dir[w] => Captured(d)
      BY <1>b, <3>1 DEF Carried, PreservationInv, PullPhase
    <3>3. \A d \in Dirs : d < dir[w] \/ d = dir[w] => Captured(d)'
      BY <3>1, <3>2 DEF Captured, TypeOK, Trees
    <3>4. CASE dir[w] = LastDir
      <4>1. \A d \in Dirs : Captured(d)'
        BY <3>3, <3>4 DEF Dirs, LastDir
      <4> QED
        BY <3>1, <3>2, <3>4, <4>1 DEF Carried
    <3>5. CASE dir[w] # LastDir
      <4>1. \A d \in Dirs : d < dir'[w] => Captured(d)'
        BY <3>1, <3>3, <3>5 DEF Dirs, TypeOK
      <4> QED
        BY <3>1, <3>2, <3>5, <4>1 DEF Carried
    <3> QED
      BY <3>4, <3>5
  <2> QED
    BY <2>1, <2>2
<1>12. ASSUME NEW d \in Dirs, UserEdit(d) PROVE Carried(w)'
  BY <1>12, <1>d DEF UserEdit, TypeOK, Trees, cloneVars, spoiltVars
<1>13. ASSUME NEW d \in Dirs, RemoteCommit(d) PROVE Carried(w)'
  BY <1>13, <1>d DEF RemoteCommit, cloneVars, spoiltVars
<1>14. CASE Restart
  BY <1>c, <1>14 DEF Restart
<1>15. CASE UNCHANGED vars
  <2>1. UNCHANGED <<pc, dir, op, head, work, edited, unsaved, unreset, data>>
    BY <1>15 DEF vars, cloneVars, spoiltVars
  <2> QED
    BY <1>d, <2>1
<1> QED
  BY <1>1, <1>2, <1>3, <1>4, <1>5, <1>6, <1>7, <1>8, <1>9, <1>10, <1>11,
     <1>12, <1>13, <1>14, <1>15
  DEF Next, Step

LEMMA CarriedInvariant == Spec => []CarriedInv
<1>1. Init => CarriedInv
  BY DEF Init, CarriedInv, Carried
<1> QED
  BY <1>1, CarriedNext, TypeCorrect, LockHeld, HistoryKept,
     PreservationInvariant, PTL DEF Spec

(* A pull that succeeds leaves one commit in /data but for what users      *)
(* edited meanwhile, whatever its copies and its commit met on the way,    *)
(* unless both its commit and its reset failed.                            *)
THEOREM PullsAreWhole == Spec => []PullInstallsOneCommit
<1>1. CarriedInv /\ HistoryInv => PullInstallsOneCommit
  <2> SUFFICES ASSUME CarriedInv, HistoryInv, NEW w \in Workers,
                      pc[w] = "record", op[w] = "pull",
                      ~(unreset /\ unsaved = Dirs)
               PROVE  \E c \in hist[head] : \A d \in Dirs \ edited : data[d] = tree[c][d]
    BY DEF PullInstallsOneCommit
  <2>1. work = tree[head] /\ \A d \in Dirs : Captured(d)
    BY DEF CarriedInv, Carried
  <2>2. head \in hist[head]
    BY DEF HistoryInv, GraphOK, RefsOK
  <2> QED
    BY <2>1, <2>2 DEF Captured
<1> QED
  BY <1>1, CarriedInvariant, HistoryKept, PTL

(* A push that moves the remote publishes /data, but for what users edited *)
(* since it was captured.                                                  *)
THEOREM PushesPublishData == Spec => PushPublishesData
<1>1. CarriedInv /\ [Next]_vars =>
        [\A w \in Workers : (PushPush(w) /\ remote' # remote) =>
            \A d \in Dirs \ edited : tree[remote'][d] = data[d]]_vars
  <2> SUFFICES ASSUME CarriedInv, NEW w \in Workers, PushPush(w), remote' # remote
               PROVE  \A d \in Dirs \ edited : tree[remote'][d] = data[d]
    OBVIOUS
  <2>1. pc[w] = "push" /\ op[w] = "push" /\ remote' = head
    BY DEF PushPush, GitPushAccepted, GitPushFails
  <2> QED
    BY <2>1 DEF CarriedInv, Carried, Captured
<1> QED
  BY <1>1, CarriedInvariant, PTL DEF Spec, PushPublishesData

-----------------------------------------------------------------------------
(* Old commits keep their ancestors, so a merge stays one.                 *)
LEMMA SameMerges ==
  ASSUME TypeOK, GraphOK, Extends, NEW c \in 1..commits
  PROVE  IsMerge(c)' <=> IsMerge(c)
<1>1. hist[c] \subseteq 1..commits
  BY DEF GraphOK
<1>2. hist'[c] = hist[c] /\ \A p \in hist[c] : hist'[p] = hist[p]
  BY <1>1 DEF Extends
<1> QED
  BY <1>2 DEF IsMerge

(* Between the look at its own commits and the reset, nothing but the      *)
(* push itself moves its branch, and origin/<branch> only forward.         *)
LEMMA BackedNext ==
  ASSUME TypeOK, TypeOK', LockDiscipline, HistoryInv, BackedInv, [Next]_vars
  PROVE  BackedInv'
<1>a. HistoryInv' /\ Extends
  BY HistoryNext
<1> DEFINE Backed(w) ==
      (op[w] = "push" /\ unsaved = {} /\ pc[w] \in {"clear", "refetch", "move"}) =>
          \A c \in hist[head] : \/ c \in hist[tracking] \/ IsMerge(c)
                                \/ \E b \in branches : c \in hist[b]
<1> SUFFICES ASSUME NEW w \in Workers PROVE Backed(w)'
  BY DEF BackedInv
<1>b. Backed(w)
  BY DEF BackedInv
<1>c. ASSUME \/ pc'[w] \notin {"clear", "refetch", "move"} \/ op'[w] = "pull"
             \/ unsaved' # {}
      PROVE  Backed(w)'
  BY <1>c
<1>d. ASSUME pc[w] \in {"clear", "refetch", "move"}, op'[w] = op[w],
             unsaved' = unsaved, head' = head,
             tracking' \in {tracking, remote}, branches' = branches
      PROVE  Backed(w)'
  <2>1. /\ head \in 1..commits /\ tracking \in 1..commits /\ remote \in 1..commits
        /\ hist[head] \subseteq 1..commits /\ branches \subseteq 1..commits
    BY DEF HistoryInv, RefsOK, GraphOK
  <2>2. hist[tracking] \subseteq hist[tracking'] /\ tracking' \in 1..commits
    BY <1>d, <2>1 DEF HistoryInv, GraphOK, IsAncestor
  <2>3. /\ hist'[head'] = hist[head] /\ hist'[tracking'] = hist[tracking']
        /\ \A b \in branches : hist'[b] = hist[b]
    BY <1>a, <1>d, <2>1, <2>2 DEF Extends
  <2>4. \A c \in hist[head] : IsMerge(c)' <=> IsMerge(c)
    BY <1>a, <2>1, SameMerges DEF HistoryInv
  <2> SUFFICES ASSUME op[w] = "push", unsaved = {}, NEW c \in hist[head]
               PROVE  \/ c \in hist[tracking'] \/ IsMerge(c)
                      \/ \E b \in branches : c \in hist[b]
    BY <1>d, <2>3, <2>4
  <2> QED
    BY <1>b, <1>d, <2>2
<1> HIDE DEF Backed
<1>1. ASSUME NEW u \in Workers, Call(u) PROVE Backed(w)'
  <2>1. pc[u] = "idle" /\ pc'[u] \in {"idle", "waiting"}
    BY <1>1 DEF Call, Pull, Push, Sync, MayCall, Goto, TypeOK
  <2>2. CASE u # w
    <3>1. /\ pc'[w] = pc[w] /\ op'[w] = op[w]
          /\ UNCHANGED <<head, branches, unsaved>>
          /\ tracking' \in {tracking, remote}
      BY <1>1, <2>2 DEF Call, Pull, Push, Sync, Goto, TypeOK, cloneVars, markVars
    <3> QED
      BY <1>c, <1>d, <3>1
  <2> QED
    BY <1>c, <2>1, <2>2
<1>2. ASSUME NEW u \in Workers, Step(u), u # w PROVE Backed(w)'
  <2>1. pc'[w] = pc[w] /\ ~Inside(w)
    BY <1>2, OthersStay, OneInside
  <2> QED
    BY <1>c, <2>1 DEF Inside
<1>3. CASE \/ Acquire(w) \/ EnsureWorkingDirectory(w) \/ PullFetchAgain(w)
           \/ PushFetch(w) \/ Move(w) \/ CopyFromDataToGit(w) \/ PullCommit(w)
           \/ PushCommit(w) \/ PullPush(w) \/ PushPush(w) \/ PullReset(w)
           \/ CopyFromGitToData(w) \/ Record(w)
  BY <1>c, <1>3 DEF Acquire, EnsureWorkingDirectory, PullFetchAgain, PushFetch,
     Move, CopyFromDataToGit, PullCommit, PushCommit, PullPush, PushPush,
     PullReset, CopyFromGitToData, Record, ToCapture, CopyNext, Continue,
     Return, Goto, TypeOK
<1>4. CASE PullFetch(w)
  BY <1>c, <1>4 DEF PullFetch
<1>5. CASE PushBackup(w)
  <2>1. CASE unsaved' = Dirs
    BY <1>c, <2>1 DEF Dirs
  <2>2. CASE /\ branches' = IF Listed = {} THEN branches ELSE branches \cup {head}
             /\ UNCHANGED unsaved
    <3>1. UNCHANGED <<hist, head, tracking>>
      BY <1>5 DEF PushBackup, repoVars
    <3>2. \A c \in hist[head] : \/ c \in hist[tracking] \/ IsMerge(c)
                                \/ \E b \in branches' : c \in hist[b]
      BY <2>2 DEF Listed
    <3>3. \A c : IsMerge(c)' <=> IsMerge(c)
      BY <3>1 DEF IsMerge
    <3> QED
      BY <3>1, <3>2, <3>3 DEF Backed
  <2> QED
    BY <1>5, <2>1, <2>2 DEF PushBackup
<1>6. CASE PushClear(w) \/ PushRefetch(w)
  <2>1. CASE pc[w] \in {"clear", "refetch"}
    <3>1. /\ op' = op /\ UNCHANGED <<head, branches, unsaved>>
          /\ tracking' \in {tracking, remote}
      BY <1>6 DEF PushClear, PushRefetch, markVars
    <3> QED
      BY <1>d, <2>1, <3>1
  <2>2. CASE pc[w] = "fetchDiverged"
    BY <1>c, <1>6, <2>2 DEF PushClear, PushRefetch, Continue, Goto, TypeOK
  <2> QED
    BY <1>6, <2>1, <2>2 DEF PushClear, PushRefetch
<1>7. ASSUME UNCHANGED <<pc, op, unsaved, head, tracking, branches>>
      PROVE  Backed(w)'
  BY <1>c, <1>d, <1>7
<1>8. ASSUME NEW d \in Dirs, UserEdit(d) \/ RemoteCommit(d) PROVE Backed(w)'
  BY <1>7, <1>8 DEF UserEdit, RemoteCommit, cloneVars, spoiltVars
<1>9. CASE Restart
  BY <1>c, <1>9 DEF Restart
<1>10. CASE UNCHANGED vars
  BY <1>7, <1>10 DEF vars, cloneVars, spoiltVars
<1> QED
  BY <1>1, <1>2, <1>3, <1>4, <1>5, <1>6, <1>8, <1>9, <1>10 DEF Next, Step

(* A push that resets its branch has every commit of its own but merges in *)
(* origin/<branch> or in a backup branch, if the backup did not fail: also *)
(* when Sync moves origin/<branch> between the look and the reset.         *)
THEOREM PushesKeepCommits == Spec => PushKeepsCommits
<1>1. Init => BackedInv
  BY DEF Init, BackedInv
<1>2. BackedInv /\ [Next]_vars =>
        [\A w \in Workers : (Move(w) /\ op[w] = "push" /\ unsaved = {}) =>
            \A c \in hist[head] \ hist[head'] :
                IsMerge(c) \/ \E b \in branches : c \in hist[b]]_vars
  BY DEF Move, BackedInv
<1> QED
  BY <1>1, <1>2, BackedNext, TypeCorrect, LockHeld, HistoryKept, PTL
  DEF Spec, PushKeepsCommits

-----------------------------------------------------------------------------
(* Each step of a call is one of sixteen at most, whatever runs beside it:  *)
(* what is left of CallsReturn without fairness.                           *)
THEOREM CallsAdvance == Spec => CallsOnlyAdvance
<1>1. TypeOK /\ TypeOK' /\ [Next]_vars =>
        [\A w \in Workers :
            /\ Step(w) => StepsLeft(w)' < StepsLeft(w)
            /\ StepsLeft(w)' > StepsLeft(w) => Call(w)]_vars
  <2> SUFFICES ASSUME TypeOK, TypeOK', Next, NEW w \in Workers
               PROVE  /\ Step(w) => StepsLeft(w)' < StepsLeft(w)
                      /\ StepsLeft(w)' > StepsLeft(w) => Call(w)
    OBVIOUS
  <2>a. dir[w] \in {1, 2} /\ pc \in [Workers -> Places] /\ dir \in [Workers -> Dirs]
    BY DEF TypeOK, Dirs
  <2>b. StepsLeft(w) \in 0..16
    BY <2>a DEF Places, StepsLeft
  <2>1. ASSUME Step(w) PROVE StepsLeft(w)' < StepsLeft(w)
    <3> USE <2>a DEF StepsLeft, Continue, Return, Goto
    <3>1. CASE Acquire(w) \/ EnsureWorkingDirectory(w)
      BY <3>1 DEF Acquire, EnsureWorkingDirectory
    <3>2. CASE PullFetch(w) \/ PullFetchAgain(w) \/ PushFetch(w)
      BY <3>2 DEF PullFetch, PullFetchAgain, PushFetch, ToCapture, FirstDir
    <3>2a. CASE PushBackup(w) \/ PushClear(w) \/ PushRefetch(w) \/ Move(w)
      BY <3>2a DEF PushBackup, PushClear, PushRefetch, Move, ToCapture, FirstDir
    <3>3. CASE CopyFromDataToGit(w)
      BY <3>3 DEF CopyFromDataToGit, CopyNext, LastDir
    <3>4. CASE PullCommit(w) \/ PushCommit(w)
      BY <3>4 DEF PullCommit, PushCommit
    <3>5. CASE PullPush(w) \/ PushPush(w)
      BY <3>5 DEF PullPush, PushPush
    <3>6. CASE PullReset(w)
      BY <3>6 DEF PullReset, FirstDir
    <3>7. CASE CopyFromGitToData(w)
      BY <3>7 DEF CopyFromGitToData, CopyNext, LastDir
    <3>8. CASE Record(w)
      BY <3>8 DEF Record
    <3> QED
      BY <2>1, <3>1, <3>2, <3>2a, <3>3, <3>4, <3>5, <3>6, <3>7, <3>8 DEF Step
  <2>2. ASSUME pc'[w] = pc[w], dir'[w] = dir[w]
        PROVE  StepsLeft(w)' = StepsLeft(w)
    BY <2>2 DEF StepsLeft
  <2>3. ASSUME NEW u \in Workers, Call(u) \/ Step(u), u # w
        PROVE  StepsLeft(w)' = StepsLeft(w)
    <3>1. pc'[w] = pc[w] /\ dir'[w] = dir[w]
      BY <2>3, <2>a DEF Call, Pull, Push, Sync, Step, Acquire,
          EnsureWorkingDirectory, PullFetch, PullFetchAgain, PushFetch,
          PushBackup, PushClear, PushRefetch, Move, CopyFromDataToGit,
          PullCommit, PushCommit, PullPush, PushPush, PullReset,
          CopyFromGitToData, Record, ToCapture, CopyNext, Continue, Return, Goto
    <3> QED
      BY <2>2, <3>1
  <2>4. ASSUME NEW d \in Dirs, UserEdit(d) \/ RemoteCommit(d)
        PROVE  StepsLeft(w)' = StepsLeft(w)
    BY <2>2, <2>4 DEF UserEdit, RemoteCommit
  <2>5. CASE Restart
    <3>1. StepsLeft(w)' = 0
      BY <2>5 DEF Restart, StepsLeft
    <3>2. ~(StepsLeft(w)' > StepsLeft(w))
      BY <2>b, <3>1
    <3> QED
      BY <2>1, <3>2
  <2>6. StepsLeft(w)' = StepsLeft(w) => ~(StepsLeft(w)' > StepsLeft(w))
    BY <2>b
  <2>7. ASSUME NEW u \in Workers, Call(u) \/ Step(u)
        PROVE  StepsLeft(w)' > StepsLeft(w) => Call(w)
    <3>1. CASE u # w
      BY <2>3, <2>6, <2>7, <3>1
    <3>2. CASE Step(w)
      <4>1. StepsLeft(w)' \in 0..16
        BY DEF TypeOK, Dirs, Places, StepsLeft
      <4> QED
        BY <2>1, <2>b, <3>2, <4>1
    <3> QED
      BY <2>7, <3>1, <3>2
  <2> QED
    BY <2>1, <2>4, <2>5, <2>6, <2>7 DEF Next
<1> QED
  BY <1>1, TypeCorrect, PTL DEF Spec, CallsOnlyAdvance

-----------------------------------------------------------------------------
(* Between its fetch and its reset a pull moves head once, by one commit of *)
(* other files, and nobody else moves it.                                  *)
LEMMA BehindNext ==
  ASSUME TypeOK, TypeOK', LockDiscipline, HistoryInv, BehindInv, [Next]_vars
  PROVE  BehindInv'
<1>a. HistoryInv' /\ Extends
  BY HistoryNext
<1> DEFINE Behind(w) ==
      op[w] = "pull" =>
        /\ pc[w] \in {"capture", "commit"} =>
              head = original[w] /\ merging = NoHash
        /\ pc[w] = "push" => /\ original[w] \in hist[head]
                             /\ head \notin hist[original[w]]
                             /\ tree[head] # tree[original[w]]
<1> SUFFICES ASSUME NEW w \in Workers PROVE Behind(w)'
  BY DEF BehindInv
<1>b. Behind(w)
  BY DEF BehindInv
<1>c. ASSUME pc'[w] \notin {"capture", "commit", "push"} PROVE Behind(w)'
  BY <1>c
<1>d. ASSUME pc'[w] = pc[w], op'[w] = op[w], head' = head,
             original'[w] = original[w], merging' = merging
      PROVE  Behind(w)'
  <2>1. /\ hist'[head'] = hist[head] /\ tree'[head'] = tree[head]
        /\ hist'[original'[w]] = hist[original[w]]
        /\ tree'[original'[w]] = tree[original[w]]
    BY <1>a, <1>d DEF HistoryInv, RefsOK, Extends
  <2> QED
    BY <1>b, <1>d, <2>1
<1> HIDE DEF Behind
<1>1. ASSUME NEW u \in Workers, Call(u) PROVE Behind(w)'
  <2>1. pc[u] = "idle" /\ pc'[u] \in {"idle", "waiting"}
    BY <1>1 DEF Call, Pull, Push, Sync, MayCall, Goto, TypeOK
  <2>2. CASE u # w
    <3>1. /\ pc'[w] = pc[w] /\ op'[w] = op[w]
          /\ UNCHANGED <<original, head, merging>>
      BY <1>1, <2>2 DEF Call, Pull, Push, Sync, Goto, TypeOK, cloneVars
    <3> QED
      BY <1>d, <3>1
  <2> QED
    BY <1>c, <2>1, <2>2
<1>2. ASSUME NEW u \in Workers, Step(u), u # w PROVE Behind(w)'
  <2>1. pc'[w] = pc[w]
    BY <1>2, OthersStay
  <2>2. pc[w] \in {"idle", "waiting"}
    BY <1>2, OneInside DEF Inside
  <2> QED
    BY <1>c, <2>1, <2>2
<1>3. CASE \/ Acquire(w) \/ EnsureWorkingDirectory(w) \/ PullPush(w)
           \/ PullReset(w) \/ CopyFromGitToData(w) \/ Record(w)
           \/ PushBackup(w) \/ PushClear(w) \/ PushRefetch(w)
  BY <1>c, <1>3 DEF Acquire, EnsureWorkingDirectory, PullPush, PullReset,
     CopyFromGitToData, Record, PushBackup, PushClear, PushRefetch, CopyNext,
     Continue, Return, Goto, TypeOK
<1>4. CASE PullFetch(w) \/ PullFetchAgain(w)
  <2>1. CASE PullSucceeds /\ original'[w] = head' /\ pc'[w] = "capture"
    <3>1. merging' = NoHash
      BY <2>1 DEF PullSucceeds
    <3> QED
      BY <2>1, <3>1 DEF Behind
  <2>2. CASE pc'[w] \in {"idle", "move"}
    BY <1>c, <2>2
  <2> QED
    BY <1>4, <2>1, <2>2 DEF PullFetch, PullFetchAgain, ToCapture, Continue,
       Return, Goto, TypeOK
<1>4a. CASE Move(w)
  <2>1. pc'[w] = "fetchAgain" \/ op'[w] = "push"
    BY <1>4a DEF Move, Continue, Goto, TypeOK
  <2> QED
    BY <1>c, <2>1 DEF Behind
<1>5. CASE PushFetch(w) \/ PushCommit(w) \/ PushPush(w)
  BY <1>5 DEF PushFetch, PushCommit, PushPush, Behind
<1>6. CASE CopyFromDataToGit(w)
  <2>1. /\ op' = op /\ head' = head /\ original' = original
        /\ merging' = merging
        /\ pc[w] = "capture" /\ pc'[w] \in {"idle", "capture", "commit"}
    BY <1>6 DEF CopyFromDataToGit, CopyNext, Continue, Return, Goto, TypeOK,
       cloneVars
  <2> QED
    BY <1>b, <2>1 DEF Behind
<1>7. CASE PullCommit(w)
  <2>1. CASE pc'[w] = "reset"
    BY <1>c, <2>1
  <2>2. CASE pc'[w] # "reset"
    <3>1. /\ pc[w] = "commit" /\ op[w] = "pull" /\ op' = op /\ original' = original
          /\ pc'[w] = "push" /\ head' = commits'
          /\ ~Nothing /\ Commit
      BY <1>7, <2>2 DEF PullCommit, Commit, Continue, Goto, TypeOK
    <3>2. head = original[w] /\ head \in 1..commits /\ merging = NoHash
      BY <1>b, <3>1 DEF Behind, HistoryInv, RefsOK
    <3>3. /\ head' = commits + 1 /\ hist'[head'] = hist[head] \cup {head'}
          /\ tree'[head'] = work
      BY <3>1, <3>2 DEF Commit, NewCommit, TypeOK
    <3>4. hist'[head] = hist[head] /\ tree'[head] = tree[head]
      BY <1>a, <3>2 DEF Extends
    <3>5. head \in hist[head] /\ head' \notin hist[head]
      <4>1. head \in hist[head] /\ hist[head] \subseteq 1..commits
        BY <3>2 DEF HistoryInv, GraphOK
      <4>2. commits + 1 \notin 1..commits
        BY GitSyncAssumption DEF TypeOK, CommitIds
      <4> QED
        BY <3>3, <4>1, <4>2
    <3>6. work # tree[head]
      BY <3>1, <3>2 DEF Nothing, Dirty
    <3> QED
      BY <3>1, <3>2, <3>3, <3>4, <3>5, <3>6 DEF Behind
  <2> QED
    BY <2>1, <2>2
<1>8. ASSUME NEW d \in Dirs, UserEdit(d) \/ RemoteCommit(d) PROVE Behind(w)'
  BY <1>8, <1>d DEF UserEdit, RemoteCommit, cloneVars
<1>9. CASE Restart
  BY <1>c, <1>9 DEF Restart
<1>10. CASE UNCHANGED vars
  <2>1. UNCHANGED <<pc, original, op, head, merging>>
    BY <1>10 DEF vars, cloneVars
  <2> QED
    BY <1>d, <2>1
<1> QED
  BY <1>1, <1>2, <1>3, <1>4, <1>4a, <1>5, <1>6, <1>7, <1>8, <1>9, <1>10
  DEF Next, Step

(* A pull that has to preserve local changes never ends level with the     *)
(* remote: it publishes a commit of other files than the one it installs,  *)
(* for any number of callers, clients and failures.                        *)
THEOREM PreservingPullFallsBehind == Spec => PreservingFallsBehind
<1>1. Init => BehindInv
  BY DEF Init, BehindInv
<1>2. TypeOK /\ TypeOK' /\ HistoryInv /\ BehindInv /\ [Next]_vars =>
        [\A w \in Workers : (PullPush(w) /\ pc'[w] = "reset") =>
            /\ original[w] \in hist'[remote']
            /\ remote' \notin hist'[original[w]]
            /\ tree'[remote'] # tree'[original[w]]]_vars
  <2> SUFFICES ASSUME TypeOK, BehindInv, NEW w \in Workers, PullPush(w),
                      pc'[w] = "reset"
               PROVE  /\ original[w] \in hist'[remote']
                      /\ remote' \notin hist'[original[w]]
                      /\ tree'[remote'] # tree'[original[w]]
    OBVIOUS
  <2>1. /\ pc[w] = "push" /\ op[w] = "pull" /\ UNCHANGED <<hist, tree>>
        /\ remote' = head
    BY DEF PullPush, GitPushAccepted, Return, Continue, Goto, TypeOK
  <2> QED
    BY <2>1 DEF BehindInv
<1> QED
  BY <1>1, <1>2, BehindNext, TypeCorrect, LockHeld, HistoryKept, PTL
  DEF Spec, PreservingFallsBehind
=============================================================================
