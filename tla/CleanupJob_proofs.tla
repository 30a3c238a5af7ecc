------------------------- MODULE CleanupJob_proofs -------------------------
(***************************************************************************)
(* Proofs about CleanupJob, for any number of jobs, hosts and streams, and *)
(* any number of lost statements and crashes: types, that "completed" and  *)
(* the count of hosts are true, that status and count only go forward, and *)
(* that a function that returns leaves a final and whole row.              *)
(***************************************************************************)
EXTENDS CleanupJob, FiniteSetTheorems, TLAPS

-----------------------------------------------------------------------------
(* Counting hosts.                                                         *)

LEMMA HostCount == Cardinality(Hosts) \in Nat
    BY CleanupJobAssumption, FS_CardinalityType

LEMMA DoneCount ==
    ASSUME TypeOK, NEW j \in Jobs
    PROVE  /\ IsFiniteSet(Done(j))
           /\ Cardinality(Done(j)) \in Nat
           /\ Cardinality(Done(j)) <= Cardinality(Hosts)
<1>1. Done(j) \in SUBSET Hosts
    BY DEF Done, TypeOK
<1> QED
    BY <1>1, CleanupJobAssumption, FS_Subset, FS_CardinalityType

(* A host that reports is one more than those done.                        *)
LEMMA OneMore ==
    ASSUME TypeOK, NEW j \in Jobs, NEW h \in Hosts, host[j][h] = "report"
    PROVE  /\ Cardinality(Done(j) \cup {h}) = Cardinality(Done(j)) + 1
           /\ Cardinality(Done(j)) + 1 \in 1..Cardinality(Hosts)
<1>1. h \notin Done(j)
    BY DEF Done
<1>2. IsFiniteSet(Done(j))
    BY DoneCount
<1>3. Cardinality(Done(j) \cup {h}) = Cardinality(Done(j)) + 1
    BY <1>1, <1>2, FS_AddElement
<1>4. Done(j) \cup {h} \in SUBSET Hosts
    BY DEF Done, TypeOK
<1>5. Cardinality(Done(j) \cup {h}) <= Cardinality(Hosts)
    BY <1>4, CleanupJobAssumption, FS_Subset
<1>6. \A d, n \in Nat : d + 1 <= n => d + 1 \in 1..n
    OBVIOUS
<1> QED
    BY <1>3, <1>5, <1>6, DoneCount, HostCount

-----------------------------------------------------------------------------
(* Typing.                                                                 *)

LEMMA TypeInit == Init => TypeOK
    BY HostCount, CleanupJobAssumption
    DEF Init, TypeOK, Statuses, Final, Places, HostPlaces, Outcomes, Row

LEMMA FaultType == ASSUME TypeOK, Fault PROVE faults' \in 0..MaxFaults
    BY CleanupJobAssumption DEF TypeOK, Fault

(* The three UPDATEs, whether they succeed or not.                         *)
LEMMA StatusType ==
    ASSUME TypeOK, NEW j \in Jobs, NEW s \in Statuses, UpdateJobStatus(j, s)
    PROVE  /\ status' \in [Jobs -> Statuses]
           /\ progress' = progress /\ saved' = saved /\ faults' \in 0..MaxFaults
<1>1. faults' \in 0..MaxFaults
    BY FaultType DEF UpdateJobStatus, TypeOK
<1>2. status \in [Jobs -> Statuses]
    BY DEF TypeOK
<1> QED
    BY <1>1, <1>2 DEF UpdateJobStatus

LEMMA ProgressType ==
    ASSUME TypeOK, NEW j \in Jobs, NEW n \in 0..Cardinality(Hosts),
           UpdateJobProgress(j, n)
    PROVE  /\ progress' \in [Jobs -> 0..Cardinality(Hosts)]
           /\ status' = status /\ saved' = saved /\ faults' \in 0..MaxFaults
<1>1. faults' \in 0..MaxFaults
    BY FaultType DEF UpdateJobProgress, TypeOK
<1>2. progress \in [Jobs -> 0..Cardinality(Hosts)]
    BY DEF TypeOK
<1> QED
    BY <1>1, <1>2 DEF UpdateJobProgress

LEMMA ResultsType ==
    ASSUME TypeOK, NEW j \in Jobs, NEW H \in SUBSET Hosts, UpdateJobResults(j, H)
    PROVE  /\ saved' \in [Jobs -> SUBSET Hosts]
           /\ status' = status /\ progress' = progress /\ faults' \in 0..MaxFaults
<1>1. faults' \in 0..MaxFaults
    BY FaultType DEF UpdateJobResults, TypeOK
<1>2. saved \in [Jobs -> SUBSET Hosts]
    BY DEF TypeOK
<1> QED
    BY <1>1, <1>2 DEF UpdateJobResults

LEMMA PlaceType ==
    ASSUME TypeOK, NEW j \in Jobs, NEW h \in Hosts, NEW place \in HostPlaces,
           HostGoto(j, h, place)
    PROVE  host' \in [Jobs -> [Hosts -> HostPlaces]]
<1>1. host[j] \in [Hosts -> HostPlaces]
    BY DEF TypeOK
<1>2. [host[j] EXCEPT ![h] = place] \in [Hosts -> HostPlaces]
    BY <1>1
<1> QED
    BY <1>2 DEF TypeOK, HostGoto

LEMMA JobType ==
    ASSUME TypeOK, NEW j \in Jobs,
           CreateCleanupJob(j) \/ ExecuteCleanupJob(j)
    PROVE  TypeOK'
<1> USE DEF TypeOK, Goto, HostGoto, rows, parts, streams
<1>1. CASE CreateCleanupJob(j)
  <2>1. targets' \in [Jobs -> SUBSET Hosts]
    BY <1>1 DEF CreateCleanupJob
  <2>2. status' \in [Jobs -> Statuses] /\ at' \in [Jobs -> Places]
    BY <1>1 DEF CreateCleanupJob, Statuses, Places
  <2> QED
    BY <1>1, <2>1, <2>2 DEF CreateCleanupJob
<1>2. CASE SetRunning(j)
  <2>1. at' \in [Jobs -> Places]
    BY <1>2 DEF SetRunning, Places
  <2>2. UNCHANGED host \/ \E h \in Hosts : HostGoto(j, h, "prune")
    BY <1>2 DEF SetRunning
  <2>3. host' \in [Jobs -> [Hosts -> HostPlaces]]
    <3>1. "prune" \in HostPlaces
      BY DEF HostPlaces
    <3> QED
      BY <2>2, <3>1, PlaceType
  <2> QED
    BY <1>2, <2>1, <2>3, StatusType DEF SetRunning, Statuses
<1>3. CASE ListHosts(j)
  <2>1. at' \in [Jobs -> Places]
    BY <1>3 DEF ListHosts, Places
  <2>2. /\ targets' \in [Jobs -> SUBSET Hosts]
        /\ host' \in [Jobs -> [Hosts -> HostPlaces]]
    <3>1. CASE UNCHANGED <<targets, host>>
      BY <3>1
    <3>2. ASSUME NEW H \in SUBSET Hosts,
                 targets' = [targets EXCEPT ![j] = H],
                 host' = [host EXCEPT ![j] =
                     [h \in Hosts |-> IF h \in H THEN "announce" ELSE "none"]]
          PROVE  /\ targets' \in [Jobs -> SUBSET Hosts]
                 /\ host' \in [Jobs -> [Hosts -> HostPlaces]]
      <4>1. [h \in Hosts |-> IF h \in H THEN "announce" ELSE "none"]
              \in [Hosts -> HostPlaces]
        BY DEF HostPlaces
      <4> QED
        BY <3>2, <4>1
    <3> QED
      BY <1>3, <3>1, <3>2 DEF ListHosts
  <2>3. faults' \in 0..MaxFaults
    BY <1>3, FaultType DEF ListHosts
  <2> QED
    BY <1>3, <2>1, <2>2, <2>3 DEF ListHosts
<1>4. CASE WaitForHosts(j)
    BY <1>4 DEF WaitForHosts, Places
<1>5. CASE PruneReturns(j)
  <2>1. PICK h \in targets[j] :
             /\ host[j][h] = "report"
             /\ HostGoto(j, h, "done")
             /\ \/ Goto(j, "fail") /\ UNCHANGED <<rows, faults>>
                \/ Goto(j, "complete") /\ UpdateJobProgress(j, 1)
    BY <1>5 DEF PruneReturns
  <2>2. h \in Hosts
    BY DEF TypeOK
  <2>3. 1 \in 0..Cardinality(Hosts)
    <3> HIDE DEF TypeOK
    <3>1. Cardinality(Done(j)) + 1 \in 1..Cardinality(Hosts)
      BY <2>1, <2>2, OneMore
    <3> QED
      BY <3>1, DoneCount, HostCount
  <2>4. at' \in [Jobs -> Places] /\ host' \in [Jobs -> [Hosts -> HostPlaces]]
    <3>1. "done" \in HostPlaces
      BY DEF HostPlaces
    <3>2. host' \in [Jobs -> [Hosts -> HostPlaces]]
      BY <2>1, <2>2, <3>1, PlaceType
    <3>3. at' \in [Jobs -> Places]
      BY <2>1 DEF Places
    <3> QED
      BY <3>2, <3>3
  <2>5. /\ status' = status /\ saved' = saved
        /\ progress' \in [Jobs -> 0..Cardinality(Hosts)] /\ faults' \in 0..MaxFaults
    BY <2>1, <2>3, ProgressType
  <2> QED
    BY <1>5, <2>4, <2>5 DEF PruneReturns
<1>6. CASE Complete(j)
  <2>1. at' \in [Jobs -> Places]
    BY <1>6 DEF Complete, Places
  <2> QED
    BY <1>6, <2>1, StatusType DEF Complete, Statuses, Final
<1>7. CASE Fail(j)
  <2>1. at' \in [Jobs -> Places]
    BY <1>7 DEF Fail, Places
  <2> QED
    BY <1>7, <2>1, StatusType DEF Fail, Statuses, Final
<1>8. CASE SaveResults(j)
  <2>1. at' \in [Jobs -> Places] /\ Done(j) \in SUBSET Hosts
    BY <1>8 DEF SaveResults, Places, Done
  <2> QED
    BY <1>8, <2>1, ResultsType DEF SaveResults
<1> QED
    BY <1>1, <1>2, <1>3, <1>4, <1>5, <1>6, <1>7, <1>8 DEF ExecuteCleanupJob

LEMMA HostType ==
    ASSUME TypeOK, NEW j \in Jobs, NEW h \in Hosts, HostRoutine(j, h)
    PROVE  TypeOK'
<1>1. host' \in [Jobs -> [Hosts -> HostPlaces]]
  <2>1. \E place \in HostPlaces : HostGoto(j, h, place)
    BY DEF HostRoutine, Announce, Perform, Report, HostPlaces
  <2> QED
    BY <2>1, PlaceType
<1>2. CASE Announce(j, h)
  <2>1. Cardinality(Done(j)) \in 0..Cardinality(Hosts)
    BY DoneCount, HostCount
  <2> QED
    BY <1>1, <1>2, <2>1, ProgressType DEF Announce, TypeOK, streams
<1>3. CASE Perform(j, h)
    BY <1>1, <1>3 DEF Perform, TypeOK, rows, streams
<1>4. CASE Report(j, h)
  <2>1. Cardinality(Done(j)) + 1 \in 0..Cardinality(Hosts)
    <3>1. host[j][h] = "report"
      BY <1>4 DEF Report
    <3>2. Cardinality(Done(j)) + 1 \in 1..Cardinality(Hosts)
      BY <3>1, OneMore
    <3> QED
      BY <3>2, HostCount
  <2> QED
    BY <1>1, <1>4, <2>1, ProgressType DEF Report, TypeOK, streams
<1> QED
    BY <1>2, <1>3, <1>4 DEF HostRoutine

LEMMA TypeStep == TypeOK /\ [Next]_vars => TypeOK'
<1> SUFFICES ASSUME TypeOK, [Next]_vars PROVE TypeOK'
    OBVIOUS
<1> USE DEF TypeOK, rows, parts, streams
<1>1. ASSUME NEW s \in Streams, OpenStream(s) PROVE TypeOK'
    BY <1>1 DEF OpenStream, row, Row
<1>2. ASSUME NEW s \in Streams, TickStream(s) PROVE TypeOK'
    BY <1>2 DEF TickStream, row, Row
<1>3. ASSUME NEW s \in Streams, CloseStream(s) PROVE TypeOK'
    BY <1>3 DEF CloseStream
<1>4. CASE Crash
    BY <1>4, FaultType DEF Crash, Places
<1>5. CASE UNCHANGED vars
    BY <1>5 DEF vars
<1> QED
    BY <1>1, <1>2, <1>3, <1>4, <1>5, JobType, HostType DEF Next

(* Every variable keeps its type: in particular the row never counts more  *)
(* hosts than there are.                                                   *)
THEOREM TypeCorrect == Spec => []TypeOK
    BY TypeInit, TypeStep, PTL DEF Spec

-----------------------------------------------------------------------------
(* What is true of a job at each place its function can be.                *)

Listed(j) ==
    /\ at[j] \in {"none", "start", "list"} => \A h \in Hosts : host[j][h] = "none"
    /\ at[j] \in {"none", "list"} => targets[j] = {}
    /\ at[j] = "start" /\ scope[j] = "all" => targets[j] = {}
    /\ at[j] = "list" => scope[j] = "all"
    /\ scope[j] = "one" /\ at[j] # "none" => \E h \in Hosts : targets[j] = {h}
    /\ \A h \in Hosts : host[j][h] # "none" => h \in targets[j]

Ended(j) ==
    /\ at[j] \in {"complete", "fail", "results", "end"} => Done(j) = targets[j]
    /\ at[j] = "none" => status[j] = "none"
    /\ at[j] = "start" => status[j] = "queued"
    /\ at[j] \in {"list", "wait", "complete", "fail"} =>
          status[j] \in {"queued", "running"}
    /\ status[j] = "completed" => Done(j) = targets[j]

Honest(j) == progress[j] <= Cardinality(Done(j))

JobInv(j) == Listed(j) /\ Ended(j) /\ Honest(j)
IInv == TypeOK /\ \A j \in Jobs : JobInv(j)

(* A step that is not job j's leaves all of it as it was.                  *)
Keeps(j) ==
    /\ status'[j] = status[j] /\ progress'[j] = progress[j]
    /\ scope'[j] = scope[j] /\ targets'[j] = targets[j]
    /\ at'[j] = at[j] /\ host'[j] = host[j]

LEMMA KeepsInv ==
    ASSUME NEW j \in Jobs, JobInv(j), Keeps(j) PROVE JobInv(j)'
<1>1. Done(j)' = Done(j)
    BY DEF Keeps, Done
<1> QED
    BY <1>1 DEF JobInv, Keeps, Listed, Ended, Honest

LEMMA OthersKeep ==
    ASSUME TypeOK, NEW i \in Jobs, NEW j \in Jobs \ {i},
           \/ CreateCleanupJob(i) \/ ExecuteCleanupJob(i)
           \/ \E h \in Hosts : HostRoutine(i, h)
    PROVE  Keeps(j)
<1> USE DEF TypeOK, Keeps, Goto, HostGoto, rows, parts,
        UpdateJobStatus, UpdateJobProgress, UpdateJobResults
<1>1. CASE CreateCleanupJob(i)
    BY <1>1 DEF CreateCleanupJob
<1>2. CASE ExecuteCleanupJob(i)
    BY <1>2 DEF ExecuteCleanupJob, SetRunning, ListHosts, WaitForHosts,
       PruneReturns, Complete, Fail, SaveResults
<1>3. ASSUME NEW h \in Hosts, HostRoutine(i, h) PROVE Keeps(j)
    BY <1>3 DEF HostRoutine, Announce, Perform, Report
<1> QED
    BY <1>1, <1>2, <1>3

-----------------------------------------------------------------------------
(* The steps of a job keep its invariant.                                  *)

LEMMA CreateInv ==
    ASSUME TypeOK, NEW j \in Jobs, JobInv(j), CreateCleanupJob(j)
    PROVE  JobInv(j)'
<1> USE DEF TypeOK, JobInv
<1>1. /\ at[j] = "none" /\ at'[j] = "start" /\ status'[j] = "queued"
      /\ host' = host /\ progress' = progress /\ scope' = scope
      /\ \/ scope[j] = "all" /\ targets'[j] = targets[j]
         \/ scope[j] = "one" /\ \E h \in Hosts : targets'[j] = {h}
    BY DEF CreateCleanupJob, Goto, parts
<1>2. Done(j) = {} /\ Done(j)' = {}
    BY <1>1 DEF Done, Listed
<1>3. Listed(j)'
    BY <1>1 DEF Listed
<1>4. Ended(j)'
    BY <1>1 DEF Ended
<1>5. Honest(j)'
    BY <1>1, <1>2 DEF Honest
<1> QED
    BY <1>3, <1>4, <1>5

LEMMA SetRunningInv ==
    ASSUME TypeOK, NEW j \in Jobs, JobInv(j), SetRunning(j)
    PROVE  JobInv(j)'
<1> USE DEF TypeOK, JobInv
<1>1. /\ at[j] = "start" /\ status'[j] \in {status[j], "running"}
      /\ progress' = progress /\ scope' = scope /\ targets' = targets
      /\ \/ scope[j] = "all" /\ at'[j] = "list" /\ host' = host
         \/ /\ scope[j] = "one" /\ at'[j] = "wait"
            /\ \E h \in targets[j] : host' = [host EXCEPT ![j][h] = "prune"]
    BY DEF SetRunning, UpdateJobStatus, Goto, HostGoto
<1>2. Done(j)' = Done(j)
    BY <1>1 DEF Done, Listed
<1>3. Listed(j)'
    BY <1>1 DEF Listed
<1>4. Ended(j)'
    BY <1>1, <1>2 DEF Ended
<1>5. Honest(j)'
    BY <1>1, <1>2 DEF Honest
<1> QED
    BY <1>3, <1>4, <1>5

LEMMA ListHostsInv ==
    ASSUME TypeOK, NEW j \in Jobs, JobInv(j), ListHosts(j)
    PROVE  JobInv(j)'
<1> USE DEF TypeOK, JobInv
<1>1. /\ at[j] = "list" /\ scope[j] = "all" /\ targets[j] = {}
      /\ status' = status /\ progress' = progress /\ scope' = scope
    BY DEF ListHosts, rows, Listed
<1>2. CASE at'[j] = "fail" /\ UNCHANGED <<targets, host>>
  <2>1. Done(j)' = targets'[j] /\ Done(j)' = Done(j)
    BY <1>1, <1>2 DEF Done
  <2> QED
    BY <1>1, <1>2, <2>1 DEF Listed, Ended, Honest
<1>3. ASSUME NEW H \in SUBSET Hosts, targets'[j] = H,
             \A h \in Hosts : host'[j][h] = IF h \in H THEN "announce" ELSE "none",
             at'[j] = IF H = {} THEN "complete" ELSE "wait"
      PROVE  JobInv(j)'
  <2>1. Done(j)' = {} /\ Done(j) = {}
    BY <1>1, <1>3 DEF Done
  <2>2. Listed(j)'
    BY <1>1, <1>3 DEF Listed
  <2>3. Ended(j)'
    BY <1>1, <1>3, <2>1 DEF Ended
  <2> QED
    BY <1>1, <2>1, <2>2, <2>3 DEF Honest
<1> QED
    BY <1>2, <1>3 DEF ListHosts, Goto

LEMMA PruneReturnsInv ==
    ASSUME TypeOK, NEW j \in Jobs, JobInv(j), PruneReturns(j)
    PROVE  JobInv(j)'
<1> USE DEF TypeOK, JobInv
<1>1. PICK h \in targets[j] :
           /\ host' = [host EXCEPT ![j][h] = "done"]
           /\ \/ at'[j] = "fail" /\ progress' = progress
              \/ at'[j] = "complete" /\ progress'[j] \in {progress[j], 1}
    BY DEF PruneReturns, UpdateJobProgress, Goto, HostGoto, rows
<1>2. /\ at[j] = "wait" /\ scope[j] = "one" /\ targets[j] = {h} /\ h \in Hosts
      /\ status' = status /\ scope' = scope /\ targets' = targets
    BY <1>1 DEF PruneReturns, UpdateJobProgress, rows, Listed
<1>3. Done(j)' = {h} /\ Done(j) \subseteq {h}
    BY <1>1, <1>2 DEF Done
<1>4. Cardinality(Done(j)) <= 1 /\ Cardinality({h}) = 1
  <2>1. IsFiniteSet({h}) /\ Cardinality({h}) = 1
    BY FS_Singleton
  <2>2. Done(j) \in SUBSET {h}
    BY <1>3
  <2> QED
    BY <2>1, <2>2, FS_Subset
<1>5. Listed(j)'
    BY <1>1, <1>2 DEF Listed
<1>6. Ended(j)'
    BY <1>1, <1>2, <1>3 DEF Ended
<1>7. Honest(j)'
  <2>1. progress[j] \in Nat
    BY HostCount
  <2>2. Cardinality(Done(j)) \in Nat
    <3> HIDE DEF TypeOK
    <3> QED
      BY DoneCount
  <2>3. Cardinality(Done(j)') = 1
    BY <1>3, <1>4
  <2>4. progress'[j] \in {progress[j], 1}
    BY <1>1
  <2> QED
    BY <1>4, <2>1, <2>2, <2>3, <2>4 DEF Honest
<1> QED
    BY <1>5, <1>6, <1>7

(* The steps that touch neither the hosts nor the count.                   *)
LEMMA FinishInv ==
    ASSUME TypeOK, NEW j \in Jobs, JobInv(j),
           WaitForHosts(j) \/ Complete(j) \/ Fail(j) \/ SaveResults(j)
    PROVE  JobInv(j)'
<1> USE DEF TypeOK, JobInv
<1>1. /\ progress' = progress /\ scope' = scope /\ targets' = targets /\ host' = host
      /\ at[j] \notin {"none", "start", "list"}
      /\ at'[j] \in {"complete", "results", "end"}
    BY DEF WaitForHosts, Complete, Fail, SaveResults, UpdateJobStatus,
       UpdateJobResults, Goto, rows, parts
<1>2. Done(j)' = Done(j)
    BY <1>1 DEF Done
<1>3. Done(j) = targets[j]
    BY DEF WaitForHosts, Complete, Fail, SaveResults, Ended
<1>4. at'[j] = "complete" => at[j] = "wait" /\ status' = status
    BY DEF WaitForHosts, Complete, Fail, SaveResults, Goto, rows
<1>5. Listed(j)'
    BY <1>1 DEF Listed
<1>6. Ended(j)'
    BY <1>1, <1>2, <1>3, <1>4 DEF Ended
<1> QED
    BY <1>1, <1>2, <1>5, <1>6 DEF Honest

LEMMA HostInv ==
    ASSUME TypeOK, NEW j \in Jobs, JobInv(j), NEW h \in Hosts, HostRoutine(j, h)
    PROVE  JobInv(j)'
<1>1. PICK place \in {"prune", "report", "done"} : host' = [host EXCEPT ![j][h] = place]
    BY DEF HostRoutine, Announce, Perform, Report, HostGoto
<1>2. /\ at[j] = "wait" /\ at' = at /\ scope' = scope /\ targets' = targets
      /\ status' = status /\ host[j][h] \in {"announce", "prune", "report"}
    BY DEF HostRoutine, Announce, Perform, Report, UpdateJobProgress, rows
<1>3. h \in targets[j]
    BY <1>2 DEF JobInv, Listed
<1>4. Listed(j)'
    BY <1>1, <1>2, <1>3 DEF JobInv, Listed, TypeOK
<1>5. Ended(j)'
  <2>1. status[j] # "completed"
    BY <1>2 DEF JobInv, Ended
  <2> QED
    BY <1>2, <2>1 DEF JobInv, Ended
<1>6. Honest(j)'
  <2>1. /\ progress[j] \in Nat /\ Cardinality(Done(j)) \in Nat
        /\ progress[j] <= Cardinality(Done(j))
    BY DoneCount, HostCount DEF TypeOK, JobInv, Honest
  <2>2. CASE Announce(j, h) \/ Perform(j, h)
    <3>1. Done(j)' = Done(j)
      BY <2>2, <1>2 DEF Announce, Perform, HostGoto, Done, TypeOK
    <3>2. progress'[j] \in {progress[j], Cardinality(Done(j))}
      BY <2>2 DEF Announce, Perform, UpdateJobProgress, rows, TypeOK
    <3> QED
      BY <2>1, <3>1, <3>2 DEF Honest
  <2>3. CASE Report(j, h)
    <3>1. host[j][h] = "report"
      BY <2>3 DEF Report
    <3>2. Done(j)' = Done(j) \cup {h}
      BY <2>3, <1>2, <1>3 DEF Report, HostGoto, Done, TypeOK
    <3>3. Cardinality(Done(j) \cup {h}) = Cardinality(Done(j)) + 1
      BY <3>1, OneMore
    <3>4. progress'[j] \in {progress[j], Cardinality(Done(j)) + 1}
      BY <2>3 DEF Report, UpdateJobProgress, TypeOK
    <3> QED
      BY <2>1, <3>2, <3>3, <3>4 DEF Honest
  <2> QED
    BY <2>2, <2>3 DEF HostRoutine
<1> QED
    BY <1>4, <1>5, <1>6 DEF JobInv

LEMMA CrashInv == ASSUME NEW j \in Jobs, JobInv(j), Crash PROVE JobInv(j)'
<1>1. /\ at'[j] = IF at[j] = "none" THEN "none" ELSE "dead"
      /\ UNCHANGED <<rows, scope, targets, parts>>
    BY DEF Crash
<1>2. Done(j)' = Done(j)
    BY <1>1 DEF Done, parts
<1> QED
    BY <1>1, <1>2 DEF JobInv, Listed, Ended, Honest, rows, parts

-----------------------------------------------------------------------------
LEMMA InvInit == Init => IInv
<1> SUFFICES ASSUME Init PROVE IInv
    OBVIOUS
<1>1. ASSUME NEW j \in Jobs PROVE JobInv(j)
  <2>1. Done(j) = {}
    BY DEF Init, Done
  <2> QED
    BY <2>1, FS_EmptySet DEF Init, JobInv, Listed, Ended, Honest
<1> QED
    BY <1>1, TypeInit DEF IInv

LEMMA InvStep == IInv /\ [Next]_vars => IInv'
<1> SUFFICES ASSUME IInv, [Next]_vars, NEW j \in Jobs PROVE JobInv(j)'
    BY TypeStep DEF IInv
<1> USE DEF IInv
<1>1. ASSUME NEW i \in Jobs, CreateCleanupJob(i) \/ ExecuteCleanupJob(i)
      PROVE  JobInv(j)'
  <2>1. CASE i = j
    BY <1>1, <2>1, CreateInv, SetRunningInv, ListHostsInv, PruneReturnsInv, FinishInv
    DEF ExecuteCleanupJob
  <2>2. CASE i # j
    BY <1>1, <2>2, OthersKeep, KeepsInv
  <2> QED
    BY <2>1, <2>2
<1>2. ASSUME NEW i \in Jobs, NEW h \in Hosts, HostRoutine(i, h) PROVE JobInv(j)'
  <2>1. CASE i = j
    BY <1>2, <2>1, HostInv
  <2>2. CASE i # j
    BY <1>2, <2>2, OthersKeep, KeepsInv
  <2> QED
    BY <2>1, <2>2
<1>3. CASE (\E s \in Streams : OpenStream(s) \/ TickStream(s) \/ CloseStream(s))
           \/ UNCHANGED vars
  <2>1. Keeps(j)
    BY <1>3 DEF OpenStream, TickStream, CloseStream, Keeps, rows, parts, vars
  <2> QED
    BY <2>1, KeepsInv
<1>4. CASE Crash
    BY <1>4, CrashInv
<1> QED
    BY <1>1, <1>2, <1>3, <1>4 DEF Next

LEMMA Invariant == Spec => []IInv
    BY InvInit, InvStep, PTL DEF Spec

(* The count a row shows never exceeds the hosts whose prune has ended.    *)
THEOREM HonestProgress == Spec => []ProgressIsHonest
<1>1. IInv => ProgressIsHonest
    BY DEF IInv, JobInv, Honest, ProgressIsHonest
<1> QED
    BY <1>1, Invariant, PTL

(* A row that says "completed" leaves no prune behind it, also if the      *)
(* process died or statements were lost.                                   *)
THEOREM CompletedIsDone == Spec => []CompletedMeansDone
<1>1. IInv => CompletedMeansDone
    BY DEF IInv, JobInv, Ended, CompletedMeansDone
<1> QED
    BY <1>1, Invariant, PTL

-----------------------------------------------------------------------------
(* Forward only.                                                           *)

LEMMA StatusMoves ==
    ASSUME IInv, [Next]_vars, NEW j \in Jobs, status'[j] # status[j]
    PROVE  Rank(status[j]) < Rank(status'[j])
<1> USE DEF IInv, TypeOK, JobInv, Ended, Rank
<1>1. ASSUME NEW i \in Jobs, CreateCleanupJob(i) PROVE Rank(status[j]) < Rank(status'[j])
    BY <1>1 DEF CreateCleanupJob
<1>2. ASSUME NEW i \in Jobs, ExecuteCleanupJob(i) PROVE Rank(status[j]) < Rank(status'[j])
  <2>1. /\ i = j
        /\ \/ at[j] = "start" /\ status'[j] = "running"
           \/ at[j] \in {"complete", "fail"} /\ status'[j] \in Final
    BY <1>2 DEF ExecuteCleanupJob, SetRunning, ListHosts, WaitForHosts, PruneReturns,
       Complete, Fail, SaveResults, UpdateJobStatus, UpdateJobProgress,
       UpdateJobResults, rows, Final
  <2> QED
    BY <2>1 DEF Final
<1>3. ASSUME NEW i \in Jobs, NEW h \in Hosts, HostRoutine(i, h)
      PROVE  status' = status
    BY <1>3 DEF HostRoutine, Announce, Perform, Report, UpdateJobProgress, rows
<1>4. CASE (\E s \in Streams : OpenStream(s) \/ TickStream(s) \/ CloseStream(s))
           \/ Crash \/ UNCHANGED vars
    BY <1>4 DEF OpenStream, TickStream, CloseStream, Crash, rows, vars
<1> QED
    BY <1>1, <1>2, <1>3, <1>4 DEF Next

(* A status only goes forward, and a final one stays.                      *)
THEOREM StatusIsForward == Spec => StatusForward
<1>1. IInv /\ [Next]_vars =>
        [\A j \in Jobs : status'[j] # status[j] => Rank(status[j]) < Rank(status'[j])]_vars
    BY StatusMoves
<1> QED
    BY <1>1, Invariant, PTL DEF Spec, StatusForward

LEMMA ProgressMoves ==
    ASSUME IInv, [Next]_vars, NEW j \in Jobs
    PROVE  progress'[j] >= progress[j]
<1>1. /\ progress[j] \in Nat /\ Cardinality(Done(j)) \in Nat
      /\ progress[j] <= Cardinality(Done(j))
    BY DoneCount, HostCount DEF IInv, TypeOK, JobInv, Honest
<1>2. ASSUME NEW i \in Jobs, CreateCleanupJob(i) \/ ExecuteCleanupJob(i)
      PROVE  progress'[j] >= progress[j]
  <2>1. CASE progress' = progress
    BY <2>1, <1>1
  <2>2. CASE PruneReturns(i) /\ i = j
    <3>1. PICK h \in targets[j] : host[j][h] = "report"
      BY <2>2 DEF PruneReturns
    <3>2. targets[j] = {h}
      BY <2>2, <3>1 DEF PruneReturns, IInv, JobInv, Listed
    <3>3. Done(j) = {}
      BY <3>1, <3>2 DEF Done
    <3>4. progress[j] = 0
      BY <1>1, <3>3, FS_EmptySet
    <3>5. progress'[j] \in {progress[j], 1}
      BY <2>2 DEF PruneReturns, UpdateJobProgress, rows, IInv, TypeOK
    <3> QED
      BY <3>4, <3>5
  <2>3. CASE PruneReturns(i) /\ i # j
    BY <1>1, <2>3 DEF PruneReturns, UpdateJobProgress, rows, IInv, TypeOK
  <2>4. CASE ~PruneReturns(i)
    BY <1>2, <2>1, <2>4 DEF CreateCleanupJob, ExecuteCleanupJob, SetRunning, ListHosts,
       WaitForHosts, Complete, Fail, SaveResults, UpdateJobStatus, UpdateJobResults, rows
  <2> QED
    BY <2>2, <2>3, <2>4
<1>3. ASSUME NEW i \in Jobs, NEW h \in Hosts, HostRoutine(i, h)
      PROVE  progress'[j] >= progress[j]
  <2>1. progress'[j] \in {progress[j], Cardinality(Done(j)), Cardinality(Done(j)) + 1}
    BY <1>3 DEF HostRoutine, Announce, Perform, Report, UpdateJobProgress, rows,
       IInv, TypeOK
  <2> QED
    BY <1>1, <2>1
<1>4. CASE (\E s \in Streams : OpenStream(s) \/ TickStream(s) \/ CloseStream(s))
           \/ Crash \/ UNCHANGED vars
    BY <1>1, <1>4 DEF OpenStream, TickStream, CloseStream, Crash, rows, vars
<1> QED
    BY <1>2, <1>3, <1>4 DEF Next

(* The count of completed hosts never goes back.                           *)
THEOREM ProgressIsForward == Spec => ProgressForward
<1>1. IInv /\ [Next]_vars => [\A j \in Jobs : progress'[j] >= progress[j]]_vars
    BY ProgressMoves
<1> QED
    BY <1>1, Invariant, PTL DEF Spec, ProgressForward

-----------------------------------------------------------------------------
(* Streams.                                                                *)

LEMMA FinalStays ==
    ASSUME IInv, [Next]_vars, NEW j \in Jobs, status[j] \in Final
    PROVE  status'[j] = status[j]
<1>1. TypeOK'
    BY TypeStep DEF IInv
<1>2. Rank(status[j]) = 3 /\ Rank(status'[j]) \in 0..3
    BY <1>1 DEF TypeOK, Statuses, Final, Rank
<1> QED
    BY <1>2, StatusMoves

LEMMA LastWordStep == IInv /\ CompleteIsLastWord /\ [Next]_vars => CompleteIsLastWord'
<1> SUFFICES ASSUME IInv, CompleteIsLastWord, [Next]_vars,
                    NEW s \in Streams, stream'[s] = "complete"
             PROVE  /\ shown'[s].status \in Final
                    /\ shown'[s].status = status'[follows'[s]]
    BY DEF CompleteIsLastWord
<1>1. CASE shown'[s] = shown[s] /\ follows'[s] = follows[s] /\ stream[s] = "complete"
  <2>1. follows[s] \in Jobs
    BY DEF IInv, TypeOK
  <2> QED
    BY <1>1, <2>1, FinalStays DEF CompleteIsLastWord
<1>2. CASE TickStream(s)
  <2>1. /\ follows' = follows /\ status' = status /\ follows[s] \in Jobs
        /\ shown'[s] = row(follows[s])
        /\ status[follows[s]] \in Final
    BY <1>2 DEF TickStream, rows, IInv, TypeOK
  <2> QED
    BY <2>1 DEF row
<1>3. ASSUME NEW t \in Streams, OpenStream(t) \/ TickStream(t) \/ CloseStream(t)
      PROVE  \/ TickStream(s)
             \/ shown'[s] = shown[s] /\ follows'[s] = follows[s] /\ stream[s] = "complete"
    BY <1>3 DEF OpenStream, TickStream, CloseStream, IInv, TypeOK
<1>4. ASSUME NEW i \in Jobs, CreateCleanupJob(i) \/ ExecuteCleanupJob(i)
      PROVE  UNCHANGED streams
    BY <1>4 DEF CreateCleanupJob, ExecuteCleanupJob, SetRunning, ListHosts, WaitForHosts,
       PruneReturns, Complete, Fail, SaveResults
<1>5. ASSUME NEW i \in Jobs, NEW h \in Hosts, HostRoutine(i, h) PROVE UNCHANGED streams
    BY <1>5 DEF HostRoutine, Announce, Perform, Report
<1>6. CASE UNCHANGED streams
    BY <1>1, <1>6 DEF streams
<1>7. ~Crash
    BY DEF Crash
<1> QED
    BY <1>1, <1>2, <1>3, <1>4, <1>5, <1>6, <1>7 DEF Next, vars

(* What a row shows never goes back, neither its status nor its count.     *)
THEOREM RowsGoForward == Spec => RowsForward
BY StatusIsForward, ProgressIsForward DEF RowsForward

(* The event that ends a stream carries the job's final status.            *)
THEOREM CompleteIsLast == Spec => []CompleteIsLastWord
<1>1. Init => CompleteIsLastWord
    BY DEF Init, CompleteIsLastWord
<1> QED
    BY <1>1, LastWordStep, Invariant, PTL DEF Spec

-----------------------------------------------------------------------------
(* The row of a job whose function has returned.                           *)

(* What the row shows at each place, if nothing has failed.                *)
Told(j) ==
    /\ at[j] # "dead"
    /\ at[j] \in {"none", "start", "list"} => progress[j] = 0
    /\ at[j] # "end" => saved[j] = {}
    /\ at[j] = "wait" /\ scope[j] = "all" => progress[j] = Cardinality(Done(j))
    /\ at[j] = "complete" => progress[j] = Cardinality(targets[j])
    /\ at[j] \in {"results", "end"} => status[j] \in Final
    /\ status[j] = "completed" => progress[j] = Cardinality(targets[j])
    /\ status[j] = "completed" /\ at[j] = "end" => saved[j] = targets[j]
TellInv == faults = 0 => \A j \in Jobs : Told(j)

LEMMA NoFault == ASSUME TypeOK, faults' = 0 PROVE ~Fault
    BY CleanupJobAssumption DEF TypeOK, Fault

LEMMA KeepsTold ==
    ASSUME NEW j \in Jobs, Told(j), Keeps(j), saved'[j] = saved[j] PROVE Told(j)'
<1>1. Done(j)' = Done(j)
    BY DEF Keeps, Done
<1> QED
    BY <1>1 DEF Told, Keeps

LEMMA OthersTold ==
    ASSUME TypeOK, NEW i \in Jobs, NEW j \in Jobs \ {i}, Told(j),
           \/ CreateCleanupJob(i) \/ ExecuteCleanupJob(i)
           \/ \E h \in Hosts : HostRoutine(i, h)
    PROVE  Told(j)'
<1>1. saved'[j] = saved[j]
    BY DEF TypeOK, CreateCleanupJob, ExecuteCleanupJob, SetRunning, ListHosts,
           WaitForHosts, PruneReturns, Complete, Fail, SaveResults, HostRoutine, Announce,
           Perform, Report, UpdateJobStatus, UpdateJobProgress, UpdateJobResults, rows
<1> QED
    BY <1>1, OthersKeep, KeepsTold

LEMMA JobTold ==
    ASSUME IInv, faults' = 0, NEW j \in Jobs, Told(j),
           CreateCleanupJob(j) \/ ExecuteCleanupJob(j)
    PROVE  Told(j)'
<1> USE DEF rows, parts, Goto, Final
<1>1. ~Fault /\ TypeOK /\ JobInv(j)
    BY NoFault DEF IInv
<1>2. CASE CreateCleanupJob(j)
  <2>1. /\ at[j] = "none" /\ at'[j] = "start" /\ status'[j] = "queued"
        /\ UNCHANGED <<progress, saved>>
      BY <1>1, <1>2 DEF CreateCleanupJob, TypeOK
  <2> QED
      BY <2>1 DEF Told
<1>3. CASE SetRunning(j)
  <2>1. /\ at[j] = "start" /\ at'[j] = IF scope[j] = "all" THEN "list" ELSE "wait"
        /\ status'[j] = "running" /\ UNCHANGED <<progress, saved, scope>>
      BY <1>1, <1>3 DEF SetRunning, UpdateJobStatus, TypeOK
  <2> QED
      BY <2>1 DEF Told
<1>4. CASE ListHosts(j)
  <2>1. PICK H \in SUBSET Hosts :
          /\ targets' = [targets EXCEPT ![j] = H]
          /\ host' = [host EXCEPT ![j] =
                 [h \in Hosts |-> IF h \in H THEN "announce" ELSE "none"]]
          /\ at' = [at EXCEPT ![j] = IF H = {} THEN "complete" ELSE "wait"]
      BY <1>1, <1>4 DEF ListHosts
  <2>2. /\ at[j] = "list" /\ UNCHANGED <<status, progress, saved>>
        /\ targets'[j] = H /\ at'[j] = IF H = {} THEN "complete" ELSE "wait"
      BY <1>1, <1>4, <2>1 DEF ListHosts, TypeOK
  <2>3. Done(j)' = {}
      BY <1>1, <2>1 DEF Done, TypeOK
  <2>4. Cardinality({}) = 0
      BY FS_EmptySet
  <2>5. status[j] # "completed"
      BY <1>1, <2>2 DEF JobInv, Ended
  <2> QED
      BY <2>2, <2>3, <2>4, <2>5 DEF Told
<1>5. CASE WaitForHosts(j)
  <2>1. /\ at[j] = "wait" /\ scope[j] = "all" /\ at'[j] = "complete"
        /\ Done(j) = targets[j] /\ UNCHANGED <<status, progress, saved, targets>>
      BY <1>1, <1>5 DEF WaitForHosts, TypeOK
  <2> QED
      BY <2>1 DEF Told
<1>6. CASE PruneReturns(j)
  <2>1. /\ at[j] = "wait" /\ UNCHANGED <<status, saved, targets>>
        /\ at'[j] = "fail" \/ (at'[j] = "complete" /\ progress'[j] = 1)
      BY <1>1, <1>6 DEF PruneReturns, UpdateJobProgress, TypeOK
  <2>2. Cardinality(targets[j]) = 1 /\ status[j] # "completed"
      BY <1>1, <1>6, <2>1, FS_Singleton DEF PruneReturns, JobInv, Listed, Ended
  <2> QED
      BY <2>1, <2>2 DEF Told
<1>7. CASE Complete(j)
  <2>1. /\ at[j] = "complete" /\ at'[j] = IF targets[j] = {} THEN "end" ELSE "results"
        /\ status'[j] = "completed" /\ UNCHANGED <<progress, saved, targets>>
      BY <1>1, <1>7 DEF Complete, UpdateJobStatus, TypeOK
  <2> QED
      BY <2>1 DEF Told
<1>8. CASE Fail(j)
  <2>1. /\ at[j] = "fail" /\ at'[j] \in {"results", "end"}
        /\ status'[j] = "failed" /\ UNCHANGED <<progress, saved, targets>>
      BY <1>1, <1>8 DEF Fail, UpdateJobStatus, TypeOK
  <2> QED
      BY <2>1 DEF Told
<1>9. CASE SaveResults(j)
  <2>1. /\ at[j] = "results" /\ at'[j] = "end"
        /\ saved'[j] = Done(j) /\ UNCHANGED <<status, progress, targets>>
      BY <1>1, <1>9 DEF SaveResults, UpdateJobResults, TypeOK
  <2>2. Done(j) = targets[j]
      BY <1>1, <2>1 DEF JobInv, Ended
  <2> QED
      BY <2>1, <2>2 DEF Told
<1> QED
    BY <1>2, <1>3, <1>4, <1>5, <1>6, <1>7, <1>8, <1>9 DEF ExecuteCleanupJob

LEMMA HostTold ==
    ASSUME IInv, faults' = 0, NEW j \in Jobs, Told(j), NEW h \in Hosts, HostRoutine(j, h)
    PROVE  Told(j)'
<1>1. ~Fault /\ TypeOK /\ JobInv(j)
    BY NoFault DEF IInv
<1>2. at[j] = "wait" /\ UNCHANGED <<at, scope, targets, status, saved>>
    BY DEF HostRoutine, Announce, Perform, Report, UpdateJobProgress, rows
<1>3. h \in targets[j] /\ status[j] # "completed"
    BY <1>1, <1>2 DEF HostRoutine, Announce, Perform, Report, JobInv, Listed, Ended
<1>4. scope[j] = "all" => progress'[j] = Cardinality(Done(j)')
  <2>1. CASE Announce(j, h)
    <3>1. Done(j)' = Done(j)
        BY <1>1, <1>2, <2>1 DEF Announce, HostGoto, Done, TypeOK
    <3> QED
        BY <1>1, <2>1, <3>1 DEF Announce, UpdateJobProgress, TypeOK
  <2>2. CASE Perform(j, h)
    <3>1. Done(j)' = Done(j) /\ UNCHANGED progress
        BY <1>1, <1>2, <2>2 DEF Perform, HostGoto, Done, TypeOK, rows
    <3> QED
        BY <1>2, <3>1 DEF Told
  <2>3. CASE Report(j, h)
    <3>1. Done(j)' = Done(j) \cup {h}
        BY <1>1, <1>2, <1>3, <2>3 DEF Report, HostGoto, Done, TypeOK
    <3>2. Cardinality(Done(j) \cup {h}) = Cardinality(Done(j)) + 1
        BY <1>1, <2>3, OneMore DEF Report
    <3>3. progress'[j] = Cardinality(Done(j)) + 1
        BY <1>1, <2>3 DEF Report, UpdateJobProgress, TypeOK
    <3> QED
        BY <3>1, <3>2, <3>3
  <2> QED
      BY <2>1, <2>2, <2>3 DEF HostRoutine
<1> QED
    BY <1>2, <1>3, <1>4 DEF Told

LEMMA FaultsCount == ASSUME [Next]_vars PROVE UNCHANGED faults \/ Fault
<1>1. ASSUME NEW j \in Jobs, CreateCleanupJob(j) \/ ExecuteCleanupJob(j)
      PROVE  UNCHANGED faults \/ Fault
    BY <1>1
    DEF CreateCleanupJob, ExecuteCleanupJob, SetRunning, ListHosts, WaitForHosts,
        PruneReturns, Complete, Fail, SaveResults, UpdateJobStatus, UpdateJobProgress,
        UpdateJobResults
<1>2. ASSUME NEW j \in Jobs, NEW h \in Hosts, HostRoutine(j, h)
      PROVE  UNCHANGED faults \/ Fault
    BY <1>2 DEF HostRoutine, Announce, Perform, Report, UpdateJobProgress
<1>3. CASE \E s \in Streams : OpenStream(s) \/ TickStream(s) \/ CloseStream(s)
    BY <1>3 DEF OpenStream, TickStream, CloseStream
<1>4. CASE Crash \/ UNCHANGED vars
    BY <1>4 DEF Crash, vars
<1> QED
    BY <1>1, <1>2, <1>3, <1>4 DEF Next

LEMMA TellStep == IInv /\ TellInv /\ [Next]_vars => TellInv'
<1> SUFFICES ASSUME IInv, TellInv, [Next]_vars, faults' = 0, NEW j \in Jobs PROVE Told(j)'
    BY DEF TellInv
<1>1. TypeOK /\ ~Fault
    BY NoFault DEF IInv
<1>2. Told(j)
    BY <1>1, FaultsCount DEF TellInv
<1>3. ASSUME NEW i \in Jobs, CreateCleanupJob(i) \/ ExecuteCleanupJob(i) PROVE Told(j)'
  <2>1. CASE i = j
      BY <1>2, <1>3, <2>1, JobTold
  <2>2. CASE i # j
      BY <1>1, <1>2, <1>3, <2>2, OthersTold
  <2> QED
      BY <2>1, <2>2
<1>4. ASSUME NEW i \in Jobs, NEW h \in Hosts, HostRoutine(i, h) PROVE Told(j)'
  <2>1. CASE i = j
      BY <1>2, <1>4, <2>1, HostTold
  <2>2. CASE i # j
      BY <1>1, <1>2, <1>4, <2>2, OthersTold
  <2> QED
      BY <2>1, <2>2
<1>5. CASE (\E s \in Streams : OpenStream(s) \/ TickStream(s) \/ CloseStream(s))
           \/ UNCHANGED vars
  <2>1. Keeps(j) /\ saved'[j] = saved[j]
      BY <1>5 DEF OpenStream, TickStream, CloseStream, Keeps, rows, parts, vars
  <2> QED
      BY <1>2, <2>1, KeepsTold
<1> QED
    BY <1>1, <1>3, <1>4, <1>5 DEF Next, Crash

(* A function that returns leaves a row that is final and whole, for any   *)
(* jobs, hosts and streams, if no statement failed.                        *)
THEOREM EndedIsWhole == Spec => []EndedRowIsWhole
<1>1. Init => TellInv
  <2> SUFFICES ASSUME Init, NEW j \in Jobs PROVE Told(j)
      BY DEF TellInv
  <2> QED
      BY DEF Init, Told
<1>2. TellInv => EndedRowIsWhole
    BY DEF TellInv, Told, EndedRowIsWhole
<1> QED
    BY <1>1, <1>2, TellStep, Invariant, PTL DEF Spec

=============================================================================
