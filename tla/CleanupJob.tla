----------------------------- MODULE CleanupJob -----------------------------
(***************************************************************************)
(* Cleanup jobs (api/handlers/cleanup_handlers.go).  A request inserts a   *)
(* row into cleanup_jobs and spawns executeCleanupJob for one host or      *)
(* executeCleanupJobAllHosts, which spawns a goroutine per host and waits  *)
(* for them all.  They report through the row's three columns, each with   *)
(* an UPDATE of its own whose error nobody looks at, and event streams     *)
(* poll the row.                                                           *)
(*                                                                         *)
(* One action is one statement, one prune or one wait.  The per-host       *)
(* goroutines of a job share a mutex, under which they make exactly one    *)
(* UPDATE; such a section is one action.                                   *)
(***************************************************************************)
EXTENDS Naturals, FiniteSets

CONSTANTS
    Jobs,      \* the rows that get created
    Hosts,     \* the table hosts, whose members come and go
    Streams,   \* calls of handleCleanupJobStream
    MaxFaults  \* bound on failing statements and crashes

ASSUME CleanupJobAssumption == IsFiniteSet(Hosts) /\ MaxFaults \in Nat

VARIABLES
    status,    \* column status; "none" while there is no row
    progress,  \* column progress: how many hosts it shows completed
    saved,     \* column results: the hosts it reports on
    scope,     \* which of the two functions executes the job
    targets,   \* the hosts it works on
    at,        \* where that function is
    host,      \* where each host's part is
    outcome,   \* what each host's prune returned
    stream,    \* what each stream does
    follows,   \* the job it follows
    shown,     \* the row as it sent it last
    faults     \* failures so far

rows == <<status, progress, saved>>
parts == <<host, outcome>>
streams == <<stream, follows, shown>>
vars == <<rows, scope, targets, at, parts, streams, faults>>

Final == {"completed", "failed"}
Statuses == {"none", "queued", "running"} \cup Final
Places == {"none", "start", "list", "wait", "complete", "fail", "results",
           "end", "dead"}
HostPlaces == {"none", "announce", "prune", "report", "done"}
Outcomes == {"ok", "failed", "error"}
Row == [status : Statuses, progress : 0..Cardinality(Hosts), saved : SUBSET Hosts]
row(j) == [status |-> status[j], progress |-> progress[j], saved |-> saved[j]]

TypeOK ==
    /\ status \in [Jobs -> Statuses]
    /\ progress \in [Jobs -> 0..Cardinality(Hosts)]
    /\ saved \in [Jobs -> SUBSET Hosts]
    /\ scope \in [Jobs -> {"one", "all"}]
    /\ targets \in [Jobs -> SUBSET Hosts]
    /\ at \in [Jobs -> Places]
    /\ host \in [Jobs -> [Hosts -> HostPlaces]]
    /\ outcome \in [Jobs -> [Hosts -> Outcomes \cup {"none"}]]
    /\ stream \in [Streams -> {"idle", "open", "complete"}]
    /\ follows \in [Streams -> Jobs]
    /\ shown \in [Streams -> Row]
    /\ faults \in 0..MaxFaults

Init ==
    /\ status = [j \in Jobs |-> "none"]
    /\ progress = [j \in Jobs |-> 0]
    /\ saved = [j \in Jobs |-> {}]
    /\ scope \in [Jobs -> {"one", "all"}]
    /\ targets = [j \in Jobs |-> {}]
    /\ at = [j \in Jobs |-> "none"]
    /\ host = [j \in Jobs |-> [h \in Hosts |-> "none"]]
    /\ outcome = [j \in Jobs |-> [h \in Hosts |-> "none"]]
    /\ stream = [s \in Streams |-> "idle"]
    /\ follows \in [Streams -> Jobs]
    /\ shown = [s \in Streams |-> [status |-> "none", progress |-> 0, saved |-> {}]]
    /\ faults = 0

Goto(j, place) == at' = [at EXCEPT ![j] = place]
HostGoto(j, h, place) == host' = [host EXCEPT ![j][h] = place]
Fault == faults < MaxFaults /\ faults' = faults + 1

(* The hosts whose goroutine has entered its result into the local map.    *)
Done(j) == {h \in targets[j] : host[j][h] = "done"}

-----------------------------------------------------------------------------
(* The three UPDATEs.  Their callers go on whether they succeed or not.    *)

UpdateJobStatus(j, s) ==
    /\ \/ status' = [status EXCEPT ![j] = s] /\ UNCHANGED faults
       \/ Fault /\ UNCHANGED status
    /\ UNCHANGED <<progress, saved>>

UpdateJobProgress(j, n) ==
    /\ \/ progress' = [progress EXCEPT ![j] = n] /\ UNCHANGED faults
       \/ Fault /\ UNCHANGED progress
    /\ UNCHANGED <<status, saved>>

UpdateJobResults(j, H) ==
    /\ \/ saved' = [saved EXCEPT ![j] = H] /\ UNCHANGED faults
       \/ Fault /\ UNCHANGED saved
    /\ UNCHANGED <<status, progress>>

-----------------------------------------------------------------------------
(* The request: insert the row, then spawn the function that executes it.  *)
CreateCleanupJob(j) ==
    /\ at[j] = "none"
    /\ status' = [status EXCEPT ![j] = "queued"]
    /\ \/ scope[j] = "all" /\ UNCHANGED targets
       \/ /\ scope[j] = "one"
          /\ \E h \in Hosts : targets' = [targets EXCEPT ![j] = {h}]
    /\ Goto(j, "start")
    /\ UNCHANGED <<progress, saved, scope, parts, streams, faults>>

(* One host: its prune is next, announced by progress without a count.     *)
SetRunning(j) ==
    /\ at[j] = "start"
    /\ UpdateJobStatus(j, "running")
    /\ \/ scope[j] = "all" /\ Goto(j, "list") /\ UNCHANGED host
       \/ /\ scope[j] = "one"
          /\ \E h \in targets[j] : HostGoto(j, h, "prune")
          /\ Goto(j, "wait")
    /\ UNCHANGED <<scope, targets, outcome, streams>>

(* All hosts: those the table has now.  The UPDATE that follows shows the  *)
(* count 0, which the row has.                                             *)
ListHosts(j) ==
    /\ at[j] = "list"
    /\ \/ Fault /\ Goto(j, "fail") /\ UNCHANGED <<targets, host>>
       \/ /\ \E H \in SUBSET Hosts :
               /\ targets' = [targets EXCEPT ![j] = H]
               /\ host' = [host EXCEPT ![j] =
                      [h \in Hosts |-> IF h \in H THEN "announce" ELSE "none"]]
               /\ Goto(j, IF H = {} THEN "complete" ELSE "wait")
          /\ UNCHANGED faults
    /\ UNCHANGED <<rows, scope, outcome, streams>>

(* A host's goroutine says that it starts, with the count as it is.        *)
Announce_Resets(j, h) ==
    /\ at[j] = "wait" /\ host[j][h] = "announce"
    /\ UpdateJobProgress(j, 0)
    /\ HostGoto(j, h, "prune")
    /\ UNCHANGED <<scope, targets, at, outcome, streams>>

Announce(j, h) ==
    /\ at[j] = "wait" /\ host[j][h] = "announce"
    /\ UpdateJobProgress(j, Cardinality(Done(j)))
    /\ HostGoto(j, h, "prune")
    /\ UNCHANGED <<scope, targets, at, outcome, streams>>

(* performSystemPrune and its five siblings: a prune that fails is a       *)
(* result; only an unknown host is an error.                               *)
Perform(j, h) ==
    /\ at[j] = "wait" /\ host[j][h] = "prune"
    /\ \E o \in Outcomes : outcome' = [outcome EXCEPT ![j][h] = o]
    /\ HostGoto(j, h, "report")
    /\ UNCHANGED <<rows, scope, targets, at, streams, faults>>

Report_CountsAll(j, h) ==
    /\ at[j] = "wait" /\ host[j][h] = "report"
    /\ scope[j] = "all"
    /\ UpdateJobProgress(j, Cardinality(targets[j]))
    /\ HostGoto(j, h, "done")
    /\ UNCHANGED <<scope, targets, at, outcome, streams>>

(* Its goroutine enters the result and counts itself.                      *)
Report(j, h) ==
    /\ at[j] = "wait" /\ host[j][h] = "report"
    /\ scope[j] = "all"
    /\ UpdateJobProgress(j, Cardinality(Done(j)) + 1)
    /\ HostGoto(j, h, "done")
    /\ UNCHANGED <<scope, targets, at, outcome, streams>>

(* wg.Wait().                                                              *)
WaitForHosts_Any(j) ==
    /\ at[j] = "wait" /\ scope[j] = "all"
    /\ Done(j) # {}
    /\ Goto(j, "complete")
    /\ UNCHANGED <<rows, scope, targets, parts, streams, faults>>

WaitForHosts(j) ==
    /\ at[j] = "wait" /\ scope[j] = "all"
    /\ Done(j) = targets[j]
    /\ Goto(j, "complete")
    /\ UNCHANGED <<rows, scope, targets, parts, streams, faults>>

(* One host: back from the prune.  An error fails the job; a prune that    *)
(* failed does not.                                                        *)
PruneReturns(j) ==
    /\ at[j] = "wait" /\ scope[j] = "one"
    /\ \E h \in targets[j] :
          /\ host[j][h] = "report"
          /\ HostGoto(j, h, "done")
          /\ \/ outcome[j][h] = "error" /\ Goto(j, "fail") /\ UNCHANGED <<rows, faults>>
             \/ outcome[j][h] # "error" /\ Goto(j, "complete") /\ UpdateJobProgress(j, 1)
    /\ UNCHANGED <<scope, targets, outcome, streams>>

Complete(j) ==
    /\ at[j] = "complete"
    /\ UpdateJobStatus(j, "completed")
    /\ Goto(j, IF targets[j] = {} THEN "end" ELSE "results")
    /\ UNCHANGED <<scope, targets, parts, streams>>

Fail(j) ==
    /\ at[j] = "fail"
    /\ UpdateJobStatus(j, "failed")
    /\ Goto(j, IF scope[j] = "one" THEN "results" ELSE "end")
    /\ UNCHANGED <<scope, targets, parts, streams>>

SaveResults(j) ==
    /\ at[j] = "results"
    /\ UpdateJobResults(j, Done(j))
    /\ Goto(j, "end")
    /\ UNCHANGED <<scope, targets, parts, streams>>

-----------------------------------------------------------------------------
(* handleCleanupJobStream.  It sends the row on every tick; a final status *)
(* makes the event a "complete" one, after which it returns.               *)

OpenStream(s) ==
    /\ stream[s] = "idle"
    /\ \E j \in Jobs :
          /\ status[j] # "none"
          /\ follows' = [follows EXCEPT ![s] = j]
          /\ shown' = [shown EXCEPT ![s] = row(j)]
    /\ stream' = [stream EXCEPT ![s] = "open"]
    /\ UNCHANGED <<rows, scope, targets, at, parts, faults>>

TickStream_Misses(s) ==
    /\ stream[s] = "open"
    /\ shown' = [shown EXCEPT ![s] = row(follows[s])]
    /\ stream' = [stream EXCEPT ![s] =
           IF status[follows[s]] = "completed" THEN "complete" ELSE "open"]
    /\ UNCHANGED <<rows, scope, targets, at, parts, follows, faults>>

TickStream_Early(s) ==
    /\ stream[s] = "open"
    /\ shown' = [shown EXCEPT ![s] = row(follows[s])]
    /\ stream' = [stream EXCEPT ![s] =
           IF status[follows[s]] # "queued" THEN "complete" ELSE "open"]
    /\ UNCHANGED <<rows, scope, targets, at, parts, follows, faults>>

TickStream(s) ==
    /\ stream[s] = "open"
    /\ shown' = [shown EXCEPT ![s] = row(follows[s])]
    /\ stream' = [stream EXCEPT ![s] =
           IF status[follows[s]] \in Final THEN "complete" ELSE "open"]
    /\ UNCHANGED <<rows, scope, targets, at, parts, follows, faults>>

(* The stream has returned, its client is gone, or its query fails.        *)
CloseStream(s) ==
    /\ stream[s] # "idle"
    /\ stream' = [stream EXCEPT ![s] = "idle"]
    /\ UNCHANGED <<rows, scope, targets, at, parts, follows, shown, faults>>

(* The process dies: nothing resumes a job.                                *)
Crash ==
    /\ Fault
    /\ at' = [j \in Jobs |-> IF at[j] = "none" THEN "none" ELSE "dead"]
    /\ stream' = [s \in Streams |-> "idle"]
    /\ UNCHANGED <<rows, scope, targets, parts, follows, shown>>

-----------------------------------------------------------------------------
ExecuteCleanupJob(j) ==
    \/ SetRunning(j) \/ ListHosts(j) \/ WaitForHosts(j) \/ PruneReturns(j)
    \/ Complete(j) \/ Fail(j) \/ SaveResults(j)
HostRoutine(j, h) == Announce(j, h) \/ Perform(j, h) \/ Report(j, h)

Next ==
    \/ \E j \in Jobs : CreateCleanupJob(j) \/ ExecuteCleanupJob(j)
    \/ \E j \in Jobs, h \in Hosts : HostRoutine(j, h)
    \/ \E s \in Streams : OpenStream(s) \/ TickStream(s) \/ CloseStream(s)
    \/ Crash

Spec == Init /\ [][Next]_vars

(* Goroutines run, statements and prune commands return, tickers tick.  A  *)
(* prune command has no timeout: that it returns is an assumption.         *)
Fairness ==
    /\ \A j \in Jobs : WF_vars(ExecuteCleanupJob(j))
    /\ \A j \in Jobs, h \in Hosts : WF_vars(HostRoutine(j, h))
    /\ \A s \in Streams : WF_vars(TickStream(s))
FairSpec == Spec /\ Fairness

-----------------------------------------------------------------------------
(* Properties.                                                             *)

Rank(s) == CASE s = "none" -> 0 [] s = "queued" -> 1 [] s = "running" -> 2
             [] OTHER -> 3

(* A job's status only goes forward, and a final one stays: whoever saw    *)
(* "completed" or "failed" saw the last word, whatever fails.              *)
StatusForward ==
    [][\A j \in Jobs : status'[j] # status[j] => Rank(status[j]) < Rank(status'[j])]_vars

(* The count of completed hosts never goes back, though every host's       *)
(* goroutine writes it and statements get lost.                            *)
ProgressForward == [][\A j \in Jobs : progress'[j] >= progress[j]]_vars

(* What a stream or a poll of the row shows never goes back, in either.    *)
RowsForward == StatusForward /\ ProgressForward

(* It counts no host whose prune has not ended.                            *)
ProgressIsHonest == \A j \in Jobs : progress[j] <= Cardinality(Done(j))

(* A job that says "completed" has no prune running or still to come on    *)
(* any of its hosts, also after a crash.                                   *)
CompletedMeansDone ==
    \A j \in Jobs : status[j] = "completed" => Done(j) = targets[j]

(* What a stream sends as the "complete" event carries the status the job  *)
(* has from then on.                                                       *)
CompleteIsLastWord ==
    \A s \in Streams : stream[s] = "complete" =>
        /\ shown[s].status \in Final
        /\ shown[s].status = status[follows[s]]

(* Every job ends with a final status, and every stream of it with a       *)
(* "complete" event unless its client leaves, if no statement fails.       *)
JobsEnd ==
    \A j \in Jobs : status[j] = "queued" ~> (status[j] \in Final \/ faults > 0)
StreamsEnd ==
    \A s \in Streams : stream[s] = "open" ~> (stream[s] # "open" \/ faults > 0)
JobsAndStreamsEnd == JobsEnd /\ StreamsEnd

(* What JobsEnd rests on: the function has not returned before the row has *)
(* its last status, and a row that says "completed" then counts and        *)
(* reports on every host of the job, if no statement failed, although each *)
(* of the host's goroutines and the function wrote it in turn.             *)
EndedRowIsWhole ==
    \A j \in Jobs : at[j] = "end" /\ faults = 0 =>
        /\ status[j] \in Final
        /\ status[j] = "completed" =>
              progress[j] = Cardinality(targets[j]) /\ saved[j] = targets[j]

=============================================================================
