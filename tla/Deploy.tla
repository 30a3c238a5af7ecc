------------------------------- MODULE Deploy -------------------------------
(***************************************************************************)
(* Deployments of one stack and the detection of its drift.                *)
(*                                                                         *)
(* DeployStack and DeployStackWithStream (api/services/deploy.go) stage    *)
(* the stack's files, stamp the deployment in the table deployment_stamps, *)
(* run docker compose up, and record in stack_drift_cache what is deployed *)
(* now.  Viewing the stacks page runs detectDriftViaHashesImpl             *)
(* (api/utils/hash.go), which compares the files and the containers with   *)
(* that record and updates it.  Nothing excludes two of these from each    *)
(* other, nor from the users who edit the files and the containers; each   *)
(* statement or command that reads or writes shared state is one action.   *)
(*                                                                         *)
(* A hash stands for what it is the hash of.  The stack has one service:   *)
(* its containers are those of one content, or are gone.                   *)
(***************************************************************************)
EXTENDS Naturals, FiniteSets

CONSTANTS
    Deploys,     \* concurrent calls of DeployStack and DeployStackWithStream
    Detections,  \* concurrent calls of detectDriftViaHashesImpl
    Composes,    \* contents of the compose files, which the stamp hashes
    Extras,      \* contents of the env files, which the stamp does not hash
    Contents,    \* the contents the stack's files go through
    Gone,        \* no containers; in the cache, nothing recorded
    MaxEvents    \* bound on users' changes and on failures

ASSUME DeployAssumption ==
    /\ Contents \subseteq [compose : Composes, extra : Extras]
    /\ Gone \notin Contents
    /\ MaxEvents \in Nat
    /\ Deploys \cap Detections = {}

VARIABLES
    files,   \* the stack's files
    docker,  \* what its containers were created from
    stamp,   \* status of the row of deployment_stamps, by compose content
    cache,   \* the row of stack_drift_cache
    at,      \* where each call is
    staged, bundle, hashes  \* locals: staged files, hash of the bundle as
                            \* read last, container hashes as read last

(* Bookkeeping that no code reads.                                         *)
VARIABLES
    lost,       \* compose contents whose deployment was cut short
    broughtUp,  \* compose contents docker compose brought up
    disturbed,  \* deployments that something else changed the stack during
    settled,    \* what happened since a deployment ended that nothing
                \* disturbed: nothing, edits of the files, or anything
    events      \* users' changes and failures so far

row == <<stamp, lost>>
locals == <<staged, bundle, hashes>>
vars == <<files, docker, stamp, cache, at, locals,
          lost, broughtUp, disturbed, settled, events>>

Calls == Deploys \cup Detections
State == Contents \cup {Gone}
Statuses == {"none", "pending", "failed", "success"}
DeployPlaces == {"check", "create", "up", "failed", "status", "bundle",
                 "hashes", "store"}
DetectionPlaces == {"bundle", "compare", "clear", "update", "cached", "actual",
                    "store"}

TypeOK ==
    /\ files \in Contents
    /\ docker \in State
    /\ stamp \in [Composes -> Statuses]
    /\ cache \in [bundle : State, docker : State]
    /\ at \in [Calls -> DeployPlaces \cup DetectionPlaces \cup {"idle"}]
    /\ \A d \in Deploys : at[d] \in DeployPlaces \cup {"idle"}
    /\ \A t \in Detections : at[t] \in DetectionPlaces \cup {"idle"}
    /\ staged \in [Deploys -> State]
    /\ \A d \in Deploys : at[d] # "idle" => staged[d] \in Contents
    /\ bundle \in [Calls -> State]
    /\ hashes \in [Calls -> State]
    /\ lost \subseteq Composes
    /\ broughtUp \subseteq Composes
    /\ disturbed \subseteq Deploys
    /\ settled \in {"nothing", "edits", "anything"}
    /\ events \in 0..MaxEvents

Init ==
    /\ files \in Contents
    /\ docker = Gone
    /\ stamp = [c \in Composes |-> "none"]
    /\ cache = [bundle |-> Gone, docker |-> Gone]
    /\ at = [p \in Calls |-> "idle"]
    /\ staged = [d \in Deploys |-> Gone]
    /\ bundle = [p \in Calls |-> Gone]
    /\ hashes = [p \in Calls |-> Gone]
    /\ lost = {} /\ broughtUp = {}
    /\ disturbed = {} /\ settled = "anything" /\ events = 0

Goto(p, place) == at' = [at EXCEPT ![p] = place]
Forget(p) == /\ bundle' = [bundle EXCEPT ![p] = Gone]
             /\ hashes' = [hashes EXCEPT ![p] = Gone]
Return(d) ==
    /\ Goto(d, "idle")
    /\ staged' = [staged EXCEPT ![d] = Gone]
    /\ disturbed' = disturbed \ {d}
    /\ Forget(d)
Event == events < MaxEvents /\ events' = events + 1
Running(d) == at[d] # "idle"
Active == {d \in Deploys : Running(d)}
Compose(d) == staged[d].compose

-----------------------------------------------------------------------------
(* A deployment.                                                           *)

(* Past the policy gate: stage a copy of the files.  Only a stream that is *)
(* not forced checks for a stamp.                                          *)
StageStackForCompose(d) ==
    /\ at[d] = "idle"
    /\ Goto(d, "check") \/ Goto(d, "create")
    /\ staged' = [staged EXCEPT ![d] = files]
    /\ disturbed' = IF Active = {} THEN {} ELSE Active \cup {d}
    /\ settled' = "anything"
    /\ UNCHANGED <<files, docker, row, cache, bundle, hashes, broughtUp,
                   events>>

(* The stream refuses a compose content that has a stamp, of any status,   *)
(* unless it is forced.  A query that fails counts as one that finds none. *)
CheckDeploymentStampExists(d) ==
    /\ at[d] = "check"
    /\ \/ /\ \/ stamp[Compose(d)] = "none" /\ UNCHANGED events
             \/ Event
          /\ Goto(d, "create")
          /\ UNCHANGED <<locals, disturbed>>
       \/ stamp[Compose(d)] # "none" /\ Return(d) /\ UNCHANGED events
    /\ UNCHANGED <<files, docker, row, cache, broughtUp, settled>>

(* Insert a pending row, or reuse as it is the one the unique constraint   *)
(* on (stack_id, deployment_hash) protects.                                *)
CreateDeploymentStamp(d) ==
    /\ at[d] = "create"
    /\ stamp' = IF stamp[Compose(d)] = "none"
                THEN [stamp EXCEPT ![Compose(d)] = "pending"] ELSE stamp
    /\ Goto(d, "up")
    /\ UNCHANGED <<files, docker, cache, locals, lost, broughtUp,
                   disturbed, settled, events>>

(* It succeeds with the staged files, whatever the current ones are.       *)
ComposeUp(d) ==
    /\ at[d] = "up"
    /\ docker' = staged[d]
    /\ broughtUp' = broughtUp \cup {Compose(d)}
    /\ Goto(d, "status")
    /\ UNCHANGED <<files, row, cache, locals, disturbed, settled, events>>

ComposeFails_Ignored(d) ==
    /\ at[d] = "up" /\ Event
    /\ docker' \in {docker, staged[d]}
    /\ Goto(d, "status")
    /\ UNCHANGED <<files, row, cache, locals, broughtUp, disturbed,
                   settled>>

(* It fails before or after it changed the containers.                     *)
ComposeFails(d) ==
    /\ at[d] = "up" /\ Event
    /\ docker' \in {docker, staged[d]}
    /\ Goto(d, "failed")
    /\ UNCHANGED <<files, row, cache, locals, broughtUp, disturbed,
                   settled>>

MarkFailed_Skipped(d) ==
    /\ at[d] = "failed"
    /\ Return(d)
    /\ UNCHANGED <<files, docker, row, cache, broughtUp, settled, events>>

MarkFailed(d) ==
    /\ at[d] = "failed"
    /\ stamp' = [stamp EXCEPT ![Compose(d)] = "failed"]
    /\ Return(d)
    /\ UNCHANGED <<files, docker, cache, lost, broughtUp, settled, events>>

(* An error here is only logged.                                           *)
MarkSuccess(d) ==
    /\ at[d] = "status"
    /\ \/ /\ stamp' = [stamp EXCEPT ![Compose(d)] = "success"]
          /\ UNCHANGED <<lost, events>>
       \/ Event /\ lost' = lost \cup {Compose(d)} /\ UNCHANGED stamp
    /\ Goto(d, "bundle")
    /\ UNCHANGED <<files, docker, cache, locals, broughtUp, disturbed,
                   settled>>

-----------------------------------------------------------------------------
(* onSuccessfulDeploymentImpl, the end of a deployment.                    *)

(* It stages the files again: the current ones.                            *)
ComputeCurrentBundleHash(d) ==
    /\ at[d] = "bundle"
    /\ bundle' = [bundle EXCEPT ![d] = files]
    /\ Goto(d, "hashes")
    /\ UNCHANGED <<files, docker, row, cache, staged, hashes, broughtUp,
                   disturbed, settled, events>>

GetActualDockerConfigHashes(d) ==
    /\ at[d] = "hashes"
    /\ hashes' = [hashes EXCEPT ![d] = docker]
    /\ Goto(d, "store")
    /\ UNCHANGED <<files, docker, row, cache, staged, bundle, broughtUp,
                   disturbed, settled, events>>

UpdateStackDriftCache_KeepsContainers(d) ==
    /\ at[d] = "store"
    /\ cache' = [cache EXCEPT !.bundle = bundle[d]]
    /\ Return(d)
    /\ settled' = IF d \notin disturbed /\ \A p \in Calls \ {d} : ~Running(p)
                  THEN "nothing" ELSE "anything"
    /\ UNCHANGED <<files, docker, row, broughtUp, events>>

UpdateStackDriftCache(d) ==
    /\ at[d] = "store"
    /\ cache' = [bundle |-> bundle[d], docker |-> hashes[d]]
    /\ Return(d)
    /\ settled' = IF d \notin disturbed /\ \A p \in Calls \ {d} : ~Running(p)
                  THEN "nothing" ELSE "anything"
    /\ UNCHANGED <<files, docker, row, broughtUp, events>>

(* The deployment ends without another write: its context is cancelled (a  *)
(* closed browser, the two minutes of Auto DevOps), the process dies, ssh  *)
(* is not set up, or a read fails.  Cancelled, docker compose is killed.   *)
Abandon(d) ==
    /\ Running(d) /\ Event
    /\ docker' \in {docker} \cup (IF at[d] = "up" THEN {staged[d]} ELSE {})
    /\ lost' = IF at[d] \in {"up", "failed", "status"}
               THEN lost \cup {Compose(d)} ELSE lost
    /\ Return(d)
    /\ UNCHANGED <<files, stamp, cache, broughtUp, settled>>

-----------------------------------------------------------------------------
(* detectDriftViaHashesImpl.                                               *)

StackUnchanged ==
    UNCHANGED <<files, docker, row, staged, broughtUp, disturbed>>
DetectionUnchanged == StackUnchanged /\ UNCHANGED <<settled, events>>
ReadFails == Event /\ settled' = "anything"
Answer(t) == Goto(t, "idle") /\ Forget(t)

DetectDrift(t) ==
    /\ at[t] = "idle"
    /\ Goto(t, "bundle")
    /\ DetectionUnchanged /\ UNCHANGED <<cache, bundle, hashes>>

ReadFiles(t) ==
    /\ at[t] = "bundle"
    /\ bundle' = [bundle EXCEPT ![t] = files]
    /\ Goto(t, "compare")
    /\ DetectionUnchanged /\ UNCHANGED <<cache, hashes>>

(* GetStoredBundleHash, and the comparison: a query that fails yields the  *)
(* empty hash, which differs from every bundle's.                          *)
GetStoredBundleHash(t) ==
    /\ at[t] = "compare"
    /\ \/ /\ Goto(t, IF bundle[t] = cache.bundle THEN "cached" ELSE "clear")
          /\ UNCHANGED <<settled, events>>
       \/ ReadFails /\ Goto(t, "clear")
    /\ StackUnchanged /\ UNCHANGED <<cache, bundle, hashes>>

ClearCachedDockerConfigHashes(t) ==
    /\ at[t] = "clear"
    /\ cache' = [cache EXCEPT !.docker = Gone]
    /\ Goto(t, "update")
    /\ DetectionUnchanged /\ UNCHANGED <<bundle, hashes>>

UpdateStoredBundleHash(t) ==
    /\ at[t] = "update"
    /\ cache' = [cache EXCEPT !.bundle = bundle[t]]
    /\ Answer(t)
    /\ DetectionUnchanged

(* A query that fails yields no hashes.                                    *)
GetCachedDockerConfigHashes(t) ==
    /\ at[t] = "cached"
    /\ \/ /\ hashes' = [hashes EXCEPT ![t] = cache.docker]
          /\ UNCHANGED <<settled, events>>
       \/ ReadFails /\ hashes' = [hashes EXCEPT ![t] = Gone]
    /\ Goto(t, "actual")
    /\ StackUnchanged /\ UNCHANGED <<cache, bundle>>

(* Compare the containers with the cached hashes.                          *)
HashMapsEqual(t) ==
    /\ at[t] = "actual"
    /\ \/ docker = hashes[t] /\ Answer(t)
       \/ /\ docker # hashes[t]
          /\ hashes' = [hashes EXCEPT ![t] = docker]
          /\ Goto(t, "store")
          /\ UNCHANGED bundle
    /\ DetectionUnchanged /\ UNCHANGED cache

StoreCachedDockerConfigHashes(t) ==
    /\ at[t] = "store"
    /\ cache' = [cache EXCEPT !.docker = hashes[t]]
    /\ Answer(t)
    /\ DetectionUnchanged

(* The daemon does not answer, staging or an update fails, or the request  *)
(* is cancelled: no drift.                                                 *)
UnableToVerify(t) ==
    /\ at[t] # "idle"
    /\ Answer(t)
    /\ DetectionUnchanged /\ UNCHANGED cache

-----------------------------------------------------------------------------
(* Users edit the files (so does a pull) and the containers at any time.   *)
EditFiles ==
    /\ Event
    /\ files' \in Contents \ {files}
    /\ disturbed' = disturbed \cup Active
    /\ settled' = IF settled = "nothing" THEN "edits" ELSE settled
    /\ UNCHANGED <<docker, row, cache, at, locals, broughtUp>>

ChangeContainers ==
    /\ Event
    /\ docker' \in State \ {docker}
    /\ disturbed' = disturbed \cup Active
    /\ settled' = "anything"
    /\ UNCHANGED <<files, row, cache, at, locals, broughtUp>>

-----------------------------------------------------------------------------
DeployStep(d) ==
    \/ StageStackForCompose(d) \/ CheckDeploymentStampExists(d)
    \/ CreateDeploymentStamp(d) \/ ComposeUp(d) \/ ComposeFails(d)
    \/ MarkFailed(d) \/ MarkSuccess(d) \/ ComputeCurrentBundleHash(d)
    \/ GetActualDockerConfigHashes(d) \/ UpdateStackDriftCache(d) \/ Abandon(d)

DetectionStep(t) ==
    \/ DetectDrift(t) \/ ReadFiles(t) \/ GetStoredBundleHash(t)
    \/ ClearCachedDockerConfigHashes(t) \/ UpdateStoredBundleHash(t)
    \/ GetCachedDockerConfigHashes(t) \/ HashMapsEqual(t)
    \/ StoreCachedDockerConfigHashes(t) \/ UnableToVerify(t)

(* What a detection tells its caller when it ends.                         *)
ReportsDrift(t) == UpdateStoredBundleHash(t) \/ StoreCachedDockerConfigHashes(t)
ReportsNoDrift(t) == HashMapsEqual(t) /\ at'[t] = "idle"

Next ==
    \/ \E d \in Deploys : DeployStep(d)
    \/ \E t \in Detections : DetectionStep(t)
    \/ EditFiles
    \/ ChangeContainers

Spec == Init /\ [][Next]_vars

-----------------------------------------------------------------------------
(* Properties.                                                             *)

(* Whatever deployments of one content do to the row they share, a pending *)
(* stamp belongs to a deployment that is still under way, unless one was   *)
(* cut short.                                                              *)
PendingIsUnderWay ==
    \A c \in Composes \ lost : stamp[c] = "pending" =>
        \E d \in Deploys : at[d] \in {"up", "failed", "status"} /\ Compose(d) = c

(* A stamp says success only of a content docker compose brought up.       *)
SuccessWasDeployed ==
    \A c \in Composes : stamp[c] = "success" => c \in broughtUp

(* After a deployment that nothing disturbed, and until something changes, *)
(* the containers run the files and the cache records both, also while and *)
(* after detections look at them.                                          *)
SettledMeansInSync ==
    settled = "nothing" =>
        docker = files /\ cache = [bundle |-> files, docker |-> docker]

(* Then a detection reports no drift.                                      *)
NoFalseAlarm ==
    [][\A t \in Detections : settled = "nothing" => ~ReportsDrift(t)]_vars

-----------------------------------------------------------------------------
(* The invariants the proofs of the above rest on.                         *)

BroughtUpBeforeStatus ==
    \A d \in Deploys : at[d] = "status" => Compose(d) \in broughtUp

(* How far a deployment that nothing disturbs has come.                    *)
Progress(d) ==
    /\ Active = {d}
    /\ staged[d] = files
    /\ at[d] \in {"status", "bundle", "hashes", "store"} => docker = files
    /\ at[d] \in {"hashes", "store"} => bundle[d] = files
    /\ at[d] = "store" => hashes[d] = files

(* What a detection that runs while everything is in sync has read.        *)
SeesNoDrift(t) ==
    /\ at[t] \notin {"clear", "update", "store"}
    /\ at[t] \in {"compare", "cached", "actual"} => bundle[t] = files
    /\ at[t] = "actual" => hashes[t] = files

InSyncInv ==
    /\ disturbed \subseteq Active
    /\ \A d \in Active \ disturbed : Progress(d)
    /\ settled = "nothing" =>
          /\ Active = {}
          /\ docker = files
          /\ cache = [bundle |-> files, docker |-> files]
          /\ \A t \in Detections : SeesNoDrift(t)

-----------------------------------------------------------------------------
(* What the documentation promises beyond that.                            *)

(* "No drift detected" means that everything matches the expected state:   *)
(* the files edited after a deployment differ from it until they are       *)
(* deployed themselves.                                                    *)
NoDriftMeansInSync ==
    [][\A t \in Detections :
          (ReportsNoDrift(t) /\ settled = "edits" /\ bundle[t] = files)
              => docker = files]_vars
=============================================================================
