----------------------------- MODULE Containers -----------------------------
(***************************************************************************)
(* The table containers for one host: scans copy what the Docker daemon    *)
(* runs into it (ScanHostContainers, api/services/scan_docker.go), and     *)
(* after a deployment its stamp is written into the rows of its containers *)
(* (associateByProjectInspect, api/services/deploy.go).                    *)
(*                                                                         *)
(* A scan lists the containers, inspects and upserts one after the other,  *)
(* and deletes the rows of those that were not on its list.  The timer of  *)
(* the host, the pass at start, and requests each run scans; nothing keeps *)
(* them from overlapping.  One action is one request to Docker or one      *)
(* statement.                                                              *)
(***************************************************************************)
EXTENDS Naturals, FiniteSets

CONSTANTS
    Containers,    \* container ids, none of which Docker uses twice
    Existing,      \* those that are there before the first scan
    Loops,         \* the host's timer, which scans again and again
    Requests,      \* other callers of ScanHostContainers
    Deploys,       \* deployments of the host's stack
    NoStamp,       \* a row without a stamp
    MaxChanges,    \* bound on what happens to containers and to the stack
    MaxFaults,     \* bound on failures, timeouts and restarts
    Tries          \* attempts at an association

Scans == Loops \cup Requests

ASSUME ContainersAssumption ==
    /\ Existing \in SUBSET Containers
    /\ NoStamp \notin Deploys
    /\ MaxChanges \in Nat /\ MaxFaults \in Nat /\ Tries \in Nat \ {0}

VARIABLES
    life,       \* Docker: which containers there are
    version,    \* Docker: the state each is in
    changes,    \* how often either has changed
    rows,       \* the containers that have a row
    state,      \* the version its name, image, state and status are from
    details,    \* the version its ports, labels, networks, ... are from
    grouped,    \* whether it has the stack_id of the container's project
    stamp,      \* its deployment_stamp_id
    at,         \* where each scan is
    list,       \* the containers it listed
    said,       \* the version of each the list is from
    todo,       \* those it has not come to
    current,    \* the one it inspected
    seen,       \* what that said
    overtaken,  \* whether another scan has listed since it did
    place,      \* where each deployment's association is
    listed,     \* the containers it found
    left,       \* those it has not come to
    failed,     \* whether a statement failed
    try,        \* attempts that failed
    stamps,     \* the rows of deployment_stamps: the deployments' stamps
    faults      \* failures so far

docker == <<life, version, changes>>
table == <<rows, state, details, grouped, stamp>>
scans == <<at, list, said, todo, current, seen, overtaken>>
associations == <<place, listed, left, failed, try, stamps>>
vars == <<docker, table, scans, associations, faults>>

ScanPlaces == {"idle", "inspect", "upsert"}
Inspection == [version : 0..MaxChanges, stack : BOOLEAN]
Stamps == Deploys \cup {NoStamp}

TypeOK ==
    /\ life \in [Containers -> {"unborn", "up", "gone"}]
    /\ changes \in 0..MaxChanges
    /\ version \in [Containers -> 0..changes]
    /\ rows \in SUBSET Containers
    /\ state \in [Containers -> 0..MaxChanges]
    /\ details \in [Containers -> 0..MaxChanges]
    /\ grouped \in [Containers -> BOOLEAN]
    /\ stamp \in [Containers -> Stamps]
    /\ at \in [Scans -> ScanPlaces]
    /\ list \in [Scans -> SUBSET Containers]
    /\ said \in [Scans -> [Containers -> 0..MaxChanges]]
    /\ todo \in [Scans -> SUBSET Containers]
    /\ current \in [Scans -> SUBSET Containers]
    /\ seen \in [Scans -> Inspection]
    /\ overtaken \in [Scans -> BOOLEAN]
    /\ place \in [Deploys -> {"none", "list", "update", "over"}]
    /\ listed \in [Deploys -> SUBSET Containers]
    /\ left \in [Deploys -> SUBSET Containers]
    /\ failed \in [Deploys -> BOOLEAN]
    /\ try \in [Deploys -> 0..Tries]
    /\ stamps \in SUBSET Deploys
    /\ faults \in 0..MaxFaults

Blank == [version |-> 0, stack |-> FALSE]

Init ==
    /\ life = [c \in Containers |-> IF c \in Existing THEN "up" ELSE "unborn"]
    /\ version = [c \in Containers |-> 0]
    /\ changes = 0
    /\ rows = {}
    /\ state = [c \in Containers |-> 0]
    /\ details = [c \in Containers |-> 0]
    /\ grouped = [c \in Containers |-> FALSE]
    /\ stamp = [c \in Containers |-> NoStamp]
    /\ at = [s \in Scans |-> "idle"]
    /\ list = [s \in Scans |-> {}]
    /\ said = [s \in Scans |-> [c \in Containers |-> 0]]
    /\ todo = [s \in Scans |-> {}]
    /\ current = [s \in Scans |-> {}]
    /\ seen = [s \in Scans |-> Blank]
    /\ overtaken = [s \in Scans |-> FALSE]
    /\ place = [d \in Deploys |-> "none"]
    /\ listed = [d \in Deploys |-> {}]
    /\ left = [d \in Deploys |-> {}]
    /\ failed = [d \in Deploys |-> FALSE]
    /\ try = [d \in Deploys |-> 0]
    /\ stamps = {}
    /\ faults = 0

Up == {c \in Containers : life[c] = "up"}
Fault == faults < MaxFaults /\ faults' = faults + 1
Goto(s, p) == at' = [at EXCEPT ![s] = p]
Running(s) == at[s] # "idle"

-----------------------------------------------------------------------------
(* The daemon: containers come, change and go, by deployments or by hand.  *)

Event == changes < MaxChanges /\ changes' = changes + 1

Create(c) ==
    /\ life[c] = "unborn" /\ Event
    /\ life' = [life EXCEPT ![c] = "up"]
    /\ UNCHANGED <<version, table, scans, associations, faults>>

Change(c) ==
    /\ life[c] = "up" /\ Event
    /\ version' = [version EXCEPT ![c] = @ + 1]
    /\ UNCHANGED <<life, table, scans, associations, faults>>

Remove(c) ==
    /\ life[c] = "up" /\ Event
    /\ life' = [life EXCEPT ![c] = "gone"]
    /\ UNCHANGED <<version, table, scans, associations, faults>>

-----------------------------------------------------------------------------
(* A scan.                                                                 *)

(* The end of a scan, its local variables forgotten.                       *)
Finish(s) ==
    /\ Goto(s, "idle")
    /\ list' = [list EXCEPT ![s] = {}]
    /\ said' = [said EXCEPT ![s] = [c \in Containers |-> 0]]
    /\ todo' = [todo EXCEPT ![s] = {}]
    /\ current' = [current EXCEPT ![s] = {}]
    /\ seen' = [seen EXCEPT ![s] = Blank]
    /\ overtaken' = [overtaken EXCEPT ![s] = FALSE]

(* The timer fires, or somebody asks.  Running or not, every container is  *)
(* on the list.                                                            *)
ContainerList(s) ==
    /\ at[s] = "idle"
    /\ list' = [list EXCEPT ![s] = Up]
    /\ said' = [said EXCEPT ![s] = version]
    /\ todo' = [todo EXCEPT ![s] = Up]
    /\ overtaken' = [t \in Scans |-> overtaken[t] \/ (t # s /\ Running(t))]
    /\ Goto(s, "inspect")
    /\ UNCHANGED <<docker, table, current, seen, associations, faults>>

(* Inspect one, and make sure there is a stack for its project.            *)
ContainerInspect(s) ==
    /\ at[s] = "inspect"
    /\ \E c \in todo[s] :
          /\ life[c] = "up"
          /\ current' = [current EXCEPT ![s] = {c}]
          /\ todo' = [todo EXCEPT ![s] = @ \ {c}]
          /\ \/ /\ seen' = [seen EXCEPT ![s] = [version |-> version[c], stack |-> TRUE]]
                /\ UNCHANGED faults
             \/ /\ seen' = [seen EXCEPT ![s] = [version |-> version[c], stack |-> FALSE]]
                /\ Fault
    /\ Goto(s, "upsert")
    /\ UNCHANGED <<docker, table, list, said, overtaken, associations>>

(* It is gone, or Docker does not answer: on to the next.                  *)
InspectFails(s) ==
    /\ at[s] = "inspect"
    /\ \E c \in todo[s] :
          /\ todo' = [todo EXCEPT ![s] = @ \ {c}]
          /\ \/ life[c] = "gone" /\ UNCHANGED faults
             \/ Fault
    /\ UNCHANGED <<docker, table, at, list, said, current, seen, overtaken, associations>>

(* Mutants: the row is replaced; a row that is there gets the state only.   *)
Write_Replaces(s, c) ==
    /\ rows' = rows \cup {c}
    /\ state' = [state EXCEPT ![c] = said[s][c]]
    /\ details' = [details EXCEPT ![c] = seen[s].version]
    /\ grouped' = [grouped EXCEPT ![c] = seen[s].stack]
    /\ stamp' = [stamp EXCEPT ![c] = NoStamp]

Write_StateOnly(s, c) ==
    /\ rows' = rows \cup {c}
    /\ state' = [state EXCEPT ![c] = said[s][c]]
    /\ details' = IF c \in rows THEN details
                  ELSE [details EXCEPT ![c] = seen[s].version]
    /\ grouped' = [grouped EXCEPT ![c] = seen[s].stack]
    /\ UNCHANGED stamp

(* What an upsert writes of what the scan knows; the stamp is kept.         *)
Write(s, c) ==
    /\ rows' = rows \cup {c}
    /\ state' = [state EXCEPT ![c] = said[s][c]]
    /\ details' = [details EXCEPT ![c] = seen[s].version]
    /\ grouped' = [grouped EXCEPT ![c] = seen[s].stack]
    /\ UNCHANGED stamp

(* Insert or update its row.  An update keeps the stamp.                   *)
UpsertContainer(s) ==
    /\ at[s] = "upsert"
    /\ \E c \in current[s] :
          \/ Write(s, c) /\ UNCHANGED faults
          \/ Fault /\ UNCHANGED table
    /\ Goto(s, "inspect")
    /\ current' = [current EXCEPT ![s] = {}]
    /\ seen' = [seen EXCEPT ![s] = Blank]
    /\ UNCHANGED <<docker, list, said, todo, overtaken, associations>>

(* DELETE the rows of the containers that are not in K.                    *)
Keep(K) ==
    /\ rows' = rows \cap K
    /\ state' = [c \in Containers |-> IF c \in K THEN state[c] ELSE 0]
    /\ details' = [c \in Containers |-> IF c \in K THEN details[c] ELSE 0]
    /\ grouped' = [c \in Containers |-> c \in K /\ grouped[c]]
    /\ stamp' = [c \in Containers |-> IF c \in K THEN stamp[c] ELSE NoStamp]

(* Mutant: an empty list prunes nothing.                                   *)
PruneMissingContainers_NonEmpty(s) ==
    /\ at[s] = "inspect" /\ todo[s] = {}
    /\ IF list[s] = {} THEN UNCHANGED table ELSE Keep(list[s])
    /\ UNCHANGED faults
    /\ Finish(s)
    /\ UNCHANGED <<docker, associations>>

PruneMissingContainers(s) ==
    /\ at[s] = "inspect" /\ todo[s] = {}
    /\ \/ Keep(list[s]) /\ UNCHANGED faults
       \/ Fault /\ UNCHANGED table
    /\ Finish(s)
    /\ UNCHANGED <<docker, associations>>

(* The caller's context ends: nothing the scan still tries succeeds.  The   *)
(* timer gives it none that ends.                                          *)
Abandon(s) ==
    /\ s \in Requests /\ Running(s)
    /\ Fault
    /\ Finish(s)
    /\ UNCHANGED <<docker, table, associations>>

-----------------------------------------------------------------------------
(* The association of a deployment's containers with its stamp.            *)

(* The deployment has its stamp and docker compose up has succeeded: the   *)
(* goroutine starts.                                                       *)
Deployed(d) ==
    /\ place[d] = "none"
    /\ place' = [place EXCEPT ![d] = "list"]
    /\ stamps' = stamps \cup {d}
    /\ UNCHANGED <<docker, table, scans, listed, left, failed, try, faults>>

(* The goroutine is over; its locals are forgotten.                        *)
Leave(d) ==
    /\ place' = [place EXCEPT ![d] = "over"]
    /\ listed' = [listed EXCEPT ![d] = {}]
    /\ left' = [left EXCEPT ![d] = {}]
    /\ failed' = [failed EXCEPT ![d] = FALSE]
    /\ try' = [try EXCEPT ![d] = 0]

(* An attempt that returns an error: sleep and try again, or give up.      *)
Retry(d) ==
    \/ /\ try[d] + 1 < Tries
       /\ place' = [place EXCEPT ![d] = "list"]
       /\ listed' = [listed EXCEPT ![d] = {}]
       /\ left' = [left EXCEPT ![d] = {}]
       /\ failed' = [failed EXCEPT ![d] = FALSE]
       /\ try' = [try EXCEPT ![d] = @ + 1]
    \/ try[d] + 1 = Tries /\ Leave(d)

(* List the project's containers; none is an error.                        *)
AssociateList(d) ==
    /\ place[d] = "list"
    /\ \/ /\ Up # {}
          /\ listed' = [listed EXCEPT ![d] = Up]
          /\ left' = [left EXCEPT ![d] = Up]
          /\ place' = [place EXCEPT ![d] = "update"]
          /\ UNCHANGED <<failed, try, faults>>
       \/ Up = {} /\ Retry(d) /\ UNCHANGED faults
       \/ Fault /\ Retry(d)
    /\ UNCHANGED <<docker, table, scans, stamps>>

(* The UPDATE for one of them.  Without a row it changes nothing, and that *)
(* is no error; a stamp that is no longer there is refused.                *)
AssociateContainerWithStamp(d) ==
    /\ place[d] = "update"
    /\ \E c \in left[d] :
          /\ left' = [left EXCEPT ![d] = @ \ {c}]
          /\ \/ /\ c \in rows => d \in stamps
                /\ stamp' = IF c \in rows THEN [stamp EXCEPT ![c] = d] ELSE stamp
                /\ UNCHANGED <<failed, faults>>
             \/ /\ \/ c \in rows /\ d \notin stamps /\ UNCHANGED faults
                   \/ Fault
                /\ failed' = [failed EXCEPT ![d] = TRUE]
                /\ UNCHANGED stamp
    /\ UNCHANGED <<docker, rows, state, details, grouped, scans, place, listed, try,
                   stamps>>

AssociationReturns(d) ==
    /\ place[d] = "update" /\ left[d] = {}
    /\ \/ failed[d] /\ Retry(d)
       \/ ~failed[d] /\ Leave(d)
    /\ UNCHANGED <<docker, table, scans, faults, stamps>>

(* The stack loses its row, to a request or to the prune of an IaC scan,   *)
(* and with it its stamps; what refers to them is set to NULL.             *)
DeleteStack ==
    /\ stamps # {} /\ Event
    /\ stamps' = {}
    /\ stamp' = [c \in Containers |-> NoStamp]
    /\ UNCHANGED <<life, version, rows, state, details, grouped, scans,
                   place, listed, left, failed, try, faults>>

-----------------------------------------------------------------------------
(* The process restarts.                                                   *)
Restart ==
    /\ Fault
    /\ at' = [s \in Scans |-> "idle"]
    /\ list' = [s \in Scans |-> {}]
    /\ said' = [s \in Scans |-> [c \in Containers |-> 0]]
    /\ todo' = [s \in Scans |-> {}]
    /\ current' = [s \in Scans |-> {}]
    /\ seen' = [s \in Scans |-> Blank]
    /\ overtaken' = [s \in Scans |-> FALSE]
    /\ place' = [d \in Deploys |-> IF place[d] \in {"list", "update"} THEN "over"
                                   ELSE place[d]]
    /\ listed' = [d \in Deploys |-> {}]
    /\ left' = [d \in Deploys |-> {}]
    /\ failed' = [d \in Deploys |-> FALSE]
    /\ try' = [d \in Deploys |-> 0]
    /\ UNCHANGED <<docker, table, stamps>>

ScanStep(s) ==
    \/ ContainerInspect(s) \/ InspectFails(s)
    \/ UpsertContainer(s) \/ PruneMissingContainers(s)

AssociationStep(d) ==
    \/ Deployed(d) \/ AssociateList(d)
    \/ AssociateContainerWithStamp(d) \/ AssociationReturns(d)

Next ==
    \/ \E c \in Containers : Create(c) \/ Change(c) \/ Remove(c)
    \/ \E s \in Scans : ContainerList(s) \/ ScanStep(s) \/ Abandon(s)
    \/ \E d \in Deploys : AssociationStep(d)
    \/ DeleteStack
    \/ Restart

Spec == Init /\ [][Next]_vars

(* Docker and the database answer, and the timer fires again after each    *)
(* scan.  Requests need not come.                                          *)
Fairness ==
    /\ \A s \in Scans : WF_vars(ScanStep(s))
    /\ \A s \in Loops : WF_vars(ContainerList(s))
FairSpec == Spec /\ Fairness

-----------------------------------------------------------------------------
(* Properties.                                                             *)

(* A row shows a container that Docker really had, in states it really     *)
(* had; what it takes from the inspection is never older than what it      *)
(* takes from the list, whichever of overlapping scans wrote it.           *)
RowsAreReal ==
    \A c \in rows :
        /\ life[c] # "unborn"
        /\ state[c] <= details[c] /\ details[c] <= version[c]

(* The row of a container that is still there stays, but for one thing:    *)
(* the prune of a scan that another scan has overtaken.  Its stamp stays   *)
(* with it, as long as there is such a stamp: a stack that is deleted      *)
(* takes its stamps along, from the rows of containers that live on too.   *)
OvertakenPrune == \E s \in Scans : overtaken[s] /\ at[s] = "inspect" /\ at'[s] = "idle"
LiveRowsStay ==
    [][\A c \in rows : life[c] = "up" =>
          \/ OvertakenPrune
          \/ c \in rows' /\ (stamp[c] \in stamps' => stamp'[c] # NoStamp)]_vars

(* Once Docker is left alone, the table comes to show exactly what it      *)
(* runs, whatever scans overlapped or failed before.                       *)
Mirrors ==
    /\ rows = Up
    /\ \A c \in rows : state[c] = version[c] /\ details[c] = version[c] /\ grouped[c]
Converges == <>[]Mirrors

(* What Converges rests on: once Docker is left alone, no scan runs and    *)
(* none fails, the first scan to end, of those that then begin and may     *)
(* overlap, makes the table show what Docker runs, whatever earlier scans  *)
(* left in it; and no scan after that undoes it, whatever associations do. *)
NoScan == \A s \in Scans : ~Running(s)
QuietNext ==
    \/ \E s \in Scans : (ContainerList(s) \/ ScanStep(s)) /\ UNCHANGED faults
    \/ \E d \in Deploys : AssociationStep(d)
FirstScanMirrors ==
    [](NoScan /\ [][QuietNext]_vars =>
         [][(\E s \in Scans : Running(s) /\ ~Running(s)') \/ Mirrors => Mirrors']_vars)

-----------------------------------------------------------------------------
(* What the comment on associateByProjectInspect says: it stamps all the   *)
(* project's containers.  It does not hold for one that no scan has stored *)
(* yet, and no run checks it.                                              *)
AssociatedMeansStamped ==
    \A d \in Deploys :
        place[d] = "update" /\ left[d] = {} /\ ~failed[d] =>
            \A c \in listed[d] : life[c] = "up" => stamp[c] # NoStamp
=============================================================================
