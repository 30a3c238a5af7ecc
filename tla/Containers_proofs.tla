------------------------- MODULE Containers_proofs -------------------------
(***************************************************************************)
(* Proofs about Containers, for any number of containers, scans and        *)
(* deployments, and any number of changes and failures: types, that a row  *)
(* shows what Docker really had, that a scan which no other overtook       *)
(* deletes no row of a container that is still there, and that the first   *)
(* scan of a quiet time makes the table show what Docker runs.             *)
(***************************************************************************)
EXTENDS Containers, TLAPS

(* A scan's local variables are those of one pass over its list.           *)
Local(s) ==
    /\ at[s] = "idle" => list[s] = {}
    /\ todo[s] \subseteq list[s]
    /\ current[s] \subseteq list[s]

(* What has a row or is on a list was created.                             *)
Born ==
    /\ \A c \in rows : life[c] # "unborn"
    /\ \A s \in Scans : \A c \in list[s] : life[c] # "unborn"

(* What a scan that was not overtaken may come to delete: neither a row of *)
(* a container that is there, nor one that another scan is yet to write.   *)
Fresh(s) == Running(s) /\ ~overtaken[s]
Covers(s) ==
    /\ \A c \in rows : life[c] = "up" => c \in list[s]
    /\ \A t \in Scans : \A c \in list[t] : life[c] = "up" => c \in list[s]

IInv ==
    /\ TypeOK
    /\ \A s \in Scans : Local(s)
    /\ Born
    /\ \A s \in Scans : Fresh(s) => Covers(s)

(* The versions a scan holds and a row shows come in the order in which    *)
(* they were read.                                                         *)
InOrder(s) ==
    /\ \A c \in Containers : said[s][c] <= version[c]
    /\ \A c \in current[s] :
          said[s][c] <= seen[s].version /\ seen[s].version <= version[c]

RealInv == (\A s \in Scans : InOrder(s)) /\ RowsAreReal

-----------------------------------------------------------------------------
(* Typing.                                                                 *)

LEMMA TypeInit == Init => TypeOK
    BY ContainersAssumption
    DEF Init, TypeOK, ScanPlaces, Inspection, Stamps, Blank

LEMMA FaultType == ASSUME TypeOK, Fault PROVE faults' \in 0..MaxFaults
    BY ContainersAssumption DEF TypeOK, Fault

LEMMA DaemonType ==
    ASSUME TypeOK, NEW c \in Containers, Create(c) \/ Change(c) \/ Remove(c)
    PROVE  TypeOK'
<1> USE DEF TypeOK, table, scans, associations
<1>1. changes' \in 0..MaxChanges /\ changes' = changes + 1
    BY ContainersAssumption DEF Create, Change, Remove, Event
<1>2. version' \in [Containers -> 0..changes']
  <2>1. CASE UNCHANGED version
    BY <1>1, <2>1
  <2>2. CASE Change(c)
    BY <1>1, <2>2 DEF Change
  <2> QED
    BY <2>1, <2>2 DEF Create, Remove
<1>3. life' \in [Containers -> {"unborn", "up", "gone"}]
    BY DEF Create, Change, Remove
<1> QED
    BY <1>1, <1>2, <1>3 DEF Create, Change, Remove

TableType ==
    /\ rows \in SUBSET Containers
    /\ state \in [Containers -> 0..MaxChanges]
    /\ details \in [Containers -> 0..MaxChanges]
    /\ grouped \in [Containers -> BOOLEAN]
    /\ stamp \in [Containers -> Stamps]

LEMMA FinishType ==
    ASSUME TypeOK, NEW s \in Scans, Finish(s)
    PROVE  /\ at' \in [Scans -> ScanPlaces]
           /\ list' \in [Scans -> SUBSET Containers]
           /\ said' \in [Scans -> [Containers -> 0..MaxChanges]]
           /\ todo' \in [Scans -> SUBSET Containers]
           /\ current' \in [Scans -> SUBSET Containers]
           /\ seen' \in [Scans -> Inspection]
           /\ overtaken' \in [Scans -> BOOLEAN]
<1>1. Blank \in Inspection
    BY ContainersAssumption DEF Blank, Inspection
<1>2. [c \in Containers |-> 0] \in [Containers -> 0..MaxChanges]
    BY ContainersAssumption
<1> QED
    BY <1>1, <1>2 DEF TypeOK, Finish, Goto, ScanPlaces

LEMMA ScanType ==
    ASSUME TypeOK, NEW s \in Scans, ContainerList(s) \/ ScanStep(s) \/ Abandon(s)
    PROVE  TypeOK'
<1> USE DEF docker, table, associations
<1>1. CASE ContainerList(s)
  <2>1. version \in [Containers -> 0..MaxChanges]
    BY ContainersAssumption DEF TypeOK
  <2> QED
    BY <1>1, <2>1 DEF ContainerList, TypeOK, Goto, ScanPlaces, Up, Running
<1>2. CASE ContainerInspect(s)
  <2>1. seen' \in [Scans -> Inspection] /\ faults' \in 0..MaxFaults
    <3>1. \A c \in Containers, b \in BOOLEAN :
              [version |-> version[c], stack |-> b] \in Inspection
      BY ContainersAssumption DEF TypeOK, Inspection
    <3>2. \E c \in Containers, b \in BOOLEAN :
              seen' = [seen EXCEPT ![s] = [version |-> version[c], stack |-> b]]
      BY <1>2 DEF ContainerInspect, TypeOK
    <3>3. faults' \in 0..MaxFaults
      BY <1>2, FaultType DEF ContainerInspect, TypeOK
    <3> QED
      BY <3>1, <3>2, <3>3 DEF TypeOK
  <2> QED
    BY <1>2, <2>1 DEF ContainerInspect, TypeOK, Goto, ScanPlaces
<1>3. CASE InspectFails(s)
  <2>1. faults' \in 0..MaxFaults
    BY <1>3, FaultType DEF InspectFails, TypeOK
  <2> QED
    BY <1>3, <2>1 DEF InspectFails, TypeOK
<1>4. CASE UpsertContainer(s)
  <2>1. TableType' /\ faults' \in 0..MaxFaults
    <3>1. ASSUME NEW c \in Containers, Write(s, c), UNCHANGED faults
          PROVE  TableType' /\ faults' \in 0..MaxFaults
      <4>1. seen[s].version \in 0..MaxChanges /\ seen[s].stack \in BOOLEAN
        BY DEF TypeOK, Inspection
      <4>2. said[s][c] \in 0..MaxChanges
        BY <3>1 DEF TypeOK
      <4> QED
        BY <3>1, <4>1, <4>2 DEF Write, TypeOK, TableType
    <3>2. CASE Fault /\ UNCHANGED table
      BY <3>2, FaultType DEF TypeOK, TableType
    <3>3. PICK c \in Containers : \/ Write(s, c) /\ UNCHANGED faults
                                  \/ Fault /\ UNCHANGED table
      <4>1. current[s] \in SUBSET Containers
        BY DEF TypeOK
      <4>2. \E c \in current[s] : \/ Write(s, c) /\ UNCHANGED faults
                                  \/ Fault /\ UNCHANGED table
        BY <1>4 DEF UpsertContainer
      <4> QED
        BY <4>1, <4>2
    <3> QED
      BY <3>1, <3>2, <3>3
  <2>2. seen' \in [Scans -> Inspection]
    BY <1>4, ContainersAssumption
    DEF UpsertContainer, TypeOK, Blank, Inspection
  <2> QED
    BY <1>4, <2>1, <2>2 DEF UpsertContainer, TypeOK, TableType, Goto, ScanPlaces
<1>5. CASE PruneMissingContainers(s)
  <2>1. TableType' /\ faults' \in 0..MaxFaults
    <3>1. CASE Keep(list[s]) /\ UNCHANGED faults
      BY <3>1, ContainersAssumption DEF Keep, TypeOK, TableType, Stamps
    <3>2. CASE Fault /\ UNCHANGED table
      BY <3>2, FaultType DEF TypeOK, TableType
    <3> QED
      BY <1>5, <3>1, <3>2 DEF PruneMissingContainers
  <2>2. Finish(s)
    BY <1>5 DEF PruneMissingContainers
  <2> QED
    BY <1>5, <2>1, <2>2, FinishType DEF PruneMissingContainers, TypeOK, TableType
<1>6. CASE Abandon(s)
  <2>1. Finish(s) /\ faults' \in 0..MaxFaults
    BY <1>6, FaultType DEF Abandon
  <2> QED
    BY <1>6, <2>1, FinishType DEF Abandon, TypeOK
<1> QED
    BY <1>1, <1>2, <1>3, <1>4, <1>5, <1>6 DEF ScanStep

(* The end of an attempt, whether it is the last or not.                   *)
LEMMA AttemptType ==
    ASSUME TypeOK, NEW d \in Deploys, Retry(d) \/ Leave(d)
    PROVE  /\ place' \in [Deploys -> {"none", "list", "update", "over"}]
           /\ listed' \in [Deploys -> SUBSET Containers]
           /\ left' \in [Deploys -> SUBSET Containers]
           /\ failed' \in [Deploys -> BOOLEAN]
           /\ try' \in [Deploys -> 0..Tries]
<1>1. CASE Leave(d)
    BY <1>1, ContainersAssumption DEF Leave, TypeOK
<1>2. CASE Retry(d) /\ ~Leave(d)
  <2>1. try[d] + 1 \in 0..Tries
    BY <1>2, ContainersAssumption DEF Retry, TypeOK
  <2>2. try' = [try EXCEPT ![d] = try[d] + 1]
    BY <1>2 DEF Retry
  <2>3. try' \in [Deploys -> 0..Tries]
    BY <2>1, <2>2 DEF TypeOK
  <2> QED
    BY <1>2, <2>3 DEF Retry, TypeOK
<1> QED
    BY <1>1, <1>2

LEMMA AssociationType ==
    ASSUME TypeOK, NEW d \in Deploys, AssociationStep(d)
    PROVE  TypeOK'
<1> USE DEF docker, table, scans
<1>1. CASE Deployed(d)
    BY <1>1 DEF Deployed, TypeOK
<1>2. CASE AssociateList(d)
  <2>1. CASE Retry(d)
    <3>1. faults' \in 0..MaxFaults
      BY <1>2, FaultType DEF AssociateList, TypeOK
    <3> QED
      BY <1>2, <2>1, <3>1, AttemptType DEF AssociateList, TypeOK
  <2>2. CASE ~Retry(d)
    <3>1. Up \in SUBSET Containers
      BY DEF Up
    <3>2. /\ listed' = [listed EXCEPT ![d] = Up]
          /\ left' = [left EXCEPT ![d] = Up]
          /\ place' = [place EXCEPT ![d] = "update"]
          /\ UNCHANGED <<docker, table, scans, failed, try, faults, stamps>>
      BY <1>2, <2>2 DEF AssociateList
    <3> HIDE DEF Up
    <3> QED
      BY <3>1, <3>2 DEF TypeOK
  <2> QED
    BY <2>1, <2>2
<1>3. CASE AssociateContainerWithStamp(d)
  <2>1. faults' \in 0..MaxFaults
    BY <1>3, FaultType DEF AssociateContainerWithStamp, TypeOK
  <2>2. stamp' \in [Containers -> Stamps]
    BY <1>3 DEF AssociateContainerWithStamp, TypeOK, Stamps
  <2>3. left' \in [Deploys -> SUBSET Containers]
    BY <1>3 DEF AssociateContainerWithStamp, TypeOK
  <2>4. failed' \in [Deploys -> BOOLEAN]
    BY <1>3 DEF AssociateContainerWithStamp, TypeOK
  <2>5. UNCHANGED <<docker, rows, state, details, grouped, scans, place, listed, try,
                stamps>>
    BY <1>3 DEF AssociateContainerWithStamp
  <2> QED
    BY <2>1, <2>2, <2>3, <2>4, <2>5 DEF TypeOK
<1>4. CASE AssociationReturns(d)
  <2>1. Retry(d) \/ Leave(d)
    BY <1>4 DEF AssociationReturns
  <2> QED
    BY <1>4, <2>1, AttemptType DEF AssociationReturns, TypeOK
<1> QED
    BY <1>1, <1>2, <1>3, <1>4 DEF AssociationStep

LEMMA RestartType == ASSUME TypeOK, Restart PROVE TypeOK'
<1>1. Blank \in Inspection
    BY ContainersAssumption DEF Blank, Inspection
<1>2. faults' \in 0..MaxFaults
    BY FaultType DEF Restart
<1>3. said' \in [Scans -> [Containers -> 0..MaxChanges]]
    BY ContainersAssumption DEF Restart
<1>4. place' \in [Deploys -> {"none", "list", "update", "over"}]
    BY DEF Restart, TypeOK
<1> QED
    BY <1>1, <1>2, <1>3, <1>4, ContainersAssumption
    DEF Restart, TypeOK, ScanPlaces, docker, table

LEMMA DeleteType == ASSUME TypeOK, DeleteStack PROVE TypeOK'
<1>1. changes' \in 0..MaxChanges /\ changes' = changes + 1
    BY ContainersAssumption DEF DeleteStack, Event, TypeOK
<1>2. version' \in [Containers -> 0..changes']
    BY <1>1 DEF DeleteStack, TypeOK
<1>3. stamps' \in SUBSET Deploys /\ stamp' \in [Containers -> Stamps]
    BY DEF DeleteStack, Stamps
<1> QED
    BY <1>1, <1>2, <1>3 DEF DeleteStack, scans, TypeOK

LEMMA TypeNext == TypeOK /\ [Next]_vars => TypeOK'
<1> SUFFICES ASSUME TypeOK, [Next]_vars PROVE TypeOK'
    OBVIOUS
<1>1. CASE UNCHANGED vars
    BY <1>1 DEF vars, docker, table, scans, associations, TypeOK
<1> QED
    BY <1>1, DaemonType, ScanType, AssociationType, RestartType, DeleteType DEF Next

(* Every variable keeps its type: versions never run ahead of the changes  *)
(* counted, and an association never makes more attempts than it may.      *)
THEOREM TypeCorrect == Spec => []TypeOK
    BY TypeInit, TypeNext, PTL DEF Spec

-----------------------------------------------------------------------------
(* What scans may delete.  Most steps are quiet: they add neither a row    *)
(* nor a member of a list, and no scan becomes fresh in them.              *)

Quiet ==
    /\ \A c \in Containers : life[c] # "unborn" =>
          life'[c] # "unborn" /\ (life'[c] = "up" => life[c] = "up")
    /\ rows' \subseteq rows
    /\ \A t \in Scans :
          /\ list'[t] \subseteq list[t]
          /\ Fresh(t)' => Fresh(t) /\ list'[t] = list[t]

LEMMA QuietKeeps ==
    ASSUME IInv, Quiet
    PROVE  Born' /\ \A s \in Scans : Fresh(s)' => Covers(s)'
<1>1. /\ rows \in SUBSET Containers
      /\ \A s \in Scans : list[s] \in SUBSET Containers
    BY DEF IInv, TypeOK
<1>2. Born'
    BY <1>1 DEF IInv, Born, Quiet
<1>3. ASSUME NEW s \in Scans, Fresh(s)' PROVE Covers(s)'
  <2>1. Covers(s) /\ list'[s] = list[s]
    BY <1>3 DEF IInv, Quiet
  <2>2. ASSUME NEW c \in rows', life'[c] = "up" PROVE c \in list'[s]
    BY <1>1, <2>1, <2>2 DEF IInv, Born, Quiet, Covers
  <2>3. ASSUME NEW t \in Scans, NEW c \in list'[t], life'[c] = "up"
        PROVE  c \in list'[s]
    BY <1>1, <2>1, <2>3 DEF IInv, Born, Quiet, Covers
  <2> QED
    BY <2>2, <2>3 DEF Covers
<1> QED
    BY <1>2, <1>3

LEMMA FinishQuiet ==
    ASSUME TypeOK, NEW s \in Scans, Finish(s), UNCHANGED life, rows' \subseteq rows
    PROVE  Quiet
<1>1. at' = [at EXCEPT ![s] = "idle"] /\ list' = [list EXCEPT ![s] = {}]
    BY DEF Finish, Goto
<1>2. overtaken' = [overtaken EXCEPT ![s] = FALSE]
    BY DEF Finish
<1>3. ASSUME NEW t \in Scans
      PROVE  /\ list'[t] \subseteq list[t]
             /\ Fresh(t)' => Fresh(t) /\ list'[t] = list[t]
  <2>1. CASE t = s
    BY <1>1, <2>1 DEF TypeOK, Fresh, Running
  <2>2. CASE t # s
    BY <1>1, <1>2, <2>2 DEF TypeOK, Fresh, Running
  <2> QED
    BY <2>1, <2>2
<1> QED
    BY <1>3 DEF Quiet

(* The steps of a scan that are quiet.                                     *)
LEMMA ScanQuiet ==
    ASSUME TypeOK, NEW s \in Scans,
           \/ ContainerInspect(s) \/ InspectFails(s)
           \/ PruneMissingContainers(s) \/ Abandon(s)
           \/ UpsertContainer(s) /\ rows' \subseteq rows
    PROVE  Quiet
<1> USE DEF docker, table
<1>1. CASE ContainerInspect(s) \/ (UpsertContainer(s) /\ rows' \subseteq rows)
  <2>1. Running(s)
    BY <1>1 DEF ContainerInspect, UpsertContainer, Running
  <2>2. /\ UNCHANGED <<life, list, overtaken>> /\ rows' \subseteq rows
        /\ at' = [at EXCEPT ![s] = IF at[s] = "inspect" THEN "upsert" ELSE "inspect"]
    BY <1>1 DEF ContainerInspect, UpsertContainer, Goto
  <2>3. \A t \in Scans : Fresh(t)' => Fresh(t)
    BY <2>1, <2>2 DEF TypeOK, Fresh, Running
  <2> QED
    BY <2>2, <2>3 DEF Quiet
<1>2. CASE InspectFails(s)
    BY <1>2 DEF InspectFails, Quiet, Fresh, Running
<1>3. CASE PruneMissingContainers(s)
  <2>1. rows' \subseteq rows
    BY <1>3 DEF PruneMissingContainers, Keep
  <2> QED
    BY <1>3, <2>1, FinishQuiet DEF PruneMissingContainers
<1>4. CASE Abandon(s)
    BY <1>4, FinishQuiet DEF Abandon
<1> QED
    BY <1>1, <1>2, <1>3, <1>4

LEMMA OthersQuiet ==
    ASSUME TypeOK,
           \/ \E c \in Containers : Create(c) \/ Change(c) \/ Remove(c)
           \/ \E d \in Deploys : AssociationStep(d)
           \/ DeleteStack
           \/ Restart
           \/ UNCHANGED vars
    PROVE  Quiet
<1> USE DEF table, scans, docker
<1>1. CASE \E c \in Containers : Create(c) \/ Change(c) \/ Remove(c)
  <2> PICK c \in Containers : Create(c) \/ Change(c) \/ Remove(c)
    BY <1>1
  <2>1. UNCHANGED <<rows, at, list, overtaken>>
    BY DEF Create, Change, Remove
  <2>2. \A b \in Containers : life[b] # "unborn" =>
            life'[b] # "unborn" /\ (life'[b] = "up" => life[b] = "up")
    BY DEF Create, Change, Remove, TypeOK
  <2> QED
    BY <2>1, <2>2 DEF Quiet, Fresh, Running
<1>2. CASE \E d \in Deploys : AssociationStep(d)
  <2>1. UNCHANGED <<life, rows, at, list, overtaken>>
    BY <1>2 DEF AssociationStep, Deployed, AssociateList,
               AssociateContainerWithStamp, AssociationReturns
  <2> QED
    BY <2>1 DEF Quiet, Fresh, Running
<1>3. CASE DeleteStack \/ Restart
    BY <1>3 DEF DeleteStack, Restart, Quiet, Fresh, Running
<1>4. CASE UNCHANGED vars
    BY <1>4 DEF vars, Quiet, Fresh, Running
<1> QED
    BY <1>1, <1>2, <1>3, <1>4

(* A new list holds whatever is there; every other scan is overtaken.      *)
LEMMA ListKeeps ==
    ASSUME IInv, NEW s \in Scans, ContainerList(s)
    PROVE  Born' /\ \A t \in Scans : Fresh(t)' => Covers(t)'
<1>1. /\ UNCHANGED <<life, rows>>
      /\ list' = [list EXCEPT ![s] = Up]
      /\ at' = [at EXCEPT ![s] = "inspect"]
      /\ overtaken' = [t \in Scans |-> overtaken[t] \/ (t # s /\ Running(t))]
    BY DEF ContainerList, Goto, docker, table
<1>2. /\ \A t \in Scans : list[t] \in SUBSET Containers
      /\ list \in [Scans -> SUBSET Containers]
      /\ at \in [Scans -> ScanPlaces] /\ rows \in SUBSET Containers
    BY DEF IInv, TypeOK
<1>3. \A t \in Scans : list'[t] = IF t = s THEN Up ELSE list[t]
    BY <1>1, <1>2
<1>4. Born'
    BY <1>1, <1>3 DEF IInv, Born, Up
<1>5. ASSUME NEW t \in Scans, Fresh(t)' PROVE t = s
    BY <1>1, <1>2, <1>5 DEF Fresh, Running
<1>6. Covers(s)'
    BY <1>1, <1>2, <1>3 DEF Covers, Up
<1> QED
    BY <1>4, <1>5, <1>6

(* A row that a scan writes was on its list, so on that of a fresh scan.   *)
LEMMA WriteKeeps ==
    ASSUME IInv, NEW s \in Scans, UpsertContainer(s), ~(rows' \subseteq rows)
    PROVE  Born' /\ \A t \in Scans : Fresh(t)' => Covers(t)'
<1>1. PICK c \in current[s] : rows' = rows \cup {c}
    BY DEF UpsertContainer, Write, table
<1>2. c \in list[s]
    BY DEF IInv, Local
<1>3. /\ UNCHANGED <<life, list, overtaken>>
      /\ at[s] = "upsert" /\ at' = [at EXCEPT ![s] = "inspect"]
    BY DEF UpsertContainer, docker, Goto
<1>4. ASSUME NEW t \in Scans, Fresh(t)' PROVE Fresh(t)
    BY <1>3, <1>4 DEF IInv, TypeOK, Fresh, Running
<1>5. Born'
    BY <1>1, <1>2, <1>3 DEF IInv, Born
<1>6. ASSUME NEW t \in Scans, Fresh(t)' PROVE Covers(t)'
  <2>1. Covers(t)
    BY <1>4, <1>6 DEF IInv
  <2> QED
    BY <1>1, <1>2, <1>3, <2>1 DEF Covers
<1> QED
    BY <1>5, <1>6

LEMMA LocalNext ==
    ASSUME TypeOK, \A s \in Scans : Local(s), [Next]_vars, NEW t \in Scans
    PROVE  Local(t)'
<1> USE DEF Local
<1>1. CASE UNCHANGED scans
    BY <1>1 DEF scans
<1>2. CASE Restart
    BY <1>2 DEF Restart
<1>3. ASSUME NEW s \in Scans, ContainerList(s) \/ ScanStep(s) \/ Abandon(s)
      PROVE  Local(t)'
  <2>1. CASE t # s
    <3>1. /\ at'[t] = at[t] /\ list'[t] = list[t]
          /\ todo'[t] = todo[t] /\ current'[t] = current[t]
      BY <1>3, <2>1
      DEF TypeOK, ContainerList, ScanStep, ContainerInspect, InspectFails,
          UpsertContainer, PruneMissingContainers, Abandon, Finish, Goto
    <3> QED
      BY <3>1
  <2>2. CASE t = s
    <3>1. CASE ContainerList(s)
      BY <2>2, <3>1 DEF TypeOK, ContainerList, Goto
    <3>2. CASE ContainerInspect(s)
      BY <2>2, <3>2 DEF TypeOK, ContainerInspect, Goto
    <3>3. CASE InspectFails(s)
      BY <2>2, <3>3 DEF TypeOK, InspectFails
    <3>4. CASE UpsertContainer(s)
      BY <2>2, <3>4 DEF TypeOK, UpsertContainer, Goto
    <3>5. CASE PruneMissingContainers(s) \/ Abandon(s)
      BY <2>2, <3>5
      DEF TypeOK, PruneMissingContainers, Abandon, Finish, Goto
    <3> QED
      BY <1>3, <3>1, <3>2, <3>3, <3>4, <3>5 DEF ScanStep
  <2> QED
    BY <2>1, <2>2
<1>4. CASE \E c \in Containers : Create(c) \/ Change(c) \/ Remove(c)
    BY <1>1, <1>4 DEF Create, Change, Remove
<1>5. CASE \E d \in Deploys : AssociationStep(d)
    BY <1>1, <1>5 DEF AssociationStep, Deployed, AssociateList,
                     AssociateContainerWithStamp, AssociationReturns
<1>6. CASE UNCHANGED vars
    BY <1>1, <1>6 DEF vars
<1>7. CASE DeleteStack
    BY <1>1, <1>7 DEF DeleteStack
<1> QED
    BY <1>2, <1>3, <1>4, <1>5, <1>6, <1>7 DEF Next

LEMMA IInvInit == Init => IInv
    BY TypeInit DEF Init, IInv, Local, Born, Fresh, Covers, Running

LEMMA IInvNext == IInv /\ [Next]_vars => IInv'
<1> SUFFICES ASSUME IInv, [Next]_vars PROVE IInv'
    OBVIOUS
<1>1. TypeOK' /\ \A s \in Scans : Local(s)'
    BY TypeNext, LocalNext DEF IInv
<1>2. Born' /\ \A s \in Scans : Fresh(s)' => Covers(s)'
  <2>1. CASE \E s \in Scans : ContainerList(s)
    BY <2>1, ListKeeps
  <2>2. CASE \E s \in Scans : UpsertContainer(s) /\ ~(rows' \subseteq rows)
    BY <2>2, WriteKeeps
  <2>3. CASE \E s \in Scans :
                \/ ContainerInspect(s) \/ InspectFails(s)
                \/ PruneMissingContainers(s) \/ Abandon(s)
                \/ UpsertContainer(s) /\ rows' \subseteq rows
    BY <2>3, ScanQuiet, QuietKeeps DEF IInv
  <2>4. CASE \/ \E c \in Containers : Create(c) \/ Change(c) \/ Remove(c)
             \/ \E d \in Deploys : AssociationStep(d)
             \/ DeleteStack
             \/ Restart
             \/ UNCHANGED vars
    BY <2>4, OthersQuiet, QuietKeeps DEF IInv
  <2> QED
    BY <2>1, <2>2, <2>3, <2>4 DEF Next, ScanStep
<1> QED
    BY <1>1, <1>2 DEF IInv

LEMMA Inductive == Spec => []IInv
    BY IInvInit, IInvNext, PTL DEF Spec

(* Only a prune, of the rows not on its list, takes a row or its stamp.    *)
LEMMA RowsStep ==
    ASSUME IInv, [Next]_vars, NEW c \in rows, life[c] = "up"
    PROVE  \/ OvertakenPrune
           \/ c \in rows' /\ (stamp[c] \in stamps' => stamp'[c] # NoStamp)
<1> DEFINE Stays == c \in rows' /\ (stamp[c] \in stamps' => stamp'[c] # NoStamp)
<1>1. c \in Containers
    BY DEF IInv, TypeOK
<1>2. CASE UNCHANGED <<rows, stamp>>
  <2>1. stamps' \in SUBSET Deploys
    BY TypeNext DEF IInv, TypeOK
  <2> QED
    BY <1>2, <2>1, ContainersAssumption
<1>3. ASSUME NEW s \in Scans, UpsertContainer(s) PROVE Stays
  <2>1. rows \subseteq rows' /\ stamp' = stamp
    BY <1>3 DEF UpsertContainer, Write, table
  <2>2. stamps' \in SUBSET Deploys
    BY TypeNext DEF IInv, TypeOK
  <2> QED
    BY <2>1, <2>2, ContainersAssumption
<1>4. ASSUME NEW s \in Scans, PruneMissingContainers(s)
      PROVE  OvertakenPrune \/ Stays
  <2>1. CASE overtaken[s]
    <3>1. at[s] = "inspect" /\ at'[s] = "idle"
      BY <1>4 DEF PruneMissingContainers, Finish, Goto, IInv, TypeOK
    <3> QED
      BY <2>1, <3>1 DEF OvertakenPrune
  <2>2. CASE ~overtaken[s]
    <3>1. c \in list[s]
      <4>1. Fresh(s)
        BY <1>4, <2>2 DEF PruneMissingContainers, Fresh, Running
      <4> QED
        BY <4>1 DEF IInv, Covers
    <3>2. c \in rows' /\ stamp'[c] = stamp[c]
      BY <1>1, <1>4, <3>1 DEF PruneMissingContainers, Keep, table
    <3>3. stamps' \in SUBSET Deploys
      BY TypeNext DEF IInv, TypeOK
    <3> QED
      BY <3>2, <3>3, ContainersAssumption
  <2> QED
    BY <2>1, <2>2
<1>5. ASSUME NEW d \in Deploys, AssociateContainerWithStamp(d) PROVE Stays
  <2>1. UNCHANGED rows
    BY <1>5 DEF AssociateContainerWithStamp
  <2>2. stamp'[c] = stamp[c] \/ stamp'[c] = d
    BY <1>1, <1>5 DEF AssociateContainerWithStamp, IInv, TypeOK
  <2>3. stamps' \in SUBSET Deploys
    BY TypeNext DEF IInv, TypeOK
  <2> QED
    BY <2>1, <2>2, <2>3, ContainersAssumption
<1>6. CASE UNCHANGED vars
    BY <1>2, <1>6 DEF vars, table
<1>7. CASE \E b \in Containers : Create(b) \/ Change(b) \/ Remove(b)
    BY <1>2, <1>7 DEF Create, Change, Remove, table
<1>8. CASE \E s \in Scans : \/ ContainerList(s) \/ ContainerInspect(s)
                            \/ InspectFails(s) \/ Abandon(s)
    BY <1>2, <1>8 DEF ContainerList, ContainerInspect, InspectFails, Abandon, table
<1>9. CASE \E d \in Deploys : \/ Deployed(d) \/ AssociateList(d)
                              \/ AssociationReturns(d)
    BY <1>2, <1>9 DEF Deployed, AssociateList, AssociationReturns, table
<1>10. CASE Restart
    BY <1>2, <1>10 DEF Restart, table
<1>11. CASE DeleteStack
    BY <1>11 DEF DeleteStack
<1> QED
    BY <1>3, <1>4, <1>5, <1>6, <1>7, <1>8, <1>9, <1>10, <1>11
    DEF Next, ScanStep, AssociationStep

(* The row of a container that is there can be lost to one thing only: the *)
(* prune of a scan that another scan overtook; and the row's stamp to that *)
(* or to the deletion of the stamp itself with its stack.                  *)
THEOREM OnlyOvertakenPrunes == Spec => LiveRowsStay
<1>1. IInv /\ [Next]_vars =>
        [\A c \in rows : life[c] = "up" =>
            \/ OvertakenPrune
            \/ c \in rows' /\ (stamp[c] \in stamps' => stamp'[c] # NoStamp)]_vars
    BY RowsStep
<1> QED
    BY <1>1, Inductive, PTL DEF Spec, LiveRowsStay

-----------------------------------------------------------------------------
(* What rows show.                                                         *)

(* Most steps add no row and leave scans with what they read, or nothing.  *)
Keeps ==
    /\ \A c \in Containers : version[c] <= version'[c]
    /\ \A c \in rows' : /\ c \in rows
                        /\ state'[c] = state[c] /\ details'[c] = details[c]
    /\ \A s \in Scans :
          \/ said'[s] = said[s] /\ seen'[s] = seen[s] /\ current'[s] \subseteq current[s]
          \/ said'[s] = [c \in Containers |-> 0] /\ current'[s] = {}

LEMMA KeepsOrder ==
    ASSUME TypeOK, TypeOK', Born', RealInv, Keeps
    PROVE  RealInv'
<1>1. \A c \in Containers : version[c] \in Nat /\ version'[c] \in Nat
    BY DEF TypeOK
<1>2. \A c \in Containers : state[c] \in Nat /\ details[c] \in Nat
    BY DEF TypeOK
<1>3. RowsAreReal'
    BY <1>1, <1>2 DEF TypeOK, Born, RealInv, RowsAreReal, Keeps
<1>4. ASSUME NEW s \in Scans PROVE InOrder(s)'
  <2>1. /\ \A c \in Containers : said[s][c] \in Nat
        /\ seen[s].version \in Nat /\ current[s] \in SUBSET Containers
    BY DEF TypeOK, Inspection
  <2>2. InOrder(s)
    BY DEF RealInv
  <2>3. CASE /\ said'[s] = said[s] /\ seen'[s] = seen[s]
             /\ current'[s] \subseteq current[s]
    BY <1>1, <2>1, <2>2, <2>3 DEF InOrder, Keeps
  <2>4. CASE said'[s] = [c \in Containers |-> 0] /\ current'[s] = {}
    BY <1>1, <2>4 DEF InOrder
  <2> QED
    BY <2>3, <2>4 DEF Keeps
<1> QED
    BY <1>3, <1>4 DEF RealInv

LEMMA FinishKeeps ==
    ASSUME TypeOK, NEW s \in Scans, Finish(s), UNCHANGED version,
           \/ UNCHANGED table
           \/ \E K \in SUBSET Containers : Keep(K)
    PROVE  Keeps
<1>1. \A c \in Containers : version[c] <= version'[c]
    BY DEF TypeOK
<1>2. \A c \in rows' : c \in rows /\ state'[c] = state[c] /\ details'[c] = details[c]
    BY DEF TypeOK, table, Keep
<1> QED
    BY <1>1, <1>2 DEF TypeOK, Finish, Keeps

LEMMA MostKeep ==
    ASSUME TypeOK,
           \/ \E c \in Containers : Create(c) \/ Change(c) \/ Remove(c)
           \/ \E s \in Scans : \/ InspectFails(s) \/ Abandon(s)
                               \/ PruneMissingContainers(s)
           \/ \E d \in Deploys : AssociationStep(d)
           \/ DeleteStack
           \/ Restart
           \/ UNCHANGED vars
    PROVE  Keeps
<1>1. \A c \in Containers : version[c] <= version[c] /\ version[c] <= version[c] + 1
    BY DEF TypeOK
<1>2. ASSUME UNCHANGED <<rows, state, details, said, seen, current>>,
             \A c \in Containers : version[c] <= version'[c]
      PROVE  Keeps
    BY <1>2 DEF Keeps
<1>3. ASSUME NEW c \in Containers, Create(c) \/ Change(c) \/ Remove(c) PROVE Keeps
  <2>1. UNCHANGED version \/ version' = [version EXCEPT ![c] = @ + 1]
    BY <1>3 DEF Create, Change, Remove
  <2>2. \A b \in Containers : version[b] <= version'[b]
    BY <1>1, <2>1 DEF TypeOK
  <2> QED
    BY <1>2, <1>3, <2>2 DEF Create, Change, Remove, table, scans
<1>4. ASSUME NEW s \in Scans, InspectFails(s) PROVE Keeps
    BY <1>1, <1>2, <1>4 DEF InspectFails, docker, table
<1>5. ASSUME NEW s \in Scans, Abandon(s) PROVE Keeps
    BY <1>5, FinishKeeps DEF Abandon, docker
<1>6. ASSUME NEW s \in Scans, PruneMissingContainers(s) PROVE Keeps
  <2>1. list[s] \in SUBSET Containers
    BY DEF TypeOK
  <2> QED
    BY <1>6, <2>1, FinishKeeps DEF PruneMissingContainers, docker
<1>7. ASSUME NEW d \in Deploys, AssociationStep(d) PROVE Keeps
    BY <1>1, <1>2, <1>7
    DEF AssociationStep, Deployed, AssociateList, AssociateContainerWithStamp,
        AssociationReturns, docker, table, scans
<1>8. CASE Restart
    BY <1>1, <1>8 DEF Restart, Keeps, docker, table
<1>9. CASE UNCHANGED vars
    BY <1>1, <1>2, <1>9 DEF vars, docker, table, scans
<1>10. CASE DeleteStack
    BY <1>1, <1>2, <1>10 DEF DeleteStack, scans
<1> QED
    BY <1>3, <1>4, <1>5, <1>6, <1>7, <1>8, <1>9, <1>10

(* A list says what is; an inspection comes after the list, and what it    *)
(* says may be newer.                                                      *)
LEMMA ReadsInOrder ==
    ASSUME IInv, RealInv, NEW s \in Scans, ContainerList(s) \/ ContainerInspect(s)
    PROVE  RealInv'
<1> USE DEF IInv
<1>1. UNCHANGED <<life, version, rows, state, details>>
    BY DEF ContainerList, ContainerInspect, docker, table
<1>2. RowsAreReal'
    BY <1>1 DEF RealInv, RowsAreReal
<1>3. \A c \in Containers : version[c] \in Nat
    BY DEF TypeOK
<1>4. ASSUME NEW t \in Scans PROVE InOrder(t)'
  <2>1. InOrder(t)
    BY DEF RealInv
  <2>2. CASE t # s
    <3>1. said'[t] = said[t] /\ current'[t] = current[t] /\ seen'[t] = seen[t]
      BY <2>2 DEF TypeOK, ContainerList, ContainerInspect
    <3> QED
      BY <1>1, <2>1, <3>1 DEF InOrder
  <2>3. CASE t = s /\ ContainerList(s)
    <3>1. said'[t] = version /\ current'[t] = {}
      BY <2>3 DEF TypeOK, ContainerList, Local
    <3> QED
      BY <1>1, <1>3, <3>1 DEF InOrder
  <2>4. CASE t = s /\ ContainerInspect(s)
    <3>1. PICK c \in todo[s] :
              /\ current' = [current EXCEPT ![s] = {c}]
              /\ \E b \in BOOLEAN :
                    seen' = [seen EXCEPT ![s] = [version |-> version[c], stack |-> b]]
      BY <2>4 DEF ContainerInspect
    <3>2. current'[t] = {c} /\ seen'[t].version = version[c]
      BY <2>4, <3>1 DEF TypeOK
    <3>3. c \in Containers /\ said'[t] = said[t]
      BY <2>4 DEF TypeOK, ContainerInspect
    <3> QED
      BY <1>1, <1>3, <2>1, <3>2, <3>3 DEF InOrder
  <2> QED
    BY <2>2, <2>3, <2>4
<1> QED
    BY <1>2, <1>4 DEF RealInv

LEMMA WritesInOrder ==
    ASSUME IInv, RealInv, NEW s \in Scans, UpsertContainer(s)
    PROVE  RealInv'
<1>1. /\ UNCHANGED <<life, version, said>>
      /\ current' = [current EXCEPT ![s] = {}]
      /\ seen' = [seen EXCEPT ![s] = Blank]
    BY DEF UpsertContainer, docker
<1>2. ASSUME NEW t \in Scans PROVE InOrder(t)'
  <2>1. InOrder(t)
    BY DEF RealInv
  <2>2. CASE t = s
    BY <1>1, <2>1, <2>2 DEF IInv, TypeOK, InOrder
  <2>3. CASE t # s
    BY <1>1, <2>1, <2>3 DEF IInv, TypeOK, InOrder
  <2> QED
    BY <2>2, <2>3
<1>3. RowsAreReal'
  <2>1. ASSUME NEW c \in current[s], Write(s, c) PROVE RowsAreReal'
    <3>1. c \in Containers /\ life[c] # "unborn"
      BY DEF IInv, TypeOK, Local, Born
    <3>2. /\ state' = [state EXCEPT ![c] = said[s][c]]
          /\ details' = [details EXCEPT ![c] = seen[s].version]
          /\ rows' = rows \cup {c}
      BY <2>1 DEF Write
    <3>3. said[s][c] <= seen[s].version /\ seen[s].version <= version[c]
      BY DEF RealInv, InOrder
    <3> QED
      BY <1>1, <3>1, <3>2, <3>3 DEF IInv, TypeOK, RealInv, RowsAreReal
  <2>2. CASE UNCHANGED table
    BY <1>1, <2>2 DEF table, RealInv, RowsAreReal
  <2> QED
    BY <2>1, <2>2 DEF UpsertContainer
<1> QED
    BY <1>2, <1>3 DEF RealInv

LEMMA RealInit == Init => RealInv
    BY ContainersAssumption
    DEF Init, RealInv, InOrder, RowsAreReal

LEMMA RealNext == IInv /\ IInv' /\ RealInv /\ [Next]_vars => RealInv'
<1> SUFFICES ASSUME IInv, IInv', RealInv, [Next]_vars PROVE RealInv'
    OBVIOUS
<1>1. CASE \E s \in Scans : ContainerList(s) \/ ContainerInspect(s)
    BY <1>1, ReadsInOrder
<1>2. CASE \E s \in Scans : UpsertContainer(s)
    BY <1>2, WritesInOrder
<1>3. CASE \/ \E c \in Containers : Create(c) \/ Change(c) \/ Remove(c)
           \/ \E s \in Scans : \/ InspectFails(s) \/ Abandon(s)
                               \/ PruneMissingContainers(s)
           \/ \E d \in Deploys : AssociationStep(d)
           \/ DeleteStack
           \/ Restart
           \/ UNCHANGED vars
    BY <1>3, MostKeep, KeepsOrder DEF IInv
<1> QED
    BY <1>1, <1>2, <1>3 DEF Next, ScanStep

(* Whatever scans overlap, fail or are cut short, a row shows a container  *)
(* that Docker had, in states it had, the inspected one not the older.     *)
THEOREM RealRows == Spec => []RowsAreReal
<1>1. RealInv => RowsAreReal
    BY DEF RealInv
<1> QED
    BY <1>1, RealInit, RealNext, Inductive, PTL DEF Spec

-----------------------------------------------------------------------------
(* The first scan after everything has come to rest repairs the table.     *)

(* A row that shows all there is to show.                                  *)
Right(c) == c \in rows /\ state[c] = version[c] /\ details[c] = version[c] /\ grouped[c]

(* What a scan that began at rest knows, and what it has done so far.      *)
Repairs(s) ==
    /\ current[s] \subseteq list[s] /\ todo[s] \subseteq list[s]
    /\ at[s] = "idle" => list[s] = {}
    /\ at[s] # "upsert" => current[s] = {}
    /\ \A b, c \in current[s] : b = c
    /\ Running(s) =>
          /\ list[s] = Up
          /\ \A c \in Up : said[s][c] = version[c]
          /\ \A c \in current[s] : seen[s] = [version |-> version[c], stack |-> TRUE]
          /\ \A c \in Up : c \in todo[s] \/ c \in current[s] \/ Right(c)
RepairInv == TypeOK /\ \A s \in Scans : Repairs(s)

LEMMA RestRepairs == IInv /\ NoScan => RepairInv
    BY DEF IInv, RepairInv, Local, NoScan, Running, Repairs

(* What no step of a quiet time undoes.                                    *)
Stays ==
    /\ UNCHANGED docker
    /\ \A c \in Up : Right(c) => Right(c)'
    /\ rows' \subseteq rows \cup Up

LEMMA StaysRepairs ==
    ASSUME RepairInv, Stays, NEW t \in Scans,
           /\ at'[t] = at[t] /\ list'[t] = list[t] /\ said'[t] = said[t]
           /\ todo'[t] = todo[t] /\ current'[t] = current[t] /\ seen'[t] = seen[t]
    PROVE  Repairs(t)'
<1>1. Repairs(t) /\ Up' = Up
    BY DEF RepairInv, Stays, Up, docker
<1> QED
    BY <1>1 DEF Stays, docker, Repairs, Running

LEMMA ScanRepairs ==
    ASSUME RepairInv, NEW s \in Scans, ContainerList(s) \/ ScanStep(s), UNCHANGED faults
    PROVE  Stays /\ Repairs(s)'
<1>1. TypeOK /\ Repairs(s) /\ ~Fault
  <2>1. faults \in Nat
      BY ContainersAssumption DEF RepairInv, TypeOK
  <2> QED
      BY <2>1 DEF RepairInv, Fault
<1>2. UNCHANGED docker /\ Up' = Up
    BY DEF ContainerList, ScanStep, ContainerInspect, InspectFails, UpsertContainer,
           PruneMissingContainers, docker, Up
<1>3. ASSUME UNCHANGED table PROVE Stays /\ \A c \in Up : Right(c)' <=> Right(c)
    BY <1>2, <1>3 DEF Stays, table, Right, docker
<1>4. CASE ContainerList(s)
  <2>1. /\ list'[s] = Up /\ said'[s] = version /\ todo'[s] = Up
        /\ at'[s] = "inspect" /\ current'[s] = {}
      BY <1>1, <1>4 DEF ContainerList, Goto, TypeOK, Repairs
  <2>2. UNCHANGED table
      BY <1>4 DEF ContainerList
  <2> QED
      BY <1>2, <1>3, <2>1, <2>2 DEF Repairs, Running, docker
<1>5. CASE ContainerInspect(s)
  <2>1. PICK c \in todo[s] :
          /\ current' = [current EXCEPT ![s] = {c}]
          /\ todo' = [todo EXCEPT ![s] = @ \ {c}]
          /\ seen' = [seen EXCEPT ![s] = [version |-> version[c], stack |-> TRUE]]
      BY <1>1, <1>5 DEF ContainerInspect
  <2>2. /\ at[s] = "inspect" /\ at' = [at EXCEPT ![s] = "upsert"]
        /\ UNCHANGED <<table, list, said>>
      BY <1>5 DEF ContainerInspect, Goto
  <2>3. /\ current'[s] = {c} /\ todo'[s] = todo[s] \ {c} /\ at'[s] = "upsert"
        /\ seen'[s] = [version |-> version[c], stack |-> TRUE]
      BY <1>1, <2>1, <2>2 DEF TypeOK
  <2> QED
      BY <1>1, <1>2, <1>3, <2>2, <2>3 DEF Repairs, Running, docker
<1>6. CASE InspectFails(s)
  <2>1. \E c \in todo[s] : life[c] = "gone"
      BY <1>1, <1>6 DEF InspectFails
  <2>2. todo[s] \subseteq Up
      BY <1>1, <1>6 DEF InspectFails, Repairs, Running
  <2> QED
      BY <2>1, <2>2 DEF Up
<1>7. CASE UpsertContainer(s)
  <2>1. PICK c \in current[s] : Write(s, c)
      BY <1>1, <1>7 DEF UpsertContainer
  <2>2. /\ at[s] = "upsert" /\ at' = [at EXCEPT ![s] = "inspect"]
        /\ current' = [current EXCEPT ![s] = {}]
        /\ UNCHANGED <<list, said, todo>>
      BY <1>7 DEF UpsertContainer, Goto
  <2>3. /\ c \in Up /\ c \in Containers /\ list[s] = Up
        /\ said[s][c] = version[c]
        /\ seen[s] = [version |-> version[c], stack |-> TRUE]
      BY <1>1, <2>1, <2>2 DEF Repairs, Running, Up
  <2>4. /\ rows' = rows \cup {c}
        /\ state' = [state EXCEPT ![c] = version[c]]
        /\ details' = [details EXCEPT ![c] = version[c]]
        /\ grouped' = [grouped EXCEPT ![c] = TRUE]
      BY <2>1, <2>3 DEF Write
  <2>5. \A b \in Up : b = c \/ Right(b) => Right(b)'
      BY <1>1, <1>2, <2>3, <2>4 DEF Right, docker, TypeOK, Up
  <2>6. Stays
      BY <1>2, <2>3, <2>4, <2>5 DEF Stays
  <2>7. at'[s] = "inspect" /\ current'[s] = {}
      BY <1>1, <2>2 DEF TypeOK
  <2>8. \A b \in Up : b \in current[s] => b = c
      BY <1>1, <2>1 DEF Repairs
  <2> QED
      BY <1>1, <1>2, <2>2, <2>5, <2>6, <2>7, <2>8 DEF Repairs, Running, docker
<1>8. CASE PruneMissingContainers(s)
  <2>1. /\ at[s] = "inspect" /\ todo[s] = {} /\ Keep(list[s]) /\ Finish(s)
      BY <1>1, <1>8 DEF PruneMissingContainers
  <2>2. list[s] = Up
      BY <1>1, <2>1 DEF Repairs, Running
  <2>3. Stays
      BY <1>2, <2>1, <2>2 DEF Stays, Keep, Right, docker, Up
  <2>4. at'[s] = "idle" /\ list'[s] = {} /\ todo'[s] = {} /\ current'[s] = {}
      BY <1>1, <2>1 DEF Finish, Goto, TypeOK
  <2> QED
      BY <2>3, <2>4 DEF Repairs, Running
<1> QED
    BY <1>4, <1>5, <1>6, <1>7, <1>8 DEF ScanStep

LEMMA OthersRepair ==
    ASSUME RepairInv, NEW s \in Scans, ContainerList(s) \/ ScanStep(s), Stays,
           NEW t \in Scans \ {s}
    PROVE  Repairs(t)' /\ at'[t] = at[t]
<1>1. /\ at'[t] = at[t] /\ list'[t] = list[t] /\ said'[t] = said[t]
      /\ todo'[t] = todo[t] /\ current'[t] = current[t] /\ seen'[t] = seen[t]
    BY DEF RepairInv, TypeOK, ContainerList, ScanStep, ContainerInspect, InspectFails,
           UpsertContainer, PruneMissingContainers, Finish, Goto
<1> QED
    BY <1>1, StaysRepairs

LEMMA IdleStays ==
    ASSUME (\E d \in Deploys : AssociationStep(d)) \/ UNCHANGED vars
    PROVE  Stays /\ UNCHANGED scans
<1>1. UNCHANGED <<docker, rows, state, details, grouped, scans>>
    BY DEF AssociationStep, Deployed, AssociateList, AssociateContainerWithStamp,
           AssociationReturns, vars, table
<1> QED
    BY <1>1 DEF Stays, Right, docker

LEMMA QuietNextStays ==
    ASSUME RepairInv, [QuietNext]_vars PROVE RepairInv' /\ Stays
<1>1. [Next]_vars
    BY DEF QuietNext, Next
<1>2. TypeOK'
    BY <1>1, TypeNext DEF RepairInv
<1>3. ASSUME NEW s \in Scans, ContainerList(s) \/ ScanStep(s), UNCHANGED faults
      PROVE  RepairInv' /\ Stays
  <2>1. Stays /\ Repairs(s)'
      BY <1>3, ScanRepairs
  <2>2. \A t \in Scans \ {s} : Repairs(t)'
      BY <1>3, <2>1, OthersRepair
  <2> QED
      BY <1>2, <2>1, <2>2 DEF RepairInv
<1>4. CASE (\E d \in Deploys : AssociationStep(d)) \/ UNCHANGED vars
  <2>1. Stays /\ UNCHANGED scans
      BY <1>4, IdleStays
  <2>2. \A t \in Scans : Repairs(t)'
      BY <2>1, StaysRepairs DEF scans
  <2> QED
      BY <1>2, <2>1, <2>2 DEF RepairInv
<1> QED
    BY <1>3, <1>4 DEF QuietNext

LEMMA MirrorsAfter == Mirrors' <=> rows' = Up' /\ \A c \in rows' : Right(c)'
    BY DEF Mirrors, Right

Shows == (\E s \in Scans : Running(s) /\ ~Running(s)') \/ Mirrors => Mirrors'

LEMMA QuietShows == RepairInv /\ [QuietNext]_vars => [Shows]_vars
<1> SUFFICES ASSUME RepairInv, QuietNext PROVE Shows
    OBVIOUS
<1>1. Stays
    BY QuietNextStays
<1>2. Up' = Up
    BY <1>1 DEF Stays, docker, Up
<1>3. CASE Mirrors
  <2>1. rows = Up /\ \A c \in Up : Right(c)
      BY <1>3 DEF Mirrors, Right
  <2>2. \A c \in Up : Right(c)' /\ c \in rows'
      BY <1>1, <2>1 DEF Stays, Right
  <2>3. rows' = Up
      BY <1>1, <2>1, <2>2 DEF Stays
  <2> QED
      BY <1>2, <2>2, <2>3, MirrorsAfter DEF Shows
<1>4. ASSUME NEW s \in Scans, Running(s), ~Running(s)' PROVE Mirrors'
  <2>1. PruneMissingContainers(s) /\ UNCHANGED faults
    <3>1. UNCHANGED at => FALSE
        BY <1>4 DEF Running
    <3>2. ASSUME NEW t \in Scans, ContainerList(t) \/ ScanStep(t), UNCHANGED faults
          PROVE  t = s
        BY <1>1, <1>4, <3>2, OthersRepair DEF Running
    <3>3. \A d \in Deploys : ~AssociationStep(d)
        BY <3>1, IdleStays DEF scans
    <3> QED
        BY <1>4, <3>2, <3>3
        DEF QuietNext, ContainerList, ScanStep, ContainerInspect, InspectFails,
            UpsertContainer, Goto, Running, RepairInv, TypeOK
  <2>2. ~Fault
      BY <2>1, ContainersAssumption DEF Fault, RepairInv, TypeOK
  <2>3. /\ at[s] = "inspect" /\ todo[s] = {} /\ rows' = rows \cap list[s]
      BY <2>1, <2>2 DEF PruneMissingContainers, Keep
  <2>4. list[s] = Up /\ \A c \in Up : Right(c)
      BY <1>4, <2>3 DEF RepairInv, Repairs
  <2>5. rows' = Up
      BY <2>3, <2>4 DEF Right
  <2> QED
      BY <1>1, <1>2, <2>4, <2>5, MirrorsAfter DEF Stays
<1> QED
    BY <1>3, <1>4 DEF Shows

(* Whatever scans, failures and changes left in the table: when everything *)
(* is at rest, the first scan to end makes it show what Docker runs, and   *)
(* the others that overlap or follow it, and associations, keep it so.     *)
THEOREM FirstScanRepairs == Spec => FirstScanMirrors
<1>1. [](IInv => (NoScan /\ [][QuietNext]_vars => [][Shows]_vars))
  <2>1. RepairInv /\ [][QuietNext]_vars => [][Shows]_vars
      BY QuietNextStays, QuietShows, PTL
  <2> QED
      BY <2>1, RestRepairs, PTL
<1>2. Spec => [](NoScan /\ [][QuietNext]_vars => [][Shows]_vars)
    BY <1>1, Inductive, PTL
<1> QED
    BY <1>2 DEF FirstScanMirrors, Shows

=============================================================================
