--------------------------- MODULE Deploy_proofs ---------------------------
(***************************************************************************)
(* Proofs about Deploy, for any number of deployments and detections and   *)
(* any contents: the typing invariant, what a stamp's status says of the   *)
(* deployments, and that nothing but a change makes the drift cache and    *)
(* the stack disagree once a deployment has brought them in line.          *)
(***************************************************************************)
EXTENDS Deploy, TLAPS

-----------------------------------------------------------------------------
(* Typing.                                                                 *)

LEMMA TypeInit == Init => TypeOK
<1> SUFFICES ASSUME Init PROVE TypeOK
    OBVIOUS
<1> USE DeployAssumption DEF Init
<1>1. files \in Contents
    OBVIOUS
<1>2. events \in 0..MaxEvents
    OBVIOUS
<1> QED
    BY <1>1, <1>2 DEF TypeOK, State, Statuses, Calls

LEMMA EventType == ASSUME TypeOK, Event PROVE events' \in 0..MaxEvents
    BY DeployAssumption DEF TypeOK, Event

LEMMA DeployType ==
    ASSUME TypeOK, NEW d \in Deploys, DeployStep(d) PROVE TypeOK'
<1> USE DEF TypeOK, Goto, Forget, Return, row, locals, Calls, State
<1>1. CASE StageStackForCompose(d)
    BY <1>1, DeployAssumption DEF StageStackForCompose, DeployPlaces, Active
<1>2. CASE CheckDeploymentStampExists(d)
    BY <1>2, EventType, DeployAssumption DEF CheckDeploymentStampExists, DeployPlaces
<1>3. CASE CreateDeploymentStamp(d)
    BY <1>3, DeployAssumption DEF CreateDeploymentStamp, DeployPlaces, Statuses
<1>4. CASE ComposeUp(d)
    BY <1>4, DeployAssumption DEF ComposeUp, DeployPlaces, Compose
<1>5. CASE ComposeFails(d)
    BY <1>5, EventType, DeployAssumption DEF ComposeFails, DeployPlaces
<1>6. CASE MarkFailed(d)
    BY <1>6, DeployAssumption DEF MarkFailed, Statuses
<1>7. CASE MarkSuccess(d)
    BY <1>7, EventType, DeployAssumption
    DEF MarkSuccess, Statuses, DeployPlaces, Compose
<1>8. CASE ComputeCurrentBundleHash(d)
    BY <1>8, DeployAssumption DEF ComputeCurrentBundleHash, DeployPlaces
<1>9. CASE GetActualDockerConfigHashes(d)
    BY <1>9, DeployAssumption DEF GetActualDockerConfigHashes, DeployPlaces
<1>10. CASE UpdateStackDriftCache(d)
    BY <1>10, DeployAssumption DEF UpdateStackDriftCache
<1>11. CASE Abandon(d)
    BY <1>11, EventType, DeployAssumption DEF Abandon, Compose
<1> QED
    BY <1>1, <1>2, <1>3, <1>4, <1>5, <1>6, <1>7, <1>8, <1>9, <1>10, <1>11
    DEF DeployStep

LEMMA DetectionType ==
    ASSUME TypeOK, NEW t \in Detections, DetectionStep(t) PROVE TypeOK'
<1> USE DeployAssumption
    DEF TypeOK, Goto, Forget, Answer, row, Calls, State, DetectionUnchanged,
        StackUnchanged, ReadFails
<1>1. CASE DetectDrift(t)
    BY <1>1 DEF DetectDrift, DetectionPlaces
<1>2. CASE ReadFiles(t)
    BY <1>2 DEF ReadFiles, DetectionPlaces
<1>3. CASE GetStoredBundleHash(t)
    BY <1>3, EventType DEF GetStoredBundleHash, DetectionPlaces
<1>4. CASE ClearCachedDockerConfigHashes(t)
    BY <1>4 DEF ClearCachedDockerConfigHashes, DetectionPlaces
<1>5. CASE UpdateStoredBundleHash(t)
    BY <1>5 DEF UpdateStoredBundleHash
<1>6. CASE GetCachedDockerConfigHashes(t)
    BY <1>6, EventType DEF GetCachedDockerConfigHashes, DetectionPlaces
<1>7. CASE HashMapsEqual(t)
    BY <1>7 DEF HashMapsEqual, DetectionPlaces
<1>8. CASE StoreCachedDockerConfigHashes(t)
    BY <1>8 DEF StoreCachedDockerConfigHashes
<1>9. CASE UnableToVerify(t)
    BY <1>9 DEF UnableToVerify
<1> QED
    BY <1>1, <1>2, <1>3, <1>4, <1>5, <1>6, <1>7, <1>8, <1>9
    DEF DetectionStep

LEMMA TypeStep == TypeOK /\ [Next]_vars => TypeOK'
<1> SUFFICES ASSUME TypeOK, [Next]_vars PROVE TypeOK'
    OBVIOUS
<1>1. CASE EditFiles
    BY <1>1, EventType DEF EditFiles, TypeOK, row, locals, Active
<1>2. CASE ChangeContainers
    BY <1>2, EventType DEF ChangeContainers, TypeOK, row, locals, Active
<1>3. CASE UNCHANGED vars
    BY <1>3 DEF vars, TypeOK, locals
<1> QED
    BY <1>1, <1>2, <1>3, DeployType, DetectionType DEF Next

(* Every variable keeps its type, whatever deployments, detections, users  *)
(* and failures do.                                                        *)
THEOREM TypeCorrect == Spec => []TypeOK
    BY TypeInit, TypeStep, PTL DEF Spec

-----------------------------------------------------------------------------
(* Stamps.                                                                 *)

(* A deployment that takes no step keeps its place and its staged files.   *)
Keeps(d) == at'[d] = at[d] /\ staged'[d] = staged[d]

LEMMA OthersKeep ==
    ASSUME TypeOK, NEW d \in Deploys, DeployStep(d),
           NEW e \in Deploys, e # d
    PROVE  Keeps(e)
    BY DEF TypeOK, Keeps, DeployStep, Goto, Return, Calls, locals,
       StageStackForCompose, CheckDeploymentStampExists, CreateDeploymentStamp,
       ComposeUp, ComposeFails, MarkFailed, MarkSuccess,
       ComputeCurrentBundleHash, GetActualDockerConfigHashes,
       UpdateStackDriftCache, Abandon

LEMMA DetectionsKeep ==
    ASSUME TypeOK, NEW t \in Detections, DetectionStep(t)
    PROVE  /\ \A d \in Deploys : Keeps(d)
           /\ \A u \in Detections \ {t} : at'[u] = at[u]
           /\ StackUnchanged
           /\ settled' \in {settled, "anything"}
    BY DeployAssumption
    DEF TypeOK, Keeps, DetectionStep, Goto, Answer, Calls, row, ReadFails,
       DetectionUnchanged, StackUnchanged, DetectDrift, ReadFiles, GetStoredBundleHash,
       ClearCachedDockerConfigHashes, UpdateStoredBundleHash,
       GetCachedDockerConfigHashes, HashMapsEqual,
       StoreCachedDockerConfigHashes, UnableToVerify

(* The invariant of a single content's row is easier to carry than that of *)
(* the whole table.                                                        *)
UnderWay(c) ==
    \E d \in Deploys : at[d] \in {"up", "failed", "status"} /\ Compose(d) = c
RowOK(c) == c \notin lost /\ stamp[c] = "pending" => UnderWay(c)

LEMMA PendingDeploy ==
    ASSUME TypeOK, NEW c \in Composes, RowOK(c),
           NEW d \in Deploys, DeployStep(d)
    PROVE  RowOK(c)'
<1> SUFFICES ASSUME c \notin lost', stamp'[c] = "pending" PROVE UnderWay(c)'
    BY DEF RowOK
<1> DEFINE Stays(e) == /\ e \in Deploys
                       /\ at'[e] \in {"up", "failed", "status"}
                       /\ staged'[e].compose = c
<1>1. ASSUME NEW e \in Deploys \ {d},
             at[e] \in {"up", "failed", "status"}, Compose(e) = c
      PROVE  Stays(e)
    BY <1>1, OthersKeep DEF Keeps, Compose
<1>2. c \notin lost
    BY DEF TypeOK, DeployStep, row, StageStackForCompose,
       CheckDeploymentStampExists, CreateDeploymentStamp, ComposeUp,
       ComposeFails, MarkFailed, MarkSuccess, ComputeCurrentBundleHash,
       GetActualDockerConfigHashes, UpdateStackDriftCache, Abandon
<1>3. CASE stamp[c] # "pending"
  <2>1. CreateDeploymentStamp(d) /\ Compose(d) = c
      BY <1>3 DEF TypeOK, DeployStep, row, StageStackForCompose,
         CheckDeploymentStampExists, CreateDeploymentStamp, ComposeUp,
         ComposeFails, MarkFailed, MarkSuccess, ComputeCurrentBundleHash,
         GetActualDockerConfigHashes, UpdateStackDriftCache, Abandon
  <2>2. Stays(d)
      BY <2>1 DEF CreateDeploymentStamp, TypeOK, Goto, Compose, Calls, locals
  <2> QED
      BY <2>2 DEF UnderWay, Compose
<1>4. CASE stamp[c] = "pending"
  <2>1. PICK e \in Deploys :
            at[e] \in {"up", "failed", "status"} /\ Compose(e) = c
      BY <1>2, <1>4 DEF RowOK, UnderWay
  <2>2. CASE e # d
      BY <1>1, <2>1, <2>2 DEF UnderWay, Compose
  <2>3. CASE e = d
    <3>1. staged[d] \in Contents /\ staged[d].compose = c
        BY <2>1, <2>3 DEF TypeOK, Compose
    <3>2. ASSUME ComposeUp(d) \/ ComposeFails(d) PROVE Stays(d)
        BY <3>1, <3>2 DEF ComposeUp, ComposeFails, TypeOK, Goto, Calls, locals
    <3>3. ~MarkFailed(d)
        BY <3>1 DEF MarkFailed, TypeOK, Compose
    <3>4. ~MarkSuccess(d)
        BY <3>1 DEF MarkSuccess, TypeOK, Compose
    <3>5. ~Abandon(d)
        BY <2>1, <2>3, <3>1 DEF Abandon, TypeOK, Compose
    <3>6. ComposeUp(d) \/ ComposeFails(d)
        BY <2>1, <2>3, <3>3, <3>4, <3>5
        DEF DeployStep, StageStackForCompose, CheckDeploymentStampExists,
            CreateDeploymentStamp, ComputeCurrentBundleHash,
            GetActualDockerConfigHashes, UpdateStackDriftCache
    <3> QED
        BY <3>2, <3>6 DEF UnderWay, Compose
  <2> QED
      BY <2>2, <2>3
<1> QED
    BY <1>3, <1>4

LEMMA PendingStep ==
    TypeOK /\ PendingIsUnderWay /\ [Next]_vars => PendingIsUnderWay'
<1> SUFFICES ASSUME TypeOK, PendingIsUnderWay, [Next]_vars,
                    NEW c \in Composes
             PROVE  RowOK(c)'
    BY DEF PendingIsUnderWay, RowOK, UnderWay
<1>1. RowOK(c)
    BY DEF PendingIsUnderWay, RowOK, UnderWay
<1>2. CASE \E d \in Deploys : DeployStep(d)
    BY <1>1, <1>2, PendingDeploy
<1>3. CASE \E t \in Detections : DetectionStep(t)
    BY <1>1, <1>3, DetectionsKeep
    DEF RowOK, UnderWay, Compose, Keeps, StackUnchanged, row
<1>4. CASE EditFiles \/ ChangeContainers \/ UNCHANGED vars
    BY <1>1, <1>4
    DEF EditFiles, ChangeContainers, vars, RowOK, UnderWay, Compose, row, locals
<1> QED
    BY <1>2, <1>3, <1>4 DEF Next

(* A stamp that says pending belongs to a deployment still under way,      *)
(* unless one was cut short.                                               *)
THEOREM NoPendingLeftBehind == Spec => []PendingIsUnderWay
<1>1. Init => PendingIsUnderWay
    BY DEF Init, PendingIsUnderWay
<1> QED
    BY <1>1, PendingStep, TypeCorrect, PTL DEF Spec

-----------------------------------------------------------------------------
SuccessInv == SuccessWasDeployed /\ BroughtUpBeforeStatus

LEMMA SuccessStep == TypeOK /\ SuccessInv /\ [Next]_vars => SuccessInv'
<1> SUFFICES ASSUME TypeOK, SuccessInv, [Next]_vars PROVE SuccessInv'
    OBVIOUS
<1> USE DEF SuccessInv, SuccessWasDeployed, BroughtUpBeforeStatus, Compose
<1>1. ASSUME NEW d \in Deploys, DeployStep(d) PROVE SuccessInv'
  <2>1. broughtUp \subseteq broughtUp'
      BY <1>1 DEF DeployStep, StageStackForCompose, CheckDeploymentStampExists,
         CreateDeploymentStamp, ComposeUp, ComposeFails, MarkFailed,
         MarkSuccess, ComputeCurrentBundleHash, GetActualDockerConfigHashes,
         UpdateStackDriftCache, Abandon
  <2>2. ASSUME NEW e \in Deploys, at'[e] = "status"
        PROVE  staged'[e].compose \in broughtUp'
    <3>1. CASE e # d
        BY <1>1, <2>1, <2>2, <3>1, OthersKeep DEF Keeps
    <3>2. CASE e = d
      <4>1. ComposeUp(d)
          BY <1>1, <2>2, <3>2
          DEF DeployStep, StageStackForCompose, CheckDeploymentStampExists,
              CreateDeploymentStamp, ComposeUp, ComposeFails, MarkFailed,
              MarkSuccess, ComputeCurrentBundleHash, Return, Goto, Calls,
              GetActualDockerConfigHashes, UpdateStackDriftCache, Abandon,
              TypeOK
      <4> QED
          BY <3>2, <4>1 DEF ComposeUp, locals
    <3> QED
        BY <3>1, <3>2
  <2>3. ASSUME NEW c \in Composes, stamp'[c] = "success"
        PROVE  c \in broughtUp'
    <3>1. CASE stamp[c] = "success"
        BY <2>1, <3>1
    <3>2. CASE stamp[c] # "success"
      <4>1. MarkSuccess(d) /\ c = Compose(d)
          BY <1>1, <2>3, <3>2
          DEF DeployStep, StageStackForCompose, CheckDeploymentStampExists,
              CreateDeploymentStamp, ComposeUp, ComposeFails, MarkFailed,
              MarkSuccess, ComputeCurrentBundleHash, row, TypeOK,
              GetActualDockerConfigHashes, UpdateStackDriftCache, Abandon
      <4> QED
          BY <2>1, <4>1 DEF MarkSuccess
    <3> QED
        BY <3>1, <3>2
  <2> QED
      BY <2>2, <2>3
<1>2. CASE \E t \in Detections : DetectionStep(t)
    BY <1>2, DetectionsKeep DEF Keeps, StackUnchanged, row
<1>3. CASE EditFiles \/ ChangeContainers \/ UNCHANGED vars
    BY <1>3 DEF EditFiles, ChangeContainers, vars, row, locals
<1> QED
    BY <1>1, <1>2, <1>3 DEF Next

(* A stamp says success only of a content docker compose brought up,       *)
(* though concurrent deployments of one content share its row.             *)
THEOREM SuccessIsEarned == Spec => []SuccessWasDeployed
<1>1. Init => SuccessInv
    BY DEF Init, SuccessInv, SuccessWasDeployed, BroughtUpBeforeStatus, Calls
<1>2. SuccessInv => SuccessWasDeployed
    BY DEF SuccessInv
<1> QED
    BY <1>1, <1>2, SuccessStep, TypeCorrect, PTL DEF Spec

-----------------------------------------------------------------------------
(* The stack and the drift cache.                                          *)

LEMMA ActiveAfter ==
    ASSUME TypeOK, NEW d \in Deploys, DeployStep(d)
    PROVE  Active' = IF at'[d] = "idle" THEN Active \ {d} ELSE Active \cup {d}
    BY OthersKeep DEF Keeps, Active, Running

(* Every step of a deployment but its first finds it under way.            *)
LEMMA StepOfActive ==
    ASSUME NEW d \in Deploys, DeployStep(d), ~StageStackForCompose(d)
    PROVE  d \in Active
    BY DEF DeployStep, Active, Running, CheckDeploymentStampExists,
       CreateDeploymentStamp, ComposeUp, ComposeFails, MarkFailed, MarkSuccess,
       ComputeCurrentBundleHash, GetActualDockerConfigHashes,
       UpdateStackDriftCache, Abandon

(* What the last step of a deployment leaves settled.                      *)
Settled ==
    /\ Active = {}
    /\ docker = files
    /\ cache = [bundle |-> files, docker |-> docker]
    /\ \A t \in Detections : SeesNoDrift(t)

LEMMA StageInSync ==
    ASSUME TypeOK, InSyncInv, NEW d \in Deploys, StageStackForCompose(d)
    PROVE  InSyncInv'
<1>1. Active' = Active \cup {d}
  <2>1. DeployStep(d) /\ at'[d] # "idle"
      BY DEF DeployStep, StageStackForCompose, Goto, TypeOK, Calls
  <2> QED
      BY <2>1, ActiveAfter
<1>2. disturbed' \subseteq Active' /\ settled' = "anything"
    BY <1>1 DEF StageStackForCompose
<1>3. ASSUME NEW e \in Active' \ disturbed' PROVE Progress(e)'
  <2>1. Active = {} /\ e = d /\ Active' = {d}
      BY <1>1, <1>3 DEF StageStackForCompose
  <2>2. staged'[d] = files' /\ at'[d] \in {"check", "create"}
      BY DEF StageStackForCompose, Goto, TypeOK, Calls
  <2> QED
      BY <2>1, <2>2 DEF Progress
<1> QED
    BY <1>2, <1>3 DEF InSyncInv

LEMMA StoreInSync ==
    ASSUME TypeOK, InSyncInv, NEW d \in Deploys, UpdateStackDriftCache(d)
    PROVE  InSyncInv'
<1>1. d \in Active /\ at'[d] = "idle" /\ disturbed' = disturbed \ {d}
    BY DEF UpdateStackDriftCache, Return, Goto, TypeOK, Calls, Active, Running
<1>2. Active' = Active \ {d}
    BY <1>1, ActiveAfter DEF DeployStep
<1>3. disturbed' \subseteq Active'
    BY <1>1, <1>2 DEF InSyncInv
<1>4. Active' \ disturbed' = {}
    BY <1>1, <1>2 DEF InSyncInv, Progress
<1>5. ASSUME settled' = "nothing" PROVE Settled'
  <2>1. d \notin disturbed /\ \A p \in Calls \ {d} : ~Running(p)
      BY <1>5 DEF UpdateStackDriftCache
  <2>2. Progress(d) /\ at[d] = "store"
      BY <2>1, <1>1 DEF InSyncInv, UpdateStackDriftCache
  <2>3. docker = files /\ bundle[d] = files /\ hashes[d] = files
      BY <2>2 DEF Progress
  <2>4. /\ docker' = files'
        /\ cache' = [bundle |-> files', docker |-> docker']
      BY <2>3 DEF UpdateStackDriftCache
  <2>5. Active' = {}
      BY <2>2, <1>2 DEF Progress
  <2>6. ASSUME NEW t \in Detections PROVE at'[t] = "idle"
      BY <2>1, DeployAssumption
      DEF Running, Calls, UpdateStackDriftCache, Return, Goto, TypeOK
  <2> QED
      BY <2>4, <2>5, <2>6 DEF Settled, SeesNoDrift
<1> QED
    BY <1>3, <1>4, <1>5 DEF InSyncInv, Settled

LEMMA DeployInSync ==
    ASSUME TypeOK, InSyncInv, NEW d \in Deploys, DeployStep(d)
    PROVE  InSyncInv'
<1>1. CASE StageStackForCompose(d)
    BY <1>1, StageInSync
<1>2. CASE UpdateStackDriftCache(d)
    BY <1>2, StoreInSync
<1>3. CASE ~StageStackForCompose(d) /\ ~UpdateStackDriftCache(d)
  <2>1. d \in Active
      BY <1>3, StepOfActive
  <2>2. settled' = settled /\ settled # "nothing"
      BY <1>3, <2>1
      DEF InSyncInv, DeployStep, CheckDeploymentStampExists,
          CreateDeploymentStamp, ComposeUp, ComposeFails, MarkFailed,
          MarkSuccess, ComputeCurrentBundleHash, GetActualDockerConfigHashes,
          Abandon
  <2>3. CASE at'[d] = "idle"
    <3>1. disturbed' = disturbed \ {d}
        BY <1>3, <2>3, <2>1
        DEF DeployStep, CheckDeploymentStampExists, CreateDeploymentStamp,
            ComposeUp, ComposeFails, MarkFailed, MarkSuccess, TypeOK, Goto,
            ComputeCurrentBundleHash, GetActualDockerConfigHashes, Abandon,
            Return, Calls, Active, Running
    <3>2. Active' = Active \ {d}
        BY <2>3, ActiveAfter
    <3>3. disturbed' \subseteq Active'
        BY <3>1, <3>2 DEF InSyncInv
    <3>4. Active' \ disturbed' = {}
        BY <3>1, <3>2, <2>1 DEF InSyncInv, Progress
    <3> QED
        BY <2>2, <3>3, <3>4 DEF InSyncInv
  <2>4. CASE at'[d] # "idle"
    <3>1. Active' = Active
        BY <2>1, <2>4, ActiveAfter
    <3>2. disturbed' = disturbed /\ files' = files /\ staged' = staged
        BY <1>3, <2>4
        DEF DeployStep, CheckDeploymentStampExists, CreateDeploymentStamp,
            ComposeUp, ComposeFails, MarkFailed, MarkSuccess, TypeOK, Goto,
            ComputeCurrentBundleHash, GetActualDockerConfigHashes, Abandon,
            Return, Calls, locals
    <3>3. ASSUME NEW e \in Active \ disturbed PROVE Progress(e)'
      <4>1. e = d /\ Progress(d)
          BY <2>1, <3>3 DEF InSyncInv, Progress
      <4>2. CASE ComposeUp(d)
          BY <4>1, <4>2, <3>1, <3>2
          DEF Progress, ComposeUp, TypeOK, Goto, Calls
      <4>3. CASE MarkSuccess(d)
          BY <4>1, <4>3, <3>1, <3>2
          DEF Progress, MarkSuccess, TypeOK, Goto, Calls
      <4>4. CASE ComputeCurrentBundleHash(d)
          BY <4>1, <4>4, <3>1, <3>2
          DEF Progress, ComputeCurrentBundleHash, TypeOK, Goto, Calls
      <4>5. CASE GetActualDockerConfigHashes(d)
          BY <4>1, <4>5, <3>1, <3>2
          DEF Progress, GetActualDockerConfigHashes, TypeOK, Goto, Calls
      <4>6. CASE ~ComposeUp(d) /\ ~MarkSuccess(d)
                 /\ ~ComputeCurrentBundleHash(d)
                 /\ ~GetActualDockerConfigHashes(d)
        <5>1. at'[d] \in {"create", "up", "failed"}
            BY <1>3, <2>4, <4>6
            DEF DeployStep, CheckDeploymentStampExists, ComposeFails, TypeOK,
                CreateDeploymentStamp, MarkFailed, Abandon, Return, Goto, Calls
        <5> QED
            BY <4>1, <5>1, <3>1, <3>2 DEF Progress
      <4> QED
          BY <4>2, <4>3, <4>4, <4>5, <4>6
    <3> QED
        BY <2>2, <3>1, <3>2, <3>3 DEF InSyncInv
  <2> QED
      BY <2>3, <2>4
<1> QED
    BY <1>1, <1>2, <1>3

(* While everything is in sync, a detection finds nothing and writes       *)
(* nothing.                                                                *)
LEMMA DetectionFindsNothing ==
    ASSUME TypeOK, Settled, NEW t \in Detections, DetectionStep(t)
    PROVE  settled' = "anything" \/ (SeesNoDrift(t)' /\ cache' = cache)
<1>1. SeesNoDrift(t)
    BY DEF Settled
<1>2. files' = files /\ docker = files /\ cache.bundle = files
      /\ cache.docker = files
    BY DetectionsKeep DEF Settled, StackUnchanged
<1> USE DEF SeesNoDrift, TypeOK, Goto, Answer, Forget, Calls
<1>3. CASE DetectDrift(t)
    BY <1>1, <1>2, <1>3 DEF DetectDrift
<1>4. CASE ReadFiles(t)
    BY <1>1, <1>2, <1>4 DEF ReadFiles
<1>5. CASE GetStoredBundleHash(t)
    BY <1>1, <1>2, <1>5 DEF GetStoredBundleHash, ReadFails
<1>6. CASE GetCachedDockerConfigHashes(t)
    BY <1>1, <1>2, <1>6 DEF GetCachedDockerConfigHashes, ReadFails
<1>7. CASE HashMapsEqual(t)
    BY <1>1, <1>2, <1>7 DEF HashMapsEqual
<1>8. CASE UnableToVerify(t)
    BY <1>1, <1>2, <1>8 DEF UnableToVerify
<1>9. ~(\/ ClearCachedDockerConfigHashes(t) \/ UpdateStoredBundleHash(t)
        \/ StoreCachedDockerConfigHashes(t))
    BY <1>1 DEF ClearCachedDockerConfigHashes, UpdateStoredBundleHash,
       StoreCachedDockerConfigHashes
<1> QED
    BY <1>3, <1>4, <1>5, <1>6, <1>7, <1>8, <1>9 DEF DetectionStep

LEMMA DetectionInSync ==
    ASSUME TypeOK, InSyncInv, NEW t \in Detections, DetectionStep(t)
    PROVE  InSyncInv'
<1>1. /\ Active' = Active /\ disturbed' = disturbed
      /\ settled' \in {settled, "anything"}
      /\ files' = files /\ docker' = docker /\ staged' = staged
      /\ \A d \in Deploys : at'[d] = at[d]
    BY DetectionsKeep DEF Keeps, StackUnchanged, Active, Running
<1>2. ASSUME NEW p \in Calls \ {t}
      PROVE  bundle'[p] = bundle[p] /\ hashes'[p] = hashes[p]
    BY DEF TypeOK, DetectionStep, Answer, Forget, Calls, DetectDrift,
       ReadFiles, GetStoredBundleHash, ClearCachedDockerConfigHashes,
       UpdateStoredBundleHash, GetCachedDockerConfigHashes, HashMapsEqual,
       StoreCachedDockerConfigHashes, UnableToVerify
<1>3. ASSUME NEW d \in Active \ disturbed PROVE Progress(d)'
  <2>1. d \in Calls \ {t} /\ d \in Deploys /\ Progress(d)
      BY <1>3, DeployAssumption DEF InSyncInv, Active, Calls
  <2> QED
      BY <1>1, <1>2, <2>1 DEF Progress
<1>4. ASSUME settled' = "nothing" PROVE Settled'
  <2>1. Settled
      BY <1>1, <1>4 DEF InSyncInv, Settled
  <2>2. SeesNoDrift(t)' /\ cache' = cache
      BY <1>4, <2>1, DetectionFindsNothing
  <2>3. ASSUME NEW u \in Detections \ {t} PROVE SeesNoDrift(u)'
    <3>1. SeesNoDrift(u) /\ at'[u] = at[u]
        BY <2>1, DetectionsKeep DEF Settled
    <3> QED
        BY <1>1, <1>2, <3>1 DEF SeesNoDrift, Calls
  <2> QED
      BY <1>1, <2>1, <2>2, <2>3 DEF Settled
<1> QED
    BY <1>1, <1>3, <1>4 DEF InSyncInv, Settled

LEMMA InSyncStep == TypeOK /\ InSyncInv /\ [Next]_vars => InSyncInv'
<1> SUFFICES ASSUME TypeOK, InSyncInv, [Next]_vars PROVE InSyncInv'
    OBVIOUS
<1>1. CASE EditFiles \/ ChangeContainers
  <2>1. /\ Active' = Active /\ disturbed' = Active /\ settled' # "nothing"
      BY <1>1 DEF EditFiles, ChangeContainers, Active, Running, InSyncInv
  <2> QED
      BY <2>1 DEF InSyncInv
<1>2. CASE UNCHANGED vars
    BY <1>2 DEF vars, locals, InSyncInv, Active, Running, Progress, SeesNoDrift
<1> QED
    BY <1>1, <1>2, DeployInSync, DetectionInSync DEF Next

LEMMA InSyncAlways == Spec => [](TypeOK /\ InSyncInv)
<1>1. Init => InSyncInv
    BY DEF Init, InSyncInv, Active, Running, Calls
<1> QED
    BY <1>1, InSyncStep, TypeInit, TypeStep, PTL DEF Spec

(* After a deployment that nothing disturbed, and until something changes, *)
(* the containers run the files and the drift cache records both, whatever *)
(* detections read and write meanwhile.                                    *)
THEOREM InSync == Spec => []SettledMeansInSync
<1>1. InSyncInv => SettledMeansInSync
    BY DEF InSyncInv, SettledMeansInSync
<1> QED
    BY <1>1, InSyncAlways, PTL

(* Until then no detection reports drift.                                  *)
THEOREM NoFalseAlarms == Spec => NoFalseAlarm
<1>1. ASSUME InSyncInv, NEW t \in Detections, settled = "nothing"
      PROVE  ~ReportsDrift(t)
    BY <1>1 DEF InSyncInv, SeesNoDrift, ReportsDrift, UpdateStoredBundleHash,
       StoreCachedDockerConfigHashes
<1>2. InSyncInv =>
          [\A t \in Detections : settled = "nothing" => ~ReportsDrift(t)]_vars
    BY <1>1
<1> QED
    BY <1>2, InSyncAlways, PTL DEF NoFalseAlarm
=============================================================================
