-------------------------- MODULE AutoDevOps_proofs --------------------------
(***************************************************************************)
(* Proofs about IacScan and AutoDevOps, for any stacks, scans, edits and   *)
(* failures: types; the rows of claimed stacks survive the prunes; the     *)
(* first scan of a quiet time repairs the rows; and only what the policy   *)
(* allowed is deployed.                                                    *)
(***************************************************************************)
EXTENDS AutoDevOps, TLAPS

-----------------------------------------------------------------------------
(* Types of the scan.                                                      *)

(* The ids a scan or an editor holds are those of rows, and they are at a  *)
(* stack whenever a statement needs its key.                               *)
Held ==
    /\ \A i \in Scans : \A k \in keep[i] : Exists(k)
    /\ \A i \in Scans : at[i] \in {"upsert", "track"} => cur[i] \in Keys
    /\ \A k \in mine : k = key /\ Exists(k)
    /\ ed # "idle" => key \in Keys
    /\ ed = "idle" => mine = {}
TInv == TypeOK /\ Held

LEMMA NewRowType == NewRow \in Row
    BY DEF NewRow, Row, Files

LEMMA RowChange ==
    ASSUME NEW r \in Row
    PROVE  /\ \A b \in BOOLEAN : [r EXCEPT !.compose = b] \in Row
           /\ \A F \in SUBSET Files : [r EXCEPT !.files = F] \in Row
           /\ \A v \in {"unset", "yes", "no"} : [r EXCEPT !.override = v] \in Row
           /\ r.files \in SUBSET Files
    BY DEF Row

LEMMA UpsertType ==
    ASSUME TypeOK, NEW k \in Keys, NEW b \in BOOLEAN, UpsertIacStack(k, b)
    PROVE  /\ rows' \in [Keys -> Row \cup {NoRow}]
           /\ \A l \in Keys : Exists(l) \/ l = k => Exists(l)'
<1> DEFINE old == IF rows[k] = NoRow THEN NewRow ELSE rows[k]
           new == [old EXCEPT !.compose = b]
<1>1. old \in Row
    BY NewRowType DEF TypeOK
<1>2. new \in Row
    BY <1>1, RowChange
<1>3. rows' = [rows EXCEPT ![k] = new]
    BY DEF UpsertIacStack
<1> HIDE DEF new
<1> QED
    BY <1>2, <1>3, IacAssumption DEF TypeOK, Exists

LEMMA UpsertFilesType ==
    ASSUME TypeOK, NEW k \in Keys, Exists(k), NEW F \in SUBSET Files,
           UpsertIacFiles(k, F)
    PROVE  /\ rows' \in [Keys -> Row \cup {NoRow}]
           /\ \A l \in Keys : Exists(l) => Exists(l)'
<1> DEFINE new == [rows[k] EXCEPT !.files = rows[k].files \cup F]
<1>1. rows[k] \in Row
    BY DEF TypeOK, Exists
<1>2. new \in Row
  <2>1. rows[k].files \cup F \in SUBSET Files
      BY <1>1, RowChange
  <2> QED
      BY <1>1, <2>1, RowChange
<1>3. rows' = [rows EXCEPT ![k] = new]
    BY DEF UpsertIacFiles
<1> HIDE DEF new
<1> QED
    BY <1>2, <1>3, IacAssumption DEF TypeOK, Exists

LEMMA DeleteType ==
    ASSUME TInv, NEW K, Delete(K)
    PROVE  /\ rows' \in [Keys -> Row \cup {NoRow}]
           /\ keep' \in [Scans -> SUBSET Keys] /\ mine' \subseteq Keys
           /\ \A i \in Scans : \A k \in keep'[i] : Exists(k)'
           /\ \A k \in mine' : k \in mine /\ Exists(k)'
    BY DEF TInv, TypeOK, Held, Delete, Exists

LEMMA FaultType == ASSUME TypeOK, Fault PROVE faults' \in 0..MaxFaults
    BY IacAssumption DEF TypeOK, Fault

LEMMA EditedType == ASSUME TypeOK, Edited PROVE edits' \in 0..MaxEdits
    BY IacAssumption DEF TypeOK, Edited

LEMMA ObserveType == ASSUME TypeOK, Observe PROVE blame' \in [Scans -> SUBSET Keys]
    BY DEF TypeOK, Observe

LEMMA ScanInit == Init => TInv
<1> SUFFICES ASSUME Init PROVE TInv
    OBVIOUS
<1>1. tree \in [Stacks -> SUBSET Files]
    BY DEF Init, Files
<1>2. 0 \in 0..MaxEdits /\ 0 \in 0..MaxFaults
    BY IacAssumption
<1>3. TypeOK
    BY <1>1, <1>2 DEF Init, TypeOK, Files
<1>4. Held
    BY DEF Init, Held
<1> QED
    BY <1>3, <1>4 DEF TInv

LEMMA ScanTypes ==
    ASSUME TInv, NEW i \in Scans, Begin(i) \/ ScanStep(i) \/ Cancel(i), Observe
    PROVE  TInv'
<1> USE DEF TInv, files, scanning, editor
<1>1. blame' \in [Scans -> SUBSET Keys]
    BY ObserveType
<1>2. Kind \in Kinds
    BY DEF Kind, Kinds
<1>3. CASE Begin(i)
  <2>1. todo' \in [Scans -> SUBSET Stacks]
      BY <1>3 DEF Begin, TypeOK
  <2>2. at' = [at EXCEPT ![i] = "walk"]
      BY <1>3 DEF Begin, Goto
  <2>3. edits' \in 0..MaxEdits /\ faults' \in 0..MaxFaults
      BY <1>3, EditedType, FaultType DEF Begin, TypeOK
  <2>4. TypeOK'
      BY <1>1, <1>3, <2>1, <2>2, <2>3 DEF Begin, TypeOK
  <2>5. Held'
      BY <1>3, <2>2 DEF Begin, Held, TypeOK, Exists
  <2> QED
      BY <2>4, <2>5
<1>4. CASE Look(i)
  <2>1. PICK s \in todo[i] :
          /\ todo' = [todo EXCEPT ![i] = @ \ {s}]
          /\ \/ UNCHANGED <<at, cur, seen, faults>>
             \/ /\ at' = [at EXCEPT ![i] = "upsert"]
                /\ seen' = [seen EXCEPT ![i] = tree[s]]
                /\ \/ cur' = [cur EXCEPT ![i] = <<Kind, s>>] /\ UNCHANGED faults
                   \/ Fault /\ cur' = [cur EXCEPT ![i] = <<"group", s>>]
      BY <1>4 DEF Look, Goto
  <2>2. s \in Stacks /\ <<Kind, s>> \in Keys /\ <<"group", s>> \in Keys
      BY <1>2, <2>1 DEF TypeOK, Keys, Kinds
  <2>3. faults' \in 0..MaxFaults
      BY <2>1, FaultType DEF TypeOK
  <2>4. TypeOK'
    <3>1. todo' \in [Scans -> SUBSET Stacks] /\ seen' \in [Scans -> SUBSET Files]
        BY <2>1, <2>2 DEF TypeOK
    <3>2. cur' \in [Scans -> Keys \cup {NoKey}]
        BY <2>1, <2>2 DEF TypeOK
    <3>3. at' \in [Scans -> {"idle", "walk", "upsert", "track", "prune"}]
        BY <2>1 DEF TypeOK
    <3>4. UNCHANGED <<files, rows, keep, editor, edits>>
        BY <1>4 DEF Look
    <3> QED
        BY <1>1, <2>3, <3>1, <3>2, <3>3, <3>4 DEF TypeOK
  <2>5. \A j \in Scans : at'[j] \in {"upsert", "track"} => cur'[j] \in Keys
      BY <2>1, <2>2 DEF TypeOK, Held
  <2> QED
      BY <1>4, <2>4, <2>5 DEF Look, Held, Exists
<1>5. CASE Upsert(i)
  <2>1. cur[i] \in Keys /\ ("compose" \in seen[i]) \in BOOLEAN
      BY <1>5 DEF Upsert, Held
  <2>2. CASE Fault /\ NextDirectory(i) /\ UNCHANGED <<rows, keep>>
    <3>1. TypeOK'
        BY <1>1, <1>5, <2>2, FaultType DEF Upsert, NextDirectory, Goto, TypeOK
    <3> QED
        BY <1>5, <2>2, <3>1 DEF Upsert, NextDirectory, Goto, TypeOK, Held, Exists
  <2>3. CASE /\ UpsertIacStack(cur[i], "compose" \in seen[i])
             /\ keep' = [keep EXCEPT ![i] = @ \cup {cur[i]}]
             /\ Goto(i, "track")
             /\ UNCHANGED <<cur, seen, faults>>
    <3>1. /\ rows' \in [Keys -> Row \cup {NoRow}]
          /\ \A l \in Keys : Exists(l) \/ l = cur[i] => Exists(l)'
        BY <2>1, <2>3, UpsertType
    <3>2. TypeOK'
        BY <1>1, <1>5, <2>1, <2>3, <3>1 DEF Upsert, Goto, TypeOK
    <3>3. \A j \in Scans : \A k \in keep'[j] : Exists(k)'
        BY <2>1, <2>3, <3>1 DEF TypeOK, Held
    <3> QED
        BY <1>5, <2>3, <3>1, <3>2, <3>3 DEF Upsert, Goto, TypeOK, Held
  <2> QED
      BY <1>5, <2>2, <2>3 DEF Upsert
<1>6. CASE Track(i)
  <2>1. cur[i] \in Keys /\ (cur[i] \in keep[i] => Exists(cur[i]))
      BY <1>6 DEF Track, Held
  <2>2. /\ rows' \in [Keys -> Row \cup {NoRow}]
        /\ \A l \in Keys : Exists(l) => Exists(l)'
    <3>1. CASE UNCHANGED rows
        BY <3>1 DEF TypeOK, Exists
    <3>2. ASSUME NEW F \in SUBSET seen[i], cur[i] \in keep[i], UpsertIacFiles(cur[i], F)
          PROVE  <2>2!1 /\ <2>2!2
      <4>1. F \in SUBSET Files
          BY <3>2 DEF TypeOK
      <4> QED
          BY <2>1, <3>2, <4>1, UpsertFilesType
    <3> QED
        BY <1>6, <3>1, <3>2 DEF Track
  <2>3. TypeOK'
      BY <1>1, <1>6, <2>2, FaultType DEF Track, NextDirectory, Goto, TypeOK
  <2> QED
      BY <1>6, <2>2, <2>3 DEF Track, NextDirectory, Goto, TypeOK, Held
<1>7. CASE PruneEmpty(i)
  <2>1. CASE Delete({k \in Keys : Bare(k)}) /\ UNCHANGED faults
    <3>1. TypeOK'
        BY <1>1, <1>7, <2>1, DeleteType DEF PruneEmpty, Goto, TypeOK
    <3> QED
        BY <1>7, <2>1, <3>1, DeleteType DEF PruneEmpty, Goto, TypeOK, Held
  <2>2. CASE Fault /\ UNCHANGED <<rows, keep, mine>>
    <3>1. TypeOK'
        BY <1>1, <1>7, <2>2, FaultType DEF PruneEmpty, Goto, TypeOK
    <3> QED
        BY <1>7, <2>2, <3>1 DEF PruneEmpty, Goto, TypeOK, Held, Exists
  <2> QED
      BY <1>7, <2>1, <2>2 DEF PruneEmpty
<1>8. CASE PruneNotIn(i)
  <2>1. CASE UNCHANGED faults
    <3>1. TypeOK'
        BY <1>1, <1>8, <2>1 DEF PruneNotIn, Finish, Goto, Emptied, TypeOK
    <3> QED
        BY <1>8, <2>1, <3>1 DEF PruneNotIn, Finish, Goto, Emptied, TypeOK, Held, Exists
  <2>2. CASE Fault /\ keep' = Emptied(i, keep) /\ UNCHANGED <<rows, mine>>
    <3>1. TypeOK'
        BY <1>1, <1>8, <2>2, FaultType DEF PruneNotIn, Finish, Goto, Emptied, TypeOK
    <3> QED
        BY <1>8, <2>2, <3>1 DEF PruneNotIn, Finish, Goto, Emptied, TypeOK, Held, Exists
  <2> QED
      BY <1>8, <2>1, <2>2 DEF PruneNotIn
<1>9. CASE Cancel(i)
  <2>1. TypeOK'
      BY <1>1, <1>9, FaultType DEF Cancel, Finish, Goto, Emptied, TypeOK
  <2> QED
      BY <1>9, <2>1 DEF Cancel, Finish, Goto, Emptied, TypeOK, Held, Exists
<1> QED
    BY <1>3, <1>4, <1>5, <1>6, <1>7, <1>8, <1>9 DEF ScanStep

LEMMA UserTypes ==
    ASSUME TInv, UserStep \/ Underway, Observe PROVE TInv'
<1> USE DEF TInv, files, scanning, editor
<1>1. blame' \in [Scans -> SUBSET Keys]
    BY ObserveType
<1>2. \A s \in Stacks : <<"host", s>> \in Keys /\ <<"group", s>> \in Keys
    BY DEF Keys, Kinds
<1>3. ASSUME NEW k \in Keys, CreateStack(k) PROVE TInv'
  <2>1. /\ rows' \in [Keys -> Row \cup {NoRow}]
        /\ \A l \in Keys : Exists(l) => Exists(l)'
      BY <1>3, UpsertType DEF CreateStack, CreateIacStack
  <2> QED
      BY <1>1, <1>3, <2>1, EditedType DEF CreateStack, TypeOK, Held
<1>4. ASSUME NEW k \in Keys, NEW f \in Files, SaveFile(k, f) PROVE TInv'
  <2>1. /\ rows' \in [Keys -> Row \cup {NoRow}]
        /\ \A l \in Keys : Exists(l) => Exists(l)'
    <3>1. CASE GetStackIDByHostAndName(k[2])
        BY <1>4, <3>1 DEF SaveFile, TypeOK, Exists
    <3>2. CASE ~GetStackIDByHostAndName(k[2])
        BY <1>4, <3>2, UpsertType DEF SaveFile, CreateIacStack
    <3> QED
        BY <3>1, <3>2
  <2>2. Exists(k)'
    <3>1. CASE GetStackIDByHostAndName(k[2])
      <4>1. k = <<"host", k[2]>>
          BY <1>4, <3>1 DEF SaveFile, Keys
      <4>2. Exists(k)
          BY <3>1, <4>1 DEF GetStackIDByHostAndName
      <4> QED
          BY <2>1, <4>2
    <3>2. CASE ~GetStackIDByHostAndName(k[2])
        BY <1>4, <3>2, UpsertType DEF SaveFile, CreateIacStack
    <3> QED
        BY <3>1, <3>2
  <2> QED
      BY <1>1, <1>4, <2>1, <2>2, EditedType DEF SaveFile, TypeOK, Held
<1>5. ASSUME NEW s \in Stacks, DeleteStack(s) PROVE TInv'
  <2>1. TypeOK'
      BY <1>1, <1>5, DeleteType, EditedType DEF DeleteStack, TypeOK
  <2> QED
      BY <1>5, <2>1, DeleteType DEF DeleteStack, Held
<1>6. ASSUME NEW k \in Keys, NEW v \in {"unset", "yes", "no"},
             SetStackDevopsOverride(k, v)
      PROVE  TInv'
  <2>1. rows[k] \in Row
      BY <1>6 DEF SetStackDevopsOverride, TypeOK, Exists
  <2>2. PICK r \in Row : rows' = [rows EXCEPT ![k] = r]
      BY <1>6, <2>1, RowChange DEF SetStackDevopsOverride
  <2>3. /\ rows' \in [Keys -> Row \cup {NoRow}]
        /\ \A l \in Keys : Exists(l) => Exists(l)'
      BY <2>2, IacAssumption DEF TypeOK, Exists
  <2> QED
      BY <1>1, <1>6, <2>3, EditedType DEF SetStackDevopsOverride, TypeOK, Held
<1>7. ASSUME NEW s \in Stacks, NEW f \in Files, DeleteFile(s, f) PROVE TInv'
  <2> DEFINE k == <<"host", s>>
  <2>1. k \in Keys /\ rows[k] \in Row
      BY <1>2, <1>7 DEF DeleteFile, TypeOK, Exists, GetStackIDByHostAndName
  <2>2. PICK r \in Row : rows' = [rows EXCEPT ![k] = r]
    <3>1. rows[k].files \ {f} \in SUBSET Files
        BY <2>1, RowChange
    <3> QED
        BY <1>7, <2>1, <3>1, RowChange DEF DeleteFile
  <2>3. /\ rows' \in [Keys -> Row \cup {NoRow}] /\ Exists(k)'
        /\ \A l \in Keys : Exists(l) => Exists(l)'
      BY <2>1, <2>2, IacAssumption DEF TypeOK, Exists
  <2> QED
      BY <1>1, <1>7, <2>1, <2>3, EditedType DEF DeleteFile, TypeOK, Held
<1>8. ASSUME NEW s \in Stacks, NEW F \in SUBSET Files, ChangeDirectory(s, F) PROVE TInv'
    BY <1>1, <1>8, EditedType DEF ChangeDirectory, TypeOK, Held, Exists
<1>9. CASE ImportHost
    BY <1>1, <1>9, EditedType DEF ImportHost, TypeOK, Held, Exists
<1>10. CASE PullRemove
    BY <1>1, <1>10, FaultType DEF PullRemove, TypeOK, Held, Exists
<1>11. CASE WriteFile
  <2>1. key \in Keys /\ key[2] \in Stacks
      BY <1>11 DEF WriteFile, Held, Keys
  <2>2. tree' \in [Stacks -> SUBSET Files]
      BY <1>11, <2>1 DEF WriteFile, TypeOK
  <2>3. TypeOK'
      BY <1>1, <1>11, <2>1, <2>2 DEF WriteFile, EditorDone, TypeOK, Files
  <2> QED
      BY <1>11, <2>1, <2>3 DEF WriteFile, EditorDone, Held, Exists
<1>12. CASE RecordFile
  <2>1. key \in Keys /\ (mine # {} => Exists(key)) /\ {item} \in SUBSET Files
      BY <1>12 DEF RecordFile, Held, TypeOK
  <2>2. /\ rows' \in [Keys -> Row \cup {NoRow}]
        /\ \A l \in Keys : Exists(l) => Exists(l)'
    <3>1. CASE mine = {}
        BY <1>12, <3>1 DEF RecordFile, TypeOK, Exists
    <3>2. CASE mine # {}
        BY <1>12, <2>1, <3>2, UpsertFilesType DEF RecordFile
    <3> QED
        BY <3>1, <3>2
  <2>3. TypeOK'
      BY <1>1, <1>12, <2>2 DEF RecordFile, EditorDone, TypeOK, Files
  <2> QED
      BY <1>12, <2>2, <2>3 DEF RecordFile, EditorDone, Held, TypeOK
<1>13. CASE RemoveFile
  <2>1. tree' \in [Stacks -> SUBSET Files]
      BY <1>13 DEF RemoveFile, TypeOK
  <2>2. TypeOK'
      BY <1>1, <1>13, <2>1 DEF RemoveFile, EditorDone, TypeOK, Files
  <2> QED
      BY <1>13, <2>2 DEF RemoveFile, EditorDone, Held, Exists
<1>14. CASE PullCopy
  <2>1. tree' \in [Stacks -> SUBSET Files]
      BY <1>14 DEF PullCopy, TypeOK
  <2> QED
      BY <1>1, <1>14, <2>1 DEF PullCopy, TypeOK, Held, Exists
<1> QED
    BY <1>2, <1>3, <1>4, <1>5, <1>6, <1>7, <1>8, <1>9, <1>10, <1>11, <1>12, <1>13, <1>14
    DEF UserStep, Underway, PatchHostStack, PatchGroupStack

LEMMA ScanNext == TInv /\ [Next]_vars => TInv'
<1>1. TInv /\ UNCHANGED vars => TInv'
    BY DEF vars, base, files, scanning, editor, TInv, TypeOK, Held, Exists
<1> QED
    BY <1>1, ScanTypes, UserTypes DEF Next, Step

(* Every variable of the scans keeps its type, and ids are those of rows.  *)
THEOREM ScanTypeCorrect == Spec => []TypeOK
<1>1. TInv => TypeOK
    BY DEF TInv
<1> QED
    BY <1>1, ScanInit, ScanNext, PTL DEF Spec

-----------------------------------------------------------------------------
(* The rows of stacks with a claim.                                        *)

(* While nothing has failed, a stack that had a claim to its row since the *)
(* scan began is on the scan's list or the scan has still to come to it.   *)
Blames == \A i \in Scans, k \in Keys : at[i] # "idle" /\ Unclaimed(k) => k \in blame[i]
ClaimedAt(i) ==
    \A k \in Keys : at[i] # "idle" /\ k \notin blame[i] =>
        \/ k \in keep[i]
        \/ at[i] # "prune" /\ k[2] \in todo[i]
        \/ at[i] = "upsert" /\ cur[i] = k
Claimed == faults = 0 => \A i \in Scans : ClaimedAt(i)
CInv == TInv /\ Blames /\ Claimed

LEMMA BlameGrows ==
    ASSUME TypeOK, Observe, NEW i \in Scans, at'[i] # "idle"
    PROVE  /\ \A k \in Keys : Unclaimed(k)' => k \in blame'[i]
           /\ at[i] # "idle" => blame[i] \subseteq blame'[i]
    BY DEF Observe

(* A scan that does not move keeps what it needs, whatever others delete.  *)
LEMMA StaysClaimed ==
    ASSUME TypeOK, Observe, NEW j \in Scans, ClaimedAt(j),
           at'[j] = at[j], todo'[j] = todo[j], cur'[j] = cur[j],
           \A k \in keep[j] : k \in keep'[j] \/ Unclaimed(k)'
    PROVE  ClaimedAt(j)'
    BY BlameGrows DEF ClaimedAt, TypeOK

LEMMA ScanClaims ==
    ASSUME CInv, NEW i \in Scans, Begin(i) \/ ScanStep(i), Observe,
           faults = 0, faults' = 0
    PROVE  \A j \in Scans : ClaimedAt(j)'
<1> USE DEF files, scanning, editor
<1>1. ~Fault
    BY DEF Fault
<1>2. TypeOK /\ \A j \in Scans : ClaimedAt(j)
    BY DEF CInv, TInv, Claimed
<1>3. ASSUME NEW j \in Scans, j # i PROVE ClaimedAt(j)'
  <2>1. at'[j] = at[j] /\ todo'[j] = todo[j] /\ cur'[j] = cur[j]
      BY <1>2, <1>3
      DEF TypeOK, Begin, ScanStep, Look, Upsert, Track, PruneEmpty, PruneNotIn,
          NextDirectory, Finish, Goto
  <2>2. ASSUME NEW k \in keep[j] PROVE k \in keep'[j] \/ Unclaimed(k)'
    <3>1. k \in Keys
        BY <1>2 DEF TypeOK
    <3>2. keep'[j] = keep[j] \/ k \in keep'[j] \/ rows'[k] = NoRow
        BY <1>1, <1>2, <1>3, <3>1
        DEF TypeOK, Begin, ScanStep, Look, Upsert, Track, PruneEmpty, PruneNotIn, Delete
    <3> QED
        BY <3>2 DEF Unclaimed, Exists
  <2> QED
      BY <1>2, <2>1, <2>2, StaysClaimed
<1>4. /\ \A k \in Keys : at'[i] # "idle" /\ Unclaimed(k)' => k \in blame'[i]
      /\ at[i] # "idle" /\ at'[i] # "idle" => blame[i] \subseteq blame'[i]
    BY <1>2, BlameGrows
<1>5. ClaimedAt(i)'
  <2>1. CASE Begin(i)
    <3>1. at'[i] = "walk" /\ tree' = tree /\ {s \in Stacks : tree[s] # {}} \subseteq todo'[i]
        BY <1>1, <1>2, <2>1 DEF Begin, Goto, TypeOK
    <3>2. \A k \in Keys : Unclaimed(k)' \/ k[2] \in todo'[i]
        BY <3>1 DEF Unclaimed, Keys
    <3> QED
        BY <1>4, <3>1, <3>2 DEF ClaimedAt
  <2>2. CASE Look(i)
    <3>1. PICK s \in todo[i] :
            /\ todo' = [todo EXCEPT ![i] = @ \ {s}]
            /\ \/ tree[s] = {} /\ UNCHANGED <<at, cur, seen, faults>>
               \/ /\ at' = [at EXCEPT ![i] = "upsert"]
                  /\ cur' = [cur EXCEPT ![i] = <<Kind, s>>]
        BY <1>1, <2>2 DEF Look, Goto
    <3>2. at[i] = "walk" /\ keep' = keep /\ UNCHANGED <<tree, known, rows>>
        BY <2>2 DEF Look
    <3>3. ASSUME NEW k \in Keys, k \notin blame'[i], k[2] = s
          PROVE  at'[i] = "upsert" /\ cur'[i] = k
      <4>1. at'[i] # "idle"
          BY <1>2, <3>1, <3>2 DEF TypeOK
      <4>2. ~Unclaimed(k)'
          BY <1>4, <3>3, <4>1
      <4>3. tree[s] # {} /\ k[1] = Kind
          BY <3>2, <3>3, <4>2 DEF Unclaimed, Kind
      <4>4. k = <<Kind, s>>
          BY <3>3, <4>3 DEF Keys
      <4> QED
          BY <1>2, <3>1, <4>3, <4>4 DEF TypeOK
    <3>4. at'[i] \in {"walk", "upsert"} /\ todo'[i] = todo[i] \ {s}
        BY <1>2, <3>1, <3>2 DEF TypeOK
    <3> QED
        BY <1>2, <1>4, <3>2, <3>3, <3>4 DEF ClaimedAt
  <2>3. CASE Upsert(i)
    <3>1. /\ at[i] = "upsert" /\ at'[i] = "track" /\ todo' = todo
          /\ keep'[i] = keep[i] \cup {cur[i]}
        BY <1>1, <1>2, <2>3 DEF Upsert, Goto, TypeOK
    <3> QED
        BY <1>2, <1>4, <3>1 DEF ClaimedAt
  <2>4. CASE Track(i)
    <3>1. at[i] = "track" /\ at'[i] = "walk" /\ todo' = todo /\ keep' = keep
        BY <1>2, <2>4 DEF Track, NextDirectory, Goto, TypeOK
    <3> QED
        BY <1>2, <1>4, <3>1 DEF ClaimedAt
  <2>5. CASE PruneEmpty(i)
    <3>1. /\ at[i] = "walk" /\ at'[i] = "prune" /\ todo[i] = {}
          /\ Delete({k \in Keys : Bare(k)})
        BY <1>1, <1>2, <2>5 DEF PruneEmpty, Goto, TypeOK
    <3>2. \A k \in keep[i] : k \in keep'[i] \/ Unclaimed(k)'
        BY <1>2, <3>1 DEF Delete, Unclaimed, Exists, TypeOK
    <3> QED
        BY <1>2, <1>4, <3>1, <3>2 DEF ClaimedAt
  <2>6. CASE PruneNotIn(i)
    <3>1. at'[i] = "idle"
        BY <1>2, <2>6 DEF PruneNotIn, Finish, Goto, TypeOK
    <3> QED
        BY <3>1 DEF ClaimedAt
  <2> QED
      BY <2>1, <2>2, <2>3, <2>4, <2>5, <2>6 DEF ScanStep
<1> QED
    BY <1>3, <1>5

LEMMA UserClaims ==
    ASSUME CInv, UserStep \/ Underway, Observe, faults = 0
    PROVE  \A j \in Scans : ClaimedAt(j)'
<1> SUFFICES ASSUME NEW j \in Scans PROVE ClaimedAt(j)'
    OBVIOUS
<1>1. TypeOK /\ ClaimedAt(j)
    BY DEF CInv, TInv, Claimed
<1>2. at' = at /\ todo' = todo /\ cur' = cur
    BY DEF UserStep, Underway, CreateStack, SaveFile, DeleteStack, PatchHostStack,
           PatchGroupStack, SetStackDevopsOverride, DeleteFile, ChangeDirectory,
           ImportHost, PullRemove, WriteFile, RecordFile, RemoveFile, PullCopy, scanning
<1>3. keep' = keep \/ \E s \in Stacks : Delete({<<"host", s>>})
    BY DEF UserStep, Underway, CreateStack, SaveFile, DeleteStack, PatchHostStack,
           PatchGroupStack, SetStackDevopsOverride, DeleteFile, ChangeDirectory,
           ImportHost, PullRemove, WriteFile, RecordFile, RemoveFile, PullCopy
<1>4. \A k \in keep[j] : k \in keep'[j] \/ Unclaimed(k)'
    BY <1>1, <1>3 DEF Delete, Unclaimed, Exists, TypeOK
<1> QED
    BY <1>1, <1>2, <1>4, StaysClaimed

LEMMA ClaimsNext == CInv /\ [Next]_vars => CInv'
<1> SUFFICES ASSUME CInv, [Next]_vars PROVE CInv'
    OBVIOUS
<1>1. TInv'
    BY ScanNext DEF CInv
<1>2. CASE Next
  <2>1. Blames'
      BY <1>2, BlameGrows DEF Next, CInv, TInv, Blames
  <2>2. ASSUME faults' = 0 PROVE \A i \in Scans : ClaimedAt(i)'
    <3>1. faults = 0 /\ ~Fault
      <4>1. faults \in Nat /\ (faults + 1 = 0 => FALSE)
          BY IacAssumption DEF CInv, TInv, TypeOK
      <4>2. faults' = faults \/ Fault
          BY <1>2
          DEF Next, Step, Begin, ScanStep, Look, Upsert, Track, PruneEmpty, PruneNotIn,
              Cancel, UserStep, Underway, CreateStack, SaveFile, DeleteStack,
              PatchHostStack, PatchGroupStack, SetStackDevopsOverride, DeleteFile,
              ChangeDirectory, ImportHost, PullRemove, WriteFile, RecordFile,
              RemoveFile, PullCopy
      <4> QED
          BY <2>2, <4>1, <4>2 DEF Fault
    <3> QED
        BY <1>2, <2>2, <3>1, ScanClaims, UserClaims DEF Next, Step, Cancel
  <2> QED
      BY <1>1, <2>1, <2>2 DEF CInv, Claimed
<1>3. CASE UNCHANGED vars
    BY <1>1, <1>3
    DEF vars, base, files, scanning, CInv, Blames, Claimed, ClaimedAt, Unclaimed, Kind,
        Exists, Bare
<1> QED
    BY <1>2, <1>3

LEMMA ClaimsInvariant == Spec => []CInv
<1>1. Init => CInv
    BY ScanInit DEF Init, CInv, Blames, Claimed, ClaimedAt
<1> QED
    BY <1>1, ClaimsNext, PTL DEF Spec

(* A scan that comes to its prunes has on its list every stack that had a  *)
(* claim to its row all the time, unless something failed.                 *)
THEOREM ScanKeepsClaimed == Spec => []KeepsClaimed
<1>1. CInv => KeepsClaimed
    BY DEF CInv, Claimed, ClaimedAt, KeepsClaimed
<1> QED
    BY <1>1, ClaimsInvariant, PTL

(* So the prunes delete only rows of stacks without a claim, however many  *)
(* scans, editors and pulls run at the same time.                          *)
THEOREM ScanSparesClaimed == Spec => ClaimedRowsStay
<1> DEFINE Spares ==
        \A i \in Scans, k \in Keys :
            (PruneEmpty(i) \/ PruneNotIn(i)) /\ Exists(k) /\ ~Exists(k)'
                => k \in blame[i] \/ faults > 0
<1>1. ASSUME CInv PROVE Spares
  <2> SUFFICES ASSUME NEW i \in Scans, NEW k \in Keys,
                      PruneEmpty(i) \/ PruneNotIn(i), Exists(k), ~Exists(k)',
                      k \notin blame[i]
               PROVE  faults > 0
      OBVIOUS
  <2>1. faults \in Nat
      BY <1>1, IacAssumption DEF CInv, TInv, TypeOK
  <2>2. CASE PruneEmpty(i)
    <3>1. Bare(k)
        BY <1>1, <2>2 DEF PruneEmpty, Delete, Exists, CInv, TInv, TypeOK
    <3> QED
        BY <1>1, <2>2, <3>1 DEF PruneEmpty, CInv, Blames, Unclaimed
  <2>3. CASE PruneNotIn(i)
    <3>1. at[i] = "prune" /\ k \notin keep[i]
        BY <1>1, <2>3 DEF PruneNotIn, Exists, CInv, TInv, TypeOK
    <3>2. faults # 0
        BY <1>1, <3>1 DEF CInv, Claimed, ClaimedAt
    <3> QED
        BY <2>1, <3>2
  <2> QED
      BY <2>2, <2>3
<1> HIDE DEF Spares
<1>2. CInv => [Spares]_vars
    BY <1>1
<1>3. Spec => [][Spares]_vars
    BY <1>2, ClaimsInvariant, PTL
<1> QED
    BY <1>3 DEF ClaimedRowsStay, Spares

-----------------------------------------------------------------------------
(* The first scan after everything has come to rest repairs the tables.    *)

(* A scan that does not run keeps nothing for the next.                    *)
Emptyhanded == \A i \in Scans : at[i] = "idle" => keep[i] = {}

LEMMA EndsEmptyhanded == Spec => []Emptyhanded
<1> USE DEF files, scanning, editor
<1>1. Init => Emptyhanded
    BY DEF Init, Emptyhanded
<1>2. ASSUME TypeOK, Emptyhanded, [Next]_vars PROVE Emptyhanded'
  <2>1. ASSUME NEW i \in Scans, Begin(i) \/ ScanStep(i) \/ Cancel(i)
        PROVE  Emptyhanded'
      BY <1>2, <2>1
      DEF TypeOK, Emptyhanded, Begin, ScanStep, Look, Upsert, Track, PruneEmpty,
          PruneNotIn, Cancel, NextDirectory, Finish, Goto, Emptied, Delete
  <2>2. ASSUME NEW s \in Stacks, DeleteStack(s) PROVE Emptyhanded'
      BY <1>2, <2>2 DEF TypeOK, Emptyhanded, DeleteStack, Delete
  <2>5. CASE UserStep /\ ~\E s \in Stacks : DeleteStack(s)
    <3>1. UNCHANGED <<at, keep>>
        BY <2>5
        DEF UserStep, CreateStack, SaveFile, PatchHostStack, PatchGroupStack,
            SetStackDevopsOverride, DeleteFile, ChangeDirectory, ImportHost, PullRemove
    <3> QED
        BY <1>2, <3>1 DEF Emptyhanded
  <2>3. CASE Underway
      BY <1>2, <2>3
      DEF Underway, TypeOK, Emptyhanded, WriteFile, RecordFile, RemoveFile, PullCopy
  <2>4. CASE UNCHANGED vars
      BY <1>2, <2>4 DEF Emptyhanded, vars, base
  <2> QED
      BY <1>2, <2>1, <2>2, <2>3, <2>4, <2>5 DEF Next, Step, UserStep
<1> QED
    BY <1>1, <1>2, ScanTypeCorrect, PTL DEF Spec

(* The keys that should have a row, and what is right about a row.         *)
Wanted == {k \in Keys : k[1] = Kind /\ tree[k[2]] # {}}
RightCompose(k) == Exists(k) /\ (rows[k].compose <=> "compose" \in tree[k[2]])
Right(k) == RightCompose(k) /\ tree[k[2]] \subseteq rows[k].files

(* What a scan that began at rest has done so far: what it has passed is   *)
(* right and on its list, on which there is nothing else.                  *)
Passed(i, k) ==
    at[i] # "idle" /\ k[2] \notin todo[i] /\ ~(at[i] \in {"upsert", "track"} /\ cur[i] = k)
Repairs(i) ==
    /\ keep[i] \subseteq Wanted
    /\ at[i] = "idle" => keep[i] = {}
    /\ at[i] = "prune" => todo[i] = {}
    /\ at[i] \in {"upsert", "track"} =>
          /\ cur[i] \in Wanted /\ seen[i] = tree[cur[i][2]] /\ cur[i][2] \notin todo[i]
    /\ at[i] = "track" => cur[i] \in keep[i] /\ RightCompose(cur[i])
    /\ \A k \in Wanted : Passed(i, k) => k \in keep[i] /\ Right(k)
RInv == TInv /\ \A i \in Scans : Repairs(i)

LEMMA CalmRepairs == TInv /\ Emptyhanded /\ Calm => RInv
    BY DEF RInv, Repairs, Emptyhanded, Calm, Passed

LEMMA MirrorsIsRight ==
    Mirrors <=> \A k \in Keys : IF k \in Wanted THEN Right(k) ELSE ~Exists(k)
    BY DEF Mirrors, Wanted, Right, RightCompose

LEMMA MirrorsIsRightAfter ==
    Mirrors' <=> \A k \in Keys : IF k \in Wanted' THEN Right(k)' ELSE ~Exists(k)'
    BY DEF Mirrors, Wanted, Right, RightCompose

LEMMA UpsertRepairs ==
    ASSUME TypeOK, NEW k \in Keys, NEW b \in BOOLEAN, UpsertIacStack(k, b)
    PROVE  /\ \A l \in Keys \ {k} : rows'[l] = rows[l]
           /\ Exists(k)' /\ rows'[k].compose = b
           /\ Exists(k) => rows'[k].files = rows[k].files
<1> DEFINE old == IF rows[k] = NoRow THEN NewRow ELSE rows[k]
           new == [old EXCEPT !.compose = b]
<1>1. old \in Row /\ (Exists(k) => old = rows[k])
    BY NewRowType DEF TypeOK, Exists
<1>2. new \in Row /\ new.compose = b /\ new.files = old.files
    BY <1>1, RowChange DEF Row
<1>3. rows' = [rows EXCEPT ![k] = new]
    BY DEF UpsertIacStack
<1> HIDE DEF new, old
<1> QED
    BY <1>1, <1>2, <1>3, IacAssumption DEF TypeOK, Exists

LEMMA FilesRepairs ==
    ASSUME TypeOK, NEW k \in Keys, Exists(k), NEW F \in SUBSET Files, UpsertIacFiles(k, F)
    PROVE  /\ \A l \in Keys \ {k} : rows'[l] = rows[l]
           /\ Exists(k)' /\ rows'[k].compose = rows[k].compose
           /\ rows'[k].files = rows[k].files \cup F
<1> DEFINE new == [rows[k] EXCEPT !.files = rows[k].files \cup F]
<1>1. rows[k] \in Row
    BY DEF TypeOK, Exists
<1>2. new \in Row /\ new.compose = rows[k].compose /\ new.files = rows[k].files \cup F
  <2>1. rows[k].files \cup F \in SUBSET Files
      BY <1>1, RowChange
  <2> QED
      BY <1>1, <2>1, RowChange DEF Row
<1>3. rows' = [rows EXCEPT ![k] = new]
    BY DEF UpsertIacFiles
<1> HIDE DEF new
<1> QED
    BY <1>2, <1>3, IacAssumption DEF TypeOK, Exists

(* A scan that comes to its prunes has passed all that is wanted.          *)
LEMMA AllPassed ==
    ASSUME RInv, NEW i \in Scans, at[i] \in {"walk", "prune"}, todo[i] = {}
    PROVE  /\ \A k \in Wanted : Right(k) /\ k \in keep[i] /\ ~Bare(k)
           /\ keep[i] = Wanted
<1>1. \A k \in Wanted : Passed(i, k)
    BY DEF Passed
<1>2. \A k \in Wanted : Right(k) /\ k \in keep[i]
    BY <1>1 DEF RInv, Repairs
<1>3. \A k \in Wanted : ~Bare(k)
    BY <1>2 DEF Right, Bare, Wanted
<1> QED
    BY <1>2, <1>3 DEF RInv, Repairs

(* A step of one scan: what it does to the rows and to the other scans.    *)
Kept(i) ==
    /\ UNCHANGED <<tree, known, pull>>
    /\ \A k \in Wanted : /\ RightCompose(k) => RightCompose(k)'
                         /\ Right(k) => Right(k)'
    /\ \A k \in Keys \ Wanted : ~Exists(k) => ~Exists(k)'
    /\ \A j \in Scans \ {i} :
          /\ keep'[j] = keep[j] /\ at'[j] = at[j] /\ todo'[j] = todo[j]
          /\ cur'[j] = cur[j] /\ seen'[j] = seen[j]

LEMMA OthersRepair ==
    ASSUME RInv, NEW i \in Scans, Kept(i), NEW j \in Scans \ {i} PROVE Repairs(j)'
<1>1. Wanted' = Wanted
    BY DEF Kept, Wanted, Kind
<1>2. Repairs(j)
    BY DEF RInv
<1>3. \A k \in Wanted : Passed(j, k)' <=> Passed(j, k)
    BY DEF Kept, Passed
<1> QED
    BY <1>1, <1>2, <1>3 DEF Kept, Repairs

LEMMA QuietRepairs ==
    ASSUME RInv, NEW i \in Scans, Begin(i) \/ ScanStep(i), Observe, UNCHANGED faults
    PROVE  Kept(i) /\ Repairs(i)'
<1> USE DEF files, scanning, editor
<1>1. ~Fault
  <2>1. faults \in Nat
      BY IacAssumption DEF RInv, TInv, TypeOK
  <2> QED
      BY <2>1 DEF Fault
<1>2. TypeOK /\ Held /\ Repairs(i)
    BY DEF RInv, TInv
<1>3. UNCHANGED <<tree, known, pull>> /\ Wanted' = Wanted
    BY DEF Begin, ScanStep, Look, Upsert, Track, PruneEmpty, PruneNotIn, Wanted, Kind
<1>4. \A k \in Keys : rows'[k] = rows[k] =>
        /\ RightCompose(k) => RightCompose(k)'
        /\ Right(k) => Right(k)'
        /\ ~Exists(k) => ~Exists(k)'
    BY <1>3 DEF RightCompose, Right, Exists
<1>5. CASE Begin(i)
  <2>1. /\ at[i] = "idle" /\ at' = [at EXCEPT ![i] = "walk"]
        /\ UNCHANGED <<rows, keep, cur, seen>>
        /\ \E extra : todo' = [todo EXCEPT ![i] = {s \in Stacks : tree[s] # {}} \cup extra]
      BY <1>1, <1>5 DEF Begin, Goto
  <2>2. Kept(i)
      BY <1>2, <1>3, <1>4, <2>1 DEF Kept, TypeOK, Wanted
  <2>3. \A k \in Wanted : k[2] \in todo'[i]
      BY <1>2, <2>1 DEF TypeOK, Wanted, Keys
  <2>4. keep'[i] = {} /\ at'[i] = "walk"
      BY <1>2, <2>1 DEF Repairs, TypeOK
  <2> QED
      BY <1>3, <2>2, <2>3, <2>4 DEF Repairs, Passed
<1>6. CASE Look(i)
  <2>1. PICK s \in todo[i] :
          /\ todo' = [todo EXCEPT ![i] = @ \ {s}]
          /\ \/ tree[s] = {} /\ UNCHANGED <<at, cur, seen>>
             \/ /\ tree[s] # {}
                /\ at' = [at EXCEPT ![i] = "upsert"]
                /\ seen' = [seen EXCEPT ![i] = tree[s]]
                /\ cur' = [cur EXCEPT ![i] = <<Kind, s>>]
      BY <1>1, <1>6 DEF Look, Goto, directoryHasIacContent
  <2>2. at[i] = "walk" /\ UNCHANGED <<rows, keep>>
      BY <1>6 DEF Look
  <2>3. Kept(i)
      BY <1>2, <1>3, <1>4, <2>1, <2>2 DEF Kept, TypeOK, Wanted
  <2>4. todo'[i] = todo[i] \ {s} /\ s \in Stacks
      BY <1>2, <2>1 DEF TypeOK
  <2>5. CASE tree[s] = {} /\ UNCHANGED <<at, cur, seen>>
    <3>1. \A k \in Wanted : Passed(i, k)' => Passed(i, k)
        BY <2>4, <2>5 DEF Passed, Wanted
    <3> QED
        BY <1>2, <1>3, <1>4, <2>2, <2>3, <2>5, <3>1 DEF Repairs, Kept
  <2>6. CASE /\ tree[s] # {} /\ at' = [at EXCEPT ![i] = "upsert"]
             /\ seen' = [seen EXCEPT ![i] = tree[s]]
             /\ cur' = [cur EXCEPT ![i] = <<Kind, s>>]
    <3>1. at'[i] = "upsert" /\ seen'[i] = tree[s] /\ cur'[i] = <<Kind, s>>
        BY <1>2, <2>6 DEF TypeOK
    <3>2. <<Kind, s>> \in Wanted
        BY <2>4, <2>6 DEF Wanted, Keys, Kind, Kinds
    <3>3. \A k \in Wanted : Passed(i, k)' => Passed(i, k)
      <4>1. \A k \in Wanted : k[2] = s => k = <<Kind, s>>
          BY DEF Wanted, Keys
      <4> QED
          BY <2>2, <2>4, <3>1, <4>1 DEF Passed
    <3>4. /\ cur'[i] \in Wanted /\ seen'[i] = tree'[cur'[i][2]]
          /\ cur'[i][2] \notin todo'[i]
        BY <1>3, <2>4, <3>1, <3>2
    <3> QED
        BY <1>2, <1>3, <1>4, <2>2, <2>3, <3>1, <3>3, <3>4 DEF Repairs, Kept
  <2> QED
      BY <2>1, <2>5, <2>6
<1>7. CASE Upsert(i)
  <2>0. PICK c : c = cur[i]
      OBVIOUS
  <2>1. /\ at[i] = "upsert" /\ UpsertIacStack(c, "compose" \in seen[i])
        /\ keep' = [keep EXCEPT ![i] = @ \cup {c}]
        /\ at' = [at EXCEPT ![i] = "track"] /\ UNCHANGED <<cur, seen, todo>>
      BY <1>1, <1>7, <2>0 DEF Upsert, Goto
  <2>2. c \in Wanted /\ c \in Keys /\ seen[i] = tree[c[2]] /\ c[2] \notin todo[i]
      BY <1>2, <2>0, <2>1 DEF Repairs, Wanted
  <2>3. /\ \A l \in Keys \ {c} : rows'[l] = rows[l]
        /\ Exists(c)' /\ rows'[c].compose = ("compose" \in seen[i])
        /\ Exists(c) => rows'[c].files = rows[c].files
    <3>1. ("compose" \in seen[i]) \in BOOLEAN
        OBVIOUS
    <3> QED
        BY <1>2, <2>1, <2>2, <3>1, UpsertRepairs
  <2>4. RightCompose(c)' /\ (Right(c) => Right(c)')
      BY <1>3, <2>2, <2>3 DEF RightCompose, Right
  <2>5. Kept(i)
      BY <1>2, <1>3, <1>4, <2>1, <2>2, <2>3, <2>4 DEF Kept, TypeOK, Wanted
  <2>6. keep'[i] = keep[i] \cup {c} /\ at'[i] = "track" /\ cur'[i] = c
      BY <1>2, <2>0, <2>1 DEF TypeOK
  <2>7. \A k \in Wanted : Passed(i, k)' => Passed(i, k)
      BY <2>0, <2>1, <2>6 DEF Passed
  <2> QED
      BY <1>2, <1>3, <2>1, <2>2, <2>4, <2>5, <2>6, <2>7 DEF Repairs, Kept
<1>8. CASE Track(i)
  <2>0. PICK c : c = cur[i]
      OBVIOUS
  <2>1. /\ at[i] = "track"
        /\ IF c \in keep[i] THEN UpsertIacFiles(c, seen[i]) ELSE UNCHANGED rows
        /\ at' = [at EXCEPT ![i] = "walk"]
        /\ cur' = [cur EXCEPT ![i] = NoKey] /\ seen' = [seen EXCEPT ![i] = {}]
        /\ UNCHANGED <<keep, todo>>
      BY <1>1, <1>8, <2>0 DEF Track, NextDirectory, Goto
  <2>2. /\ c \in Wanted /\ c \in Keys /\ seen[i] = tree[c[2]]
        /\ c \in keep[i] /\ RightCompose(c)
      BY <1>2, <2>0, <2>1 DEF Repairs, Wanted
  <2>3. /\ \A l \in Keys \ {c} : rows'[l] = rows[l]
        /\ Exists(c)' /\ rows'[c].compose = rows[c].compose
        /\ rows'[c].files = rows[c].files \cup seen[i]
    <3>1. seen[i] \in SUBSET Files /\ Exists(c)
        BY <1>2, <2>2 DEF TypeOK, RightCompose
    <3> QED
        BY <1>2, <2>1, <2>2, <3>1, FilesRepairs
  <2>4. Right(c)'
      BY <1>3, <2>2, <2>3 DEF RightCompose, Right
  <2>5. Kept(i)
      BY <1>2, <1>3, <1>4, <2>1, <2>2, <2>3, <2>4 DEF Kept, TypeOK, Wanted, Right
  <2>6. at'[i] = "walk" /\ keep'[i] = keep[i]
      BY <1>2, <2>1 DEF TypeOK
  <2>7. \A k \in Wanted : Passed(i, k)' => Passed(i, k) \/ k = c
      BY <2>0, <2>1, <2>6 DEF Passed
  <2>8. \A k \in Wanted : Passed(i, k)' => k \in keep'[i] /\ Right(k)'
      BY <1>2, <2>2, <2>4, <2>5, <2>6, <2>7 DEF Repairs, Kept
  <2> QED
      BY <1>2, <1>3, <2>5, <2>6, <2>8 DEF Repairs
<1>9. CASE PruneEmpty(i)
  <2>1. /\ at[i] = "walk" /\ todo[i] = {} /\ Delete({k \in Keys : Bare(k)})
        /\ at' = [at EXCEPT ![i] = "prune"] /\ UNCHANGED <<todo, cur, seen>>
      BY <1>1, <1>9 DEF PruneEmpty, Goto
  <2>2. \A k \in Wanted : Right(k) /\ k \in keep[i] /\ ~Bare(k)
      BY <2>1, AllPassed
  <2>3. \A k \in Keys : rows'[k] = IF Bare(k) THEN NoRow ELSE rows[k]
      BY <2>1 DEF Delete
  <2>4. keep' = keep
    <3>1. \A j \in Scans : keep[j] \ {k \in Keys : Bare(k)} = keep[j]
        BY <2>2 DEF RInv, Repairs
    <3>2. keep' = [j \in Scans |-> keep[j] \ {k \in Keys : Bare(k)}]
        BY <2>1 DEF Delete
    <3> QED
        BY <1>2, <3>1, <3>2 DEF TypeOK
  <2>5. Kept(i)
    <3>1. \A k \in Wanted : rows'[k] = rows[k]
        BY <2>2, <2>3 DEF Wanted
    <3>2. \A k \in Keys \ Wanted : ~Exists(k) => ~Exists(k)'
        BY <2>3 DEF Exists
    <3>3. \A k \in Wanted : /\ RightCompose(k) => RightCompose(k)'
                            /\ Right(k) => Right(k)'
        BY <1>4, <3>1 DEF Wanted
    <3> QED
        BY <1>2, <1>3, <2>1, <2>4, <3>2, <3>3 DEF Kept, TypeOK
  <2>6. at'[i] = "prune"
      BY <1>2, <2>1 DEF TypeOK
  <2> QED
      BY <1>2, <1>3, <2>1, <2>2, <2>4, <2>5, <2>6 DEF Repairs, Kept
<1>10. CASE PruneNotIn(i)
  <2>1. /\ at[i] = "prune"
        /\ rows' = [k \in Keys |-> IF k \in keep[i] THEN rows[k] ELSE NoRow]
        /\ keep' = [j \in Scans |-> IF j = i THEN {} ELSE keep[j] \cap keep[i]]
        /\ at' = [at EXCEPT ![i] = "idle"] /\ UNCHANGED <<todo, cur, seen>>
      BY <1>1, <1>10 DEF PruneNotIn, Finish, Goto
  <2>2. keep[i] = Wanted
      BY <1>2, <2>1, AllPassed DEF Repairs
  <2>3. \A j \in Scans \ {i} : keep'[j] = keep[j]
      BY <2>1, <2>2 DEF RInv, Repairs
  <2>4. Kept(i)
    <3>1. \A k \in Wanted : rows'[k] = rows[k]
        BY <2>1, <2>2 DEF Wanted
    <3>2. \A k \in Keys \ Wanted : ~Exists(k) => ~Exists(k)'
        BY <2>1, <2>2 DEF Exists
    <3>3. \A k \in Wanted : /\ RightCompose(k) => RightCompose(k)'
                            /\ Right(k) => Right(k)'
        BY <1>4, <3>1 DEF Wanted
    <3> QED
        BY <1>2, <1>3, <2>1, <2>3, <3>2, <3>3 DEF Kept, TypeOK
  <2>5. at'[i] = "idle" /\ keep'[i] = {}
      BY <1>2, <2>1 DEF TypeOK
  <2> QED
      BY <2>4, <2>5 DEF Repairs, Passed
<1> QED
    BY <1>5, <1>6, <1>7, <1>8, <1>9, <1>10 DEF ScanStep

LEMMA QuietNextRepairs == RInv /\ [QuietNext]_vars => RInv'
<1> SUFFICES ASSUME RInv, [QuietNext]_vars PROVE RInv'
    OBVIOUS
<1>1. CASE UNCHANGED vars
  <2>1. UNCHANGED <<rows, tree, known, at, todo, cur, seen, keep>>
      BY <1>1 DEF vars, base, files, scanning, editor
  <2>2. Wanted' = Wanted
      BY <2>1 DEF Wanted, Kind
  <2>3. \A k \in Wanted : (RightCompose(k)' <=> RightCompose(k)) /\ (Right(k)' <=> Right(k))
      BY <2>1 DEF Right, RightCompose, Exists
  <2>4. \A i \in Scans : Repairs(i)'
      BY <2>1, <2>2, <2>3 DEF RInv, Repairs, Passed, Wanted
  <2>5. TInv'
      BY <1>1, ScanNext DEF RInv
  <2> QED
      BY <2>4, <2>5 DEF RInv
<1>2. ASSUME NEW i \in Scans, Begin(i) \/ ScanStep(i), Observe, UNCHANGED faults
      PROVE  RInv'
  <2>1. TInv'
      BY <1>2, ScanTypes DEF RInv
  <2>2. Kept(i) /\ Repairs(i)'
      BY <1>2, QuietRepairs
  <2>3. \A j \in Scans \ {i} : Repairs(j)'
      BY <2>2, OthersRepair
  <2> QED
      BY <2>1, <2>2, <2>3 DEF RInv
<1> QED
    BY <1>1, <1>2 DEF QuietNext

(* When a scan ends that began at rest, and no other, rows and directories *)
(* agree, and they go on to.                                               *)
Repaired ==
    /\ \A i \in Scans : at[i] # "idle" /\ at'[i] = "idle" => Mirrors'
    /\ Mirrors => Mirrors'

LEMMA ScanRepairs == RInv /\ [QuietNext]_vars => [Repaired]_vars
<1> SUFFICES ASSUME RInv, QuietNext PROVE Repaired
    OBVIOUS
<1>1. PICK i \in Scans : (Begin(i) \/ ScanStep(i)) /\ Observe /\ UNCHANGED faults
    BY DEF QuietNext
<1>2. Kept(i) /\ TypeOK
    BY <1>1, QuietRepairs DEF RInv, TInv
<1>3. Wanted' = Wanted
    BY <1>2 DEF Kept, Wanted, Kind
<1>4. Mirrors => Mirrors'
    BY <1>2, <1>3, MirrorsIsRight, MirrorsIsRightAfter DEF Kept, Wanted
<1>5. ASSUME NEW j \in Scans, at[j] # "idle", at'[j] = "idle" PROVE Mirrors'
  <2>1. j = i
      BY <1>2, <1>5 DEF Kept
  <2>2. PruneNotIn(i)
      BY <1>1, <1>2, <1>5, <2>1
      DEF Begin, ScanStep, Look, Upsert, Track, PruneEmpty, NextDirectory, Goto, TypeOK
  <2>3. ~Fault
      BY <1>1, <1>2, IacAssumption DEF Fault, TypeOK
  <2>4. keep[i] = Wanted /\ \A k \in Wanted : Right(k)
      BY <1>1, <2>2, AllPassed DEF PruneNotIn, RInv, Repairs
  <2>5. \A k \in Keys \ Wanted : ~Exists(k)'
      BY <2>2, <2>3, <2>4 DEF PruneNotIn, Exists
  <2> QED
      BY <1>2, <1>3, <2>4, <2>5, MirrorsIsRightAfter DEF Kept
<1> QED
    BY <1>4, <1>5 DEF Repaired

(* Whatever edits, failures and prunes left in the tables, once everything *)
(* is at rest the first scan to end makes them agree with the directories, *)
(* and those that overlap or follow it keep them so, for any stacks and    *)
(* any number of scans.                                                    *)
THEOREM FirstScanRepairsAll == Spec => FirstScanRepairs
<1>1. Spec => [](TInv /\ Emptyhanded)
    BY ScanInit, ScanNext, EndsEmptyhanded, PTL DEF Spec
<1>2. RInv /\ [][QuietNext]_vars => [][Repaired]_vars
    BY QuietNextRepairs, ScanRepairs, PTL
<1>3. [](TInv /\ Emptyhanded => (Calm /\ [][QuietNext]_vars => [][Repaired]_vars))
    BY <1>2, CalmRepairs, PTL
<1>4. Spec => [](Calm /\ [][QuietNext]_vars => [][Repaired]_vars)
    BY <1>1, <1>3, PTL
<1> QED
    BY <1>4 DEF FirstScanRepairs, Repaired

-----------------------------------------------------------------------------
(* The evaluator.                                                          *)

(* What the settings from level n on say, now.                             *)
Rest(k, n) ==
    IF n = 1 /\ Value(k, "stack") # "unset" THEN Value(k, "stack") = "yes"
    ELSE IF n \in {1, 2} /\ Value(k, k[1]) # "unset" THEN Value(k, k[1]) = "yes"
    ELSE IF Value(k, "global") # "unset" THEN Value(k, "global") = "yes"
    ELSE Env

(* With at most one change since the question, the settings from the next  *)
(* level on still say what the policy was at some time: the change came to *)
(* a level already read, and they say what it was before, or it came to    *)
(* another, all that was read is unset, and they say what it is now.       *)
Asked(i) ==
    /\ \A k \in ids[i] : Exists(k)
    /\ ev[i] \in {"details", "read", "name"} => target[i] \in Keys
    /\ ev[i] = "details" => level[i] = 1
    /\ ev[i] \in {"details", "read"} =>
         LET k == target[i]
         IN  /\ Policy(k) \in was[i]
             /\ moved[i] = 0 /\ ~blind[i] =>
                  \A n \in 1..3 : n < level[i] => Value(k, Levels(k)[n]) = "unset"
             /\ moved[i] < 2 /\ ~blind[i] => Rest(k, level[i]) \in was[i]
    /\ ev[i] = "name" => TRUE \in was[i] \/ moved[i] > 1 \/ blind[i]
AInv == TInv /\ ATypeOK /\ \A i \in Loops : Asked(i)

LEMMA LevelsAre ==
    ASSUME NEW k \in Keys
    PROVE  /\ Levels(k)[1] = "stack" /\ Levels(k)[2] = k[1] /\ Levels(k)[3] = "global"
           /\ k[1] \in Kinds /\ k[1] # "stack" /\ k[1] # "global"
    BY DEF Levels, Keys, Kinds

LEMMA PolicyIsRest == ASSUME NEW k \in Keys PROVE Policy(k) = Rest(k, 1)
<1> DEFINE V(n) == Value(k, Levels(k)[n])
           given == {n \in 1..3 : V(n) # "unset"}
<1>1. V(1) = Value(k, "stack") /\ V(2) = Value(k, k[1]) /\ V(3) = Value(k, "global")
    BY LevelsAre
<1>2. Policy(k) = IF given = {} THEN Env
                  ELSE \E n \in given : (\A m \in given : n <= m) /\ V(n) = "yes"
    BY DEF Policy
<1>3. \A n : n \in given <=> (n = 1 \/ n = 2 \/ n = 3) /\ V(n) # "unset"
    OBVIOUS
<1> HIDE DEF given, V
<1>4. CASE V(1) # "unset"
  <2>1. (\E n \in given : (\A m \in given : n <= m) /\ V(n) = "yes") <=> V(1) = "yes"
      BY <1>3, <1>4
  <2>2. given # {}
      BY <1>3, <1>4
  <2> QED
      BY <1>1, <1>2, <1>4, <2>1, <2>2 DEF Rest
<1>5. CASE V(1) = "unset" /\ V(2) # "unset"
  <2>1. (\E n \in given : (\A m \in given : n <= m) /\ V(n) = "yes") <=> V(2) = "yes"
      BY <1>3, <1>5
  <2>2. given # {}
      BY <1>3, <1>5
  <2> QED
      BY <1>1, <1>2, <1>5, <2>1, <2>2 DEF Rest
<1>6. CASE V(1) = "unset" /\ V(2) = "unset" /\ V(3) # "unset"
  <2>1. (\E n \in given : (\A m \in given : n <= m) /\ V(n) = "yes") <=> V(3) = "yes"
      BY <1>3, <1>6
  <2>2. given # {}
      BY <1>3, <1>6
  <2> QED
      BY <1>1, <1>2, <1>6, <2>1, <2>2 DEF Rest
<1>7. CASE V(1) = "unset" /\ V(2) = "unset" /\ V(3) = "unset"
  <2>1. given = {}
      BY <1>3, <1>7
  <2> QED
      BY <1>1, <1>2, <1>7, <2>1 DEF Rest
<1> QED
    BY <1>4, <1>5, <1>6, <1>7

LEMMA RestIsBoolean == \A k, n : Rest(k, n) \in BOOLEAN
    BY AutoDevOpsAssumption DEF Rest

LEMMA PolicyIsBoolean == \A k \in Keys : Policy(k) \in BOOLEAN
    BY PolicyIsRest, RestIsBoolean

LEMMA RestSkips ==
    ASSUME NEW k \in Keys, NEW n \in 1..3
    PROVE  LET v == Value(k, Levels(k)[n])
           IN  /\ v # "unset" => Rest(k, n) = (v = "yes")
               /\ v = "unset" /\ n < 3 => Rest(k, n) = Rest(k, n + 1)
               /\ v = "unset" /\ n = 3 => Rest(k, n) = Env
<1>1. CASE n = 1
    BY <1>1, LevelsAre DEF Rest
<1>2. CASE n = 2
    BY <1>2, LevelsAre DEF Rest
<1>3. CASE n = 3
    BY <1>3, LevelsAre DEF Rest
<1> QED
    BY <1>1, <1>2, <1>3

(* When all that was read is unset, the rest says what the policy is; also *)
(* in the state after a step.                                              *)
RestIsPolicy ==
    \A k \in Keys, l \in 1..3 :
        (\A n \in 1..3 : n < l => Value(k, Levels(k)[n]) = "unset")
            => Rest(k, l) = Policy(k)

LEMMA UnsetPrefix == RestIsPolicy
<1> SUFFICES ASSUME NEW k \in Keys, NEW l \in 1..3,
                    \A n \in 1..3 : n < l => Value(k, Levels(k)[n]) = "unset"
             PROVE  Rest(k, l) = Rest(k, 1)
    BY PolicyIsRest DEF RestIsPolicy
<1>1. CASE l = 1
    BY <1>1
<1>2. CASE l = 2
    BY <1>2, RestSkips
<1>3. CASE l = 3
    BY <1>3, RestSkips
<1> QED
    BY <1>1, <1>2, <1>3

LEMMA UnsetPrefixAfter == RestIsPolicy'
<1>1. RestIsPolicy
    BY UnsetPrefix
<1> QED
    BY <1>1, PTL

LEMMA SameRest ==
    ASSUME NEW k \in Keys, NEW l \in 1..3,
           \A n \in 1..3 : n >= l => Value(k, Levels(k)[n])' = Value(k, Levels(k)[n])
    PROVE  Rest(k, l)' = Rest(k, l)
<1>1. l = 1 => Value(k, "stack")' = Value(k, "stack")
    BY LevelsAre
<1>2. l \in {1, 2} => Value(k, k[1])' = Value(k, k[1])
    BY LevelsAre
<1>3. Value(k, "global")' = Value(k, "global")
    BY LevelsAre
<1> HIDE DEF Value
<1> QED
    BY <1>1, <1>2, <1>3 DEF Rest

LEMMA SamePolicy ==
    ASSUME NEW k \in Keys,
           \A n \in 1..3 : Value(k, Levels(k)[n])' = Value(k, Levels(k)[n])
    PROVE  Policy(k)' = Policy(k)
<1>1. Rest(k, 1)' = Rest(k, 1)
    BY SameRest
<1>2. (\A n \in 1..3 : n < 1 => Value(k, Levels(k)[n]) = "unset")
      /\ (\A n \in 1..3 : n < 1 => Value(k, Levels(k)[n])' = "unset")
    OBVIOUS
<1>3. Rest(k, 1) = Policy(k)
    BY <1>2, UnsetPrefix DEF RestIsPolicy
<1>4. Rest(k, 1)' = Policy(k)'
    BY <1>2, UnsetPrefixAfter DEF RestIsPolicy
<1> QED
    BY <1>1, <1>3, <1>4

(* Others change at most one level of a policy in a step.                  *)
OneLevel(k) ==
    \E c \in 1..3 : \A n \in 1..3 : n # c => Value(k, Levels(k)[n])' = Value(k, Levels(k)[n])

LEMMA AlongAsked ==
    ASSUME AInv, Along, NEW i \in Loops, ev'[i] \in {ev[i], "due"},
           \A k \in Keys : OneLevel(k)
    PROVE  Asked(i)'
<1>1. /\ target' = target /\ level' = level /\ blind' = blind
      /\ \A l \in ids'[i] : l \in ids[i] /\ Exists(l)'
    BY DEF Along
<1>2. \A k \in Keys : target[i] = k => was'[i] = was[i] \cup {Policy(k)'}
    BY <1>1, IacAssumption DEF Along
<1>3. \A k \in Keys : target[i] = k =>
          moved'[i] = IF Changed(k) /\ moved[i] < 2 THEN moved[i] + 1 ELSE moved[i]
    BY IacAssumption DEF Along
<1>4. level[i] \in 1..3 /\ moved[i] \in 0..2
    BY DEF AInv, ATypeOK
<1>5. Asked(i)
    BY DEF AInv
<1>6. ASSUME ev[i] \in {"details", "read"}, NEW k \in Keys, k = target[i],
             NEW l \in 1..3, l = level[i]
      PROVE  /\ Policy(k)' \in was'[i]
             /\ moved'[i] = 0 /\ ~blind[i] =>
                  \A n \in 1..3 : n < l => Value(k, Levels(k)[n])' = "unset"
             /\ moved'[i] < 2 /\ ~blind[i] => Rest(k, l)' \in was'[i]
  <2> DEFINE W(n) == Value(k, Levels(k)[n])
  <2>2. /\ moved[i] = 0 /\ ~blind[i] => \A n \in 1..3 : n < l => W(n) = "unset"
        /\ moved[i] < 2 /\ ~blind[i] => Rest(k, l) \in was[i]
      BY <1>5, <1>6 DEF Asked
  <2>3. CASE ~Changed(k)
    <3>1. \A n \in 1..3 : W(n)' = W(n)
        BY <2>3 DEF Changed
    <3>2. moved'[i] = moved[i] /\ Rest(k, l)' = Rest(k, l)
        BY <1>3, <1>6, <2>3, <3>1, SameRest
    <3>3. moved'[i] = 0 /\ ~blind[i] => \A n \in 1..3 : n < l => W(n)' = "unset"
        BY <2>2, <3>1, <3>2
    <3> QED
        BY <1>2, <1>6, <2>2, <3>2, <3>3
  <2>4. CASE Changed(k) /\ moved'[i] < 2 /\ ~blind[i]
    <3>1. moved[i] = 0 /\ moved'[i] = 1
        BY <1>3, <1>4, <1>6, <2>4
    <3>2. PICK c \in 1..3 : \A n \in 1..3 : n # c => W(n)' = W(n)
        BY DEF OneLevel
    <3>3. Rest(k, l)' \in was'[i]
      <4>1. CASE c < l
        <5>1. \A n \in 1..3 : n >= l => W(n)' = W(n)
            BY <3>2, <4>1
        <5>2. Rest(k, l)' = Rest(k, l)
            BY <5>1, SameRest
        <5> HIDE DEF W
        <5> QED
            BY <1>2, <1>6, <2>2, <2>4, <3>1, <5>2
      <4>2. CASE c >= l
        <5>1. \A n \in 1..3 : n < l => W(n)' = "unset"
            BY <2>2, <2>4, <3>1, <3>2, <4>2
        <5>2. Rest(k, l)' = Policy(k)'
            BY <5>1, UnsetPrefixAfter DEF RestIsPolicy
        <5> HIDE DEF W
        <5> QED
            BY <1>2, <1>6, <5>2
      <4> QED
          BY <4>1, <4>2
    <3> HIDE DEF W
    <3> QED
        BY <1>2, <1>6, <3>1, <3>3
  <2>5. CASE Changed(k) /\ (moved'[i] >= 2 \/ blind[i])
    <3>1. moved'[i] \in 1..2
        BY <1>3, <1>4, <1>6, <2>5
    <3> HIDE DEF W
    <3> QED
        BY <1>2, <1>6, <2>5, <3>1
  <2>6. moved'[i] \in 0..2
      BY <1>3, <1>4, <1>6
  <2> HIDE DEF W
  <2> QED
      BY <2>3, <2>4, <2>5, <2>6
<1>7. ASSUME ev[i] = "name", NEW k \in Keys, k = target[i]
      PROVE  TRUE \in was'[i] \/ moved'[i] > 1 \/ blind[i]
  <2>1. TRUE \in was[i] \/ moved[i] > 1 \/ blind[i]
      BY <1>5, <1>7 DEF Asked
  <2>2. was[i] \subseteq was'[i]
      BY <1>2, <1>7
  <2>3. moved[i] > 1 => moved'[i] > 1
      BY <1>3, <1>4, <1>7
  <2> QED
      BY <2>1, <2>2, <2>3
<1>8. /\ ev'[i] \in {"details", "read", "name"} => target[i] \in Keys
      /\ ev'[i] = "details" => level[i] = 1
      /\ ev'[i] \in {"details", "read", "name"} => ev'[i] = ev[i]
    BY <1>5 DEF Asked
<1>9. /\ target'[i] = target[i] /\ level'[i] = level[i] /\ blind'[i] = blind[i]
      /\ \A l \in ids'[i] : Exists(l)'
    BY <1>1
<1>10. ASSUME ev'[i] \in {"details", "read"}
       PROVE  /\ Policy(target[i])' \in was'[i]
              /\ moved'[i] = 0 /\ ~blind[i] =>
                   \A n \in 1..3 : n < level[i] => Value(target[i], Levels(target[i])[n])' = "unset"
              /\ moved'[i] < 2 /\ ~blind[i] => Rest(target[i], level[i])' \in was'[i]
  <2>1. target[i] \in Keys /\ ev[i] \in {"details", "read"}
      BY <1>8, <1>10
  <2>2. PICK k \in Keys : k = target[i]
      BY <2>1
  <2>3. PICK l \in 1..3 : l = level[i]
      BY <1>4
  <2>4. k = target'[i] /\ l = level'[i]
      BY <1>9, <2>2, <2>3
  <2> QED
      BY <1>6, <2>1, <2>2, <2>3, <2>4
<1>11. ev'[i] = "name" => TRUE \in was'[i] \/ moved'[i] > 1 \/ blind[i]
    BY <1>7, <1>8
<1> QED
    BY <1>8, <1>9, <1>10, <1>11 DEF Asked

LEMMA RowsChangeOne ==
    ASSUME setting' = setting, NEW k \in Keys PROVE OneLevel(k)
<1>1. \A n \in 1..3 : n # 1 => Value(k, Levels(k)[n])' = Value(k, Levels(k)[n])
    BY LevelsAre DEF Value
<1> QED
    BY <1>1 DEF OneLevel

LEMMA SettingChangesOne ==
    ASSUME NEW l, NEW v, NEW k \in Keys, rows' = rows, ATypeOK,
           setting' = [setting EXCEPT ![l] = v]
    PROVE  OneLevel(k)
<1>1. PICK c \in 1..3 : \A n \in 1..3 : n # c => Levels(k)[n] = "stack" \/ Levels(k)[n] # l
    BY LevelsAre
<1>2. \A n \in 1..3 : n # c => Value(k, Levels(k)[n])' = Value(k, Levels(k)[n])
    BY <1>1, LevelsAre DEF Value, GetStackDevopsOverride, Exists, ATypeOK
<1> QED
    BY <1>2 DEF OneLevel

(* What a step of the evaluator leaves as it is.                           *)
LEMMA SameRows ==
    ASSUME UNCHANGED <<vars, setting>>, NEW k \in Keys, NEW l \in 1..3
    PROVE  /\ Policy(k)' = Policy(k) /\ Rest(k, l)' = Rest(k, l)
           /\ \A n \in 1..3 : Value(k, Levels(k)[n])' = Value(k, Levels(k)[n])
           /\ Exists(k)' <=> Exists(k)
<1>1. rows' = rows /\ setting' = setting
    BY DEF vars, base
<1>2. \A n \in 1..3 : Value(k, Levels(k)[n])' = Value(k, Levels(k)[n])
    BY <1>1, LevelsAre DEF Value, GetStackDevopsOverride, Exists
<1> QED
    BY <1>1, <1>2, SamePolicy, SameRest DEF Exists

LEMMA OtherEvaluators ==
    ASSUME AInv, UNCHANGED <<vars, setting>>, NEW j \in Loops,
           ev'[j] = ev[j], ids'[j] = ids[j], target'[j] = target[j], level'[j] = level[j],
           was'[j] = was[j], moved'[j] = moved[j], blind'[j] = blind[j]
    PROVE  Asked(j)'
<1>1. Asked(j) /\ level[j] \in 1..3 /\ \A k \in ids[j] : k \in Keys
    BY DEF AInv, ATypeOK
<1>2. \A k \in ids'[j] : Exists(k)'
    BY <1>1, SameRows DEF Asked
<1>3. ASSUME ev[j] \in {"details", "read"}
      PROVE  /\ Policy(target[j])' \in was[j]
             /\ moved[j] = 0 /\ ~blind[j] => \A n \in 1..3 : n < level[j] =>
                    Value(target[j], Levels(target[j])[n])' = "unset"
             /\ moved[j] < 2 /\ ~blind[j] => Rest(target[j], level[j])' \in was[j]
  <2>1. PICK k \in Keys : k = target[j] /\ k = target'[j]
      BY <1>1, <1>3 DEF Asked
  <2>2. PICK l \in 1..3 : l = level[j] /\ l = level'[j]
      BY <1>1
  <2>3. /\ Policy(k) \in was[j]
        /\ moved[j] = 0 /\ ~blind[j] =>
             \A n \in 1..3 : n < l => Value(k, Levels(k)[n]) = "unset"
        /\ moved[j] < 2 /\ ~blind[j] => Rest(k, l) \in was[j]
      BY <1>1, <1>3, <2>1, <2>2 DEF Asked
  <2>4. /\ Policy(k)' \in was[j]
        /\ moved[j] = 0 /\ ~blind[j] =>
             \A n \in 1..3 : n < l => Value(k, Levels(k)[n])' = "unset"
        /\ moved[j] < 2 /\ ~blind[j] => Rest(k, l)' \in was[j]
      BY <2>3, SameRows
  <2> QED
      BY <2>1, <2>2, <2>4
<1> QED
    BY <1>1, <1>2, <1>3 DEF Asked

(* A question that is asked, and one that is done with.                    *)
LEMMA AskAsked ==
    ASSUME AInv, UNCHANGED <<vars, setting>>, NEW i \in Loops, NEW k \in Keys,
           NEW r \in 1..2, Ask(i, k, r), events' \in 0..MaxEvents
    PROVE  ATypeOK' /\ Asked(i)'
<1>1. {Policy(k)} \in SUBSET BOOLEAN
    BY PolicyIsBoolean
<1>2. ATypeOK'
    BY <1>1 DEF Ask, EvGoto, AInv, ATypeOK
<1>3. /\ ev'[i] = "details" /\ target'[i] = k /\ level'[i] = 1 /\ moved'[i] = 0
      /\ was'[i] = {Policy(k)} /\ ids'[i] = ids[i]
    BY DEF Ask, EvGoto, AInv, ATypeOK
<1>4. Policy(k)' = Policy(k) /\ Rest(k, 1)' = Policy(k)
    BY SameRows, PolicyIsRest
<1>5. \A l \in ids'[i] : Exists(l)'
    BY <1>3, SameRows DEF AInv, ATypeOK, Asked
<1>6. Policy(target[i])' \in was'[i] /\ Rest(target[i], level[i])' \in was'[i]
    BY <1>3, <1>4
<1>7. \A n \in 1..3 : ~(n < level'[i])
    BY <1>3
<1> QED
    BY <1>2, <1>3, <1>5, <1>6, <1>7 DEF Asked

LEMMA SkipAsked ==
    ASSUME AInv, UNCHANGED <<vars, setting>>, NEW i \in Loops, Skip(i),
           events' \in 0..MaxEvents
    PROVE  ATypeOK' /\ Asked(i)'
<1>1. ATypeOK'
    BY DEF Skip, EvGoto, AInv, ATypeOK
<1>2. ev'[i] = "content" /\ ids'[i] \subseteq ids[i]
    BY DEF Skip, EvGoto, AInv, ATypeOK
<1>3. \A l \in ids'[i] : Exists(l)'
    BY <1>2, SameRows DEF AInv, ATypeOK, Asked
<1> QED
    BY <1>1, <1>2, <1>3 DEF Asked

LEMMA EventType == ASSUME ATypeOK, Event PROVE events' \in 0..MaxEvents
    BY AutoDevOpsAssumption DEF ATypeOK, Event

(* The read of a setting, when it says what is there.                      *)
LEMMA ReadAsked ==
    ASSUME AInv, UNCHANGED <<vars, setting>>, NEW i \in Loops, Read(i)
    PROVE  ATypeOK' /\ Asked(i)'
<1>1. Asked(i) /\ ev[i] = "read" /\ target[i] \in Keys /\ level[i] \in 1..3
      /\ blind[i] \in BOOLEAN
    BY DEF Read, AInv, ATypeOK, Asked
<1>2. PICK k \in Keys : k = target[i]
    BY <1>1
<1>3. PICK l \in 1..3 : l = level[i]
    BY <1>1
<1>4. PICK v \in {Value(k, Levels(k)[l]), "unset"} :
        LET unread == blind[i] \/ v # Value(k, Levels(k)[l])
        IN  /\ IF v # Value(k, Levels(k)[l]) THEN Event ELSE UNCHANGED events
            /\ \/ v # "unset" /\ Decide(i, v = "yes", unread)
               \/ v = "unset" /\ l < 3 /\ ReadNext(i, unread)
               \/ v = "unset" /\ l = 3 /\ Decide(i, Env, unread)
    BY <1>2, <1>3 DEF Read
<1> DEFINE unread == blind[i] \/ v # Value(k, Levels(k)[l])
<1>5. events' \in 0..MaxEvents
    BY <1>4, EventType DEF AInv, ATypeOK
<1>6. \A m \in ids[i] : Exists(m)'
    BY SameRows DEF AInv, ATypeOK, Asked
<1>7. /\ Policy(k) \in was[i]
      /\ moved[i] = 0 /\ ~blind[i] =>
           \A n \in 1..3 : n < l => Value(k, Levels(k)[n]) = "unset"
      /\ moved[i] < 2 /\ ~blind[i] => Rest(k, l) \in was[i]
    BY <1>1, <1>2, <1>3 DEF Asked
<1>8. moved[i] \in 0..2 /\ unread \in BOOLEAN
    BY <1>1 DEF AInv, ATypeOK
<1>9. CASE v = "unset" /\ l < 3 /\ ReadNext(i, unread)
  <2>1. /\ ev'[i] = "read" /\ target'[i] = k /\ was'[i] = was[i] /\ moved'[i] = moved[i]
        /\ ids'[i] = ids[i]
      BY <1>1, <1>2, <1>9 DEF ReadNext, AInv, ATypeOK
  <2>2. level'[i] = l + 1
      BY <1>3, <1>9 DEF ReadNext, AInv, ATypeOK
  <2>3. blind'[i] <=> unread
      BY <1>9 DEF ReadNext, AInv, ATypeOK
  <2>4. ATypeOK'
    <3>1. level' \in [Loops -> 1..3]
      <4>1. l + 1 \in 1..3
          BY <1>9
      <4> QED
          BY <1>3, <1>9, <4>1 DEF ReadNext, AInv, ATypeOK
    <3>2. blind' \in [Loops -> BOOLEAN]
        BY <1>8, <1>9 DEF ReadNext, AInv, ATypeOK
    <3> HIDE DEF unread
    <3> QED
        BY <1>5, <1>9, <3>1, <3>2 DEF ReadNext, AInv, ATypeOK
  <2>5. Policy(k)' \in was[i]
      BY <1>7, SameRows
  <2>6. ~blind'[i] => /\ ~blind[i]
                      /\ Value(k, Levels(k)[l]) = "unset"
      BY <1>9, <2>3
  <2>7. moved[i] = 0 /\ ~blind'[i] =>
            \A n \in 1..3 : n < l + 1 => Value(k, Levels(k)[n])' = "unset"
    <3>1. \A n \in 1..3 : n < l + 1 => n < l \/ n = l
        OBVIOUS
    <3> QED
        BY <1>7, <2>6, <3>1, SameRows
  <2>8. moved[i] < 2 /\ ~blind'[i] => Rest(k, l + 1)' \in was[i]
    <3>1. l + 1 \in 1..3
        BY <1>9
    <3>2. ~blind'[i] => Rest(k, l + 1) = Rest(k, l)
        BY <1>9, <2>6, RestSkips
    <3>3. Rest(k, l + 1)' = Rest(k, l + 1)
        BY <3>1, SameRows
    <3> QED
        BY <1>7, <2>6, <3>2, <3>3
  <2> HIDE DEF unread
  <2> QED
      BY <1>6, <2>1, <2>2, <2>4, <2>5, <2>7, <2>8 DEF Asked
<1>10. ASSUME NEW b, Decide(i, b, unread),
              b /\ ~unread => Rest(k, l) = TRUE
       PROVE  ATypeOK' /\ Asked(i)'
  <2>1. CASE Skip(i)
      BY <1>5, <2>1, SkipAsked
  <2>2. CASE Ask(i, target[i], 2)
      BY <1>1, <1>5, <2>2, AskAsked
  <2>3. CASE /\ b /\ EvGoto(i, "name")
             /\ blind' = [blind EXCEPT ![i] = unread]
             /\ UNCHANGED <<ids, target, level, round, was, moved>>
    <3>1. blind' \in [Loops -> BOOLEAN]
        BY <1>8, <2>3 DEF AInv, ATypeOK
    <3>2. ATypeOK'
        BY <1>5, <2>3, <3>1 DEF EvGoto, AInv, ATypeOK
    <3>3. ev'[i] = "name" /\ (blind'[i] <=> unread)
        BY <2>3 DEF EvGoto, AInv, ATypeOK
    <3>4. ~unread => TRUE \in was[i] \/ moved[i] > 1
      <4>1. SUFFICES ASSUME ~unread, ~(moved[i] > 1) PROVE TRUE \in was[i]
          OBVIOUS
      <4>2. ~blind[i] /\ moved[i] < 2
          BY <1>8, <4>1
      <4>3. Rest(k, l) = TRUE
          BY <1>10, <2>3, <4>1
      <4>4. Rest(k, l) \in was[i]
          BY <1>7, <4>2
      <4> QED
          BY <4>3, <4>4, Zenon
    <3> HIDE DEF unread
    <3> QED
        BY <1>1, <1>6, <2>3, <3>2, <3>3, <3>4 DEF Asked
  <2> QED
      BY <1>10, <2>1, <2>2, <2>3 DEF Decide
<1>11. CASE v # "unset" /\ Decide(i, v = "yes", unread)
  <2>1. v = "yes" /\ ~unread => Rest(k, l) = TRUE
      BY <1>11, RestSkips
  <2> QED
      BY <1>10, <1>11, <2>1
<1>12. CASE v = "unset" /\ l = 3 /\ Decide(i, Env, unread)
  <2>1. Env /\ ~unread => Rest(k, l) = TRUE
      BY <1>12, RestSkips, AutoDevOpsAssumption
  <2> QED
      BY <1>10, <1>12, <2>1
<1> QED
    BY <1>4, <1>9, <1>11, <1>12

LEMMA EvAsked ==
    ASSUME AInv, NEW i \in Loops, NoScan(i) \/ EvStep(i)
    PROVE  ATypeOK' /\ Asked(i)' /\ UNCHANGED <<vars, setting>>
<1>1. UNCHANGED <<vars, setting>>
    BY DEF NoScan, EvStep, Query, Content, Details, Read, Name, Deployed
<1>2. Asked(i) /\ \A k \in ids[i] : k \in Keys /\ Exists(k)'
    BY <1>1, SameRows DEF AInv, ATypeOK, Asked
<1>3. CASE NoScan(i)
  <2>1. ev'[i] = "due" /\ ids' = ids
      BY <1>3 DEF NoScan, EvGoto, AInv, ATypeOK
  <2>2. ATypeOK'
      BY <1>3, EventType DEF NoScan, EvGoto, question, AInv, ATypeOK
  <2> QED
      BY <1>1, <1>2, <2>1, <2>2 DEF Asked
<1>4. CASE Query(i)
  <2>1. ev'[i] = "content" /\ ids'[i] = {k \in Keys : Exists(k)}
      BY <1>4 DEF Query, EvGoto, AInv, ATypeOK
  <2>2. \A k \in ids'[i] : Exists(k)'
      BY <1>1, <2>1, SameRows
  <2>3. ATypeOK'
      BY <1>4 DEF Query, EvGoto, question, AInv, ATypeOK
  <2> QED
      BY <1>1, <2>1, <2>2, <2>3 DEF Asked
<1>5. CASE Content(i)
  <2>1. CASE EvGoto(i, "idle") /\ UNCHANGED <<ids, question, events>>
    <3>1. ev'[i] = "idle" /\ ids' = ids
        BY <2>1 DEF EvGoto, AInv, ATypeOK
    <3>2. ATypeOK'
        BY <1>5, <2>1 DEF Content, EvGoto, question, AInv, ATypeOK
    <3> QED
        BY <1>1, <1>2, <3>1, <3>2 DEF Asked
  <2>2. ASSUME NEW k \in ids[i], Ask(i, k, 1), UNCHANGED events
        PROVE  ATypeOK' /\ Asked(i)'
      BY <1>1, <1>2, <2>2, AskAsked DEF AInv, ATypeOK
  <2>3. ASSUME NEW k \in ids[i], UNCHANGED events \/ Event,
               ids' = [ids EXCEPT ![i] = @ \ {k}], UNCHANGED <<ev, question>>
        PROVE  ATypeOK' /\ Asked(i)'
    <3>1. ATypeOK'
        BY <1>5, <2>3, EventType DEF Content, question, AInv, ATypeOK
    <3>2. ids'[i] \subseteq ids[i] /\ ev'[i] = "content"
        BY <1>5, <2>3 DEF Content, AInv, ATypeOK
    <3> QED
        BY <1>2, <3>1, <3>2 DEF Asked
  <2> QED
      BY <1>1, <1>5, <2>1, <2>2, <2>3 DEF Content
<1>6. CASE Details(i)
  <2>1. CASE target[i] \in ids[i] /\ EvGoto(i, "read") /\ UNCHANGED <<ids, question, events>>
    <3>1. ATypeOK'
        BY <1>6, <2>1 DEF Details, EvGoto, question, AInv, ATypeOK
    <3>2. target[i] \in Keys /\ level[i] \in 1..3 /\ ev[i] = "details" /\ ev'[i] = "read"
        BY <1>2, <1>6, <2>1 DEF Details, EvGoto, AInv, ATypeOK
    <3>3. PICK k \in Keys : k = target[i] /\ k = target'[i]
        BY <2>1, <3>2 DEF question
    <3>4. PICK l \in 1..3 : l = level[i] /\ l = level'[i]
        BY <2>1, <3>2 DEF question
    <3>5. /\ Policy(k) \in was[i]
          /\ moved[i] = 0 /\ ~blind[i] =>
               \A n \in 1..3 : n < l => Value(k, Levels(k)[n]) = "unset"
          /\ moved[i] < 2 /\ ~blind[i] => Rest(k, l) \in was[i]
        BY <1>2, <3>2, <3>3, <3>4 DEF Asked
    <3>6. /\ Policy(k)' \in was[i]
          /\ moved[i] = 0 /\ ~blind[i] =>
               \A n \in 1..3 : n < l => Value(k, Levels(k)[n])' = "unset"
          /\ moved[i] < 2 /\ ~blind[i] => Rest(k, l)' \in was[i]
        BY <1>1, <3>5, SameRows
    <3> QED
        BY <1>1, <1>2, <2>1, <3>1, <3>2, <3>3, <3>4, <3>6 DEF Asked, question
  <2>2. CASE Skip(i) /\ (UNCHANGED events \/ Event)
    <3>1. events' \in 0..MaxEvents
        BY <2>2, EventType DEF AInv, ATypeOK
    <3> QED
        BY <1>1, <2>2, <3>1, SkipAsked
  <2> QED
      BY <1>6, <2>1, <2>2 DEF Details
<1>7. CASE Read(i)
    BY <1>1, <1>7, ReadAsked
<1>8. CASE Name(i)
  <2>1. CASE EvGoto(i, "deploy") /\ UNCHANGED <<ids, question>>
    <3>1. ATypeOK'
        BY <1>8, <2>1 DEF Name, EvGoto, question, AInv, ATypeOK
    <3>2. ev'[i] = "deploy"
        BY <2>1 DEF EvGoto, AInv, ATypeOK
    <3> QED
        BY <1>1, <1>2, <2>1, <3>1, <3>2 DEF Asked
  <2>2. CASE Skip(i)
      BY <1>1, <1>8, <2>2, SkipAsked DEF Name, AInv, ATypeOK
  <2> QED
      BY <1>8, <2>1, <2>2 DEF Name
<1>9. CASE Deployed(i)
    BY <1>1, <1>9, SkipAsked DEF Deployed, AInv, ATypeOK
<1> QED
    BY <1>1, <1>3, <1>4, <1>5, <1>6, <1>7, <1>8, <1>9 DEF EvStep

LEMMA EvLeavesOthers ==
    ASSUME AInv, NEW i \in Loops, NoScan(i) \/ EvStep(i), NEW j \in Loops, j # i
    PROVE  /\ ev'[j] = ev[j] /\ ids'[j] = ids[j] /\ target'[j] = target[j]
           /\ level'[j] = level[j] /\ was'[j] = was[j] /\ moved'[j] = moved[j]
           /\ blind'[j] = blind[j]
<1> USE DEF EvGoto, AInv, ATypeOK, question, Skip, Ask
<1>1. CASE NoScan(i) \/ Query(i)
    BY <1>1 DEF NoScan, Query
<1>2. CASE Content(i)
    BY <1>2 DEF Content
<1>3. CASE Details(i) \/ Name(i) \/ Deployed(i)
    BY <1>3 DEF Details, Name, Deployed
<1>4. CASE Read(i)
    BY <1>4 DEF Read, Decide, ReadNext
<1> QED
    BY <1>1, <1>2, <1>3, <1>4 DEF EvStep

LEMMA AlongType ==
    ASSUME AInv, Along, ev' \in [Loops -> {"idle", "due", "content", "details", "read",
                                          "name", "deploy"}],
           setting' \in [Kinds \cup {"global"} -> Values], events' \in 0..MaxEvents
    PROVE  ATypeOK'
<1>1. ids' \in [Loops -> SUBSET Keys]
    BY DEF Along, AInv, ATypeOK
<1>2. was' \in [Loops -> SUBSET BOOLEAN]
  <2>1. \A k \in Keys : Policy(k)' \in BOOLEAN
    <3>1. \A k \in Keys : Policy(k) \in BOOLEAN
        BY PolicyIsBoolean
    <3>2. \A k \in Keys : Policy(k)' = Rest(k, 1)'
        BY UnsetPrefixAfter DEF RestIsPolicy
    <3>3. \A k \in Keys : Rest(k, 1)' \in BOOLEAN
        BY AutoDevOpsAssumption DEF Rest
    <3> QED
        BY <3>2, <3>3
  <2>2. ASSUME NEW i \in Loops, NEW k \in Keys, k = target[i]
        PROVE  was[i] \cup {Policy(target[i])'} \in SUBSET BOOLEAN
    <3>1. k = target'[i]
        BY <2>2 DEF Along
    <3>2. Policy(target[i])' \in BOOLEAN
        BY <2>1, <2>2, <3>1
    <3> QED
        BY <3>2 DEF AInv, ATypeOK
  <2> QED
      BY <2>2 DEF Along, AInv, ATypeOK
<1>3. moved' \in [Loops -> 0..2]
    BY DEF Along, AInv, ATypeOK
<1> QED
    BY <1>1, <1>2, <1>3 DEF Along, AInv, ATypeOK

LEMMA ANextInv == AInv /\ [ANext]_avars => AInv'
<1> SUFFICES ASSUME AInv, [ANext]_avars PROVE AInv'
    OBVIOUS
<1>1. CASE Next /\ Follow
  <2>1. TInv'
      BY <1>1, ScanNext DEF AInv
  <2>2. \A i \in Loops : ev'[i] \in {ev[i], "due"}
      BY <1>1 DEF Follow
  <2>3. ATypeOK'
      BY <1>1, AlongType DEF Follow, AInv, ATypeOK
  <2>4. \A i \in Loops : Asked(i)'
      BY <1>1, <2>2, AlongAsked, RowsChangeOne DEF Follow
  <2> QED
      BY <2>1, <2>3, <2>4 DEF AInv
<1>2. ASSUME NEW i \in Loops, NoScan(i) \/ EvStep(i) PROVE AInv'
  <2>1. ATypeOK' /\ Asked(i)' /\ UNCHANGED <<vars, setting>>
      BY <1>2, EvAsked
  <2>2. TInv'
      BY <2>1, ScanNext DEF AInv
  <2>3. ASSUME NEW j \in Loops, j # i PROVE Asked(j)'
      BY <1>2, <2>1, <2>3, EvLeavesOthers, OtherEvaluators
  <2> QED
      BY <2>1, <2>2, <2>3 DEF AInv
<1>3. ASSUME NEW l \in Kinds \cup {"global"}, NEW v \in Values, SetDevopsApply(l, v)
      PROVE  AInv'
  <2>1. UNCHANGED vars /\ rows' = rows /\ Along /\ ev' = ev
        /\ setting' = [setting EXCEPT ![l] = v]
      BY <1>3 DEF SetDevopsApply, vars, base
  <2>2. TInv'
      BY <2>1, ScanNext DEF AInv
  <2>3. ATypeOK'
    <3>1. setting' \in [Kinds \cup {"global"} -> Values] /\ events' \in 0..MaxEvents
        BY <1>3, <2>1, EventType DEF SetDevopsApply, AInv, ATypeOK
    <3> QED
        BY <2>1, <3>1, AlongType DEF AInv, ATypeOK
  <2>4. \A k \in Keys : OneLevel(k)
      BY <2>1, SettingChangesOne DEF AInv
  <2>5. \A i \in Loops : Asked(i)'
      BY <2>1, <2>4, AlongAsked
  <2> QED
      BY <2>2, <2>3, <2>5 DEF AInv
<1>4. CASE UNCHANGED avars
  <2>1. UNCHANGED <<vars, setting, ev, ids, question, events>>
      BY <1>4 DEF avars
  <2>2. TInv'
      BY <2>1, ScanNext DEF AInv
  <2>3. ATypeOK'
      BY <2>1 DEF question, AInv, ATypeOK
  <2>4. \A j \in Loops : Asked(j)'
      BY <2>1, OtherEvaluators DEF question
  <2> QED
      BY <2>2, <2>3, <2>4 DEF AInv
<1> QED
    BY <1>1, <1>2, <1>3, <1>4
    DEF ANext, PatchGlobal, PatchHost, PatchGroup, Kinds

LEMMA AutoInvariant == ASpec => []AInv
<1>1. AInit => AInv
  <2> SUFFICES ASSUME AInit PROVE AInv
      OBVIOUS
  <2>1. 0 \in 0..MaxEvents
      BY AutoDevOpsAssumption
  <2>2. ATypeOK
      BY <2>1 DEF AInit, ATypeOK, Values
  <2>3. \A i \in Loops : Asked(i)
      BY DEF AInit, Asked
  <2> QED
      BY <2>2, <2>3, ScanInit DEF AInit, AInv
<1> QED
    BY <1>1, ANextInv, PTL DEF ASpec

(* Every variable of the scans and of the evaluators keeps its type.       *)
THEOREM TypeCorrect == ASpec => [](TypeOK /\ ATypeOK)
<1>1. AInv => TypeOK /\ ATypeOK
    BY DEF AInv, TInv
<1> QED
    BY <1>1, AutoInvariant, PTL

(* The evaluators leave the scans as they are.                             *)
THEOREM ScansAreScans == ASpec => Spec
<1>1. [ANext]_avars => [Next]_vars
    BY DEF ANext, avars, PatchGlobal, PatchHost, PatchGroup, SetDevopsApply, NoScan,
           EvStep, Query, Content, Details, Read, Name, Deployed
<1> QED
    BY <1>1, PTL DEF ASpec, AInit, Spec

(* So with evaluators, too, the prunes spare the rows of claimed stacks.   *)
THEOREM PrunesSpareClaimed == ASpec => ClaimedRowsStay
    BY ScansAreScans, ScanSparesClaimed, PTL

(* And the first scan to end after all has come to rest repairs the tables *)
(* while the evaluators read them.                                         *)
THEOREM ScanRepairsAmidEvaluators == ASpec => FirstScanRepairs
    BY ScansAreScans, FirstScanRepairsAll, PTL

(* Only a stack that still has its row, and that the policy allowed at     *)
(* some time since DeployStack asked, is deployed, for any number of       *)
(* evaluators and of changes, with the exceptions the property states.     *)
THEOREM PolicyIsObeyed == ASpec => DeploysOnlyAllowed
<1> DEFINE Obeys ==
        \A i \in Loops, k \in Keys :
            ev[i] # "deploy" /\ ev'[i] = "deploy" /\ k = target[i]
              => /\ k \in ids[i] /\ Exists(k)
                 /\ TRUE \in was[i] \/ moved[i] > 1 \/ blind[i]
<1>1. ASSUME AInv, [ANext]_avars PROVE Obeys
  <2> SUFFICES ASSUME NEW i \in Loops, ev[i] # "deploy", ev'[i] = "deploy"
               PROVE  /\ target[i] \in ids[i] /\ Exists(target[i])
                      /\ TRUE \in was[i] \/ moved[i] > 1 \/ blind[i]
      OBVIOUS
  <2>1. Name(i)
    <3>1. CASE Next /\ Follow
        BY <3>1 DEF Follow
    <3>2. ASSUME NEW j \in Loops, NoScan(j) \/ EvStep(j) PROVE Name(i)
      <4>1. j = i
          BY <1>1, <3>2, EvLeavesOthers
      <4> QED
          BY <1>1, <3>2, <4>1
          DEF NoScan, EvStep, Query, Content, Details, Read, Deployed, Decide, ReadNext,
              Ask, Skip, EvGoto, AInv, ATypeOK
    <3>3. CASE ev' = ev
        BY <3>3
    <3> QED
        BY <1>1, <3>1, <3>2, <3>3
        DEF ANext, avars, PatchGlobal, PatchHost, PatchGroup, SetDevopsApply
  <2>2. ev[i] = "name" /\ target[i] \in ids[i]
      BY <1>1, <2>1 DEF Name, Skip, EvGoto, AInv, ATypeOK
  <2> QED
      BY <1>1, <2>2 DEF AInv, Asked
<1> HIDE DEF Obeys
<1>2. AInv /\ [ANext]_avars => [Obeys]_avars
    BY <1>1
<1>3. ASpec => [][Obeys]_avars
    BY <1>2, AutoInvariant, PTL DEF ASpec
<1> QED
    BY <1>3 DEF DeploysOnlyAllowed, Obeys

-----------------------------------------------------------------------------
(* The id an evaluator drops after a setting that says no: what was read   *)
(* up to there is what the policy was.                                     *)
LEMMA ReadRefuses ==
    ASSUME AInv, NEW i \in Loops, Read(i), events' = events,
           NEW k \in ids[i] \ ids'[i]
    PROVE  k = target[i] /\ (FALSE \in was[i] \/ moved[i] > 1 \/ blind[i])
<1>1. Asked(i) /\ ev[i] = "read" /\ target[i] \in Keys /\ level[i] \in 1..3
      /\ blind[i] \in BOOLEAN /\ moved[i] \in 0..2
    BY DEF Read, AInv, ATypeOK, Asked
<1>2. PICK t \in Keys : t = target[i]
    BY <1>1
<1>3. PICK l \in 1..3 : l = level[i]
    BY <1>1
<1>4. ~Event
    BY <1>1 DEF Event, AInv, ATypeOK
<1>5. PICK v \in {Value(t, Levels(t)[l]), "unset"} :
        LET unread == blind[i] \/ v # Value(t, Levels(t)[l])
        IN  /\ v = Value(t, Levels(t)[l])
            /\ \/ v # "unset" /\ Decide(i, v = "yes", unread)
               \/ v = "unset" /\ l < 3 /\ ReadNext(i, unread)
               \/ v = "unset" /\ l = 3 /\ Decide(i, Env, unread)
    BY <1>2, <1>3, <1>4 DEF Read
<1>6. moved[i] < 2 /\ ~blind[i] => Rest(t, l) \in was[i]
    BY <1>1, <1>2, <1>3 DEF Asked
<1>7. ASSUME NEW b, NEW u, Decide(i, b, u), ~b => Rest(t, l) = FALSE
      PROVE  k = t /\ (FALSE \in was[i] \/ moved[i] > 1 \/ blind[i])
  <2>1. CASE b
      BY <1>7, <2>1 DEF Decide, Ask
  <2>2. CASE ~b
    <3>1. Skip(i)
        BY <1>7, <2>2 DEF Decide
    <3>2. k = t
        BY <1>2, <3>1 DEF Skip, AInv, ATypeOK
    <3>3. moved[i] < 2 /\ ~blind[i] => FALSE \in was[i]
        BY <1>6, <1>7, <2>2, Zenon
    <3>4. moved[i] < 2 \/ moved[i] > 1
        BY <1>1
    <3> QED
        BY <3>2, <3>3, <3>4, Zenon
  <2> QED
      BY <2>1, <2>2
<1>8. ~ReadNext(i, blind[i] \/ v # Value(t, Levels(t)[l]))
    BY DEF ReadNext
<1>9. CASE v # "unset" /\ Decide(i, v = "yes", blind[i] \/ v # Value(t, Levels(t)[l]))
  <2>1. v # "yes" => Rest(t, l) = FALSE
      BY <1>5, <1>9, RestSkips
  <2> QED
      BY <1>2, <1>7, <1>9, <2>1
<1>10. CASE v = "unset" /\ l = 3 /\ Decide(i, Env, blind[i] \/ v # Value(t, Levels(t)[l]))
  <2>1. ~Env => Rest(t, l) = FALSE
      BY <1>5, <1>10, RestSkips, AutoDevOpsAssumption
  <2> QED
      BY <1>2, <1>7, <1>10, <2>1
<1> QED
    BY <1>5, <1>8, <1>9, <1>10

(* No evaluator passes over a stack that has a row, content and a policy   *)
(* that allowed it all along: what AllowedAreDeployed rests on besides     *)
(* fairness.                                                               *)
THEOREM PolicyIsServed == ASpec => PassesOverOnlyForbidden
<1> DEFINE Serves ==
        \A i \in Loops : ev[i] # "deploy" =>
          \A k \in ids[i] \ ids'[i] :
             \/ ~Exists(k)' \/ ~HasContent(k) \/ events' # events
             \/ k = target[i] /\ (FALSE \in was[i] \/ moved[i] > 1 \/ blind[i])
<1>1. ASSUME AInv, [ANext]_avars PROVE Serves
  <2> SUFFICES ASSUME NEW i \in Loops, ev[i] # "deploy", NEW k \in ids[i] \ ids'[i],
                      Exists(k)', HasContent(k), events' = events
               PROVE  k = target[i] /\ (FALSE \in was[i] \/ moved[i] > 1 \/ blind[i])
      OBVIOUS
  <2>1. ids[i] \in SUBSET Keys /\ events \in Nat /\ Exists(k)
      BY <1>1, AutoDevOpsAssumption DEF AInv, ATypeOK, HasContent
  <2>2. ~Along
      BY <2>1 DEF Along
  <2>3. PICK j \in Loops : NoScan(j) \/ EvStep(j)
      BY <1>1, <2>2
      DEF ANext, avars, Follow, PatchGlobal, PatchHost, PatchGroup, SetDevopsApply
  <2>4. j = i
      BY <1>1, <2>3, EvLeavesOthers
  <2>5. ~Event
      BY <2>1 DEF Event
  <2>6. ~NoScan(i) /\ ~Query(i) /\ ~Content(i) /\ ~Details(i) /\ ~Name(i) /\ ~Deployed(i)
    <3>1. ~NoScan(i)
        BY DEF NoScan
    <3>2. ~Query(i)
        BY <1>1, <2>1 DEF Query, AInv, ATypeOK
    <3>3. ~Content(i)
        BY <1>1, <2>5 DEF Content, Ask, AInv, ATypeOK
    <3>4. ~Details(i) /\ ~Name(i)
        BY <1>1, <2>5 DEF Details, Name, Skip, AInv, ATypeOK
    <3> QED
        BY <3>1, <3>2, <3>3, <3>4 DEF Deployed
  <2> QED
      BY <1>1, <2>3, <2>4, <2>6, ReadRefuses DEF EvStep
<1> HIDE DEF Serves
<1>2. AInv /\ [ANext]_avars => [Serves]_avars
    BY <1>1
<1>3. ASpec => [][Serves]_avars
    BY <1>2, AutoInvariant, PTL DEF ASpec
<1> QED
    BY <1>3 DEF PassesOverOnlyForbidden, Serves
=============================================================================
