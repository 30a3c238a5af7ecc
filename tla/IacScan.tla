------------------------------- MODULE IacScan -------------------------------
(***************************************************************************)
(* The IaC scan (services/scan_iac.go) with its statements                 *)
(* (services/db_iac.go) and the handlers that create, edit and delete      *)
(* stacks (handlers/iac.go).  A scan walks the directories of a scope,     *)
(* upserts a row into iac_stacks and its files into iac_stack_files for    *)
(* each directory with content, and deletes the rows it does not expect.   *)
(* The timer's loop, its first scan at boot and requests scan at the same  *)
(* time; users and git change rows and directories meanwhile.              *)
(*                                                                         *)
(* One action is one statement or one access to the file system.  A row is *)
(* known by its unique key; ids are never used again, so a row that is     *)
(* deleted leaves every list of ids, though a row with its key may follow. *)
(***************************************************************************)
EXTENDS Naturals, FiniteSets

CONSTANTS
    Stacks,    \* names of directories of the scope
    Loops,     \* goroutines that scan again and again
    Requests,  \* requests that scan
    NoKey,     \* a scan or an editor is at no stack
    NoRow,     \* a key without a row
    NoPull,    \* no pull is copying
    MaxEdits,  \* bound on what users, their requests and git do
    MaxFaults  \* bound on failures

Kinds == {"host", "group"}
Keys == Kinds \X Stacks
Files == {"compose", "other"}  \* a compose file, env files and scripts
Row == [compose : BOOLEAN, files : SUBSET Files, override : {"unset", "yes", "no"}]
Scans == Loops \cup Requests

ASSUME IacAssumption ==
    /\ NoKey \notin Keys /\ NoRow \notin Row
    /\ NoPull \notin [Stacks -> SUBSET Files]
    /\ MaxEdits \in Nat /\ MaxFaults \in Nat

VARIABLES
    tree,    \* the files in each directory
    known,   \* the scope has a row in hosts
    rows,    \* iac_stacks with iac_stack_files
    at,      \* where each scan is
    todo,    \* directories it has listed and not come to
    cur,     \* the key of the one it is at
    seen,    \* the files it saw there
    keep,    \* keepStackIDs
    ed,      \* where the handler that edits a file is
    key,     \* the stack it edits
    mine,    \* its id, as long as the row has it
    item,    \* the file it edits
    pull,    \* what a git pull has removed and copies again
    blame,   \* stacks that had no claim to a row at some time of the scan
    edits, faults

files == <<tree, known, pull>>
scanning == <<at, todo, cur, seen>>
editor == <<ed, key, mine, item>>
base == <<files, rows, scanning, keep, editor, edits, faults>>
vars == <<base, blame>>

TypeOK ==
    /\ tree \in [Stacks -> SUBSET Files]
    /\ known \in BOOLEAN
    /\ rows \in [Keys -> Row \cup {NoRow}]
    /\ at \in [Scans -> {"idle", "walk", "upsert", "track", "prune"}]
    /\ todo \in [Scans -> SUBSET Stacks]
    /\ cur \in [Scans -> Keys \cup {NoKey}]
    /\ seen \in [Scans -> SUBSET Files]
    /\ keep \in [Scans -> SUBSET Keys]
    /\ ed \in {"idle", "write", "record", "remove"}
    /\ key \in Keys \cup {NoKey}
    /\ mine \subseteq Keys
    /\ item \in Files
    /\ pull \in [Stacks -> SUBSET Files] \cup {NoPull}
    /\ blame \in [Scans -> SUBSET Keys]
    /\ edits \in 0..MaxEdits /\ faults \in 0..MaxFaults

Init ==
    /\ tree \in [Stacks -> {{}, {"other"}, {"compose"}}]
    /\ known \in BOOLEAN
    /\ rows = [k \in Keys |-> NoRow]
    /\ at = [i \in Scans |-> "idle"]
    /\ todo = [i \in Scans |-> {}]
    /\ cur = [i \in Scans |-> NoKey]
    /\ seen = [i \in Scans |-> {}]
    /\ keep = [i \in Scans |-> {}]
    /\ ed = "idle" /\ key = NoKey /\ mine = {} /\ item = "other"
    /\ pull = NoPull
    /\ blame = [i \in Scans |-> {}]
    /\ edits = 0 /\ faults = 0

Kind == IF known THEN "host" ELSE "group"
Goto(i, place) == at' = [at EXCEPT ![i] = place]
Edited == edits < MaxEdits /\ edits' = edits + 1
Fault == faults < MaxFaults /\ faults' = faults + 1
Exists(k) == rows[k] # NoRow
Bare(k) == Exists(k) /\ rows[k].files = {} /\ ~rows[k].compose
directoryHasIacContent(F) == F # {}

-----------------------------------------------------------------------------
(* Statements.                                                             *)

NewRow == [compose |-> FALSE, files |-> {}, override |-> "unset"]

(* On conflict the columns are updated; files and override stay.           *)
UpsertIacStack(k, compose) ==
    rows' = [rows EXCEPT ![k] =
                [(IF @ = NoRow THEN NewRow ELSE @) EXCEPT !.compose = compose]]

(* A stack that a user creates has no compose file yet.                    *)
CreateIacStack(k) == UpsertIacStack(k, FALSE)

(* The handlers find the stacks of hosts only.                             *)
GetStackIDByHostAndName(s) == Exists(<<"host", s>>)

(* Its foreign key fails for a row that is gone.                           *)
UpsertIacFiles(k, F) ==
    rows' = [rows EXCEPT ![k].files = @ \cup F]

(* Delete rows; files, stamps and cached drift go with them.               *)
Delete(K) ==
    /\ rows' = [k \in Keys |-> IF k \in K THEN NoRow ELSE rows[k]]
    /\ keep' = [i \in Scans |-> keep[i] \ K]
    /\ mine' = mine \ K

-----------------------------------------------------------------------------
(* ScanIacLocal.  A scan that fails before its walk, or finds no base      *)
(* directory, changes nothing and is no step.                              *)

(* The walk lists the directories when it comes to the scope; it ignores   *)
(* the error of a scope it cannot read.                                    *)
Begin(i) ==
    /\ at[i] = "idle"
    /\ \/ i \in Loops /\ UNCHANGED edits
       \/ i \in Requests /\ Edited
    /\ \/ /\ \E extra \in SUBSET Stacks :
               todo' = [todo EXCEPT ![i] = {s \in Stacks : tree[s] # {}} \cup extra]
          /\ UNCHANGED faults
       \/ Fault /\ UNCHANGED todo
    /\ Goto(i, "walk")
    /\ UNCHANGED <<files, rows, cur, seen, keep, editor>>

(* One directory: what kind of scope it is in, for which any error of the  *)
(* database makes it a group, and which files it has.                      *)
Look(i) ==
    /\ at[i] = "walk"
    /\ \E s \in todo[i] :
         /\ todo' = [todo EXCEPT ![i] = @ \ {s}]
         /\ \/ tree[s] = {} /\ UNCHANGED <<at, cur, seen, faults>>
            \/ /\ directoryHasIacContent(tree[s])
               /\ Goto(i, "upsert")
               /\ seen' = [seen EXCEPT ![i] = tree[s]]
               /\ \/ cur' = [cur EXCEPT ![i] = <<Kind, s>>] /\ UNCHANGED faults
                  \/ Fault /\ cur' = [cur EXCEPT ![i] = <<"group", s>>]
    /\ UNCHANGED <<files, rows, keep, editor, edits>>

NextDirectory(i) ==
    /\ Goto(i, "walk")
    /\ cur' = [cur EXCEPT ![i] = NoKey]
    /\ seen' = [seen EXCEPT ![i] = {}]

(* A stack whose statement fails is skipped, and not noted for keeping.    *)
Upsert(i) ==
    /\ at[i] = "upsert"
    /\ \/ /\ UpsertIacStack(cur[i], "compose" \in seen[i])
          /\ keep' = [keep EXCEPT ![i] = @ \cup {cur[i]}]
          /\ Goto(i, "track")
          /\ UNCHANGED <<cur, seen, faults>>
       \/ Fault /\ NextDirectory(i) /\ UNCHANGED <<rows, keep>>
    /\ UNCHANGED <<files, todo, editor, edits>>

(* Mutant: only the compose file is tracked.                               *)
Track_ComposeOnly(i) ==
    /\ at[i] = "track"
    /\ IF cur[i] \in keep[i]
         THEN UpsertIacFiles(cur[i], seen[i] \cap {"compose"})
         ELSE UNCHANGED rows
    /\ NextDirectory(i)
    /\ UNCHANGED <<files, todo, keep, editor, edits, faults>>

(* The files and services, each by its own statement.  Rows of files that  *)
(* are gone from the directory stay.                                       *)
Track(i) ==
    /\ at[i] = "track"
    /\ \/ /\ IF cur[i] \in keep[i] THEN UpsertIacFiles(cur[i], seen[i]) ELSE UNCHANGED rows
          /\ UNCHANGED faults
       \/ /\ Fault /\ cur[i] \in keep[i]
          /\ \E F \in SUBSET seen[i] : UpsertIacFiles(cur[i], F)
    /\ NextDirectory(i)
    /\ UNCHANGED <<files, todo, keep, editor, edits>>

(* Mutant: the compose_file is not looked at.                              *)
PruneEmpty_NoFiles(i) ==
    /\ at[i] = "walk" /\ todo[i] = {}
    /\ \/ /\ Delete({k \in Keys : Exists(k) /\ rows[k].files = {}})
          /\ UNCHANGED faults
       \/ Fault /\ UNCHANGED <<rows, keep, mine>>
    /\ Goto(i, "prune")
    /\ UNCHANGED <<files, todo, cur, seen, ed, key, item, edits>>

(* pruneEmptyIacStacks, whoever created the row.                           *)
PruneEmpty(i) ==
    /\ at[i] = "walk" /\ todo[i] = {}
    /\ \/ Delete({k \in Keys : Bare(k)}) /\ UNCHANGED faults
       \/ Fault /\ UNCHANGED <<rows, keep, mine>>
    /\ Goto(i, "prune")
    /\ UNCHANGED <<files, todo, cur, seen, ed, key, item, edits>>

Finish(i) == Goto(i, "idle")
Emptied(i, sets) == [sets EXCEPT ![i] = {}]

(* pruneIacStacksNotIn: all of them when there is none to keep.            *)
PruneNotIn(i) ==
    /\ at[i] = "prune"
    /\ \/ /\ rows' = [k \in Keys |-> IF k \in keep[i] THEN rows[k] ELSE NoRow]
          /\ keep' = [j \in Scans |-> IF j = i THEN {} ELSE keep[j] \cap keep[i]]
          /\ mine' = mine \cap keep[i]
          /\ UNCHANGED faults
       \/ Fault /\ keep' = Emptied(i, keep) /\ UNCHANGED <<rows, mine>>
    /\ Finish(i)
    /\ UNCHANGED <<files, todo, cur, seen, ed, key, item, edits>>

(* A request is cancelled, or the process is restarted: every statement    *)
(* that is left fails.                                                     *)
Cancel(i) ==
    /\ at[i] # "idle" /\ Fault
    /\ Finish(i)
    /\ todo' = Emptied(i, todo) /\ seen' = Emptied(i, seen) /\ keep' = Emptied(i, keep)
    /\ cur' = [cur EXCEPT ![i] = NoKey]
    /\ UNCHANGED <<files, rows, editor, edits>>

ScanStep(i) ==
    Look(i) \/ Upsert(i) \/ Track(i) \/ PruneEmpty(i) \/ PruneNotIn(i)

-----------------------------------------------------------------------------
(* Users, and git.                                                         *)

(* POST /iac/stacks and /iac/scopes/{scope}/stacks, of any kind.           *)
CreateStack(k) ==
    /\ Edited
    /\ CreateIacStack(k)
    /\ UNCHANGED <<files, scanning, keep, editor, faults>>

(* DELETE .../stacks/{stack}: the row, not the directory.                  *)
DeleteStack(s) ==
    /\ Edited /\ GetStackIDByHostAndName(s)
    /\ Delete({<<"host", s>>})
    /\ UNCHANGED <<files, scanning, ed, key, item, faults>>

SetStackDevopsOverride(k, v) ==
    /\ Edited /\ Exists(k)
    /\ rows' = [rows EXCEPT ![k].override = v]
    /\ UNCHANGED <<files, scanning, keep, editor, faults>>

PatchHostStack(s, v) == SetStackDevopsOverride(<<"host", s>>, v)
PatchGroupStack(s, v) == SetStackDevopsOverride(<<"group", s>>, v)

(* POST .../file: find the stack or create it; write the file; record it.  *)
SaveFile(k, f) ==
    /\ ed = "idle" /\ Edited
    /\ GetStackIDByHostAndName(k[2]) => k[1] = "host"
    /\ IF GetStackIDByHostAndName(k[2]) THEN UNCHANGED rows ELSE CreateIacStack(k)
    /\ ed' = "write" /\ key' = k /\ mine' = {k} /\ item' = f
    /\ UNCHANGED <<files, scanning, keep, faults>>

EditorDone == ed' = "idle" /\ key' = NoKey /\ mine' = {} /\ item' = "other"

WriteFile ==
    /\ ed = "write"
    /\ \/ /\ mine # {}
          /\ tree' = [tree EXCEPT ![key[2]] = @ \cup {item}]
          /\ ed' = "record"
          /\ UNCHANGED <<key, mine, item>>
       \/ mine = {} /\ EditorDone /\ UNCHANGED tree
    /\ UNCHANGED <<known, pull, rows, scanning, keep, edits, faults>>

RecordFile ==
    /\ ed = "record"
    /\ IF mine # {} THEN UpsertIacFiles(key, {item}) ELSE UNCHANGED rows
    /\ EditorDone
    /\ UNCHANGED <<files, scanning, keep, edits, faults>>

(* DELETE .../file: the row of the file, then the file.                    *)
DeleteFile(s, f) ==
    LET k == <<"host", s>>
    IN  /\ ed = "idle" /\ Edited /\ GetStackIDByHostAndName(s)
        /\ rows' = [rows EXCEPT ![k].files = @ \ {f}]
        /\ ed' = "remove" /\ key' = k /\ mine' = {k} /\ item' = f
        /\ UNCHANGED <<files, scanning, keep, faults>>

RemoveFile ==
    /\ ed = "remove"
    /\ IF mine # {} THEN tree' = [tree EXCEPT ![key[2]] = @ \ {item}]
                    ELSE UNCHANGED tree
    /\ EditorDone
    /\ UNCHANGED <<known, pull, rows, scanning, keep, edits, faults>>

(* The inventory is imported with the host.                                *)
ImportHost ==
    /\ ~known /\ known' = TRUE
    /\ Edited
    /\ UNCHANGED <<tree, pull, rows, scanning, keep, editor, faults>>

(* A pull, or a user on the machine, changes a directory.                  *)
ChangeDirectory(s, F) ==
    /\ Edited
    /\ tree' = [tree EXCEPT ![s] = F]
    /\ UNCHANGED <<known, pull, rows, scanning, keep, editor, faults>>

(* A pull whose rsync fails removes the directory and copies it again.     *)
PullRemove ==
    /\ pull = NoPull /\ Fault
    /\ pull' = tree /\ tree' = [s \in Stacks |-> {}]
    /\ UNCHANGED <<known, rows, scanning, keep, editor, edits>>

PullCopy ==
    /\ pull # NoPull
    /\ tree' = [s \in Stacks |-> tree[s] \cup pull[s]] /\ pull' = NoPull
    /\ UNCHANGED <<known, rows, scanning, keep, editor, edits, faults>>

UserStep ==
    \/ \E k \in Keys :
         \/ CreateStack(k)
         \/ \E f \in Files : SaveFile(k, f)
    \/ \E s \in Stacks :
         \/ DeleteStack(s)
         \/ \E v \in {"unset", "yes", "no"} : PatchHostStack(s, v) \/ PatchGroupStack(s, v)
         \/ \E f \in Files : DeleteFile(s, f)
         \/ \E F \in SUBSET Files : ChangeDirectory(s, F)
    \/ ImportHost \/ PullRemove

Underway == WriteFile \/ RecordFile \/ RemoveFile \/ PullCopy

-----------------------------------------------------------------------------
Step ==
    \/ \E i \in Scans : Begin(i) \/ ScanStep(i) \/ Cancel(i)
    \/ UserStep \/ Underway

(* A key has no claim to a row while its directory has no content, its     *)
(* kind is not the scope's, or its row is gone or records nothing.         *)
Unclaimed(k) == tree[k[2]] = {} \/ k[1] # Kind \/ ~Exists(k) \/ Bare(k)

Observe ==
    blame' = [i \in Scans |->
        IF at'[i] = "idle" THEN {}
        ELSE (IF at[i] = "idle" THEN {} ELSE blame[i])
               \cup {k \in Keys : Unclaimed(k)'}]

Next == Step /\ Observe

Spec == Init /\ [][Next]_vars

(* The ticker of a loop ticks, and what has begun goes on.                 *)
Fairness ==
    /\ \A i \in Loops : WF_vars(Begin(i) /\ Observe)
    /\ \A i \in Scans : WF_vars(ScanStep(i) /\ Observe)
    /\ WF_vars(Underway /\ Observe)
FairSpec == Spec /\ Fairness

-----------------------------------------------------------------------------
(* A scan deletes the row of a stack, with the user's override and its     *)
(* stamps, only if the stack had no claim to it at some time since the     *)
(* scan began, whatever other scans and editors do, or something failed    *)
(* (pruneIacStacksNotIn, pruneEmptyIacStacks).                             *)
ClaimedRowsStay ==
    [][\A i \in Scans, k \in Keys :
         (PruneEmpty(i) \/ PruneNotIn(i)) /\ Exists(k) /\ ~Exists(k)'
             => k \in blame[i] \/ faults > 0]_vars

(* When a scan comes to its prunes, its list has every stack that had a    *)
(* claim to its row all the time (walkFn's appends to keepStackIDs).       *)
KeepsClaimed ==
    \A i \in Scans, k \in Keys :
        at[i] = "prune" /\ faults = 0 => k \in keep[i] \/ k \in blame[i]

(* After the last edit and failure the rows agree with the directories,    *)
(* but for rows of files that are gone, as long as one has content.        *)
Mirrors ==
    \A k \in Keys :
        LET F == tree[k[2]]
        IN  /\ Exists(k) <=> k[1] = Kind /\ F # {}
            /\ Exists(k) => /\ rows[k].compose <=> "compose" \in F
                            /\ F \subseteq rows[k].files
Converges == <>[](Mirrors \/ \A s \in Stacks : tree[s] = {})

(* Nobody scans or edits.                                                  *)
Calm == (\A i \in Scans : at[i] = "idle") /\ ed = "idle" /\ pull = NoPull

(* Only scans run, and nothing fails.                                      *)
QuietNext ==
    \E i \in Scans : (Begin(i) \/ ScanStep(i)) /\ Observe /\ UNCHANGED faults

(* What Converges rests on: whatever edits and failures left in the        *)
(* tables, once everything has come to rest the first scan to end repairs  *)
(* them, and no scan that overlaps it breaks them again (ScanIacLocal).    *)
FirstScanRepairs ==
    [](Calm /\ [][QuietNext]_vars =>
         [][/\ \A i \in Scans : at[i] # "idle" /\ at'[i] = "idle" => Mirrors'
            /\ Mirrors => Mirrors']_vars)
=============================================================================
