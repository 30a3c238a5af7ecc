----------------------------- MODULE AutoDevOps -----------------------------
(***************************************************************************)
(* The evaluator of Auto-DevOps (applyAutoDevOps in main.go), which runs   *)
(* after each scan of a loop and deploys the stacks whose policy allows    *)
(* it, together with the scans themselves (module IacScan).  The policy    *)
(* (services/settings.go) is the first setting there is, of the stack, its *)
(* host or group, the database's global one, and the environment's.  Each  *)
(* is read by a statement of its own, while users change them              *)
(* (handlers/devops.go).  DeployStack asks for the policy again before it  *)
(* deploys; what it does then is module Deploy's.                          *)
(*                                                                         *)
(* The groups of a host are read from hosts.groups, which no import fills, *)
(* so that no group's setting ever counts for a stack of a host.           *)
(***************************************************************************)
EXTENDS IacScan, Sequences

CONSTANTS
    Env,       \* DD_UI_DEVOPS_APPLY
    MaxEvents, \* bound on changes of settings and on reads that fail
    MaxAll     \* bound on these, edits and failures of scans together

ASSUME AutoDevOpsAssumption ==
    Env \in BOOLEAN /\ MaxEvents \in Nat /\ MaxAll \in Nat

VARIABLES
    setting,  \* app_settings: devops_apply of the scope and global
    ev,       \* where each loop's evaluator is
    ids,      \* the ids it has queried and not done with
    target,   \* the stack it is at
    level,    \* the setting it reads next
    round,    \* whose question it is: 1 the evaluator's, 2 DeployStack's
    was,      \* what the policy has been since the question
    moved,    \* how often it changed, up to 2
    blind,    \* whether a read failed
    events

question == <<target, level, round, was, moved, blind>>
avars == <<vars, setting, ev, ids, question, events>>

Values == {"unset", "yes", "no"}

ATypeOK ==
    /\ setting \in [Kinds \cup {"global"} -> Values]
    /\ ev \in [Loops -> {"idle", "due", "content", "details", "read", "name", "deploy"}]
    /\ ids \in [Loops -> SUBSET Keys]
    /\ target \in [Loops -> Keys \cup {NoKey}]
    /\ level \in [Loops -> 1..3]
    /\ round \in [Loops -> 1..2]
    /\ was \in [Loops -> SUBSET BOOLEAN]
    /\ moved \in [Loops -> 0..2]
    /\ blind \in [Loops -> BOOLEAN]
    /\ events \in 0..MaxEvents

AInit ==
    /\ Init
    /\ setting = [l \in Kinds \cup {"global"} |-> "unset"]
    /\ ev = [i \in Loops |-> "idle"]
    /\ ids = [i \in Loops |-> {}]
    /\ target = [i \in Loops |-> NoKey]
    /\ level = [i \in Loops |-> 1]
    /\ round = [i \in Loops |-> 1]
    /\ was = [i \in Loops |-> {}]
    /\ moved = [i \in Loops |-> 0]
    /\ blind = [i \in Loops |-> FALSE]
    /\ events = 0

-----------------------------------------------------------------------------
(* The policy.                                                             *)

Levels(k) == <<"stack", k[1], "global">>

GetStackDevopsOverride(k) == IF Exists(k) THEN rows[k].override ELSE "unset"

Value(k, l) == IF l = "stack" THEN GetStackDevopsOverride(k) ELSE setting[l]

(* ShouldAutoApply, if nothing happened meanwhile.                         *)
Policy(k) ==
    LET given == {n \in 1..3 : Value(k, Levels(k)[n]) # "unset"}
    IN  IF given = {} THEN Env
        ELSE \E n \in given : /\ \A m \in given : n <= m
                              /\ Value(k, Levels(k)[n]) = "yes"

HasContent(k) == Exists(k) /\ ~Bare(k)

-----------------------------------------------------------------------------
(* The evaluator.                                                          *)

EvGoto(i, place) == ev' = [ev EXCEPT ![i] = place]
Event == events < MaxEvents /\ events' = events + 1

(* A scan that ends before its walk changes nothing; the evaluator follows *)
(* all the same.                                                           *)
NoScan(i) ==
    /\ ev[i] = "idle" /\ at[i] = "idle"
    /\ \/ (\A s \in Stacks : tree[s] = {}) /\ UNCHANGED events
       \/ Event
    /\ EvGoto(i, "due")
    /\ UNCHANGED <<vars, setting, ids, question>>

Query(i) ==
    /\ ev[i] = "due"
    /\ ids' = [ids EXCEPT ![i] = {k \in Keys : Exists(k)}]
    /\ EvGoto(i, "content")
    /\ UNCHANGED <<vars, setting, question, events>>

(* A question about stack k is asked.                                      *)
Ask(i, k, r) ==
    /\ EvGoto(i, "details")
    /\ target' = [target EXCEPT ![i] = k]
    /\ level' = [level EXCEPT ![i] = 1]
    /\ round' = [round EXCEPT ![i] = r]
    /\ was' = [was EXCEPT ![i] = {Policy(k)}]
    /\ moved' = [moved EXCEPT ![i] = 0]
    /\ blind' = [blind EXCEPT ![i] = FALSE]
    /\ UNCHANGED ids

(* On to the next id.                                                      *)
Skip(i) ==
    /\ ids' = [ids EXCEPT ![i] = @ \ {target[i]}]
    /\ EvGoto(i, "content")
    /\ target' = [target EXCEPT ![i] = NoKey]
    /\ level' = [level EXCEPT ![i] = 1]
    /\ round' = [round EXCEPT ![i] = 1]
    /\ was' = [was EXCEPT ![i] = {}]
    /\ moved' = [moved EXCEPT ![i] = 0]
    /\ blind' = [blind EXCEPT ![i] = FALSE]

(* Mutant: only stacks with a compose file have content.                   *)
Content_NeedsCompose(i) ==
    /\ ev[i] = "content"
    /\ \/ ids[i] = {} /\ EvGoto(i, "idle") /\ UNCHANGED <<ids, question>>
       \/ \E k \in ids[i] :
            \/ Exists(k) /\ rows[k].compose /\ Ask(i, k, 1)
            \/ /\ ~(Exists(k) /\ rows[k].compose)
               /\ ids' = [ids EXCEPT ![i] = @ \ {k}]
               /\ UNCHANGED <<ev, question>>
    /\ UNCHANGED <<vars, setting, events>>

(* StackHasContent, which says no when it fails.                           *)
Content(i) ==
    /\ ev[i] = "content"
    /\ \/ ids[i] = {} /\ EvGoto(i, "idle") /\ UNCHANGED <<ids, question, events>>
       \/ \E k \in ids[i] :
            \/ HasContent(k) /\ Ask(i, k, 1) /\ UNCHANGED events
            \/ /\ \/ ~HasContent(k) /\ UNCHANGED events
                  \/ HasContent(k) /\ Event
               /\ ids' = [ids EXCEPT ![i] = @ \ {k}]
               /\ UNCHANGED <<ev, question>>
    /\ UNCHANGED <<vars, setting>>

(* The row's kind and names, by its id.                                    *)
Details(i) ==
    /\ ev[i] = "details"
    /\ \/ /\ target[i] \in ids[i] /\ EvGoto(i, "read")
          /\ UNCHANGED <<ids, question, events>>
       \/ target[i] \notin ids[i] /\ Skip(i) /\ UNCHANGED events
       \/ target[i] \in ids[i] /\ Skip(i) /\ Event
    /\ UNCHANGED <<vars, setting>>

Decide(i, yes, unread) ==
    IF ~yes THEN Skip(i)
    ELSE IF round[i] = 1 THEN Ask(i, target[i], 2)
    ELSE /\ EvGoto(i, "name")
         /\ blind' = [blind EXCEPT ![i] = unread]
         /\ UNCHANGED <<ids, target, level, round, was, moved>>

ReadNext(i, unread) ==
    /\ level' = [level EXCEPT ![i] = @ + 1]
    /\ blind' = [blind EXCEPT ![i] = unread]
    /\ UNCHANGED <<ev, ids, target, round, was, moved>>

(* Mutant: the global setting is read before the scope's.                  *)
Read_GlobalFirst(i) ==
    LET v == Value(target[i], <<"stack", "global", target[i][1]>>[level[i]])
    IN  /\ ev[i] = "read"
        /\ \/ v # "unset" /\ Decide(i, v = "yes", FALSE)
           \/ v = "unset" /\ level[i] < 3 /\ ReadNext(i, FALSE)
           \/ v = "unset" /\ level[i] = 3 /\ Decide(i, Env, FALSE)
        /\ UNCHANGED <<vars, setting, events>>

(* The next setting.  One that cannot be read counts as one not set.       *)
Read(i) ==
    LET there == Value(target[i], Levels(target[i])[level[i]])
    IN  /\ ev[i] = "read"
        /\ \E v \in {there, "unset"} :
             LET unread == blind[i] \/ v # there
             IN  /\ IF v # there THEN Event ELSE UNCHANGED events
                 /\ \/ v # "unset" /\ Decide(i, v = "yes", unread)
                    \/ v = "unset" /\ level[i] < 3 /\ ReadNext(i, unread)
                    \/ v = "unset" /\ level[i] = 3 /\ Decide(i, Env, unread)
        /\ UNCHANGED <<vars, setting>>

(* DeployStack resolves the stack's name, by its id, and deploys.          *)
Name(i) ==
    /\ ev[i] = "name"
    /\ \/ target[i] \in ids[i] /\ EvGoto(i, "deploy") /\ UNCHANGED <<ids, question>>
       \/ target[i] \notin ids[i] /\ Skip(i)
    /\ UNCHANGED <<vars, setting, events>>

Deployed(i) == ev[i] = "deploy" /\ Skip(i) /\ UNCHANGED <<vars, setting, events>>

EvStep(i) == Query(i) \/ Content(i) \/ Details(i) \/ Read(i) \/ Name(i) \/ Deployed(i)

-----------------------------------------------------------------------------
(* What happens to an evaluator when others change settings and rows.      *)
Changed(k) == \E n \in 1..3 : Value(k, Levels(k)[n])' # Value(k, Levels(k)[n])
Along ==
    /\ UNCHANGED <<target, level, round, blind>>
    /\ ids' = [i \in Loops |-> {k \in ids[i] : Exists(k)'}]
    /\ was' = [i \in Loops |->
           IF target[i] = NoKey THEN {} ELSE was[i] \cup {Policy(target[i])'}]
    /\ moved' = [i \in Loops |->
           IF target[i] # NoKey /\ Changed(target[i]) /\ moved[i] < 2
           THEN moved[i] + 1 ELSE moved[i]]

SetDevopsApply(l, v) ==
    /\ Event
    /\ setting' = [setting EXCEPT ![l] = v]
    /\ UNCHANGED <<vars, ev>>
    /\ Along

PatchGlobal(v) == SetDevopsApply("global", v)
PatchHost(v) == SetDevopsApply("host", v)
PatchGroup(v) == SetDevopsApply("group", v)

(* With a step of the scans, of users or of git: a loop begins its next    *)
(* scan when its evaluator is done, which in turn is due when the scan is. *)
Follow ==
    /\ UNCHANGED <<setting, events>>
    /\ \A i \in Loops : at[i] = "idle" /\ at'[i] # "idle" => ev[i] = "idle"
    /\ ev' = [i \in Loops |->
           IF at[i] # "idle" /\ at'[i] = "idle" THEN "due" ELSE ev[i]]
    /\ Along

ANext ==
    /\ \/ Next /\ Follow
       \/ \E i \in Loops : NoScan(i) \/ EvStep(i)
       \/ \E v \in Values : PatchGlobal(v) \/ PatchHost(v) \/ PatchGroup(v)
    /\ edits' + faults' + events' <= MaxAll

ASpec == AInit /\ [][ANext]_avars

AFairSpec ==
    /\ ASpec
    /\ \A i \in Loops : WF_avars(Begin(i) /\ Observe /\ Follow) /\ WF_avars(EvStep(i))
    /\ \A i \in Scans : WF_avars(ScanStep(i) /\ Observe /\ Follow)
    /\ WF_avars(Underway /\ Observe /\ Follow)

-----------------------------------------------------------------------------
(* A stack is deployed automatically only if it still has the row it was   *)
(* queried with and if its policy allowed it at some time since            *)
(* DeployStack asked, although rows are deleted and created and the        *)
(* settings are read one after the other meanwhile, unless two of them     *)
(* changed or one could not be read (ShouldAutoApply, DeployStack).        *)
DeploysOnlyAllowed ==
    [][\A i \in Loops, k \in Keys :
         ev[i] # "deploy" /\ ev'[i] = "deploy" /\ k = target[i]
           => /\ k \in ids[i] /\ Exists(k)
              /\ TRUE \in was[i] \/ moved[i] > 1 \/ blind[i]]_avars

(* And a stack that was queried is passed over only if its row is gone, it *)
(* has no content, or its policy forbade it at some time since it was last *)
(* asked for, with the same exceptions: two changes meanwhile, or a read   *)
(* that failed (events counts the one of this very step).                  *)
PassesOverOnlyForbidden ==
    [][\A i \in Loops : ev[i] # "deploy" =>
         \A k \in ids[i] \ ids'[i] :
             \/ ~Exists(k)' \/ ~HasContent(k) \/ events' # events
             \/ k = target[i] /\ (FALSE \in was[i] \/ moved[i] > 1 \/ blind[i])]_avars

(* A stack that stays there with content, and allowed, is deployed again   *)
(* and again: the policy reaches the stack (applyAutoDevOps).              *)
AllowedAreDeployed ==
    \A k \in Keys :
        <>[](HasContent(k) /\ Policy(k))
            => []<>(\E i \in Loops : ev[i] = "deploy" /\ target[i] = k)
=============================================================================
