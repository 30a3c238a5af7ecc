------------------------------ MODULE LogTail ------------------------------
(***************************************************************************)
(* What the live logs promise a viewer of each collector: what it has read *)
(* of its log, each piece once and in order, from where it started.  Of a  *)
(* collector of its own a viewer misses a piece only if that was counted   *)
(* as missed before a later one was shown.  (Nothing is promised of the    *)
(* first piece of what is read and shown together: it is taken for a       *)
(* header.)                                                                *)
(***************************************************************************)
EXTENDS Integers

CONSTANTS
    Viewers,
    Collectors,  \* pairs: the first component is the viewer who started it
    MaxLog       \* bound on the pieces of a log

VARIABLES
    read,    \* how far each collector has come
    seen,    \* the last piece each viewer was shown of each collector
    missed   \* the pieces that a collector's own viewer will not be shown

tvars == <<read, seen, missed>>

TailInit ==
    /\ read = [k \in Collectors |-> 0]
    /\ seen = [r \in Viewers \X Collectors |-> 0]
    /\ missed = [k \in Collectors |-> {}]

(* A collector starts behind the old lines it leaves out.                  *)
Start(k) ==
    /\ read[k] = 0
    /\ \E n \in 0..MaxLog : /\ read' = [read EXCEPT ![k] = n]
                              /\ seen' = [seen EXCEPT ![<<k[1], k>>] = n]
    /\ UNCHANGED missed

Advance(k) ==
    /\ \E n \in read[k] + 1..MaxLog : read' = [read EXCEPT ![k] = n]
    /\ UNCHANGED <<seen, missed>>

(* A piece that is read alone is given up.                                 *)
Drop(k) ==
    /\ read[k] < MaxLog
    /\ read' = [read EXCEPT ![k] = @ + 1]
    /\ missed' = [missed EXCEPT ![k] = @ \cup {read[k] + 1}]
    /\ UNCHANGED seen

(* What was read, and not yet shown, is given up.                          *)
Miss(k) ==
    /\ \E first \in seen[<<k[1], k>>] + 1..read[k], last \in 1..read[k] :
          missed' = [missed EXCEPT ![k] = @ \cup first..last]
    /\ UNCHANGED <<read, seen>>

Show(v, k) ==
    /\ \E first \in seen[<<v, k>>] + 1..read[k], last \in 1..read[k] :
          /\ first <= last
          /\ k[1] = v => seen[<<v, k>>] + 1..first - 1 \subseteq missed[k]
          /\ seen' = [seen EXCEPT ![<<v, k>>] = last]
          /\ missed' = IF k[1] = v THEN [missed EXCEPT ![k] = {n \in @ : n > last}]
                       ELSE missed
    /\ UNCHANGED read

(* A viewer who has gone is owed nothing.                                  *)
Leave(v) ==
    /\ seen' = [r \in Viewers \X Collectors |-> IF r[1] = v THEN 0 ELSE seen[r]]
    /\ missed' = [k \in Collectors |-> IF k[1] = v THEN {} ELSE missed[k]]
    /\ UNCHANGED read

TailNext ==
    \/ \E k \in Collectors : Start(k) \/ Advance(k) \/ Drop(k) \/ Miss(k)
    \/ \E v \in Viewers : Leave(v) \/ \E k \in Collectors : Show(v, k)

TailSpec == TailInit /\ [][TailNext]_tvars
=============================================================================
