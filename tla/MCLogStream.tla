---------------------------- MODULE MCLogStream ----------------------------
(* Two viewers, and two containers of a host, one of them in a stack. *)
EXTENDS LogStream, TLC

CONSTANTS v1, v2, c1, c2, h1, s1

MCHostOf == [c \in Containers |-> h1]
MCStackOf == [c \in Containers |-> IF c = c1 THEN s1 ELSE NoStack]

NoFilter == [follow |-> TRUE, hosts |-> {}, stacks |-> {}, containers |-> {}, text |-> FALSE]

(* What v1 asks for is in no stack, or lines of a stack; v2 is there only  *)
(* for a moment, or follows the former.                                    *)
MCFilters == v1 :> {[NoFilter EXCEPT !.containers = {c2}],
                    [NoFilter EXCEPT !.stacks = {s1}, !.text = TRUE]}
          @@ v2 :> {[NoFilter EXCEPT !.containers = {c2}],
                    [NoFilter EXCEPT !.follow = FALSE]}
=============================================================================
