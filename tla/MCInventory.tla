----------------------------- MODULE MCInventory -----------------------------
(* A host, also in a group under all.children, and a top-level group;       *)
(* requests that build on each other's results.                             *)
EXTENDS Inventory

CONSTANTS h1, g1

MCRequests ==
    {[op |-> "CreateHost", host |-> h1, note |-> TRUE],
     [op |-> "DeleteHost", host |-> h1],
     [op |-> "AddHostToGroup", host |-> h1, group |-> g1],
     [op |-> "RemoveHostFromGroup", host |-> h1, group |-> g1],
     [op |-> "UpdateGroupMetadata", group |-> g1, note |-> TRUE]}

MCEdits == {[Fresh EXCEPT !.hosts = {h1}, !.nested = [g \in Groups |-> {h1}]]}
=============================================================================
