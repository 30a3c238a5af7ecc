---------------------------- MODULE InventoryDoc ----------------------------
(***************************************************************************)
(* What an Ansible inventory holds, as far as the InventoryManager         *)
(* (api/services/inventory_manager.go) looks at it, and what each of its   *)
(* operations makes of it.  The fields of a host or group (address, tags,  *)
(* description, owner, environment) are abstracted to whether it carries   *)
(* DD-UI metadata.                                                         *)
(***************************************************************************)
CONSTANTS
    Hosts,    \* names of hosts
    Groups,   \* names of top-level groups
    NoGroup,  \* no parent is given
    Empty,    \* the contents of a file without a byte in it
    Broken    \* contents that are no YAML

Doc == [all : BOOLEAN,                      \* is there a section all.hosts?
        hosts : SUBSET Hosts,               \* its keys
        groups : SUBSET Groups,             \* top-level keys except all
        bare : SUBSET Groups,               \* those without a section vars
        member : [Groups -> SUBSET Hosts],  \* their sections hosts
        children : [Groups -> SUBSET Groups],
        nested : [Groups -> SUBSET Hosts],  \* sections hosts in all.children
        noted : SUBSET (Hosts \cup Groups)] \* entries with DD-UI metadata

Contents == Doc \cup {Empty, Broken}

ASSUME DocAssumption ==
    /\ Empty # Broken /\ Empty \notin Doc /\ Broken \notin Doc
    /\ NoGroup \notin Groups

HostRequest ==
    [op : {"CreateHost", "UpdateHost"}, host : Hosts, note : BOOLEAN]
    \cup [op : {"DeleteHost"}, host : Hosts]
GroupRequest ==
    [op : {"CreateGroup"}, group : Groups, parent : Groups \cup {NoGroup}]
    \cup [op : {"UpdateGroupMetadata"}, group : Groups, note : BOOLEAN]
MemberRequest ==
    [op : {"AddHostToGroup", "RemoveHostFromGroup"}, host : Hosts, group : Groups]
Request == HostRequest \cup GroupRequest \cup MemberRequest

(* A document without content, and the one the first creation starts from. *)
Null == [all |-> FALSE, hosts |-> {}, groups |-> {}, bare |-> {},
         member |-> [g \in Groups |-> {}], children |-> [g \in Groups |-> {}],
         nested |-> [g \in Groups |-> {}], noted |-> {}]
Fresh == [Null EXCEPT !.all = TRUE]

(* What an operation parses: no bytes make a nil map, which the creating   *)
(* operations replace.                                                     *)
Parse(q, c) ==
    IF c # Empty THEN c
    ELSE IF q.op \in {"CreateHost", "CreateGroup"} THEN Fresh ELSE Null

(* The beginnings of a document: between two of its entries a cut leaves   *)
(* YAML, with some of the hosts and some of the groups (their names decide *)
(* which come first), elsewhere mostly none.                               *)
Cut(d, hs, gs) ==
    [all |-> d.all /\ (hs = {} => d.hosts = {}), hosts |-> hs, groups |-> gs,
     bare |-> d.bare \cap gs,
     member |-> [g \in Groups |-> IF g \in gs THEN d.member[g] ELSE {}],
     children |-> [g \in Groups |-> IF g \in gs THEN d.children[g] ELSE {}],
     nested |-> [g \in Groups |-> IF hs = {} THEN {} ELSE d.nested[g]],
     noted |-> d.noted \cap (hs \cup gs)]
Torn(d) ==
    {Empty, Broken} \cup {Cut(d, hs, gs) : hs \in SUBSET d.hosts, gs \in SUBSET d.groups}

Noted(d, x, note) == IF note THEN d.noted \cup {x} ELSE d.noted \ {x}

-----------------------------------------------------------------------------
(* The operations: which documents each accepts and what it returns.       *)

CreateHost(q, d) ==
    [d EXCEPT !.all = TRUE, !.hosts = @ \cup {q.host},
              !.noted = Noted(d, q.host, q.note)]

UpdateHost(q, d) == [d EXCEPT !.noted = Noted(d, q.host, q.note)]

(* Mutant: the host is left in its groups.                                 *)
DeleteHost_AllOnly(q, d) ==
    [d EXCEPT !.hosts = @ \ {q.host}, !.noted = @ \ {q.host}]

(* The host leaves every top-level group, and stays in the groups under    *)
(* all.children, although the comments say "completely" and "from all     *)
(* groups".                                                                *)
DeleteHost(q, d) ==
    [d EXCEPT !.hosts = @ \ {q.host}, !.noted = @ \ {q.host},
              !.member = [g \in Groups |-> @[g] \ {q.host}]]

AddHostToGroup(q, d) ==
    [d EXCEPT !.groups = @ \cup {q.group},
              !.bare = IF q.group \in d.groups THEN @ ELSE @ \cup {q.group},
              !.member[q.group] = @ \cup {q.host}]

(* The group goes with its last member when nothing else is in it.         *)
RemoveHostFromGroup(q, d) ==
    LET g == q.group
        left == d.member[g] \ {q.host}
        gone == left = {} /\ g \in d.bare /\ d.children[g] = {}
    IN  [d EXCEPT !.member[g] = left,
                  !.groups = IF gone THEN @ \ {g} ELSE @,
                  !.bare = IF gone THEN @ \ {g} ELSE @]

(* The request's owner is never empty, so a new group is noted.            *)
CreateGroup(q, d) ==
    [d EXCEPT !.groups = @ \cup {q.group},
              !.noted = @ \cup {q.group},
              !.children = [p \in Groups |->
                  IF p = q.parent /\ p \in d.groups \cup {q.group}
                  THEN @[p] \cup {q.group} ELSE @[p]]]

(* Metadata is added, never taken away.                                    *)
UpdateGroupMetadata(q, d) ==
    [d EXCEPT !.noted = IF q.note THEN @ \cup {q.group} ELSE @]

Accepts(q, d) ==
    CASE q.op = "CreateHost" -> q.host \notin d.hosts
      [] q.op \in {"UpdateHost", "AddHostToGroup"} -> q.host \in d.hosts
      [] q.op = "DeleteHost" -> d.all => q.host \in d.hosts
      [] q.op = "CreateGroup" -> q.group \notin d.groups
      [] q.op = "UpdateGroupMetadata" -> q.group \in d.groups
      [] q.op = "RemoveHostFromGroup" -> TRUE

Effect(q, d) ==
    CASE q.op = "CreateHost" -> CreateHost(q, d)
      [] q.op = "UpdateHost" -> UpdateHost(q, d)
      [] q.op = "DeleteHost" -> DeleteHost(q, d)
      [] q.op = "AddHostToGroup" -> AddHostToGroup(q, d)
      [] q.op = "RemoveHostFromGroup" -> RemoveHostFromGroup(q, d)
      [] q.op = "CreateGroup" -> CreateGroup(q, d)
      [] q.op = "UpdateGroupMetadata" -> UpdateGroupMetadata(q, d)

(* UpdateGroupMetadata gives a group without vars such a section, in its   *)
(* own copy of the document, and calls itself.                             *)
Retries(q, d) ==
    q.op = "UpdateGroupMetadata" /\ q.group \in d.groups /\ q.group \in d.bare
=============================================================================
