--------------------------- MODULE InventoryStore ---------------------------
(***************************************************************************)
(* What the InventoryManager promises: a document in memory and one on     *)
(* disk.  A request is applied, as a whole, to the latest document in      *)
(* memory; its result is written, or the write fails, before another       *)
(* request is applied or the disk is read again.  So no accepted request   *)
(* is lost to a concurrent one.  Users may change the disk at any time.    *)
(***************************************************************************)
EXTENDS InventoryDoc

CONSTANTS
    Requests,  \* the requests that come
    Edits      \* the documents users write

VARIABLES
    memory,  \* the document requests are applied to
    disk,    \* the inventory file
    pending  \* a request was applied that is still to be written

svars == <<memory, disk, pending>>

StoreInit == memory = Empty /\ disk \in Edits /\ pending = FALSE

Apply ==
    /\ ~pending /\ memory # Broken
    /\ \E q \in Requests :
         LET d == Parse(q, memory)
         IN  Accepts(q, d) /\ ~Retries(q, d) /\ memory' = Effect(q, d)
    /\ pending' = TRUE
    /\ UNCHANGED disk

(* The file is being written, and holds a part of the document.            *)
Tear == pending /\ disk' \in Torn(memory) /\ UNCHANGED <<memory, pending>>

Flush == pending /\ disk' = memory /\ pending' = FALSE /\ UNCHANGED memory

Fail == pending /\ pending' = FALSE /\ UNCHANGED <<memory, disk>>

Edit == disk' \in Edits /\ UNCHANGED <<memory, pending>>

Read == ~pending /\ memory' = disk /\ UNCHANGED <<disk, pending>>

Restart == memory' = Empty /\ pending' = FALSE /\ UNCHANGED disk

StoreNext == Apply \/ Tear \/ Flush \/ Fail \/ Edit \/ Read \/ Restart

StoreSpec == StoreInit /\ [][StoreNext]_svars
=============================================================================
