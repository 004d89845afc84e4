----------------------------- MODULE SavedItems -----------------------------
(***************************************************************************)
(* The two lists a buyer saves things to: the wishlist                     *)
(* (src/routes/wishlist.py) and the availability subscriptions             *)
(* (src/routes/subscriptions.py).  Both keep a row per slot (a user and a  *)
(* product, a user and a SKU) under a unique constraint, both look before  *)
(* they insert and delete what they have looked up; they answer the loser  *)
(* of a race differently.  One action is one statement of a READ COMMITTED *)
(* session, the INSERT with the COMMIT that follows at once being one.     *)
(*                                                                         *)
(* Abstracted: a product or SKU that B2B does not know (the request ends   *)
(* before it reads or writes a row), and the fields of the answers.        *)
(***************************************************************************)
EXTENDS Naturals

CONSTANTS
    Sessions,       \* clients, each with one request at a time
    Wishes,         \* slots of the wishlist
    Subscriptions,  \* slots of the subscriptions
    Ids             \* primary keys: the bound on rows alive at one time

Slots == Wishes \cup Subscriptions

ASSUME SlotAssumption == Wishes \cap Subscriptions = {}

VARIABLES
    rows,      \* committed rows of wishlist_items and subscriptions
    pc,        \* where the request of each session is
    slot,      \* what the last request of each session is about
    found,     \* the row a removal has loaded, or an add has inserted
    reply,     \* the answer to the last request
    happened   \* history: what was so of the slot while the request ran

vars == <<rows, pc, slot, found, reply, happened>>

Row == [slot : Slots, id : Ids]

Steps == {"idle", "check", "recheck", "insert", "reselect", "refresh", "delete"}
Replies == {"none", "CREATED", "EXISTS", "DUPLICATE", "REMOVED", "500"}
Facts == {"saved", "absent", "removed", "mine"}

TypeOK ==
    /\ rows \subseteq Row
    /\ pc \in [Sessions -> Steps]
    /\ slot \in [Sessions -> Slots]
    /\ found \in [Sessions -> SUBSET Row]
    /\ reply \in [Sessions -> Replies]
    /\ happened \in [Sessions -> SUBSET Facts]
    /\ \A s \in Sessions : found[s] # {} => pc[s] \in {"refresh", "delete"}

-----------------------------------------------------------------------------
RowsOf(k) == {w \in rows : w.slot = k}

(* A uuid that no row and no session has.                                  *)
Unused == {i \in Ids : /\ \A w \in rows : w.id # i
                       /\ \A s \in Sessions : \A w \in found[s] : w.id # i}

Init ==
    /\ rows = {}
    /\ pc = [s \in Sessions |-> "idle"]
    /\ slot \in [Sessions -> Slots]
    /\ found = [s \in Sessions |-> {}]
    /\ reply = [s \in Sessions |-> "none"]
    /\ happened = [s \in Sessions |-> {}]

(* What is so of a slot after a step, for the requests that are running.   *)
Now(k, after) == IF \E w \in after : w.slot = k THEN {"saved"} ELSE {"absent"}

Gone(k, after) ==
    IF \E w \in rows \ after : w.slot = k THEN {"removed"} ELSE {}

(* The insert of the request itself, the one whose pc moves.               *)
Mine(s, after) ==
    IF pc[s] = "insert" /\ pc'[s] = "refresh" /\ after \ rows # {}
    THEN {"mine"} ELSE {}

Witness(after) ==
    happened' = [s \in Sessions |->
        IF pc[s] = "idle" THEN happened[s]
        ELSE happened[s] \cup Now(slot[s], after) \cup Gone(slot[s], after)
                                 \cup Mine(s, after)]

Begin(s, k, step, loaded) ==
    /\ pc[s] = "idle"
    /\ pc' = [pc EXCEPT ![s] = step]
    /\ slot' = [slot EXCEPT ![s] = k]
    /\ found' = [found EXCEPT ![s] = loaded]
    /\ reply' = [reply EXCEPT ![s] = "none"]
    /\ happened' = [happened EXCEPT ![s] = Now(k, rows)]
    /\ UNCHANGED rows

GoTo(s, step) ==
    /\ pc' = [pc EXCEPT ![s] = step]
    /\ UNCHANGED <<slot, reply>>

Answer(s, code) ==
    /\ pc' = [pc EXCEPT ![s] = "idle"]
    /\ reply' = [reply EXCEPT ![s] = code]
    /\ found' = [found EXCEPT ![s] = {}]
    /\ UNCHANGED slot

-----------------------------------------------------------------------------
(* POST /wishlist and POST /cart/subscribe: B2B knows the product or SKU.  *)
Add(s, k) == Begin(s, k, "check", {})

(* The wishlist answers 200 when the product is there and looks once more  *)
(* when it is not; a subscription that exists is a 409.                    *)
FindExisting(s) ==
    /\ pc[s] = "check"
    /\ IF RowsOf(slot[s]) = {}
       THEN GoTo(s, IF slot[s] \in Wishes THEN "recheck" ELSE "insert") /\ UNCHANGED found
       ELSE Answer(s, IF slot[s] \in Wishes THEN "EXISTS" ELSE "DUPLICATE")
    /\ UNCHANGED rows
    /\ Witness(rows)

Recheck(s) ==
    /\ pc[s] = "recheck"
    /\ IF RowsOf(slot[s]) = {} THEN GoTo(s, "insert") /\ UNCHANGED found
       ELSE Answer(s, "EXISTS")
    /\ UNCHANGED rows
    /\ Witness(rows)

(* Mutant: there is no unique constraint.                                  *)
InsertFreely(s) ==
    /\ pc[s] = "insert"
    /\ \E i \in Unused :
        LET new == [slot |-> slot[s], id |-> i]
        IN  /\ rows' = rows \cup {new}
            /\ found' = [found EXCEPT ![s] = {new}]
            /\ GoTo(s, "refresh")
            /\ Witness(rows')

(* Mutant: the violation is ignored, the request goes on as the winner.    *)
InsertIgnoring(s) ==
    /\ pc[s] = "insert"
    /\ \E i \in Unused :
        LET new == IF RowsOf(slot[s]) = {} THEN {[slot |-> slot[s], id |-> i]} ELSE {}
        IN  /\ rows' = rows \cup new
            /\ found' = [found EXCEPT ![s] = RowsOf(slot[s]) \cup new]
            /\ GoTo(s, "refresh")
            /\ Witness(rows')

(* INSERT and COMMIT.  The unique constraint refuses a second row: the     *)
(* wishlist rolls back and selects the winner's row, the subscription      *)
(* leaves the error to main.py, which answers 409.                         *)
Insert(s) ==
    /\ pc[s] = "insert"
    /\ \/ /\ RowsOf(slot[s]) = {}
          /\ \E i \in Unused :
                LET new == [slot |-> slot[s], id |-> i]
                IN  /\ rows' = rows \cup {new}
                    /\ found' = [found EXCEPT ![s] = {new}]
          /\ GoTo(s, "refresh")
       \/ /\ RowsOf(slot[s]) # {}
          /\ IF slot[s] \in Wishes THEN GoTo(s, "reselect") /\ UNCHANGED found
             ELSE Answer(s, "DUPLICATE")
          /\ UNCHANGED rows
    /\ Witness(rows')

(* Mutant: the winner's row is looked for in the snapshot of the first     *)
(* select (the rollback is forgotten).                                     *)
ReselectStale(s) ==
    /\ pc[s] = "reselect"
    /\ Answer(s, "500")
    /\ UNCHANGED rows
    /\ Witness(rows)

(* scalar_one raises when there is no row.                                 *)
Reselect(s) ==
    /\ pc[s] = "reselect"
    /\ Answer(s, IF RowsOf(slot[s]) = {} THEN "500" ELSE "EXISTS")
    /\ UNCHANGED rows
    /\ Witness(rows)

(* db.refresh of the new row raises when the row is gone.                  *)
Refresh(s) ==
    /\ pc[s] = "refresh"
    /\ Answer(s, IF found[s] \subseteq rows THEN "CREATED" ELSE "500")
    /\ UNCHANGED rows
    /\ Witness(rows)

-----------------------------------------------------------------------------
(* DELETE: a row that is not there is no error.                            *)
Remove(s, k) ==
    \/ RowsOf(k) # {} /\ Begin(s, k, "delete", RowsOf(k))
    \/ /\ pc[s] = "idle"
       /\ RowsOf(k) = {}
       /\ slot' = [slot EXCEPT ![s] = k]
       /\ reply' = [reply EXCEPT ![s] = "REMOVED"]
       /\ happened' = [happened EXCEPT ![s] = Now(k, rows)]
       /\ UNCHANGED <<rows, pc, found>>

(* The DELETE by primary key; it may find the row gone already.            *)
DeleteRow(s) ==
    /\ pc[s] = "delete"
    /\ rows' = rows \ found[s]
    /\ Answer(s, "REMOVED")
    /\ Witness(rows')

Next ==
    \E s \in Sessions :
        \/ \E k \in Slots : Add(s, k) \/ Remove(s, k)
        \/ FindExisting(s) \/ Recheck(s) \/ Insert(s) \/ Reselect(s) \/ Refresh(s)
        \/ DeleteRow(s)

Spec == Init /\ [][Next]_vars

-----------------------------------------------------------------------------
(* Properties                                                              *)

(* A thing is saved once, however the adds interleave.                     *)
SavedOnce == \A w, v \in rows : w.slot = v.slot => w = v

(* An answer was the truth at some moment of the request: created says     *)
(* that this very request saved the thing, exists and duplicate that it    *)
(* was saved, removed that it was not.                                     *)
AnswerWasTrue ==
    \A s \in Sessions :
        /\ reply[s] = "CREATED" => "mine" \in happened[s]
        /\ reply[s] \in {"EXISTS", "DUPLICATE"} => "saved" \in happened[s]
        /\ reply[s] = "REMOVED" => "absent" \in happened[s]

(* An add fails only when somebody removed the same thing meanwhile.       *)
FailsOnlyIfRemoved ==
    \A s \in Sessions : reply[s] = "500" => "removed" \in happened[s]

=============================================================================
