---------------------------- MODULE OrderCancel ----------------------------
(***************************************************************************)
(* Cancelling paid orders (src/routes/order.py, cancel_order and           *)
(* cancel_order_retry; src/services/order_cancel.py; the cron entrypoint   *)
(* src/workers/retry_cancel_pending.py).  A session is one database        *)
(* session: a request handler, or a run of the retry worker.  It works on  *)
(* the copy of the row it loaded, and a commit writes only the columns     *)
(* whose value differs from that copy (the ORM's unit of work), over       *)
(* whatever other sessions have committed since.  B2B releases the         *)
(* reservation of an order once, however often it is asked.                *)
(*                                                                         *)
(* Abstracted: a timestamp is "none", "past" or "future", so the length of *)
(* the backoff is left out; the text of the last error too (it is set and  *)
(* cleared with the timestamp), and the reason of the cancellation.        *)
(***************************************************************************)
EXTENDS Integers, FiniteSets, Sequences

CONSTANTS
    Orders, Users,
    OwnerOf,     \* [Orders -> Users]
    Itemless,    \* orders without order_items: nothing was reserved for them
    Requests,    \* sessions of HTTP requests
    Workers,     \* sessions of the retry worker; cron overlaps slow runs
    Limit,       \* --limit of the worker
    MaxFaults,   \* bound on crashes and on B2B calls that fail
    NoOrder

Sessions == Requests \cup Workers

ASSUME CancelAssumption ==
    /\ OwnerOf \in [Orders -> Users]
    /\ Itemless \subseteq Orders
    /\ NoOrder \notin Orders
    /\ IsFiniteSet(Orders)
    /\ Requests \cap Workers = {}
    /\ Limit \in Nat \ {0}
    /\ MaxFaults \in Nat

VARIABLES
    row,       \* the committed row of each order
    released,  \* orders whose reservation B2B has released
    pc,        \* where each session is
    target,    \* the order the session works on
    copy,      \* per session and order, the row as last loaded
    due,       \* what is left of the due list of a worker run
    reply,     \* the last HTTP answer of a request
    faults

vars == <<row, released, pc, target, copy, due, reply, faults>>

Statuses == {"CREATED", "PAID", "CANCEL_PENDING", "CANCELLED"}
Times == {"none", "past", "future"}
RowType == [status : Statuses, count : Nat, next : Times]

Steps == {"idle", "mark", "marked", "attempt", "success", "failure",
          "attempted", "next", "died"}

Replies == {"none", "ORDER_NOT_FOUND", "CANCEL_NOT_ALLOWED", "NOT_CANCEL_PENDING",
            "CANCEL_PENDING", "CANCELLED", "500"}

TypeOK ==
    /\ row \in [Orders -> RowType]
    /\ released \subseteq Orders
    /\ pc \in [Sessions -> Steps]
    /\ target \in [Sessions -> Orders \cup {NoOrder}]
    /\ copy \in [Sessions -> [Orders -> RowType]]
    /\ due \in [Sessions -> Seq(Orders)]
    /\ reply \in [Sessions -> Replies]
    /\ faults \in Nat

-----------------------------------------------------------------------------
(* A checkout leaves an order PAID, no retry scheduled.                    *)
Fresh == [status |-> "PAID", count |-> 0, next |-> "none"]

NoCopy == [o \in Orders |-> Fresh]

Init ==
    /\ row = [o \in Orders |-> Fresh]
    /\ released = {}
    /\ pc = [s \in Sessions |-> "idle"]
    /\ target = [s \in Sessions |-> NoOrder]
    /\ copy = [s \in Sessions |-> NoCopy]
    /\ due = [s \in Sessions |-> <<>>]
    /\ reply = [s \in Sessions |-> "none"]
    /\ faults = 0

Fault == faults < MaxFaults /\ faults' = faults + 1

GoTo(s, step) == pc' = [pc EXCEPT ![s] = step]

Load(s, o) == copy' = [copy EXCEPT ![s][o] = row[o]]

(* The UPDATE of a commit: a column is written when its new value is not   *)
(* the loaded one.  Two timestamps of failures always differ.              *)
Written(current, loaded, new) ==
    [status |-> IF new.status = loaded.status THEN current.status ELSE new.status,
     count |-> IF new.count = loaded.count THEN current.count ELSE new.count,
     next |-> IF new.next = loaded.next /\ new.next # "future"
              THEN current.next ELSE new.next]

Commit(s, new) ==
    LET o == target[s]
    IN  /\ row' = [row EXCEPT ![o] = Written(@, copy[s][o], new)]
        /\ copy' = [copy EXCEPT ![s][o] = new]

Cancelled(loaded) == [status |-> "CANCELLED", count |-> loaded.count, next |-> "none"]

(* A request is answered; its session is closed and its copies are gone.   *)
Reply(s, code) ==
    /\ GoTo(s, "idle")
    /\ copy' = [copy EXCEPT ![s] = NoCopy]
    /\ reply' = [reply EXCEPT ![s] = code]

(* The session of a worker run, or of a killed process, is closed.         *)
Close(s) ==
    /\ GoTo(s, "idle")
    /\ target' = [target EXCEPT ![s] = NoOrder]
    /\ copy' = [copy EXCEPT ![s] = NoCopy]
    /\ due' = [due EXCEPT ![s] = <<>>]
    /\ reply' = [reply EXCEPT ![s] = "none"]

-----------------------------------------------------------------------------
(* The handler goes on with the row it has selected.                       *)
Enter(s, o, step) ==
    /\ GoTo(s, step)
    /\ Load(s, o)
    /\ reply' = [reply EXCEPT ![s] = "none"]

(* POST /orders/{id}/cancel: select by id and buyer, check the status.     *)
CancelOrder(s, o, u) ==
    /\ pc[s] = "idle"
    /\ target' = [target EXCEPT ![s] = o]
    /\ IF OwnerOf[o] # u THEN Reply(s, "ORDER_NOT_FOUND")
       ELSE IF row[o].status \in {"CREATED", "PAID"} THEN Enter(s, o, "mark")
       ELSE Reply(s, "CANCEL_NOT_ALLOWED")
    /\ UNCHANGED <<row, released, due, faults>>

(* POST /orders/{id}/cancel-retry.                                         *)
CancelOrderRetry(s, o, u) ==
    /\ pc[s] = "idle"
    /\ target' = [target EXCEPT ![s] = o]
    /\ IF OwnerOf[o] # u THEN Reply(s, "ORDER_NOT_FOUND")
       ELSE IF row[o].status = "CANCEL_PENDING" THEN Enter(s, o, "attempt")
       ELSE Reply(s, "NOT_CANCEL_PENDING")
    /\ UNCHANGED <<row, released, due, faults>>

(* Mutant: the intent is flushed and only committed after the B2B call.    *)
MarkUncommitted(s) ==
    /\ pc[s] = "mark"
    /\ copy' = [copy EXCEPT ![s][target[s]].status = "CANCEL_PENDING"]
    /\ GoTo(s, "attempt")
    /\ UNCHANGED <<row, released, target, due, reply, faults>>

(* mark_cancel_pending: the intent is committed before B2B is called.      *)
MarkCancelPending(s) ==
    /\ pc[s] = "mark"
    /\ Commit(s, [status |-> "CANCEL_PENDING", count |-> 0, next |-> "none"])
    /\ GoTo(s, "marked")
    /\ UNCHANGED <<released, target, due, reply, faults>>

(* The refresh after the commit of mark_cancel_pending.                    *)
RefreshMarked(s) ==
    /\ pc[s] = "marked"
    /\ Load(s, target[s])
    /\ GoTo(s, "attempt")
    /\ UNCHANGED <<row, released, target, due, reply, faults>>

(* attempt_unreserve without items: nothing to release, cancel locally.    *)
CancelLocally(s) ==
    /\ pc[s] = "attempt"
    /\ target[s] \in Itemless
    /\ Commit(s, Cancelled(copy[s][target[s]]))
    /\ GoTo(s, "attempted")
    /\ UNCHANGED <<released, target, due, reply, faults>>

(* attempt_unreserve: B2B releases the reservation and says UNRESERVED.    *)
Unreserve(s) ==
    /\ pc[s] = "attempt"
    /\ target[s] \notin Itemless
    /\ released' = released \cup {target[s]}
    /\ GoTo(s, "success")
    /\ UNCHANGED <<row, target, copy, due, reply, faults>>

(* Mutant: a call that fails is taken for a success.                       *)
UnreserveFailsUnseen(s) ==
    /\ pc[s] = "attempt"
    /\ target[s] \notin Itemless
    /\ Fault
    /\ released' \in {released, released \cup {target[s]}}
    /\ GoTo(s, "success")
    /\ UNCHANGED <<row, target, copy, due, reply>>

(* attempt_unreserve: an error, a timeout, failed entries or a status that *)
(* is not UNRESERVED; B2B may have released the reservation all the same.  *)
UnreserveFails(s) ==
    /\ pc[s] = "attempt"
    /\ target[s] \notin Itemless
    /\ Fault
    /\ released' \in {released, released \cup {target[s]}}
    /\ GoTo(s, "failure")
    /\ UNCHANGED <<row, target, copy, due, reply>>

(* The end of attempt_unreserve after a success.                           *)
RecordSuccess(s) ==
    /\ pc[s] = "success"
    /\ Commit(s, Cancelled(copy[s][target[s]]))
    /\ GoTo(s, "attempted")
    /\ UNCHANGED <<released, target, due, reply, faults>>

(* _record_failure: one more attempt, the next one after a backoff.        *)
RecordFailure(s) ==
    LET loaded == copy[s][target[s]]
    IN  /\ pc[s] = "failure"
        /\ Commit(s, [status |-> "CANCEL_PENDING", count |-> loaded.count + 1,
                      next |-> "future"])
        /\ GoTo(s, "attempted")
        /\ UNCHANGED <<released, target, due, reply, faults>>

(* Mutant: a request answers what it meant to write, before the refresh.   *)
AnswerCancelled(s) ==
    /\ pc[s] = "attempted"
    /\ IF s \in Requests
       THEN Reply(s, "CANCELLED")
       ELSE GoTo(s, "next") /\ Load(s, target[s]) /\ UNCHANGED reply
    /\ UNCHANGED <<row, released, target, due, faults>>

(* The refresh after that commit; a request answers with what it finds, a  *)
(* worker goes on with its list.                                           *)
RefreshAttempted(s) ==
    /\ pc[s] = "attempted"
    /\ IF s \in Requests
       THEN Reply(s, row[target[s]].status)
       ELSE GoTo(s, "next") /\ Load(s, target[s]) /\ UNCHANGED reply
    /\ UNCHANGED <<row, released, target, due, faults>>

-----------------------------------------------------------------------------
(* Mutant: a retry time that is NULL is not due.                           *)
IsDueTimed(o) == row[o].status = "CANCEL_PENDING" /\ row[o].next = "past"

(* process_cancel_retries: one SELECT, in no particular order, of all the  *)
(* pending orders, and the first Limit of those that are due.              *)
IsDue(o) == row[o].status = "CANCEL_PENDING" /\ row[o].next # "future"

SelectDue(w) ==
    LET all == {o \in Orders : IsDue(o)}
        size == IF Cardinality(all) < Limit THEN Cardinality(all) ELSE Limit
    IN  /\ w \in Workers
        /\ pc[w] = "idle"
        /\ all # {}
        /\ \E list \in [1 .. size -> all] :
            /\ \A i, j \in 1 .. size : i # j => list[i] # list[j]
            /\ due' = [due EXCEPT ![w] = list]
        /\ copy' = [copy EXCEPT ![w] = row]
        /\ GoTo(w, "next")
        /\ UNCHANGED <<row, released, target, reply, faults>>

NextDue(w) ==
    /\ pc[w] = "next"
    /\ due[w] # <<>>
    /\ target' = [target EXCEPT ![w] = Head(due[w])]
    /\ due' = [due EXCEPT ![w] = Tail(@)]
    /\ GoTo(w, "attempt")
    /\ UNCHANGED <<row, released, copy, reply, faults>>

EndRun(w) ==
    /\ pc[w] = "next"
    /\ due[w] = <<>>
    /\ Close(w)
    /\ UNCHANGED <<row, released, faults>>

(* attempt_unreserve raises something that is not a B2BClientError: B2B    *)
(* has answered with JSON that is not an object, or the database fails.  A *)
(* request answers 500.  The worker rolls back, which expires every loaded *)
(* row, so that reading order.order_id for the log line raises once more,  *)
(* outside the try: the run ends there.                                    *)
UnexpectedError(s) ==
    /\ pc[s] \in {"attempt", "success", "failure", "attempted"}
    /\ Fault
    /\ IF s \in Requests
       THEN Reply(s, "500")
       ELSE GoTo(s, "died") /\ UNCHANGED <<copy, reply>>
    /\ UNCHANGED <<row, released, target, due>>

(* Cron starts the worker again the next minute.                           *)
CronRestart(w) ==
    /\ pc[w] = "died"
    /\ Close(w)
    /\ UNCHANGED <<row, released, faults>>

(* The process of a session is killed; nothing uncommitted is written.     *)
Crash(s) ==
    /\ pc[s] \notin {"idle", "died"}
    /\ Fault
    /\ Close(s)
    /\ UNCHANGED <<row, released>>

(* The backoff of an order passes.                                         *)
Elapse(o) ==
    /\ row[o].next = "future"
    /\ row' = [row EXCEPT ![o].next = "past"]
    /\ UNCHANGED <<released, pc, target, copy, due, reply, faults>>

Step(s) ==
    \/ MarkCancelPending(s) \/ RefreshMarked(s) \/ CancelLocally(s) \/ Unreserve(s)
    \/ UnreserveFails(s) \/ RecordSuccess(s) \/ RecordFailure(s) \/ RefreshAttempted(s)
    \/ NextDue(s) \/ EndRun(s) \/ UnexpectedError(s) \/ CronRestart(s)

Next ==
    \/ \E s \in Requests, o \in Orders, u \in Users :
            CancelOrder(s, o, u) \/ CancelOrderRetry(s, o, u)
    \/ \E w \in Workers : SelectDue(w)
    \/ \E s \in Sessions : Step(s) \/ Crash(s)
    \/ \E o \in Orders : Elapse(o)

Spec == Init /\ [][Next]_vars

(* Cron starts the worker every minute, a session that started runs on,    *)
(* time passes, and B2B's failures come to an end (MaxFaults).             *)
FairSpec ==
    /\ Spec
    /\ \A s \in Sessions : WF_vars(Step(s))
    /\ \A w \in Workers : WF_vars(SelectDue(w))
    /\ \A o \in Orders : WF_vars(Elapse(o))

-----------------------------------------------------------------------------
(* Properties                                                              *)

(* An order is CANCELLED only when B2B has given its stock back, whatever  *)
(* stale copy the session that wrote the status was working on.            *)
CancelledMeansReleased ==
    \A o \in Orders \ Itemless : row[o].status = "CANCELLED" => o \in released

(* Stock is never given back behind a live order: once B2B has released an *)
(* order, its row says so or says that it is being cancelled, through any  *)
(* crash (the intent is committed before the call).                        *)
ReleasedIsCancelling ==
    \A o \in released : row[o].status \in {"CANCEL_PENDING", "CANCELLED"}

(* The buyer is told CANCELLED only when the stock is back, and told       *)
(* CANCEL_PENDING only when the intent is kept in the row.                 *)
ReplyIsTrue ==
    \A s \in Requests :
        /\ reply[s] = "CANCELLED" => target[s] \in released \cup Itemless
        /\ reply[s] = "CANCEL_PENDING" =>
              row[target[s]].status \in {"CANCEL_PENDING", "CANCELLED"}

(* A cancellation is never taken back, by a failed attempt, a crash or a   *)
(* write from a stale copy (ADR-003: the intent cannot be lost).           *)
IntentKept ==
    [][\A o \in Orders : row[o].status \in {"CANCEL_PENDING", "CANCELLED"} =>
            row'[o].status \in {"CANCEL_PENDING", "CANCELLED"}]_vars

(* The handlers and the worker, with their stale copies, retries, crashes  *)
(* and lost answers, do to an order only what OrderLife allows: no stock   *)
(* is given back before the intent or after CANCELLED.                     *)
Stage(o) == IF row[o].status = "CREATED" THEN "PAID" ELSE row[o].status

Life == INSTANCE OrderLife WITH status <- [o \in Orders |-> Stage(o)]

KeepsLife == Life!Spec

(* Every accepted cancellation ends in CANCELLED and stays there: the      *)
(* retry worker reaches every pending order, after any restart.            *)
EventuallyCancelled ==
    \A o \in Orders :
        row[o].status = "CANCEL_PENDING" ~> [](row[o].status = "CANCELLED")

(* order.py:530 allows a cancellation of CREATED and PAID orders only, so  *)
(* an order that is CANCELLED would stay so.                               *)
CancelledIsFinal ==
    [][\A o \in Orders : row[o].status = "CANCELLED" => row'[o].status = "CANCELLED"]_vars

=============================================================================
