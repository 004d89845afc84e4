------------------------- MODULE OrderCancel_proofs -------------------------
(***************************************************************************)
(* Theorems about OrderCancel, for every number of orders, sessions and    *)
(* faults and every limit.                                                 *)
(***************************************************************************)
EXTENDS OrderCancel, FiniteSetTheorems, SequenceTheorems, TLAPS

(* An order whose cancellation has been accepted.                          *)
Cancelling(o) == row[o].status \in {"CANCEL_PENDING", "CANCELLED"}

(* What a session knows of its order at each point, however stale its copy *)
(* is: it only calls B2B for an order that is being cancelled, and it only *)
(* records a success after B2B's release.                                  *)
SessionOK(s) ==
    /\ pc[s] \in {"marked", "attempt", "success", "failure", "attempted"} =>
          target[s] \in Orders /\ Cancelling(target[s])
    /\ pc[s] = "mark" =>
          target[s] \in Orders /\ copy[s][target[s]].status \in {"CREATED", "PAID"}
    /\ pc[s] = "success" => target[s] \in released
    /\ \A i \in 1 .. Len(due[s]) : Cancelling(due[s][i])
    /\ reply[s] # "none" => pc[s] = "idle" /\ s \in Requests
    /\ reply[s] = "CANCELLED" =>
          target[s] \in Orders /\ target[s] \in released \cup Itemless
    /\ reply[s] = "CANCEL_PENDING" => target[s] \in Orders /\ Cancelling(target[s])

SessionInv == \A s \in Sessions : SessionOK(s)

(* The inductive invariant.  CancelledMeansReleased alone is not           *)
(* inductive: it needs to know that a session in "success" has seen the    *)
(* release, and ReleasedIsCancelling that a session about to call B2B has  *)
(* the intent in the row.                                                  *)
CancelInv == TypeOK /\ CancelledMeansReleased /\ ReleasedIsCancelling /\ SessionInv

-----------------------------------------------------------------------------
(* The row a commit writes is a row.                                       *)
LEMMA WrittenType ==
    ASSUME NEW x \in RowType, NEW y \in RowType, NEW z \in RowType
    PROVE  Written(x, y, z) \in RowType
  BY DEF Written, RowType, Statuses, Times

(* A commit of a well typed row leaves the rows and the copies well typed. *)
LEMMA CommitType ==
    ASSUME TypeOK, NEW s \in Sessions, target[s] \in Orders, NEW new \in RowType,
           Commit(s, new)
    PROVE  /\ row' \in [Orders -> RowType]
           /\ copy' \in [Sessions -> [Orders -> RowType]]
<1>1. Written(row[target[s]], copy[s][target[s]], new) \in RowType
  BY WrittenType DEF TypeOK
<1> QED BY <1>1 DEF TypeOK, Commit

(* A row that is loaded keeps the copies well typed.                       *)
LEMMA LoadType ==
    ASSUME TypeOK, NEW s \in Sessions, NEW o \in Orders, Load(s, o)
    PROVE  copy' \in [Sessions -> [Orders -> RowType]]
<1>1. [copy[s] EXCEPT ![o] = row[o]] \in [Orders -> RowType]
  BY DEF TypeOK
<1> QED BY <1>1 DEF TypeOK, Load

(* The copies of a closed session are well typed.                          *)
LEMMA FreshType == NoCopy \in [Orders -> RowType]
  BY DEF NoCopy, Fresh, RowType, Statuses, Times

(* Every step keeps the state well typed.                                  *)
LEMMA TypeStep == CancelInv /\ [Next]_vars => TypeOK'
<1> SUFFICES ASSUME CancelInv, [Next]_vars PROVE TypeOK'
  OBVIOUS
<1> USE FreshType
<1>1. ASSUME NEW s \in Requests, NEW o \in Orders, NEW u \in Users,
             CancelOrder(s, o, u) \/ CancelOrderRetry(s, o, u)
      PROVE  TypeOK'
  <2>1. PICK step \in {"idle", "mark", "attempt"} : GoTo(s, step)
    BY <1>1 DEF CancelOrder, CancelOrderRetry, Reply, Enter
  <2>2. PICK code \in Replies : reply' = [reply EXCEPT ![s] = code]
    BY <1>1 DEF CancelOrder, CancelOrderRetry, Reply, Enter, Replies
  <2>3. copy' \in [Sessions -> [Orders -> RowType]]
    <3>1. Load(s, o) \/ copy' = [copy EXCEPT ![s] = NoCopy]
      BY <1>1 DEF CancelOrder, CancelOrderRetry, Reply, Enter
    <3> QED BY <3>1, LoadType DEF CancelInv, TypeOK, Sessions
  <2>4. UNCHANGED <<row, released, due, faults>> /\ target' = [target EXCEPT ![s] = o]
    BY <1>1 DEF CancelOrder, CancelOrderRetry
  <2> QED BY <2>1, <2>2, <2>3, <2>4 DEF GoTo, CancelInv, TypeOK, Sessions, Steps
<1>2. ASSUME NEW s \in Sessions, MarkCancelPending(s) PROVE TypeOK'
  <2>1. [status |-> "CANCEL_PENDING", count |-> 0, next |-> "none"] \in RowType
    BY DEF RowType, Statuses, Times
  <2>2. target[s] \in Orders
    BY <1>2 DEF MarkCancelPending, CancelInv, SessionInv, SessionOK
  <2> QED BY <1>2, <2>1, <2>2, CommitType
          DEF MarkCancelPending, GoTo, CancelInv, TypeOK, Steps
<1>3. ASSUME NEW s \in Sessions, RefreshMarked(s) PROVE TypeOK'
  BY <1>3, LoadType DEF RefreshMarked, GoTo, CancelInv, SessionInv, SessionOK, TypeOK, Steps
<1>4. ASSUME NEW s \in Sessions, CancelLocally(s) \/ RecordSuccess(s) PROVE TypeOK'
  <2>1. target[s] \in Orders
    BY <1>4 DEF CancelLocally, RecordSuccess, CancelInv, SessionInv, SessionOK
  <2>2. Cancelled(copy[s][target[s]]) \in RowType
    BY <2>1 DEF Cancelled, CancelInv, TypeOK, RowType, Statuses, Times
  <2> QED BY <1>4, <2>1, <2>2, CommitType
          DEF CancelLocally, RecordSuccess, GoTo, CancelInv, TypeOK, Steps
<1>5. ASSUME NEW s \in Sessions, Unreserve(s) \/ UnreserveFails(s) PROVE TypeOK'
  <2>1. target[s] \in Orders
    BY <1>5 DEF Unreserve, UnreserveFails, CancelInv, SessionInv, SessionOK
  <2>2. released' \subseteq Orders
    BY <1>5, <2>1 DEF Unreserve, UnreserveFails, CancelInv, TypeOK
  <2>3. faults' \in Nat
    BY <1>5 DEF Unreserve, UnreserveFails, Fault, CancelInv, TypeOK
  <2>4. pc' \in [Sessions -> Steps] /\ UNCHANGED <<row, target, copy, due, reply>>
    BY <1>5 DEF Unreserve, UnreserveFails, GoTo, CancelInv, TypeOK, Steps
  <2> QED BY <2>2, <2>3, <2>4 DEF CancelInv, TypeOK
<1>6. ASSUME NEW s \in Sessions, RecordFailure(s) PROVE TypeOK'
  <2>1. target[s] \in Orders
    BY <1>6 DEF RecordFailure, CancelInv, SessionInv, SessionOK
  <2>2. [status |-> "CANCEL_PENDING", count |-> copy[s][target[s]].count + 1,
         next |-> "future"] \in RowType
    BY <2>1 DEF CancelInv, TypeOK, RowType, Statuses, Times
  <2> QED BY <1>6, <2>1, <2>2, CommitType
          DEF RecordFailure, GoTo, CancelInv, TypeOK, Steps
<1>7. ASSUME NEW s \in Sessions, RefreshAttempted(s) PROVE TypeOK'
  <2>1. target[s] \in Orders
    BY <1>7 DEF RefreshAttempted, CancelInv, SessionInv, SessionOK
  <2>2. row[target[s]].status \in {"CANCEL_PENDING", "CANCELLED"}
    BY <1>7 DEF RefreshAttempted, CancelInv, SessionInv, SessionOK, Cancelling
  <2>3. copy' \in [Sessions -> [Orders -> RowType]]
    <3>1. Load(s, target[s]) \/ copy' = [copy EXCEPT ![s] = NoCopy]
      BY <1>7 DEF RefreshAttempted, Reply
    <3> QED BY <2>1, <3>1, LoadType DEF CancelInv, TypeOK
  <2>4. reply' \in [Sessions -> Replies] /\ pc' \in [Sessions -> Steps]
    BY <1>7, <2>2 DEF RefreshAttempted, Reply, GoTo, CancelInv, TypeOK, Steps, Replies
  <2> QED BY <1>7, <2>3, <2>4 DEF RefreshAttempted, CancelInv, TypeOK
<1>8. ASSUME NEW w \in Workers, SelectDue(w) PROVE TypeOK'
  <2> DEFINE all == {o \in Orders : IsDue(o)}
             size == IF Cardinality(all) < Limit THEN Cardinality(all) ELSE Limit
  <2>1. size \in Nat
    <3>1. IsFiniteSet(all)
      BY CancelAssumption, FS_Subset
    <3> QED BY <3>1, CancelAssumption, FS_CardinalityType
  <2>2. PICK list \in [1 .. size -> all] : due' = [due EXCEPT ![w] = list]
    BY <1>8 DEF SelectDue
  <2>3. list \in Seq(Orders)
    <3>1. list \in [1 .. size -> Orders]
      BY <2>2
    <3> HIDE DEF size
    <3> QED BY <2>1, <3>1, SeqDef
  <2> HIDE DEF all, size
  <2>4. copy' = [copy EXCEPT ![w] = row] /\ pc' = [pc EXCEPT ![w] = "next"]
        /\ UNCHANGED <<row, released, target, reply, faults>>
    BY <1>8 DEF SelectDue, GoTo
  <2> QED BY <2>2, <2>3, <2>4 DEF CancelInv, TypeOK, Steps, Sessions
<1>9. ASSUME NEW s \in Sessions, NextDue(s) PROVE TypeOK'
  <2>1. Head(due[s]) \in Orders /\ Tail(due[s]) \in Seq(Orders)
    BY <1>9, HeadTailProperties DEF NextDue, CancelInv, TypeOK
  <2> QED BY <1>9, <2>1 DEF NextDue, GoTo, CancelInv, TypeOK, Steps
<1>10. ASSUME NEW s \in Sessions, EndRun(s) \/ CronRestart(s) \/ Crash(s) PROVE TypeOK'
  <2>1. Close(s) /\ UNCHANGED <<row, released>> /\ faults' \in Nat
    BY <1>10 DEF EndRun, CronRestart, Crash, Fault, CancelInv, TypeOK
  <2>2. <<>> \in Seq(Orders)
    OBVIOUS
  <2>3. due' \in [Sessions -> Seq(Orders)]
    BY <2>1, <2>2 DEF Close, CancelInv, TypeOK
  <2> QED BY <2>1, <2>3 DEF Close, GoTo, CancelInv, TypeOK, Steps, Replies
<1>11. ASSUME NEW s \in Sessions, UnexpectedError(s) PROVE TypeOK'
  <2>1. pc' \in [Sessions -> Steps] /\ reply' \in [Sessions -> Replies]
    BY <1>11 DEF UnexpectedError, Reply, GoTo, CancelInv, TypeOK, Steps, Replies
  <2>2. copy' \in [Sessions -> [Orders -> RowType]]
    BY <1>11 DEF UnexpectedError, Reply, CancelInv, TypeOK
  <2> QED BY <1>11, <2>1, <2>2, CancelAssumption DEF UnexpectedError, Fault, CancelInv, TypeOK
<1>12. ASSUME NEW o \in Orders, Elapse(o) PROVE TypeOK'
  BY <1>12 DEF Elapse, CancelInv, TypeOK, RowType, Times
<1>13. CASE UNCHANGED vars
  BY <1>13 DEF vars, CancelInv, TypeOK
<1> QED
  BY <1>1, <1>2, <1>3, <1>4, <1>5, <1>6, <1>7, <1>8, <1>9, <1>10, <1>11, <1>12, <1>13
     DEF Next, Step

-----------------------------------------------------------------------------
(* A commit that writes CANCEL_PENDING or CANCELLED accepts the            *)
(* cancellation, unless its stale copy already had that status and the     *)
(* row has not been accepted.                                              *)
LEMMA CommitCancelling ==
    ASSUME TypeOK, NEW s \in Sessions, target[s] \in Orders, NEW new \in RowType,
           Commit(s, new), target' = target, new.status \in {"CANCEL_PENDING", "CANCELLED"},
           Cancelling(target[s]) \/ copy[s][target[s]].status \in {"CREATED", "PAID"}
    PROVE  /\ Cancelling(target[s])'
           /\ \A o \in Orders : Cancelling(o) => Cancelling(o)'
           /\ \A o \in Orders : row'[o].status = "CANCELLED" =>
                 row[o].status = "CANCELLED" \/ (o = target[s] /\ new.status = "CANCELLED")
<1>1. row' = [row EXCEPT ![target[s]] = Written(row[target[s]], copy[s][target[s]], new)]
  BY DEF Commit
<1> DEFINE st == Written(row[target[s]], copy[s][target[s]], new).status
<1>2. st = IF new.status = copy[s][target[s]].status THEN row[target[s]].status ELSE new.status
  BY DEF Written
<1> HIDE DEF st
<1>3. \A o \in Orders : row'[o].status = IF o = target[s] THEN st ELSE row[o].status
  BY <1>1 DEF TypeOK, st
<1> QED BY <1>2, <1>3 DEF Cancelling, TypeOK

(* A list whose orders are all being cancelled keeps that when shortened.  *)
LEMMA TailIndex ==
    ASSUME NEW list \in Seq(Orders), list # <<>>, NEW i \in 1 .. Len(Tail(list))
    PROVE  i + 1 \in 1 .. Len(list) /\ Tail(list)[i] = list[i + 1]
  BY HeadTailProperties

(* What a step may do to the rows and to B2B's releases.                   *)
Accepted == \A o \in Orders : Cancelling(o) => row'[o].status \in {"CANCEL_PENDING", "CANCELLED"}

Confirmed ==
    \A o \in Orders : row'[o].status = "CANCELLED" =>
        row[o].status = "CANCELLED" \/ o \in released \cup Itemless

Released == released \subseteq released' /\ \A o \in released' \ released : Cancelling(o)

(* Every step keeps accepted cancellations, confirms only what B2B has     *)
(* released, and releases only what is being cancelled.                    *)
LEMMA RowStep == CancelInv /\ [Next]_vars => Accepted /\ Confirmed /\ Released
<1> SUFFICES ASSUME CancelInv, [Next]_vars PROVE Accepted /\ Confirmed /\ Released
  OBVIOUS
<1> USE DEF Cancelling
<1>1. ASSUME NEW s \in Sessions, MarkCancelPending(s)
      PROVE  Accepted /\ Confirmed /\ Released
  <2> DEFINE new == [status |-> "CANCEL_PENDING", count |-> 0, next |-> "none"]
  <2>1. new \in RowType
    BY DEF RowType, Statuses, Times
  <2>2. target[s] \in Orders /\ copy[s][target[s]].status \in {"CREATED", "PAID"}
    BY <1>1 DEF MarkCancelPending, CancelInv, SessionInv, SessionOK
  <2>3. Commit(s, new) /\ UNCHANGED <<target, released>>
    BY <1>1 DEF MarkCancelPending
  <2> QED BY <2>1, <2>2, <2>3, CommitCancelling DEF Accepted, Confirmed, Released, CancelInv
<1>2. ASSUME NEW s \in Sessions, RecordFailure(s)
      PROVE  Accepted /\ Confirmed /\ Released
  <2> DEFINE new == [status |-> "CANCEL_PENDING", count |-> copy[s][target[s]].count + 1,
                     next |-> "future"]
  <2>1. target[s] \in Orders /\ Cancelling(target[s])
    BY <1>2 DEF RecordFailure, CancelInv, SessionInv, SessionOK
  <2>2. new \in RowType
    BY <2>1 DEF CancelInv, TypeOK, RowType, Statuses, Times
  <2>3. Commit(s, new) /\ UNCHANGED <<target, released>>
    BY <1>2 DEF RecordFailure
  <2> QED BY <2>1, <2>2, <2>3, CommitCancelling DEF Accepted, Confirmed, Released, CancelInv
<1>3. ASSUME NEW s \in Sessions, CancelLocally(s) \/ RecordSuccess(s)
      PROVE  Accepted /\ Confirmed /\ Released
  <2> DEFINE new == Cancelled(copy[s][target[s]])
  <2>1. /\ target[s] \in Orders /\ Cancelling(target[s])
        /\ target[s] \in released \cup Itemless
    BY <1>3 DEF CancelLocally, RecordSuccess, CancelInv, SessionInv, SessionOK
  <2>2. new \in RowType /\ new.status = "CANCELLED"
    BY <2>1 DEF Cancelled, CancelInv, TypeOK, RowType, Statuses, Times
  <2>3. Commit(s, new) /\ UNCHANGED <<target, released>>
    BY <1>3 DEF CancelLocally, RecordSuccess
  <2> QED BY <2>1, <2>2, <2>3, CommitCancelling DEF Accepted, Confirmed, Released, CancelInv
<1>4. ASSUME NEW s \in Sessions, Unreserve(s) \/ UnreserveFails(s)
      PROVE  Accepted /\ Confirmed /\ Released
  <2>1. Cancelling(target[s])
    BY <1>4 DEF Unreserve, UnreserveFails, CancelInv, SessionInv, SessionOK
  <2>2. row' = row /\ released' \in {released, released \cup {target[s]}}
    BY <1>4 DEF Unreserve, UnreserveFails
  <2> QED BY <2>1, <2>2 DEF Accepted, Confirmed, Released
<1>5. ASSUME NEW o \in Orders, Elapse(o) PROVE Accepted /\ Confirmed /\ Released
  <2>1. \A p \in Orders : row'[p].status = row[p].status
    BY <1>5 DEF Elapse, CancelInv, TypeOK, RowType
  <2> QED BY <1>5, <2>1 DEF Elapse, Accepted, Confirmed, Released
<1>6. CASE UNCHANGED <<row, released>>
  BY <1>6 DEF Accepted, Confirmed, Released
<1>7. CASE \/ \E s \in Requests, o \in Orders, u \in Users :
                CancelOrder(s, o, u) \/ CancelOrderRetry(s, o, u)
           \/ \E w \in Workers : SelectDue(w)
           \/ \E s \in Sessions :
                \/ RefreshMarked(s) \/ RefreshAttempted(s) \/ NextDue(s) \/ EndRun(s)
                \/ UnexpectedError(s) \/ CronRestart(s) \/ Crash(s)
           \/ UNCHANGED vars
  <2>1. UNCHANGED <<row, released>>
    BY <1>7 DEF CancelOrder, CancelOrderRetry, SelectDue, RefreshMarked, RefreshAttempted,
                NextDue, EndRun, UnexpectedError, CronRestart, Crash, vars
  <2> QED BY <1>6, <2>1
<1> QED BY <1>1, <1>2, <1>3, <1>4, <1>5, <1>7 DEF Next, Step

(* A session that takes no part in a step stays as it should be.           *)
LEMMA OtherSession ==
    ASSUME CancelInv, Accepted, Released, NEW q \in Sessions,
           pc'[q] = pc[q], target'[q] = target[q], copy'[q] = copy[q],
           due'[q] = due[q], reply'[q] = reply[q]
    PROVE  SessionOK(q)'
<1>1. SessionOK(q) /\ released \subseteq released'
  BY DEF CancelInv, SessionInv, Released
<1>2. \A i \in 1 .. Len(due[q]) : due[q][i] \in Orders
  BY DEF CancelInv, TypeOK
<1> QED BY <1>1, <1>2 DEF SessionOK, Accepted, Cancelling

(* The step of one session: its own state and nobody else's.               *)
Alone(s) ==
    \A q \in Sessions \ {s} :
        /\ pc'[q] = pc[q]
        /\ target'[q] = target[q]
        /\ copy'[q] = copy[q]
        /\ due'[q] = due[q]
        /\ reply'[q] = reply[q]

(* Every step leaves every session as it should be.                        *)
LEMMA SessionStep == CancelInv /\ [Next]_vars => SessionInv'
<1> SUFFICES ASSUME CancelInv, [Next]_vars PROVE SessionInv'
  OBVIOUS
<1>a. Accepted /\ Released
  BY RowStep
<1>b. TypeOK /\ SessionInv
  BY DEF CancelInv
<1>c. ASSUME NEW s \in Sessions, Alone(s), SessionOK(s)' PROVE SessionInv'
  BY <1>a, <1>c, OtherSession DEF SessionInv, Alone
<1>1. ASSUME NEW s \in Requests, NEW o \in Orders, NEW u \in Users,
             CancelOrder(s, o, u) \/ CancelOrderRetry(s, o, u)
      PROVE  SessionInv'
  <2>1. s \in Sessions /\ Alone(s)
    BY <1>1, <1>b DEF CancelOrder, CancelOrderRetry, Reply, Enter, Load, GoTo, Alone, TypeOK,
                      Sessions
  <2>2. /\ pc'[s] \in {"idle", "mark", "attempt"}
        /\ target'[s] = o
        /\ UNCHANGED <<row, due, released>>
    BY <1>1, <1>b, <2>1 DEF CancelOrder, CancelOrderRetry, Reply, Enter, GoTo, TypeOK
  <2>3. reply'[s] \in {"none", "ORDER_NOT_FOUND", "CANCEL_NOT_ALLOWED", "NOT_CANCEL_PENDING"}
        /\ (reply'[s] # "none" => pc'[s] = "idle")
    BY <1>1, <1>b, <2>1 DEF CancelOrder, CancelOrderRetry, Reply, Enter, GoTo, TypeOK
  <2>4. pc'[s] = "mark" => copy'[s][o].status \in {"CREATED", "PAID"}
    BY <1>1, <1>b, <2>1 DEF CancelOrder, CancelOrderRetry, Reply, Enter, GoTo, Load, TypeOK
  <2>5. pc'[s] = "attempt" => Cancelling(o)'
    BY <1>1, <1>b, <2>1
       DEF CancelOrder, CancelOrderRetry, Reply, Enter, GoTo, TypeOK, Cancelling
  <2>6. SessionOK(s)
    BY <1>b, <2>1 DEF SessionInv
  <2> QED BY <1>c, <2>1, <2>2, <2>3, <2>4, <2>5, <2>6 DEF SessionOK, Cancelling
<1>2. ASSUME NEW s \in Sessions, MarkCancelPending(s) PROVE SessionInv'
  <2> DEFINE new == [status |-> "CANCEL_PENDING", count |-> 0, next |-> "none"]
  <2>1. Alone(s) /\ SessionOK(s)
    BY <1>2, <1>b DEF MarkCancelPending, Commit, GoTo, Alone, TypeOK, SessionInv
  <2>2. /\ target[s] \in Orders /\ copy[s][target[s]].status \in {"CREATED", "PAID"}
        /\ new \in RowType /\ Commit(s, new) /\ UNCHANGED <<target, due, reply, released>>
        /\ pc[s] = "mark" /\ pc'[s] = "marked"
    BY <1>2, <1>b, <2>1
       DEF MarkCancelPending, GoTo, TypeOK, SessionOK, RowType, Statuses, Times
  <2>3. Cancelling(target[s])'
    BY <1>b, <2>2, CommitCancelling
  <2>4. \A i \in 1 .. Len(due[s]) : due[s][i] \in Orders
    BY <1>b DEF TypeOK
  <2>5. \A i \in 1 .. Len(due[s]) : Cancelling(due[s][i])'
    BY <1>a, <2>1, <2>2, <2>4 DEF SessionOK, Accepted, Cancelling
  <2>6. SessionOK(s)'
    BY <2>1, <2>2, <2>3, <2>5 DEF SessionOK, Cancelling
  <2> QED BY <1>c, <2>1, <2>6
<1>3. ASSUME NEW s \in Sessions,
             \/ RefreshMarked(s) \/ CancelLocally(s) \/ Unreserve(s) \/ UnreserveFails(s)
             \/ RecordSuccess(s) \/ RecordFailure(s)
      PROVE  SessionInv'
  <2>1. Alone(s) /\ SessionOK(s)
    BY <1>3, <1>b DEF RefreshMarked, CancelLocally, Unreserve, UnreserveFails, RecordSuccess,
                      RecordFailure, Commit, Load, GoTo, Alone, TypeOK, SessionInv
  <2>2. /\ pc[s] \in {"marked", "attempt", "success", "failure"}
        /\ pc'[s] \in {"attempt", "success", "failure", "attempted"}
        /\ UNCHANGED <<target, due, reply>>
        /\ pc'[s] = "success" => target[s] \in released'
    BY <1>3, <1>b DEF RefreshMarked, CancelLocally, Unreserve, UnreserveFails, RecordSuccess,
                      RecordFailure, GoTo, TypeOK
  <2>3. \A i \in 1 .. Len(due[s]) : due[s][i] \in Orders
    BY <1>b DEF TypeOK
  <2> QED BY <1>a, <1>c, <2>1, <2>2, <2>3 DEF SessionOK, Accepted, Cancelling
<1>4. ASSUME NEW s \in Sessions, RefreshAttempted(s) PROVE SessionInv'
  <2>1. Alone(s) /\ SessionOK(s)
    BY <1>4, <1>b DEF RefreshAttempted, Reply, Load, GoTo, Alone, TypeOK, SessionInv
  <2>2. /\ target[s] \in Orders /\ Cancelling(target[s])
        /\ UNCHANGED <<target, due, row, released>>
    BY <1>4, <1>b, <2>1 DEF RefreshAttempted, SessionOK
  <2>3. \/ pc'[s] = "idle" /\ reply'[s] = row[target[s]].status /\ s \in Requests
        \/ pc'[s] = "next" /\ reply'[s] = "none"
    BY <1>4, <1>b, <2>1 DEF RefreshAttempted, Reply, GoTo, TypeOK, SessionOK
  <2>4. row[target[s]].status = "CANCELLED" => target[s] \in released \cup Itemless
    BY <2>2 DEF CancelInv, CancelledMeansReleased
  <2> QED BY <1>c, <2>1, <2>2, <2>3, <2>4 DEF SessionOK, Cancelling
<1>5. ASSUME NEW w \in Workers, SelectDue(w) PROVE SessionInv'
  <2>1. w \in Sessions /\ Alone(w) /\ SessionOK(w)
    BY <1>5, <1>b DEF SelectDue, GoTo, Alone, TypeOK, SessionInv, Sessions
  <2> DEFINE all == {o \in Orders : IsDue(o)}
             size == IF Cardinality(all) < Limit THEN Cardinality(all) ELSE Limit
  <2>2. PICK list \in [1 .. size -> all] : due' = [due EXCEPT ![w] = list]
    BY <1>5 DEF SelectDue
  <2>3. size \in Nat
    <3>1. IsFiniteSet(all)
      BY CancelAssumption, FS_Subset
    <3> QED BY <3>1, CancelAssumption, FS_CardinalityType
  <2>4. due'[w] = list /\ pc'[w] = "next" /\ UNCHANGED <<row, released, target, reply>>
        /\ reply[w] = "none"
    BY <1>5, <1>b, <2>1, <2>2, CancelAssumption DEF SelectDue, GoTo, TypeOK, SessionOK
  <2>5. \A o \in all : Cancelling(o)
    BY DEF IsDue, Cancelling
  <2> HIDE DEF all, size
  <2>6. \A i \in 1 .. Len(list) : Cancelling(list[i])
    BY <2>2, <2>3, <2>5
  <2>7. SessionOK(w)'
    <3>1. \A i \in 1 .. Len(due'[w]) :
              row'[due'[w][i]].status \in {"CANCEL_PENDING", "CANCELLED"}
      BY <2>4, <2>6 DEF Cancelling
    <3> QED BY <2>1, <2>4, <3>1 DEF SessionOK, Cancelling
  <2> QED BY <1>c, <2>1, <2>7
<1>6. ASSUME NEW s \in Sessions, NextDue(s) PROVE SessionInv'
  <2>1. Alone(s) /\ SessionOK(s)
    BY <1>6, <1>b DEF NextDue, GoTo, Alone, TypeOK, SessionInv
  <2>2. /\ target'[s] = Head(due[s]) /\ due'[s] = Tail(due[s]) /\ pc'[s] = "attempt"
        /\ UNCHANGED <<row, released, copy, reply>>
        /\ pc[s] = "next" /\ due[s] \in Seq(Orders) /\ due[s] # <<>>
    BY <1>6, <1>b DEF NextDue, GoTo, TypeOK
  <2>3. Head(due[s]) \in Orders /\ Cancelling(Head(due[s]))
    BY <2>1, <2>2 DEF SessionOK
  <2>4. \A i \in 1 .. Len(Tail(due[s])) : Cancelling(Tail(due[s])[i])
    <3>1. TAKE i \in 1 .. Len(Tail(due[s]))
    <3>2. i + 1 \in 1 .. Len(due[s]) /\ Tail(due[s])[i] = due[s][i + 1]
      BY <2>2, TailIndex
    <3> QED BY <2>1, <3>2 DEF SessionOK
  <2>5. SessionOK(s)'
    BY <2>1, <2>2, <2>3, <2>4 DEF SessionOK, Cancelling
  <2> QED BY <1>c, <2>1, <2>5
<1>7. ASSUME NEW s \in Sessions, EndRun(s) \/ CronRestart(s) \/ Crash(s) PROVE SessionInv'
  <2>1. Close(s)
    BY <1>7 DEF EndRun, CronRestart, Crash
  <2>2. Alone(s)
    BY <2>1, <1>b DEF Close, GoTo, Alone, TypeOK
  <2>3. pc'[s] = "idle" /\ reply'[s] = "none" /\ due'[s] = <<>>
    BY <2>1, <1>b DEF Close, GoTo, TypeOK
  <2>4. SessionOK(s)'
    BY <2>3 DEF SessionOK
  <2> QED BY <1>c, <2>2, <2>4
<1>8. ASSUME NEW s \in Sessions, UnexpectedError(s) PROVE SessionInv'
  <2>1. Alone(s) /\ SessionOK(s)
    BY <1>8, <1>b DEF UnexpectedError, Reply, GoTo, Alone, TypeOK, SessionInv
  <2>2. /\ UNCHANGED <<row, released, target, due>>
        /\ \/ pc'[s] = "idle" /\ reply'[s] = "500" /\ s \in Requests
           \/ pc'[s] = "died" /\ reply'[s] = "none"
    BY <1>8, <1>b, <2>1 DEF UnexpectedError, Reply, GoTo, TypeOK, SessionOK
  <2>3. SessionOK(s)'
    BY <2>1, <2>2 DEF SessionOK, Cancelling
  <2> QED BY <1>c, <2>1, <2>3
<1>9. CASE UNCHANGED vars \/ \E o \in Orders : Elapse(o)
  <2>1. UNCHANGED <<pc, target, copy, due, reply>>
    BY <1>9 DEF vars, Elapse
  <2> QED BY <1>a, <2>1, OtherSession DEF SessionInv
<1> QED
  BY <1>1, <1>2, <1>3, <1>4, <1>5, <1>6, <1>7, <1>8, <1>9 DEF Next, Step

-----------------------------------------------------------------------------
(* The invariant holds in every behaviour.                                 *)
LEMMA CancelInvariant == Spec => []CancelInv
<1>1. Init => CancelInv
  <2>1. Init => TypeOK
    BY CancelAssumption, FreshType
       DEF Init, TypeOK, NoCopy, Steps, Replies
  <2> QED BY <2>1 DEF Init, CancelInv, CancelledMeansReleased, ReleasedIsCancelling,
                      SessionInv, SessionOK, Fresh
<1>2. CancelInv /\ [Next]_vars => CancelInv'
  <2>1. CancelInv /\ [Next]_vars =>
            /\ CancelledMeansReleased'
            /\ ReleasedIsCancelling'
    <3> SUFFICES ASSUME CancelInv, [Next]_vars
                 PROVE  CancelledMeansReleased' /\ ReleasedIsCancelling'
      OBVIOUS
    <3>1. Accepted /\ Confirmed /\ Released /\ released' \subseteq Orders
      BY RowStep, TypeStep DEF TypeOK
    <3>2. CancelledMeansReleased'
      BY <3>1 DEF CancelInv, CancelledMeansReleased, Confirmed, Released
    <3>3. ReleasedIsCancelling'
      BY <3>1 DEF CancelInv, ReleasedIsCancelling, Accepted, Released, Cancelling
    <3> QED BY <3>2, <3>3
  <2> QED BY <2>1, TypeStep, SessionStep DEF CancelInv
<1> QED BY <1>1, <1>2, PTL DEF Spec

(* The state of the cancellation is well typed in every behaviour.         *)
THEOREM TypeCorrect == Spec => []TypeOK
BY CancelInvariant, PTL DEF CancelInv

(* However many sessions write from stale copies, an order that reads      *)
(* CANCELLED has had its stock given back by B2B.                          *)
THEOREM CancelledOrdersAreReleased == Spec => []CancelledMeansReleased
BY CancelInvariant, PTL DEF CancelInv

(* B2B never gives back the stock of an order that still reads PAID.       *)
THEOREM ReleasedOrdersAreCancelling == Spec => []ReleasedIsCancelling
BY CancelInvariant, PTL DEF CancelInv

(* The answers of cancel and cancel-retry agree with B2B and with the row. *)
THEOREM RepliesAreTrue == Spec => []ReplyIsTrue
<1>1. CancelInv => ReplyIsTrue
  BY DEF CancelInv, SessionInv, SessionOK, ReplyIsTrue, Sessions, Cancelling
<1> QED BY <1>1, CancelInvariant, PTL

(* No step takes an accepted cancellation back.                            *)
THEOREM IntentIsKept == Spec => IntentKept
<1>1. CancelInv /\ [Next]_vars =>
        [\A o \in Orders : row[o].status \in {"CANCEL_PENDING", "CANCELLED"} =>
            row'[o].status \in {"CANCEL_PENDING", "CANCELLED"}]_vars
  BY RowStep DEF Accepted, Cancelling
<1> QED BY <1>1, CancelInvariant, PTL DEF Spec, IntentKept

-----------------------------------------------------------------------------
(* A commit, seen from the life of the order, moves the stage of one order *)
(* and nothing else.                                                       *)
LEMMA CommitStage ==
    ASSUME TypeOK, NEW s \in Sessions, target[s] \in Orders, NEW new \in RowType,
           Commit(s, new), Cancelling(target[s]),
           new.status \in {"CANCEL_PENDING", "CANCELLED"},
           new.status = "CANCELLED" => target[s] \in released \cup Itemless,
           UNCHANGED released
    PROVE  [Life!Next]_(Life!life)
<1> DEFINE o == target[s]
           written == Written(row[o], copy[s][o], new)
<1>1. row' = [row EXCEPT ![o] = written] /\ written \in RowType
  BY WrittenType DEF Commit, TypeOK
<1>2. written.status \in {row[o].status, new.status}
  BY DEF Written
<1>3. \A p \in Orders : Stage(p)' = IF p = o THEN IF written.status = "CREATED" THEN "PAID"
                                                  ELSE written.status
                                    ELSE Stage(p)
  BY <1>1 DEF Stage, TypeOK
<1>4. Stage(o) = row[o].status /\ row[o].status \in {"CANCEL_PENDING", "CANCELLED"}
  BY DEF Stage, Cancelling
<1> DEFINE old == [p \in Orders |-> Stage(p)]
<1>5. [p \in Orders |-> Stage(p)]' = [old EXCEPT ![o] = written.status]
  BY <1>2, <1>3, <1>4
<1>6. CASE written.status = row[o].status
  <2>1. [p \in Orders |-> Stage(p)]' = old
    BY <1>4, <1>5, <1>6
  <2> QED BY <2>1 DEF Life!life
<1>7. CASE row[o].status = "CANCEL_PENDING" /\ written.status = "CANCELLED"
  <2>1. Life!Complete(o)
    BY <1>2, <1>4, <1>5, <1>7 DEF Life!Complete, Life!Becomes
  <2> QED BY <2>1 DEF Life!Next, Life!Cancellation
<1>8. CASE row[o].status = "CANCELLED" /\ written.status = "CANCEL_PENDING"
  <2>1. Life!Reopen(o)
    BY <1>4, <1>5, <1>8 DEF Life!Reopen, Life!Becomes
  <2> QED BY <2>1 DEF Life!Next, Life!Cancellation
<1> QED BY <1>2, <1>4, <1>6, <1>7, <1>8

(* Every step of the sessions is a step in the life of one order, or none. *)
LEMMA LifeStep == CancelInv /\ [Next]_vars => [Life!Next]_(Life!life)
<1> SUFFICES ASSUME CancelInv, [Next]_vars PROVE [Life!Next]_(Life!life)
  OBVIOUS
<1> DEFINE Goal == [Life!Next]_(Life!life)
<1>1. ASSUME UNCHANGED <<row, released>> PROVE Goal
  <2>1. \A o \in Orders : Stage(o)' = Stage(o)
    BY <1>1 DEF Stage
  <2> QED BY <1>1, <2>1 DEF Life!life
<1>2. ASSUME NEW s \in Sessions, MarkCancelPending(s) PROVE Goal
  <2> DEFINE o == target[s]
             old == [p \in Orders |-> Stage(p)]
             new == [status |-> "CANCEL_PENDING", count |-> 0, next |-> "none"]
  <2>1. o \in Orders /\ copy[s][o].status \in {"CREATED", "PAID"}
    BY <1>2 DEF MarkCancelPending, CancelInv, SessionInv, SessionOK
  <2>2. row' = [row EXCEPT ![o] = Written(@, copy[s][o], new)] /\ UNCHANGED released
    BY <1>2 DEF MarkCancelPending, Commit
  <2>3. Written(row[o], copy[s][o], new).status = "CANCEL_PENDING"
    BY <2>1 DEF Written
  <2>4. \A p \in Orders : Stage(p)' = IF p = o THEN "CANCEL_PENDING" ELSE Stage(p)
    BY <2>1, <2>2, <2>3 DEF Stage, CancelInv, TypeOK
  <2>5. [p \in Orders |-> Stage(p)]' = [old EXCEPT ![o] = "CANCEL_PENDING"]
    BY <2>4
  <2>6. Stage(o) \in {"PAID", "CANCEL_PENDING", "CANCELLED"}
    BY <2>1 DEF Stage, CancelInv, TypeOK, RowType, Statuses
  <2>7. CASE Stage(o) = "CANCEL_PENDING"
    <3>1. [p \in Orders |-> Stage(p)]' = old
      BY <2>5, <2>7
    <3> QED BY <2>2, <3>1 DEF Life!life
  <2>8. CASE Stage(o) = "PAID"
    <3>1. Life!Accept(o)
      BY <2>1, <2>2, <2>5, <2>8 DEF Life!Accept, Life!Becomes
    <3> QED BY <2>1, <3>1 DEF Life!Next, Life!Cancellation
  <2>9. CASE Stage(o) = "CANCELLED"
    <3>1. Life!Reopen(o)
      BY <2>1, <2>2, <2>5, <2>9 DEF Life!Reopen, Life!Becomes
    <3> QED BY <2>1, <3>1 DEF Life!Next, Life!Cancellation
  <2> QED BY <2>6, <2>7, <2>8, <2>9
<1>3. ASSUME NEW s \in Sessions, CancelLocally(s) \/ RecordSuccess(s) PROVE Goal
  <2>1. /\ target[s] \in Orders /\ Cancelling(target[s])
        /\ target[s] \in released \cup Itemless
        /\ Commit(s, Cancelled(copy[s][target[s]])) /\ UNCHANGED released
    BY <1>3 DEF CancelLocally, RecordSuccess, CancelInv, SessionInv, SessionOK
  <2>2. Cancelled(copy[s][target[s]]) \in RowType
    BY <2>1 DEF Cancelled, CancelInv, TypeOK, RowType, Statuses, Times
  <2> QED BY <2>1, <2>2, CommitStage DEF Cancelled, CancelInv
<1>4. ASSUME NEW s \in Sessions, RecordFailure(s) PROVE Goal
  <2> DEFINE new == [status |-> "CANCEL_PENDING", count |-> copy[s][target[s]].count + 1,
                     next |-> "future"]
  <2>1. /\ target[s] \in Orders /\ Cancelling(target[s])
        /\ Commit(s, new) /\ UNCHANGED released
    BY <1>4 DEF RecordFailure, CancelInv, SessionInv, SessionOK
  <2>2. new \in RowType
    BY <2>1 DEF CancelInv, TypeOK, RowType, Statuses, Times
  <2> QED BY <2>1, <2>2, CommitStage DEF CancelInv
<1>5. ASSUME NEW s \in Sessions, Unreserve(s) \/ UnreserveFails(s) PROVE Goal
  <2> DEFINE o == target[s]
  <2>1. /\ o \in Orders \ Itemless /\ Cancelling(o) /\ UNCHANGED row
        /\ released' \in {released, released \cup {o}}
    BY <1>5 DEF Unreserve, UnreserveFails, CancelInv, SessionInv, SessionOK
  <2>2. CASE released' = released
    BY <1>1, <2>1, <2>2
  <2>3. CASE released' = released \cup {o} /\ o \notin released
    <3>1. Stage(o) = "CANCEL_PENDING"
      BY <2>1, <2>3 DEF Stage, Cancelling, CancelInv, CancelledMeansReleased
    <3>2. [p \in Orders |-> Stage(p)]' = [p \in Orders |-> Stage(p)]
      BY <2>1 DEF Stage
    <3>3. Life!GiveBack(o)
      BY <2>1, <2>3, <3>1, <3>2 DEF Life!GiveBack
    <3> QED BY <2>1, <3>3 DEF Life!Next
  <2> QED BY <2>1, <2>2, <2>3
<1>6. ASSUME NEW o \in Orders, Elapse(o) PROVE Goal
  <2>1. UNCHANGED released /\ \A p \in Orders : row'[p].status = row[p].status
    BY <1>6 DEF Elapse, CancelInv, TypeOK, RowType
  <2>2. [p \in Orders |-> Stage(p)]' = [p \in Orders |-> Stage(p)]
    BY <2>1 DEF Stage
  <2> QED BY <2>1, <2>2 DEF Life!life
<1>7. CASE \/ \E s \in Requests, o \in Orders, u \in Users :
                CancelOrder(s, o, u) \/ CancelOrderRetry(s, o, u)
           \/ \E w \in Workers : SelectDue(w)
           \/ \E s \in Sessions : Crash(s)
           \/ \E s \in Sessions : \/ RefreshMarked(s) \/ RefreshAttempted(s) \/ NextDue(s)
                                 \/ EndRun(s) \/ UnexpectedError(s) \/ CronRestart(s)
           \/ UNCHANGED vars
  <2>1. UNCHANGED <<row, released>>
    BY <1>7 DEF CancelOrder, CancelOrderRetry, SelectDue, Crash, RefreshMarked,
                RefreshAttempted, NextDue, EndRun, UnexpectedError, CronRestart, vars
  <2> QED BY <1>1, <2>1
<1> QED BY <1>2, <1>3, <1>4, <1>5, <1>6, <1>7 DEF Next, Step

(* The handlers and the worker implement the abstract life of an order.    *)
THEOREM CancellationKeepsLife == Spec => KeepsLife
<1>1. Init => Life!Init
  BY DEF Init, Life!Init, Stage, Fresh
<1> QED BY <1>1, LifeStep, CancelInvariant, PTL DEF Spec, KeepsLife, Life!Spec

=============================================================================
