------------------------- MODULE SavedItems_proofs -------------------------
(***************************************************************************)
(* Proofs about SavedItems, for any number of clients, slots and ids.      *)
(***************************************************************************)
EXTENDS SavedItems, TLAPS

(* What a request that is running can rely on.  The rows it looked up may  *)
(* be gone, but then it has witnessed their removal.                       *)
Relies(s) ==
    /\ \A w \in found[s] : w.slot = slot[s]
    /\ pc[s] = "reselect" => RowsOf(slot[s]) # {} \/ "removed" \in happened[s]
    /\ pc[s] = "refresh" => /\ "mine" \in happened[s]
                            /\ found[s] \subseteq rows \/ "removed" \in happened[s]
    /\ pc[s] = "delete" =>
          \/ RowsOf(slot[s]) # {} /\ RowsOf(slot[s]) \subseteq found[s]
          \/ "absent" \in happened[s]

(* The part of the answers that is about one request.                      *)
AnswerOf(s) ==
    /\ reply[s] = "CREATED" => "mine" \in happened[s]
    /\ reply[s] \in {"EXISTS", "DUPLICATE"} => "saved" \in happened[s]
    /\ reply[s] = "REMOVED" => "absent" \in happened[s]
    /\ reply[s] = "500" => "removed" \in happened[s]

(* The inductive invariant.  An answer is only as true as what its request *)
(* relies on when it is given.                                             *)
SavedInv ==
    /\ TypeOK
    /\ SavedOnce
    /\ \A s \in Sessions : AnswerOf(s) /\ Relies(s)

-----------------------------------------------------------------------------
(* Whatever a step does to the rows, TypeOK of the history is kept, a      *)
(* running request forgets nothing and notes what became of its slot.      *)
LEMMA WitnessNotes ==
    ASSUME NEW after, Witness(after), happened \in [Sessions -> SUBSET Facts]
    PROVE  /\ happened' \in [Sessions -> SUBSET Facts]
           /\ \A s \in Sessions : happened[s] \subseteq happened'[s]
           /\ \A s \in Sessions : pc[s] = "idle" => happened'[s] = happened[s]
           /\ \A s \in Sessions : pc[s] # "idle" =>
                 /\ (\E w \in after : w.slot = slot[s]) => "saved" \in happened'[s]
                 /\ (\A w \in after : w.slot # slot[s]) => "absent" \in happened'[s]
                 /\ (\E w \in rows \ after : w.slot = slot[s]) => "removed" \in happened'[s]
                 /\ (pc[s] = "insert" /\ pc'[s] = "refresh" /\ after \ rows # {})
                        => "mine" \in happened'[s]
  BY DEF Witness, Now, Gone, Mine, Facts

(* A step of one request leaves to the others what they rely on: rows that *)
(* go are noted, and rows that come are of slots that had none.            *)
LEMMA Bystander ==
    ASSUME SavedInv, NEW t \in Sessions, Witness(rows'),
           \A w \in rows' \ rows : RowsOf(w.slot) = {},
           pc'[t] = pc[t], slot'[t] = slot[t], found'[t] = found[t], reply'[t] = reply[t]
    PROVE  AnswerOf(t)' /\ Relies(t)'
<1>1. happened[t] \subseteq happened'[t]
  BY WitnessNotes DEF SavedInv, TypeOK
<1>2. pc[t] # "idle" =>
        /\ (\A w \in rows' : w.slot # slot[t]) => "absent" \in happened'[t]
        /\ (\E w \in rows \ rows' : w.slot = slot[t]) => "removed" \in happened'[t]
  BY WitnessNotes DEF SavedInv, TypeOK
<1>3. AnswerOf(t)'
  BY <1>1 DEF SavedInv, AnswerOf
<1>4. Relies(t)
  BY DEF SavedInv
<1>5. \A w \in found'[t] : w.slot = slot'[t]
  BY <1>4 DEF Relies
<1>6. pc[t] = "reselect" => RowsOf(slot[t])' # {} \/ "removed" \in happened'[t]
  BY <1>1, <1>2, <1>4 DEF Relies, RowsOf
<1>7. pc[t] = "refresh" => /\ "mine" \in happened'[t]
                           /\ found[t] \subseteq rows' \/ "removed" \in happened'[t]
  BY <1>1, <1>2, <1>4 DEF Relies
<1>8. pc[t] = "delete" =>
        \/ RowsOf(slot[t])' # {} /\ RowsOf(slot[t])' \subseteq found[t]
        \/ "absent" \in happened'[t]
  BY <1>1, <1>2, <1>4 DEF Relies, RowsOf
<1> QED BY <1>3, <1>5, <1>6, <1>7, <1>8 DEF Relies, RowsOf

-----------------------------------------------------------------------------
(* The steps that begin a request.                                         *)
LEMMA BeginKeeps ==
    ASSUME SavedInv, NEW s \in Sessions, NEW k \in Slots, Add(s, k) \/ Remove(s, k)
    PROVE  SavedInv'
<1>1. /\ happened' = [happened EXCEPT ![s] = Now(k, rows)]
      /\ slot' = [slot EXCEPT ![s] = k]
      /\ UNCHANGED rows
  BY DEF Add, Remove, Begin, SavedInv, TypeOK
<1>2. Now(k, rows) \subseteq Facts
  BY DEF Now, Facts
<1>3. RowsOf(k) \subseteq Row /\ \A w \in RowsOf(k) : w.slot = k
  BY DEF RowsOf, SavedInv, TypeOK
<1>4. RowsOf(k) = {} => Now(k, rows) = {"absent"}
  BY DEF RowsOf, Now
<1>5. \A t \in Sessions \ {s} : /\ pc'[t] = pc[t] /\ found'[t] = found[t]
                                /\ reply'[t] = reply[t] /\ slot'[t] = slot[t]
                                /\ happened'[t] = happened[t]
  BY <1>1 DEF Add, Remove, Begin, SavedInv, TypeOK
<1>6. TypeOK'
  <2>1. CASE Add(s, k)
    BY <2>1, <1>1, <1>2 DEF Add, Begin, SavedInv, TypeOK, Steps, Replies
  <2>2. CASE RowsOf(k) # {} /\ Begin(s, k, "delete", RowsOf(k))
    BY <2>2, <1>1, <1>2, <1>3 DEF Begin, SavedInv, TypeOK, Steps, Replies
  <2>3. CASE pc[s] = "idle" /\ reply' = [reply EXCEPT ![s] = "REMOVED"]
             /\ UNCHANGED <<pc, found>>
    BY <2>3, <1>1, <1>2 DEF SavedInv, TypeOK, Replies
  <2> QED BY <2>1, <2>2, <2>3 DEF Remove
<1>7. \A t \in Sessions \ {s} : AnswerOf(t)' /\ Relies(t)'
  BY <1>1, <1>5 DEF SavedInv, AnswerOf, Relies, RowsOf
<1>8. AnswerOf(s)' /\ Relies(s)'
  <2>1. CASE Add(s, k)
    BY <2>1, <1>1 DEF Add, Begin, SavedInv, TypeOK, AnswerOf, Relies
  <2>2. CASE RowsOf(k) # {} /\ Begin(s, k, "delete", RowsOf(k))
    BY <2>2, <1>1, <1>3 DEF Begin, SavedInv, TypeOK, AnswerOf, Relies, RowsOf
  <2>3. CASE pc[s] = "idle" /\ RowsOf(k) = {} /\ reply' = [reply EXCEPT ![s] = "REMOVED"]
             /\ UNCHANGED <<pc, found>>
    BY <2>3, <1>1, <1>4 DEF SavedInv, TypeOK, AnswerOf, Relies
  <2> QED BY <2>1, <2>2, <2>3 DEF Remove
<1> QED BY <1>1, <1>6, <1>7, <1>8 DEF SavedInv, SavedOnce

(* The statements that only read: what they answer has been noted.         *)
LEMMA ReadKeeps ==
    ASSUME SavedInv, NEW s \in Sessions,
           FindExisting(s) \/ Recheck(s) \/ Reselect(s) \/ Refresh(s)
    PROVE  SavedInv'
<1>1. UNCHANGED <<rows, slot>> /\ Witness(rows) /\ Witness(rows')
  BY DEF FindExisting, Recheck, Reselect, Refresh, GoTo, Answer, Witness, Now, Gone, Mine
<1>2. /\ happened' \in [Sessions -> SUBSET Facts]
      /\ happened[s] \subseteq happened'[s]
      /\ pc[s] # "idle" /\ RowsOf(slot[s]) # {} => "saved" \in happened'[s]
  BY <1>1, WitnessNotes DEF SavedInv, TypeOK, RowsOf
<1>3. \A t \in Sessions \ {s} : AnswerOf(t)' /\ Relies(t)'
  <2> TAKE t \in Sessions \ {s}
  <2>1. /\ pc'[t] = pc[t] /\ slot'[t] = slot[t]
        /\ found'[t] = found[t] /\ reply'[t] = reply[t]
    BY DEF FindExisting, Recheck, Reselect, Refresh, GoTo, Answer, SavedInv, TypeOK
  <2> QED BY <1>1, <2>1, Bystander
<1>4. AnswerOf(s) /\ Relies(s)
  BY DEF SavedInv
<1>5. CASE \E step \in {"recheck", "insert"} : GoTo(s, step) /\ UNCHANGED found
           /\ pc[s] \in {"check", "recheck"}
  <2>1. TypeOK'
    BY <1>1, <1>2, <1>5 DEF GoTo, SavedInv, TypeOK, Steps
  <2>2. AnswerOf(s)' /\ Relies(s)'
    BY <1>1, <1>2, <1>4, <1>5 DEF GoTo, SavedInv, TypeOK, AnswerOf, Relies
  <2> QED BY <1>1, <1>3, <2>1, <2>2 DEF SavedInv, SavedOnce
<1>6. CASE \E code \in {"EXISTS", "DUPLICATE"} :
              Answer(s, code) /\ RowsOf(slot[s]) # {} /\ pc[s] # "idle"
  <2>1. TypeOK'
    BY <1>1, <1>2, <1>6 DEF Answer, SavedInv, TypeOK, Steps, Replies
  <2>2. AnswerOf(s)' /\ Relies(s)'
    BY <1>1, <1>2, <1>6 DEF Answer, SavedInv, TypeOK, AnswerOf, Relies
  <2> QED BY <1>1, <1>3, <2>1, <2>2 DEF SavedInv, SavedOnce
<1>7. CASE Answer(s, "500") /\ "removed" \in happened[s]
  <2>1. TypeOK'
    BY <1>1, <1>2, <1>7 DEF Answer, SavedInv, TypeOK, Steps, Replies
  <2>2. AnswerOf(s)' /\ Relies(s)'
    BY <1>1, <1>2, <1>7 DEF Answer, SavedInv, TypeOK, AnswerOf, Relies
  <2> QED BY <1>1, <1>3, <2>1, <2>2 DEF SavedInv, SavedOnce
<1>8. CASE Answer(s, "CREATED") /\ "mine" \in happened[s]
  <2>1. TypeOK'
    BY <1>1, <1>2, <1>8 DEF Answer, SavedInv, TypeOK, Steps, Replies
  <2>2. AnswerOf(s)' /\ Relies(s)'
    BY <1>1, <1>2, <1>8 DEF Answer, SavedInv, TypeOK, AnswerOf, Relies
  <2> QED BY <1>1, <1>3, <2>1, <2>2 DEF SavedInv, SavedOnce
<1>9. CASE FindExisting(s)
  BY <1>9, <1>5, <1>6 DEF FindExisting
<1>10. CASE Recheck(s)
  BY <1>10, <1>5, <1>6 DEF Recheck
<1>11. CASE Reselect(s)
  BY <1>11, <1>4, <1>6, <1>7 DEF Reselect, Relies
<1>12. CASE Refresh(s)
  BY <1>12, <1>4, <1>7, <1>8 DEF Refresh, Relies
<1> QED BY <1>9, <1>10, <1>11, <1>12

(* The insert: the constraint lets a row in only where there is none.      *)
LEMMA InsertKeeps ==
    ASSUME SavedInv, NEW s \in Sessions, Insert(s)
    PROVE  SavedInv'
<1>1. Witness(rows') /\ UNCHANGED slot /\ pc[s] = "insert"
  BY DEF Insert, GoTo, Answer
<1>2. AnswerOf(s) /\ Relies(s)
  BY DEF SavedInv
<1>3. \A w \in rows' \ rows : RowsOf(w.slot) = {}
  BY DEF Insert
<1>4. \A t \in Sessions \ {s} : AnswerOf(t)' /\ Relies(t)'
  <2> TAKE t \in Sessions \ {s}
  <2>1. /\ pc'[t] = pc[t] /\ slot'[t] = slot[t]
        /\ found'[t] = found[t] /\ reply'[t] = reply[t]
    BY DEF Insert, GoTo, Answer, SavedInv, TypeOK
  <2> QED BY <1>1, <1>3, <2>1, Bystander
<1>5. /\ happened' \in [Sessions -> SUBSET Facts]
      /\ happened[s] \subseteq happened'[s]
      /\ (\E w \in rows' : w.slot = slot[s]) => "saved" \in happened'[s]
      /\ pc'[s] = "refresh" /\ rows' \ rows # {} => "mine" \in happened'[s]
  BY <1>1, WitnessNotes DEF SavedInv, TypeOK
<1>6. CASE RowsOf(slot[s]) = {}
  <2>1. PICK i \in Unused :
          /\ rows' = rows \cup {[slot |-> slot[s], id |-> i]}
          /\ found' = [found EXCEPT ![s] = {[slot |-> slot[s], id |-> i]}]
    BY <1>6 DEF Insert
  <2> DEFINE new == [slot |-> slot[s], id |-> i]
  <2>2. new \in Row /\ new \notin rows /\ new.slot = slot[s]
    BY <1>6 DEF SavedInv, TypeOK, Row, Unused, RowsOf
  <2>3. GoTo(s, "refresh")
    BY <1>6 DEF Insert
  <2> HIDE DEF new
  <2>4. TypeOK'
    BY <1>1, <1>5, <2>1, <2>2, <2>3 DEF GoTo, SavedInv, TypeOK, Steps, new
  <2>5. AnswerOf(s)' /\ Relies(s)'
    <3>1. "mine" \in happened'[s] /\ pc'[s] = "refresh"
      BY <1>5, <2>1, <2>2, <2>3 DEF GoTo, SavedInv, TypeOK, new
    <3>2. found'[s] = {new} /\ found'[s] \subseteq rows' /\ reply'[s] = reply[s]
      BY <2>1, <2>3 DEF GoTo, SavedInv, TypeOK, new
    <3> QED BY <1>1, <1>2, <1>5, <2>2, <3>1, <3>2 DEF AnswerOf, Relies
  <2>6. SavedOnce'
    BY <1>6, <2>1, <2>2 DEF SavedInv, SavedOnce, RowsOf, new
  <2> QED BY <1>4, <2>4, <2>5, <2>6 DEF SavedInv
<1>7. CASE RowsOf(slot[s]) # {}
  <2>1. UNCHANGED rows /\ (\E w \in rows' : w.slot = slot[s])
    BY <1>7 DEF Insert, RowsOf
  <2>2. \/ GoTo(s, "reselect") /\ UNCHANGED found
        \/ Answer(s, "DUPLICATE")
    BY <1>7 DEF Insert
  <2>3. TypeOK'
    BY <1>1, <1>5, <2>1, <2>2 DEF GoTo, Answer, SavedInv, TypeOK, Steps, Replies
  <2>4. AnswerOf(s)' /\ Relies(s)'
    <3>1. CASE GoTo(s, "reselect") /\ UNCHANGED found
      BY <3>1, <1>1, <1>2, <1>5, <1>7, <2>1
         DEF GoTo, SavedInv, TypeOK, AnswerOf, Relies, RowsOf
    <3>2. CASE Answer(s, "DUPLICATE")
      BY <3>2, <1>1, <1>5, <2>1 DEF Answer, SavedInv, TypeOK, AnswerOf, Relies
    <3> QED BY <2>2, <3>1, <3>2
  <2> QED BY <1>4, <2>1, <2>3, <2>4 DEF SavedInv, SavedOnce
<1> QED BY <1>6, <1>7

(* The delete by primary key.                                              *)
LEMMA DeleteKeeps ==
    ASSUME SavedInv, NEW s \in Sessions, DeleteRow(s)
    PROVE  SavedInv'
<1>1. /\ Witness(rows') /\ UNCHANGED slot /\ pc[s] = "delete"
      /\ rows' = rows \ found[s] /\ Answer(s, "REMOVED")
  BY DEF DeleteRow, Answer
<1>2. \A t \in Sessions \ {s} : AnswerOf(t)' /\ Relies(t)'
  <2> TAKE t \in Sessions \ {s}
  <2>1. /\ pc'[t] = pc[t] /\ slot'[t] = slot[t]
        /\ found'[t] = found[t] /\ reply'[t] = reply[t]
    BY <1>1 DEF Answer, SavedInv, TypeOK
  <2> QED BY <1>1, <2>1, Bystander
<1>3. /\ happened' \in [Sessions -> SUBSET Facts]
      /\ happened[s] \subseteq happened'[s]
      /\ (\A w \in rows' : w.slot # slot[s]) => "absent" \in happened'[s]
  BY <1>1, WitnessNotes DEF SavedInv, TypeOK
<1>4. "absent" \in happened'[s]
  BY <1>1, <1>3 DEF SavedInv, Relies, RowsOf
<1>5. TypeOK'
  BY <1>1, <1>3 DEF Answer, SavedInv, TypeOK, Steps, Replies
<1>6. AnswerOf(s)' /\ Relies(s)'
  BY <1>1, <1>4 DEF Answer, SavedInv, TypeOK, AnswerOf, Relies
<1>7. SavedOnce'
  BY <1>1 DEF SavedInv, SavedOnce
<1> QED BY <1>2, <1>5, <1>6, <1>7 DEF SavedInv

-----------------------------------------------------------------------------
(* The invariant holds at the start and every step keeps it.               *)
LEMMA SavedInvHolds == Spec => []SavedInv
<1>1. Init => SavedInv
  BY DEF Init, SavedInv, TypeOK, SavedOnce, AnswerOf, Relies, Steps, Replies
<1>2. SavedInv /\ [Next]_vars => SavedInv'
  <2> SUFFICES ASSUME SavedInv, [Next]_vars PROVE SavedInv'
    OBVIOUS
  <2>1. CASE UNCHANGED vars
    BY <2>1 DEF vars, SavedInv, TypeOK, SavedOnce, AnswerOf, Relies, RowsOf
  <2>2. ASSUME NEW s \in Sessions, NEW k \in Slots, Add(s, k) \/ Remove(s, k)
        PROVE  SavedInv'
    BY <2>2, BeginKeeps
  <2>3. ASSUME NEW s \in Sessions,
               FindExisting(s) \/ Recheck(s) \/ Reselect(s) \/ Refresh(s)
        PROVE  SavedInv'
    BY <2>3, ReadKeeps
  <2>4. ASSUME NEW s \in Sessions, Insert(s) PROVE SavedInv'
    BY <2>4, InsertKeeps
  <2>5. ASSUME NEW s \in Sessions, DeleteRow(s) PROVE SavedInv'
    BY <2>5, DeleteKeeps
  <2> QED BY <2>1, <2>2, <2>3, <2>4, <2>5 DEF Next
<1> QED BY <1>1, <1>2, PTL DEF Spec

(* The type invariant of the wishlist and the subscriptions.               *)
THEOREM SavedTypeCorrect == Spec => []TypeOK
<1>1. SavedInv => TypeOK
  BY DEF SavedInv
<1> QED BY <1>1, SavedInvHolds, PTL

(* A product or SKU is saved once, for any number of clients.              *)
THEOREM ThingsAreSavedOnce == Spec => []SavedOnce
<1>1. SavedInv => SavedOnce
  BY DEF SavedInv
<1> QED BY <1>1, SavedInvHolds, PTL

(* Every answer of the wishlist and the subscriptions was the truth at a   *)
(* moment of its request.                                                  *)
THEOREM SavedAnswersWereTrue == Spec => []AnswerWasTrue
<1>1. SavedInv => AnswerWasTrue
  BY DEF SavedInv, AnswerOf, AnswerWasTrue
<1> QED BY <1>1, SavedInvHolds, PTL

(* An add ends in an error only when its row was removed while it ran.     *)
THEOREM AddsFailOnlyIfRemoved == Spec => []FailsOnlyIfRemoved
<1>1. SavedInv => FailsOnlyIfRemoved
  BY DEF SavedInv, AnswerOf, FailsOnlyIfRemoved
<1> QED BY <1>1, SavedInvHolds, PTL

=============================================================================
