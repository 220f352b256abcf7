----------------------------- MODULE StudyProofs -----------------------------
(***************************************************************************)
(* Proofs about WeakSpots, for any number of questions and of requests in  *)
(* flight, and about StudyExtras, for any sentences, any length of the     *)
(* history and any number of requests in flight; and that the rules of     *)
(* FormRules leave alone what they have corrected in any ordinary reply.   *)
(***************************************************************************)
EXTENDS WeakSpots, StudyExtras, FormRules, FoldProofs, SequenceTheorems

\* What a loaded row is worth: it is a row, its count is one the question has had, and
\* unless the question was written since, it still is the row.
Holds(r) == req[r].at \in {"loaded", "judged", "dismiss"}

LoadedInv ==
    \A r \in Reqs : Holds(r) =>
        \A q \in req[r].of :
            /\ spots[q].row
            /\ req[r].seen.missed <= misses[q]
            /\ ~req[r].stale => req[r].seen = spots[q]
            /\ req[r].at # "dismiss" => ~req[r].seen.resolved

VerdictInv == \A q \in Questions \ crossed : Open(q) <=> latest[q] = "miss"

IInv == TypeOK /\ LoadedInv /\ MissesAddUp /\ VerdictInv

-----------------------------------------------------------------------------

\* The idle slot is well typed.
LEMMA IdleType == Idle \in Request
BY DEF Idle, NoSpot, Request, Slot, Spot

\* A finished write leaves the slots well typed, keeps what the others have loaded, and
\* marks them stale if they hold a question that was written.
LEMMA EndsSlots ==
    ASSUME req \in [Reqs -> Request], NEW r \in Reqs, NEW written, Ends(r, written)
    PROVE  /\ req' \in [Reqs -> Request]
           /\ req'[r] = Idle
           /\ \A s \in Reqs \ {r} :
                /\ req'[s].at = req[s].at
                /\ req'[s].of = req[s].of
                /\ req'[s].seen = req[s].seen
                /\ Holds(s) /\ req[s].of \cap written # {} => req'[s].stale
                /\ req[s].stale => req'[s].stale
<1>1. \A s \in Reqs : [req[s] EXCEPT !.stale = TRUE] \in Request
  BY DEF Request, Slot
<1>2. req' \in [Reqs -> Request]
  BY <1>1, IdleType DEF Ends
<1>3. req'[r] = Idle
  BY DEF Ends
<1>4. ASSUME NEW s \in Reqs \ {r}
      PROVE  /\ req'[s].at = req[s].at
             /\ req'[s].of = req[s].of
             /\ req'[s].seen = req[s].seen
             /\ Holds(s) /\ req[s].of \cap written # {} => req'[s].stale
             /\ req[s].stale => req'[s].stale
  <2>1. req[s] \in Request
    OBVIOUS
  <2>2. CASE Holds(s) /\ req[s].of \cap written # {}
    <3>1. req'[s] = [req[s] EXCEPT !.stale = TRUE]
      BY <2>2 DEF Ends, Holds
    <3> QED BY <3>1, <2>1 DEF Request, Slot
  <2>3. CASE ~(Holds(s) /\ req[s].of \cap written # {})
    <3>1. req'[s] = req[s]
      BY <2>3 DEF Ends, Holds
    <3> QED BY <3>1, <2>3
  <2> QED BY <2>2, <2>3
<1> QED BY <1>2, <1>3, <1>4

\* The slots after a step that moves one of them.
LEMMA SlotMoves ==
    ASSUME req \in [Reqs -> Request], NEW r \in Reqs, NEW m \in Request,
           req' = [req EXCEPT ![r] = m]
    PROVE  /\ req' \in [Reqs -> Request]
           /\ req'[r] = m
           /\ \A s \in Reqs \ {r} : req'[s] = req[s]
OBVIOUS

\* A write that leaves the other questions as they are, adds the misses it makes and
\* states its verdicts, keeps what the other slots have loaded.
LEMMA WriteKeepsLoaded ==
    ASSUME TypeOK, LoadedInv, NEW r \in Reqs, NEW written \in SUBSET Questions,
           Ends(r, written),
           \A q \in Questions \ written : spots'[q] = spots[q],
           \A q \in Questions : spots[q].row => spots'[q].row,
           misses' \in [Questions -> Nat],
           \A q \in Questions : misses'[q] >= misses[q]
    PROVE  LoadedInv'
<1> SUFFICES ASSUME NEW s \in Reqs, Holds(s)', NEW q \in req'[s].of
             PROVE  /\ spots'[q].row
                    /\ req'[s].seen.missed <= misses'[q]
                    /\ ~req'[s].stale => req'[s].seen = spots'[q]
                    /\ req'[s].at # "dismiss" => ~req'[s].seen.resolved
  BY DEF LoadedInv
<1>1. req' \in [Reqs -> Request] /\ s # r
  BY EndsSlots DEF TypeOK, Holds, Idle
<1>2. /\ req'[s].at = req[s].at /\ req'[s].of = req[s].of /\ req'[s].seen = req[s].seen
      /\ Holds(s) /\ req[s].of \cap written # {} => req'[s].stale
      /\ req[s].stale => req'[s].stale
  BY <1>1, EndsSlots DEF TypeOK
<1>3. Holds(s) /\ q \in req[s].of /\ q \in Questions
  BY <1>2, <1>1 DEF Holds, TypeOK, Request, Slot
<1>4. /\ spots[q].row
      /\ req[s].seen.missed <= misses[q]
      /\ ~req[s].stale => req[s].seen = spots[q]
      /\ req[s].at # "dismiss" => ~req[s].seen.resolved
  BY <1>3 DEF LoadedInv
<1>5. req[s].seen.missed \in Nat /\ misses[q] \in Nat /\ misses'[q] \in Nat
  BY <1>3 DEF TypeOK, Request, Slot, Spot
<1>6. req'[s].seen.missed <= misses'[q]
  BY <1>2, <1>3, <1>4, <1>5
<1>7. ~req'[s].stale => spots'[q] = spots[q]
  BY <1>2, <1>3
<1> QED BY <1>2, <1>3, <1>4, <1>6, <1>7

-----------------------------------------------------------------------------
\* One lemma per kind of step

\* A step that only moves a slot (a read, a dead request) or re-syncs the set.
LEMMA ReadStep ==
    ASSUME IInv, NEW r \in Reqs, UNCHANGED <<spots, misses, latest, crossed>>, asked' = asked,
           NEW m \in Request, req' = [req EXCEPT ![r] = m],
           m.at \in {"loaded", "judged", "dismiss"} =>
               \A q \in m.of : /\ spots[q].row
                               /\ m.seen.missed <= misses[q]
                               /\ ~m.stale => m.seen = spots[q]
                               /\ m.at # "dismiss" => ~m.seen.resolved
    PROVE  IInv'
<1>1. /\ req' \in [Reqs -> Request]
      /\ req'[r] = m
      /\ \A s \in Reqs \ {r} : req'[s] = req[s]
  BY SlotMoves DEF IInv, TypeOK
<1>2. TypeOK'
  BY <1>1 DEF IInv, TypeOK
<1>3. LoadedInv'
  <2> SUFFICES ASSUME NEW s \in Reqs, Holds(s)', NEW q \in req'[s].of
               PROVE  /\ spots[q].row
                      /\ req'[s].seen.missed <= misses[q]
                      /\ ~req'[s].stale => req'[s].seen = spots[q]
                      /\ req'[s].at # "dismiss" => ~req'[s].seen.resolved
    BY DEF LoadedInv
  <2>1. CASE s = r
    BY <2>1, <1>1 DEF Holds
  <2>2. CASE s # r
    BY <2>2, <1>1 DEF Holds, IInv, LoadedInv
  <2> QED BY <2>1, <2>2
<1>4. MissesAddUp' /\ VerdictInv'
  BY DEF IInv, MissesAddUp, VerdictInv, Open
<1> QED BY <1>2, <1>3, <1>4 DEF IInv

\* A write of the questions "written": "missed" and "cleared" are its verdicts.
LEMMA WriteStep ==
    ASSUME IInv, NEW r \in Reqs, asked' = asked,
           NEW missed \in SUBSET Questions, NEW cleared \in SUBSET Questions,
           missed \cap cleared = {},
           Verdicts(missed, cleared), Ends(r, missed \cup cleared),
           crossed' \in SUBSET Questions, crossed \subseteq crossed',
           spots' \in [Questions -> Spot],
           \A q \in Questions \ (missed \cup cleared) : spots'[q] = spots[q],
           \A q \in missed : /\ spots'[q].row
                             /\ spots'[q].missed > 0
                             /\ spots'[q].missed <= misses[q] + 1
                             /\ q \notin crossed' => spots'[q].missed = spots[q].missed + 1
                             /\ q \notin crossed' => ~spots'[q].resolved,
           \A q \in cleared : /\ spots'[q].row = spots[q].row
                              /\ spots'[q].missed = spots[q].missed
                              /\ q \notin crossed' /\ spots[q].row => spots'[q].resolved
    PROVE  IInv'
<1>1. req' \in [Reqs -> Request]
  BY EndsSlots DEF IInv, TypeOK
<1>2. /\ misses' \in [Questions -> Nat]
      /\ latest' \in [Questions -> {"none", "miss", "clear"}]
      /\ \A q \in missed : misses'[q] = misses[q] + 1 /\ latest'[q] = "miss"
      /\ \A q \in cleared : misses'[q] = misses[q] /\ latest'[q] = "clear"
      /\ \A q \in Questions \ (missed \cup cleared) :
            misses'[q] = misses[q] /\ latest'[q] = latest[q]
  BY DEF Verdicts, IInv, TypeOK
<1>3. ASSUME NEW q \in Questions
      PROVE  /\ spots'[q].row <=> spots'[q].missed > 0
             /\ spots'[q].missed <= misses'[q]
             /\ q \notin crossed' => spots'[q].missed = misses'[q]
             /\ q \notin crossed' => (Open(q)' <=> latest'[q] = "miss")
             /\ spots[q].row => spots'[q].row
             /\ misses'[q] >= misses[q]
  <2>1. /\ spots[q] \in Spot /\ spots'[q] \in Spot /\ misses[q] \in Nat
        /\ spots[q].row <=> spots[q].missed > 0
        /\ spots[q].missed <= misses[q]
        /\ q \notin crossed => spots[q].missed = misses[q]
        /\ q \notin crossed => (spots[q].row /\ ~spots[q].resolved <=> latest[q] = "miss")
    BY DEF IInv, TypeOK, MissesAddUp, VerdictInv, Open
  <2>2. CASE q \in missed
    BY <2>1, <2>2, <1>2 DEF Open, Spot
  <2>3. CASE q \in cleared
    BY <2>1, <2>3, <1>2 DEF Open, Spot
  <2>4. CASE q \notin missed \cup cleared
    BY <2>1, <2>4, <1>2 DEF Open, Spot
  <2> QED BY <2>2, <2>3, <2>4
<1>4. TypeOK'
  BY <1>1, <1>2, <1>3 DEF IInv, TypeOK
<1>5. LoadedInv'
  BY <1>2, <1>3, WriteKeepsLoaded DEF IInv
<1>6. MissesAddUp' /\ VerdictInv'
  BY <1>3 DEF MissesAddUp, VerdictInv
<1> QED BY <1>4, <1>5, <1>6 DEF IInv

\* Every step keeps the invariant.
LEMMA InvStep == IInv /\ [Next]_vars => IInv'
<1> SUFFICES ASSUME IInv, [Next]_vars PROVE IInv'
  OBVIOUS
<1> USE DEF IInv
<1>1. ASSUME NEW now \in SUBSET Questions, SyncSets(now) PROVE IInv'
  BY <1>1 DEF SyncSets, TypeOK, LoadedInv, Holds, MissesAddUp, VerdictInv, Open
<1>2. ASSUME NEW r \in Reqs, NEW right \in SUBSET Questions, ReadSet(r, right) PROVE IInv'
  <2> DEFINE m == [Idle EXCEPT !.at = "submit", !.of = asked, !.right = right]
  <2>1. m \in Request /\ m.at = "submit"
    BY <1>2 DEF ReadSet, Idle, NoSpot, Request, Slot, Spot, TypeOK
  <2> QED BY <1>2, <2>1, ReadStep DEF ReadSet
<1>3. ASSUME NEW r \in Reqs, NEW q \in Questions, LoadForAnswer(r, q) PROVE IInv'
  <2> DEFINE m == [Idle EXCEPT !.at = "loaded", !.of = {q}, !.seen = spots[q]]
  <2>1. m \in Request /\ m.of = {q} /\ m.seen = spots[q] /\ ~m.stale
    BY DEF Idle, NoSpot, Request, Slot, Spot, TypeOK
  <2>2. spots[q].row /\ ~spots[q].resolved /\ spots[q].missed <= misses[q]
    BY <1>3 DEF LoadForAnswer, Open, MissesAddUp
  <2> QED BY <1>3, <2>1, <2>2, ReadStep DEF LoadForAnswer
<1>4. ASSUME NEW r \in Reqs, NEW right \in SUBSET Questions, Judge(r, right) PROVE IInv'
  <2> DEFINE m == [req[r] EXCEPT !.at = "judged", !.right = right]
  <2>1. /\ req[r] \in Request /\ m \in Request /\ m.at = "judged"
        /\ m.of = req[r].of /\ m.seen = req[r].seen /\ m.stale = req[r].stale
    BY <1>4 DEF Judge, Request, Slot, TypeOK
  <2>2. req' = [req EXCEPT ![r] = m]
    BY <1>4 DEF Judge, TypeOK, Request, Slot
  <2>3. req[r].at = "loaded"
    BY <1>4 DEF Judge
  <2>4. \A q \in m.of : /\ spots[q].row
                        /\ m.seen.missed <= misses[q]
                        /\ ~m.stale => m.seen = spots[q]
                        /\ ~m.seen.resolved
    BY <2>1, <2>3 DEF LoadedInv, Holds
  <2>5. UNCHANGED <<spots, misses, latest, crossed>> /\ asked' = asked
    BY <1>4 DEF Judge
  <2> HIDE DEF m
  <2> QED BY <2>1, <2>2, <2>4, <2>5, ReadStep
<1>5. ASSUME NEW r \in Reqs, NEW q \in Questions, LoadForDismiss(r, q) PROVE IInv'
  <2> DEFINE m == [Idle EXCEPT !.at = "dismiss", !.of = {q}, !.seen = spots[q]]
  <2>1. m \in Request /\ m.of = {q} /\ m.seen = spots[q] /\ m.at = "dismiss"
    BY DEF Idle, NoSpot, Request, Slot, Spot, TypeOK
  <2>2. spots[q].row /\ spots[q].missed <= misses[q]
    BY <1>5 DEF LoadForDismiss, MissesAddUp
  <2> QED BY <1>5, <2>1, <2>2, ReadStep DEF LoadForDismiss
<1>6. ASSUME NEW r \in Reqs, QuestionGone(r) \/ Die(r) PROVE IInv'
  BY <1>6, IdleType, ReadStep DEF QuestionGone, Die, Idle
<1>7. ASSUME NEW r \in Reqs, SyncWeakSpots(r) PROVE IInv'
  <2> DEFINE wrong == req[r].of \ req[r].right
             cleared == req[r].right
  <2>1. /\ req[r].right \subseteq req[r].of /\ req[r].of \in SUBSET Questions
        /\ wrong \in SUBSET Questions /\ cleared \in SUBSET Questions
        /\ wrong \cap cleared = {} /\ wrong \cup cleared = req[r].of
    BY DEF TypeOK, Request, Slot
  <2>2. \A q \in Questions : /\ spots[q] \in Spot
                             /\ Missed(spots[q]) \in Spot /\ Resolved(spots[q]) \in Spot
                             /\ spots[q].missed \in Nat /\ misses[q] \in Nat
                             /\ spots[q].missed <= misses[q]
    BY DEF TypeOK, Spot, Missed, Resolved, MissesAddUp
  <2>3. spots' \in [Questions -> Spot]
    BY <1>7, <2>2 DEF SyncWeakSpots
  <2>4. \A q \in Questions \ (wrong \cup cleared) : spots'[q] = spots[q]
    BY <1>7, <2>1 DEF SyncWeakSpots
  <2>5. \A q \in wrong : /\ spots'[q].row
                         /\ spots'[q].missed > 0
                         /\ spots'[q].missed <= misses[q] + 1
                         /\ spots'[q].missed = spots[q].missed + 1
                         /\ ~spots'[q].resolved
    <3> TAKE q \in wrong
    <3>1. spots'[q] = Missed(spots[q])
      BY <1>7, <2>1 DEF SyncWeakSpots
    <3> QED BY <3>1, <2>1, <2>2 DEF Missed
  <2>6. \A q \in cleared : /\ spots'[q].row = spots[q].row
                           /\ spots'[q].missed = spots[q].missed
                           /\ spots[q].row => spots'[q].resolved
    <3> TAKE q \in cleared
    <3>1. spots'[q] = Resolved(spots[q])
      BY <1>7, <2>1 DEF SyncWeakSpots
    <3> QED BY <3>1, <2>1, <2>2 DEF Resolved, Spot
  <2>7. /\ Verdicts(wrong, cleared) /\ Ends(r, wrong \cup cleared)
        /\ asked' = asked /\ crossed' = crossed /\ crossed' \in SUBSET Questions
    BY <1>7, <2>1 DEF SyncWeakSpots, TypeOK
  <2> HIDE DEF wrong, cleared
  <2> QED BY <2>1, <2>3, <2>4, <2>5, <2>6, <2>7, WriteStep
<1>8. ASSUME NEW r \in Reqs, AnswerRight(r) \/ AnswerWrong(r) \/ Dismiss(r) PROVE IInv'
  <2> DEFINE of == req[r].of
  <2>1. /\ of \in SUBSET Questions /\ req[r] \in Slot /\ Holds(r)
        /\ crossed' = IF req[r].stale THEN crossed \cup of ELSE crossed
        /\ crossed' \in SUBSET Questions /\ crossed \subseteq crossed'
        /\ Ends(r, of) /\ asked' = asked
        /\ \A q \in of : q \notin crossed' => ~req[r].stale
    BY <1>8 DEF TypeOK, Request, Slot, AnswerRight, AnswerWrong, Dismiss, Crosses, Holds
  <2>2. \A q \in of : /\ spots[q] \in Spot /\ spots[q].row
                      /\ req[r].seen.missed <= misses[q]
                      /\ q \notin crossed' => req[r].seen = spots[q]
                      /\ req[r].at = "judged" => ~req[r].seen.resolved
    BY <2>1 DEF LoadedInv, TypeOK
  <2>3. \A q \in Questions : spots[q] \in Spot /\ spots[q].missed \in Nat /\ misses[q] \in Nat
    BY DEF TypeOK, Spot
  <2>4. req[r].seen.missed \in Nat
    BY <2>1 DEF Slot, Spot
  <2>5. CASE AnswerWrong(r)
    <3>1. \A q \in Questions : spots'[q] = IF q \in of
                                 THEN [spots[q] EXCEPT !.missed = req[r].seen.missed + 1]
                                 ELSE spots[q]
      BY <2>5 DEF AnswerWrong
    <3>2. spots' \in [Questions -> Spot]
      BY <2>5, <2>3, <2>4 DEF AnswerWrong, Spot
    <3>3. \A q \in of : /\ spots'[q].row /\ spots'[q].missed = req[r].seen.missed + 1
                        /\ spots'[q].resolved = spots[q].resolved
      BY <3>1, <2>1, <2>2 DEF Spot
    <3>4. Verdicts(of, {}) /\ req[r].at = "judged"
      BY <2>5 DEF AnswerWrong
    <3>5. \A q \in of : /\ spots'[q].row
                        /\ spots'[q].missed > 0
                        /\ spots'[q].missed <= misses[q] + 1
                        /\ q \notin crossed' => spots'[q].missed = spots[q].missed + 1
                        /\ q \notin crossed' => ~spots'[q].resolved
      BY <3>3, <3>4, <2>1, <2>2, <2>3, <2>4
    <3>6. \A q \in Questions \ (of \cup {}) : spots'[q] = spots[q]
      BY <3>1
    <3>7. Ends(r, of \cup {})
      BY <2>1, of \cup {} = of
    <3> HIDE DEF of
    <3> QED BY <3>2, <3>4, <3>5, <3>6, <3>7, <2>1, WriteStep
  <2>6. CASE AnswerRight(r) \/ Dismiss(r)
    <3>1. spots' \in [Questions -> Spot]
      BY <2>6, <2>3 DEF AnswerRight, Dismiss, Spot
    <3>2. \A q \in of : /\ spots'[q].row = spots[q].row
                        /\ spots'[q].missed = spots[q].missed
                        /\ q \notin crossed' /\ spots[q].row => spots'[q].resolved
      BY <2>6, <2>1, <2>2 DEF AnswerRight, Dismiss, Spot
    <3>3. \A q \in Questions \ ({} \cup of) : spots'[q] = spots[q]
      BY <2>6 DEF AnswerRight, Dismiss
    <3>4. Verdicts({}, of)
      BY <2>6 DEF AnswerRight, Dismiss
    <3>5. Ends(r, {} \cup of)
      BY <2>1, {} \cup of = of
    <3> HIDE DEF of
    <3> QED BY <3>1, <3>2, <3>3, <3>4, <3>5, <2>1, WriteStep
  <2> QED BY <1>8, <2>5, <2>6
<1>9. CASE UNCHANGED vars
  BY <1>9 DEF vars, TypeOK, LoadedInv, Holds, MissesAddUp, VerdictInv, Open
<1> QED BY <1>1, <1>2, <1>3, <1>4, <1>5, <1>6, <1>7, <1>8, <1>9 DEF Next

\* The invariant holds before anything is submitted.
LEMMA InvInit == Init => IInv
BY IdleType DEF Init, IInv, TypeOK, Spot, NoSpot, LoadedInv, Holds, Idle, MissesAddUp,
   VerdictInv, Open

\* The invariant holds in every state.
THEOREM Inductive == Spec => []IInv
BY InvInit, InvStep, PTL DEF Spec

\* Every row and slot is well typed, and a row has counted a miss.
THEOREM TypeCorrect == Spec => []TypeOK
<1>1. IInv => TypeOK
  BY DEF IInv
<1> QED BY <1>1, Inductive, PTL

\* However many answers, dismissals and submits interleave, a miss is never counted
\* twice (sync_weak_spots, answer_weak_spot), and it is lost only when writes cross.
THEOREM MissesAreCounted == Spec => []MissesAddUp
<1>1. IInv => MissesAddUp
  BY DEF IInv
<1> QED BY <1>1, Inductive, PTL

\* The practice queue (get_weak_spots) follows the latest verdict on every question that
\* no write crossed.
THEOREM QueueFollows == Spec => []QueueIsLatestVerdict
<1>1. IInv => QueueIsLatestVerdict
  BY DEF IInv, VerdictInv, QueueIsLatestVerdict, Queue, Open, TypeOK
<1> QED BY <1>1, Inductive, PTL

-----------------------------------------------------------------------------
\* StudyExtras: what Distinct keeps

\* Distinct as it goes: what is kept of the first i sentences of s, for each i.
SoFar(p, s) == p[0] = <<>> /\ \A i \in 1..Len(s) : p[i] = Kept(p[i - 1], s[i])

\* Keeping a sentence gives a sequence of sentences.
LEMMA KeptType ==
    ASSUME NEW shown \in Seq(Sentences), NEW x \in Sentences
    PROVE  Kept(shown, x) \in Seq(Sentences)
BY DEF Kept

\* Distinct goes through its sentences from the first to the last.
LEMMA DistinctPrefixes ==
    ASSUME NEW s \in Seq(Sentences)
    PROVE  \E p \in [0..Len(s) -> Seq(Sentences)] : SoFar(p, s) /\ Distinct(s) = p[Len(s)]
<1> DEFINE n == Len(s)
           A == Seq(Sentences)
           step == [i \in 1..n |-> [shown \in A |-> Kept(shown, s[i])]]
           Eq(it) == it = [T \in SUBSET (1..n) |->
                              IF T = {} THEN <<>> ELSE Kept(it[T \ {Greatest(T)}], s[Greatest(T)])]
           jt == CHOOSE it : Eq(it)
           p == [i \in 0..n |-> jt[1..i]]
<1>1. n \in Nat /\ DOMAIN s = 1..n /\ <<>> \in A /\ \A i \in 1..n : s[i] \in Sentences
  OBVIOUS
<1>2. StepsWithin(step, 1..n, A)
  <2> HIDE DEF n, A
  <2> QED BY <1>1, KeptType DEF StepsWithin, A
<1>3. PICK it \in [SUBSET (1..n) -> A] : IsFold(it, 1..n, <<>>, GreatestOf(n), step)
  <2> HIDE DEF n, A, step
  <2> QED BY <1>1, <1>2, SequenceFoldExists
<1>4. ASSUME NEW T \in SUBSET (1..n), T # {}
      PROVE  it[T] = Kept(it[T \ {Greatest(T)}], s[Greatest(T)])
  <2>1. Greatest(T) \in 1..n /\ it[T \ {Greatest(T)}] \in A
    BY <1>1, <1>4, GreatestExists
  <2>2. it[T] = step[Greatest(T)][it[T \ {Greatest(T)}]]
    BY <1>3, <1>4 DEF IsFold, GreatestOf
  <2> HIDE DEF n, A
  <2> QED BY <2>1, <2>2
<1>5. Eq(it)
  <2>1. it[{}] = <<>>
    BY <1>3 DEF IsFold
  <2>2. \A T \in SUBSET (1..n) :
            it[T] = IF T = {} THEN <<>> ELSE Kept(it[T \ {Greatest(T)}], s[Greatest(T)])
    BY <1>4, <2>1
  <2> HIDE DEF n, A
  <2> QED BY <2>2
<1>6. Eq(jt)
  <2> HIDE DEF Eq
  <2> QED BY <1>5
<1>7. Distinct(s) = jt[1..n]
  BY <1>1 DEF Distinct, FoldLeft, MapThenFoldSet, Max, Greatest
<1> HIDE DEF jt
<1>8. p[0] = <<>>
  <2>1. 1..0 = {}
    OBVIOUS
  <2> QED BY <1>1, <1>6, <2>1
<1>9. \A i \in 1..n : p[i] = Kept(p[i - 1], s[i])
  <2> SUFFICES ASSUME NEW i \in 1..n PROVE p[i] = Kept(p[i - 1], s[i])
    OBVIOUS
  <2>1. Greatest(1..i) = i /\ (1..i) \ {i} = 1..(i - 1)
    BY <1>1, LastOfPrefix
  <2>2. 1..i \in SUBSET (1..n) /\ 1..i # {} /\ i \in 0..n /\ i - 1 \in 0..n
    <3> HIDE DEF n
    <3>1. i \in Nat /\ 1 <= i /\ i <= n
      BY <1>1
    <3>2. i \in 1..i /\ 1..i \subseteq 1..n
      BY <1>1, <3>1
    <3>3. i \in 0..n /\ i - 1 \in 0..n
      BY <1>1, <3>1
    <3> QED BY <3>2, <3>3
  <2>3. jt[1..i] = Kept(jt[(1..i) \ {Greatest(1..i)}], s[Greatest(1..i)])
    BY <1>6, <2>2
  <2> QED BY <2>1, <2>2, <2>3
<1>10. \A i \in 0..n : p[i] \in A
  <2> DEFINE H == {i \in Nat : i \in 0..n => p[i] \in A}
  <2>1. 0 \in H
    BY <1>1, <1>8
  <2>2. ASSUME NEW i \in Nat, i \in H PROVE i + 1 \in H
    <3> HIDE DEF p, n, A
    <3>1. SUFFICES ASSUME i + 1 \in 0..n PROVE p[i + 1] \in A
      BY <2>2
    <3>2. i + 1 \in 1..n /\ i \in 0..n /\ (i + 1) - 1 = i
      BY <1>1, <2>2, <3>1
    <3>3. p[i + 1] = Kept(p[i], s[i + 1]) /\ p[i] \in A /\ s[i + 1] \in Sentences
      BY <1>1, <1>9, <2>2, <3>2
    <3> QED BY <3>3, KeptType DEF A
  <2>3. Nat \subseteq H
    <3> HIDE DEF H
    <3> QED BY <2>1, <2>2, EveryNatural
  <2> HIDE DEF p
  <2> QED BY <1>1, <2>3
<1>11. Distinct(s) = p[n]
  BY <1>1, <1>7
<1>12. p \in [0..n -> A]
  BY <1>10
<1> HIDE DEF p
<1> QED BY <1>8, <1>9, <1>11, <1>12 DEF SoFar

\* What is kept of some sentences starts what is kept of those and more.
Begins(a, b) == Len(a) <= Len(b) /\ \A k \in 1..Len(a) : b[k] = a[k]

\* No two sentences of a sequence have the same key.
OneEach(s) == \A i, j \in DOMAIN s : s[i][1] = s[j][1] => i = j

\* Every sentence that is given has its key among those that are kept.
Covers(a, s, n) == \A i \in 1..n : \E k \in DOMAIN a : a[k][1] = s[i][1]

\* A sequence that is extended starts the longer one.
LEMMA KeptStarts ==
    ASSUME NEW a \in Seq(Sentences), NEW b \in Seq(Sentences), NEW x \in Sentences, Begins(a, b)
    PROVE  Begins(a, Kept(b, x))
<1>1. CASE Kept(b, x) = b
  BY <1>1
<1>2. CASE Kept(b, x) = Append(b, x)
  <2>1. Len(Append(b, x)) = Len(b) + 1 /\ \A k \in 1..Len(b) : Append(b, x)[k] = b[k]
    OBVIOUS
  <2>2. Len(a) \in Nat /\ Len(b) \in Nat
    OBVIOUS
  <2> QED BY <1>2, <2>1, <2>2 DEF Begins
<1> QED BY <1>1, <1>2 DEF Kept

\* One sentence more is kept only if its key is new, and its key is there afterwards.
LEMMA KeptKeys ==
    ASSUME NEW a \in Seq(Sentences), NEW x \in Sentences, OneEach(a)
    PROVE  /\ OneEach(Kept(a, x))
           /\ \E k \in DOMAIN Kept(a, x) : Kept(a, x)[k][1] = x[1]
           /\ \A i \in DOMAIN a : \E k \in DOMAIN Kept(a, x) : Kept(a, x)[k][1] = a[i][1]
<1>1. CASE \E i \in DOMAIN a : a[i][1] = x[1]
  BY <1>1 DEF Kept
<1>2. CASE ~\E i \in DOMAIN a : a[i][1] = x[1]
  <2>1. Kept(a, x) = Append(a, x)
    BY <1>2 DEF Kept
  <2>2. /\ DOMAIN Append(a, x) = 1..(Len(a) + 1)
        /\ \A k \in 1..Len(a) : Append(a, x)[k] = a[k]
        /\ Append(a, x)[Len(a) + 1] = x
        /\ DOMAIN a = 1..Len(a) /\ Len(a) \in Nat
    OBVIOUS
  <2>3. OneEach(Append(a, x))
    BY <1>2, <2>2 DEF OneEach
  <2> QED BY <2>1, <2>2, <2>3
<1> QED BY <1>1, <1>2

\* Distinct only appends to what it has kept.
LEMMA PrefixStarts ==
    ASSUME NEW s \in Seq(Sentences), NEW p \in [0..Len(s) -> Seq(Sentences)], SoFar(p, s),
           NEW i \in 0..Len(s)
    PROVE  Begins(p[i], p[Len(s)])
<1> DEFINE n == Len(s)
           H == {d \in Nat : i + d <= n => Begins(p[i], p[i + d])}
<1>1. n \in Nat /\ i \in Nat /\ i <= n /\ \A j \in 1..n : s[j] \in Sentences
  OBVIOUS
<1> HIDE DEF n
<1>2. 0 \in H
  BY <1>1 DEF Begins, n
<1>3. ASSUME NEW d \in Nat, d \in H PROVE d + 1 \in H
  <2>1. SUFFICES ASSUME i + (d + 1) <= n PROVE Begins(p[i], p[i + (d + 1)])
    BY <1>3
  <2>2. /\ i + d \in 0..n /\ i + (d + 1) \in 1..n /\ (i + (d + 1)) - 1 = i + d
        /\ Begins(p[i], p[i + d])
    BY <1>1, <1>3, <2>1
  <2>3. p[i + (d + 1)] = Kept(p[i + d], s[i + (d + 1)])
    BY <2>2 DEF SoFar, n
  <2>4. p[i] \in Seq(Sentences) /\ p[i + d] \in Seq(Sentences) /\ s[i + (d + 1)] \in Sentences
    BY <1>1, <2>2 DEF n
  <2> QED BY <2>2, <2>3, <2>4, KeptStarts
<1>4. n - i \in H
  <2> HIDE DEF H
  <2>1. Nat \subseteq H
    BY <1>2, <1>3, EveryNatural
  <2> QED BY <1>1, <2>1
<1>5. i + (n - i) = n
  BY <1>1
<1> QED BY <1>1, <1>4, <1>5 DEF n

\* What Distinct has kept has each key once, and the key of every sentence so far.
LEMMA PrefixKeys ==
    ASSUME NEW s \in Seq(Sentences), NEW p \in [0..Len(s) -> Seq(Sentences)], SoFar(p, s),
           NEW i \in 0..Len(s)
    PROVE  OneEach(p[i]) /\ Covers(p[i], s, i)
<1> DEFINE n == Len(s)
           H == {j \in Nat : j <= n => OneEach(p[j]) /\ Covers(p[j], s, j)}
<1>1. n \in Nat /\ \A j \in 1..n : s[j] \in Sentences
  OBVIOUS
<1> HIDE DEF n
<1>2. 0 \in H
  <2>1. p[0] = <<>>
    BY DEF SoFar
  <2> QED BY <2>1 DEF OneEach, Covers
<1>3. ASSUME NEW j \in Nat, j \in H PROVE j + 1 \in H
  <2>1. SUFFICES ASSUME j + 1 <= n PROVE OneEach(p[j + 1]) /\ Covers(p[j + 1], s, j + 1)
    BY <1>3
  <2>2. j \in 0..n /\ j + 1 \in 1..n /\ (j + 1) - 1 = j /\ OneEach(p[j]) /\ Covers(p[j], s, j)
    BY <1>1, <1>3, <2>1
  <2>3. p[j + 1] = Kept(p[j], s[j + 1])
    BY <2>2 DEF SoFar, n
  <2>4. p[j] \in Seq(Sentences) /\ s[j + 1] \in Sentences
    BY <1>1, <2>2 DEF n
  <2>5. /\ OneEach(p[j + 1])
        /\ \E k \in DOMAIN p[j + 1] : p[j + 1][k][1] = s[j + 1][1]
        /\ \A m \in DOMAIN p[j] : \E k \in DOMAIN p[j + 1] : p[j + 1][k][1] = p[j][m][1]
    <3> DEFINE a == p[j]  x == s[j + 1]
    <3>1. a \in Seq(Sentences) /\ x \in Sentences /\ OneEach(a) /\ p[j + 1] = Kept(a, x)
      BY <2>2, <2>3, <2>4
    <3>2. /\ OneEach(Kept(a, x))
          /\ \E k \in DOMAIN Kept(a, x) : Kept(a, x)[k][1] = x[1]
          /\ \A m \in DOMAIN a : \E k \in DOMAIN Kept(a, x) : Kept(a, x)[k][1] = a[m][1]
      <4> HIDE DEF a, x
      <4> QED BY <3>1, KeptKeys
    <3> QED BY <3>1, <3>2
  <2>6. Covers(p[j + 1], s, j + 1)
    <3>1. ASSUME NEW m \in 1..(j + 1) PROVE \E k \in DOMAIN p[j + 1] : p[j + 1][k][1] = s[m][1]
      <4>1. m = j + 1 \/ m \in 1..j
        OBVIOUS
      <4> QED BY <2>2, <2>5, <4>1 DEF Covers
    <3> QED BY <3>1 DEF Covers
  <2> QED BY <2>5, <2>6
<1>4. Nat \subseteq H
  <2> HIDE DEF H
  <2> QED BY <1>2, <1>3, EveryNatural
<1> QED BY <1>1, <1>4 DEF n

\* As far as two sequences agree, so does what Distinct has kept of them.
LEMMA PrefixesAgree ==
    ASSUME NEW s \in Seq(Sentences), NEW p \in [0..Len(s) -> Seq(Sentences)], SoFar(p, s),
           NEW t \in Seq(Sentences), NEW q \in [0..Len(t) -> Seq(Sentences)], SoFar(q, t),
           Len(s) <= Len(t), \A i \in 1..Len(s) : t[i] = s[i]
    PROVE  q[Len(s)] = p[Len(s)]
<1> DEFINE n == Len(s)
           H == {j \in Nat : j <= n => q[j] = p[j]}
<1>1. n \in Nat /\ Len(t) \in Nat
  OBVIOUS
<1> HIDE DEF n
<1>2. 0 \in H
  BY DEF SoFar
<1>3. ASSUME NEW j \in Nat, j \in H PROVE j + 1 \in H
  <2>1. SUFFICES ASSUME j + 1 <= n PROVE q[j + 1] = p[j + 1]
    BY <1>3
  <2>2. j + 1 \in 1..n /\ j + 1 \in 1..Len(t) /\ (j + 1) - 1 = j /\ q[j] = p[j]
    BY <1>1, <1>3, <2>1 DEF n
  <2>3. p[j + 1] = Kept(p[j], s[j + 1]) /\ q[j + 1] = Kept(q[j], t[j + 1])
    BY <2>2 DEF SoFar, n
  <2> QED BY <2>2, <2>3 DEF n
<1>4. Nat \subseteq H
  <2> HIDE DEF H
  <2> QED BY <1>2, <1>3, EveryNatural
<1> QED BY <1>1, <1>4 DEF n

\* Distinct gives sentences, each key once and the key of every sentence it is given.
LEMMA DistinctKeys ==
    ASSUME NEW s \in Seq(Sentences)
    PROVE  /\ Distinct(s) \in Seq(Sentences)
           /\ OneEach(Distinct(s))
           /\ Covers(Distinct(s), s, Len(s))
<1>1. PICK p \in [0..Len(s) -> Seq(Sentences)] : SoFar(p, s) /\ Distinct(s) = p[Len(s)]
  BY DistinctPrefixes
<1>2. Len(s) \in 0..Len(s)
  OBVIOUS
<1>3. p[Len(s)] \in Seq(Sentences)
  BY <1>2
<1> QED BY <1>1, <1>2, <1>3, PrefixKeys

\* Of a longer sequence Distinct keeps what it keeps of a shorter one, first.
LEMMA DistinctStarts ==
    ASSUME NEW s \in Seq(Sentences), NEW t \in Seq(Sentences), Begins(s, t)
    PROVE  Begins(Distinct(s), Distinct(t))
<1>1. PICK p \in [0..Len(s) -> Seq(Sentences)] : SoFar(p, s) /\ Distinct(s) = p[Len(s)]
  BY DistinctPrefixes
<1>2. PICK q \in [0..Len(t) -> Seq(Sentences)] : SoFar(q, t) /\ Distinct(t) = q[Len(t)]
  BY DistinctPrefixes
<1>3. q[Len(s)] = p[Len(s)]
  BY <1>1, <1>2, PrefixesAgree DEF Begins
<1>4. Len(s) \in 0..Len(t)
  BY DEF Begins
<1>5. Begins(q[Len(s)], q[Len(t)])
  BY <1>2, <1>4, PrefixStarts
<1> QED BY <1>1, <1>2, <1>3, <1>5

\* A sequence with a key for each of n different ones has at least n elements.
LEMMA EnoughKeys ==
    ASSUME NEW c \in Seq(Sentences), OneEach(c), NEW s \in Seq(Sentences),
           NEW a \in Seq(Sentences), Covers(a, s, Len(s)),
           \A i \in DOMAIN c : \E j \in DOMAIN s : s[j] = c[i]
    PROVE  Len(c) <= Len(a)
<1> DEFINE f == [i \in 1..Len(c) |-> CHOOSE k \in 1..Len(a) : a[k][1] = c[i][1]]
<1>1. ASSUME NEW i \in 1..Len(c) PROVE f[i] \in 1..Len(a) /\ a[f[i]][1] = c[i][1]
  <2>1. PICK j \in 1..Len(s) : s[j] = c[i]
    <3>1. i \in DOMAIN c /\ DOMAIN s = 1..Len(s)
      OBVIOUS
    <3> QED BY <3>1
  <2>2. \E k \in 1..Len(a) : a[k][1] = c[i][1]
    BY <2>1 DEF Covers
  <2> QED BY <2>2
<1>2. f \in Injection(1..Len(c), 1..Len(a))
  <2>1. f \in [1..Len(c) -> 1..Len(a)]
    BY <1>1
  <2>2. ASSUME NEW i \in 1..Len(c), NEW j \in 1..Len(c), f[i] = f[j] PROVE i = j
    <3>1. c[i][1] = c[j][1]
      <4> HIDE DEF f
      <4> QED BY <1>1, <2>2
    <3> QED BY <3>1 DEF OneEach
  <2> HIDE DEF f
  <2> QED BY <2>1, <2>2 DEF Injection, IsInjective
<1>3. /\ IsFiniteSet(1..Len(a)) /\ Cardinality(1..Len(a)) = Len(a)
      /\ Cardinality(1..Len(c)) = Len(c)
  <2>1. Len(a) \in Nat /\ Len(c) \in Nat
    OBVIOUS
  <2>2. \A n \in Nat : IsFiniteSet(1..n) /\ Cardinality(1..n) = n
    <3> SUFFICES ASSUME NEW n \in Nat PROVE IsFiniteSet(1..n) /\ Cardinality(1..n) = n
      OBVIOUS
    <3>1. IsFiniteSet(1..n) /\ Cardinality(1..n) = IF 1 > n THEN 0 ELSE n - 1 + 1
      BY FS_Interval
    <3> QED BY <3>1
  <2> QED BY <2>1, <2>2
<1> HIDE DEF f
<1> QED BY <1>2, <1>3, FS_Injection

\* What is shown of a list is as long as the list, and no longer than the history.
LEMMA CappedIs ==
    ASSUME NEW s \in Seq(Sentences)
    PROVE  /\ Capped(s) \in Seq(Sentences)
           /\ Begins(Capped(s), s)
           /\ Len(s) <= MAX_EXAMPLE_HISTORY => Capped(s) = s
           /\ Len(s) >= MAX_EXAMPLE_HISTORY => Len(Capped(s)) = MAX_EXAMPLE_HISTORY
<1> DEFINE n == IF Len(s) < MAX_EXAMPLE_HISTORY THEN Len(s) ELSE MAX_EXAMPLE_HISTORY
<1>1. MAX_EXAMPLE_HISTORY \in Nat /\ Len(s) \in Nat
  BY StudyExtrasAssumption
<1>2. n \in 0..Len(s)
  BY <1>1
<1>3. Capped(s) = SubSeq(s, 1, n)
  BY DEF Capped
<1>4. SubSeq(s, 1, n) \in Seq(Sentences) /\ Len(SubSeq(s, 1, n)) = n
  <2> HIDE DEF n
  <2> QED BY <1>1, <1>2
<1>5. \A k \in 1..n : SubSeq(s, 1, n)[k] = s[k]
  <2> HIDE DEF n
  <2> QED BY <1>1, <1>2
<1>6. n = Len(s) => SubSeq(s, 1, n) = s
  <2> HIDE DEF n
  <2> QED BY <1>1, <1>2, <1>4, <1>5
<1>7. Len(s) <= MAX_EXAMPLE_HISTORY => n = Len(s)
  BY <1>1
<1>8. Len(s) >= MAX_EXAMPLE_HISTORY => n = MAX_EXAMPLE_HISTORY
  BY <1>1
<1> HIDE DEF n
<1> QED BY <1>1, <1>2, <1>3, <1>4, <1>5, <1>6, <1>7, <1>8 DEF Begins

\* Merging into the part of the past that is shown shows what merging into all of it would:
\* what is cut off could not come back.
LEMMA CutOffStaysOff ==
    ASSUME NEW fresh \in Seq(Sentences), NEW past \in Seq(Sentences), OneEach(past)
    PROVE  Capped(Distinct(fresh \o Capped(past))) = Capped(Distinct(fresh \o past))
<1> DEFINE K == MAX_EXAMPLE_HISTORY
           c == Capped(past)
           s == fresh \o c
           t == fresh \o past
           a == Distinct(s)
           b == Distinct(t)
<1>1. CASE Len(past) <= K
  BY <1>1, CappedIs
<1>2. CASE Len(past) > K
  <2>1. /\ c \in Seq(Sentences) /\ Begins(c, past) /\ Len(c) = K
        /\ K \in Nat /\ Len(past) \in Nat /\ Len(fresh) \in Nat
    BY <1>2, CappedIs, StudyExtrasAssumption
  <2> HIDE DEF K, c
  <2>2. /\ s \in Seq(Sentences) /\ t \in Seq(Sentences)
        /\ Len(s) = Len(fresh) + Len(c) /\ Len(t) = Len(fresh) + Len(past)
        /\ \A i \in 1..Len(s) : s[i] = IF i <= Len(fresh) THEN fresh[i] ELSE c[i - Len(fresh)]
        /\ \A i \in 1..Len(t) : t[i] = IF i <= Len(fresh) THEN fresh[i]
                                       ELSE past[i - Len(fresh)]
    BY <2>1
  <2> HIDE DEF s, t
  <2>3. Begins(s, t)
    <3>1. Len(s) <= Len(t)
      BY <2>1, <2>2 DEF Begins
    <3>2. ASSUME NEW i \in 1..Len(s) PROVE t[i] = s[i]
      <4>1. i \in 1..Len(t) /\ i \in Nat
        BY <2>1, <2>2, <3>1
      <4>2. CASE i <= Len(fresh)
        BY <2>2, <4>1, <4>2
      <4>3. CASE i > Len(fresh)
        <5>1. i - Len(fresh) \in 1..Len(c)
          BY <2>1, <2>2, <4>1, <4>3
        <5>2. past[i - Len(fresh)] = c[i - Len(fresh)]
          BY <2>1, <5>1 DEF Begins
        <5> QED BY <2>1, <2>2, <4>1, <4>3, <5>2
      <4> QED BY <2>1, <4>1, <4>2, <4>3
    <3> QED BY <3>1, <3>2 DEF Begins
  <2>4. \A i \in DOMAIN c : \E j \in DOMAIN s : s[j] = c[i]
    <3>0. DOMAIN c = 1..Len(c) /\ DOMAIN s = 1..Len(s)
      BY <2>1, <2>2
    <3> SUFFICES ASSUME NEW i \in 1..Len(c) PROVE \E j \in 1..Len(s) : s[j] = c[i]
      BY <3>0
    <3>1. Len(fresh) + i \in 1..Len(s) /\ ~(Len(fresh) + i <= Len(fresh))
          /\ (Len(fresh) + i) - Len(fresh) = i
      BY <2>1, <2>2
    <3> QED BY <2>2, <3>1
  <2>5. OneEach(c)
    <3>1. DOMAIN c = 1..Len(c) /\ DOMAIN past = 1..Len(past)
      BY <2>1
    <3>2. \A i \in 1..Len(c) : i \in 1..Len(past) /\ c[i] = past[i]
      BY <2>1 DEF Begins
    <3> QED BY <3>1, <3>2 DEF OneEach
  <2>6. a \in Seq(Sentences) /\ Covers(a, s, Len(s)) /\ b \in Seq(Sentences) /\ Begins(a, b)
    BY <2>2, <2>3, DistinctKeys, DistinctStarts
  <2> HIDE DEF a, b
  <2>7. K <= Len(a) /\ K <= Len(b)
    <3>1. K <= Len(a)
      BY <2>1, <2>2, <2>4, <2>5, <2>6, EnoughKeys
    <3> QED BY <2>1, <2>6, <3>1 DEF Begins
  <2>8. /\ Capped(a) \in Seq(Sentences) /\ Len(Capped(a)) = K
        /\ Capped(b) \in Seq(Sentences) /\ Len(Capped(b)) = K
        /\ Begins(Capped(a), a) /\ Begins(Capped(b), b)
    BY <2>1, <2>6, <2>7, CappedIs DEF K
  <2>9. \A k \in 1..K : Capped(a)[k] = Capped(b)[k]
    BY <2>1, <2>6, <2>7, <2>8 DEF Begins
  <2>10. Capped(a) = Capped(b)
    BY <2>8, <2>9
  <2> QED BY <2>10 DEF a, b, s, t, c
<1>3. MAX_EXAMPLE_HISTORY \in Nat /\ Len(past) \in Nat
  BY StudyExtrasAssumption
<1> QED BY <1>1, <1>2, <1>3

-----------------------------------------------------------------------------
\* StudyExtras: type correctness

\* The idle slot and the missing row are well typed.
LEMMA CardIdleType == CardIdle \in CardSlot /\ NoRow \in Row
BY DEF CardIdle, CardSlot, NoRow, Row

\* A finished write leaves the slots well typed and in place, and marks those stale that
\* hold an older history.
LEMMA CardEndsSlots ==
    ASSUME extras \in [Slots -> CardSlot], NEW r \in Slots, NEW written \in BOOLEAN,
           CardEnds(r, written)
    PROVE  /\ extras' \in [Slots -> CardSlot]
           /\ extras'[r] = CardIdle
           /\ \A s \in Slots \ {r} :
                /\ extras'[s].at = extras[s].at
                /\ extras'[s].history = extras[s].history
                /\ extras[s].stale => extras'[s].stale
                /\ written /\ extras[s].at = "examples" => extras'[s].stale
<1>1. \A s \in Slots : [extras[s] EXCEPT !.stale = TRUE] \in CardSlot
  BY DEF CardSlot
<1>2. extras' \in [Slots -> CardSlot] /\ extras'[r] = CardIdle
  BY <1>1, CardIdleType DEF CardEnds
<1>3. ASSUME NEW s \in Slots \ {r}
      PROVE  /\ extras'[s].at = extras[s].at
             /\ extras'[s].history = extras[s].history
             /\ extras[s].stale => extras'[s].stale
             /\ written /\ extras[s].at = "examples" => extras'[s].stale
  <2>1. extras[s] \in CardSlot
    OBVIOUS
  <2>2. CASE written /\ extras[s].at = "examples"
    <3>1. extras'[s] = [extras[s] EXCEPT !.stale = TRUE]
      BY <2>2 DEF CardEnds
    <3> QED BY <2>1, <3>1 DEF CardSlot
  <2>3. CASE ~(written /\ extras[s].at = "examples")
    <3>1. extras'[s] = extras[s]
      BY <2>3 DEF CardEnds
    <3> QED BY <2>3, <3>1
  <2> QED BY <2>2, <2>3
<1> QED BY <1>2, <1>3

\* Replies of the model are sequences of sentences.
LEMMA RepliesType == Replies \subseteq Seq(Sentences)
BY StudyExtrasAssumption DEF Replies

\* Merged histories are sequences of sentences.
LEMMA MergeType ==
    ASSUME NEW fresh \in Seq(Sentences), NEW past \in Seq(Sentences)
    PROVE  Merge(past, fresh) \in Seq(Sentences) /\ Distinct(fresh \o past) \in Seq(Sentences)
<1>1. fresh \o past \in Seq(Sentences)
  OBVIOUS
<1>2. Distinct(fresh \o past) \in Seq(Sentences)
  BY <1>1, DistinctKeys
<1> QED BY <1>2, CappedIs DEF Merge

\* The card without extras is well typed.
LEMMA CardInitType == CardInit => CardTypeOK
<1> SUFFICES ASSUME CardInit PROVE CardTypeOK
  OBVIOUS
<1>1. extras \in [Slots -> CardSlot] /\ row \in Row
  BY CardIdleType DEF CardInit
<1>2. told \in Seq(Sentences) /\ presses \in 0..MaxPresses
  BY StudyExtrasAssumption DEF CardInit
<1> QED BY <1>1, <1>2 DEF CardInit, CardTypeOK

\* Every step keeps the types.
LEMMA CardTypeStep == CardTypeOK /\ [CardNext]_cardVars => CardTypeOK'
<1> SUFFICES ASSUME CardTypeOK, [CardNext]_cardVars PROVE CardTypeOK'
  OBVIOUS
<1>1. CASE UNCHANGED cardVars
  BY <1>1 DEF cardVars, CardTypeOK
<1>2. CASE CardNext
  <2> SUFFICES ASSUME NEW r \in Slots,
                      \/ ReadForForms(r) \/ StoreForms(r) \/ WillInsert(r) \/ InsertForms(r)
                      \/ ReadForExamples(r) \/ StoreExamples(r) \/ Dies(r)
               PROVE  CardTypeOK'
    BY <1>2 DEF CardNext
  <2>0. /\ inflects' = inflects /\ inflects \in BOOLEAN /\ row \in Row
        /\ extras \in [Slots -> CardSlot] /\ told \in Seq(Sentences)
        /\ presses \in 0..MaxPresses /\ lost \in BOOLEAN /\ twice \in BOOLEAN
        /\ MaxPresses \in Nat
    BY <1>2, StudyExtrasAssumption DEF CardNext, CardTypeOK
  <2>1. CASE ReadForForms(r)
    <3>1. [CardIdle EXCEPT !.at = "forms", !.loaded = row.exists] \in CardSlot
      BY <2>0, CardIdleType DEF CardSlot, Row
    <3> QED BY <2>0, <2>1, <3>1 DEF ReadForForms, CardTypeOK
  <2>2. CASE StoreForms(r)
    <3>1. row' \in Row
      BY <2>0, <2>2 DEF StoreForms, Answers, Row
    <3>2. extras' \in [Slots -> CardSlot]
      BY <2>0, <2>2, CardEndsSlots DEF StoreForms
    <3> QED BY <2>0, <2>2, <3>1, <3>2 DEF StoreForms, CardTypeOK
  <2>3. CASE WillInsert(r)
    <3>1. [extras[r] EXCEPT !.at = "insert"] \in CardSlot
      BY <2>0 DEF CardSlot
    <3> QED BY <2>0, <2>3, <3>1 DEF WillInsert, CardTypeOK
  <2>4. CASE InsertForms(r)
    <3>1. row' \in Row
      BY <2>0, <2>4, CardIdleType DEF InsertForms, Row
    <3>2. extras' \in [Slots -> CardSlot]
      BY <2>0, <2>4, CardEndsSlots DEF InsertForms
    <3> QED BY <2>0, <2>4, <3>1, <3>2 DEF InsertForms, CardTypeOK
  <2>5. CASE ReadForExamples(r)
    <3>1. [CardIdle EXCEPT !.at = "examples", !.loaded = row.exists, !.history = row.examples]
              \in CardSlot
      BY <2>0, CardIdleType DEF CardSlot, Row
    <3> QED BY <2>0, <2>5, <3>1 DEF ReadForExamples, CardTypeOK
  <2>6. CASE StoreExamples(r)
    <3>1. PICK fresh \in Replies :
             LET merged == Merge(extras[r].history, fresh)
                 written == ~(extras[r].loaded /\ merged = extras[r].history)
             IN /\ row' = [row EXCEPT !.exists = TRUE,
                                      !.examples = IF written THEN merged ELSE @]
                /\ told' = Distinct(fresh \o told)
                /\ lost' = (lost \/ extras[r].stale)
                /\ CardEnds(r, written)
      BY <2>6 DEF StoreExamples
    <3>2. fresh \in Seq(Sentences) /\ extras[r].history \in Seq(Sentences)
      BY <2>0, RepliesType DEF CardSlot
    <3>3. told' \in Seq(Sentences) /\ row' \in Row
      BY <2>0, <3>1, <3>2, MergeType DEF Row
    <3>4. extras' \in [Slots -> CardSlot]
      BY <2>0, <3>1, CardEndsSlots
    <3>5. lost' \in BOOLEAN
      BY <2>0, <3>1 DEF CardSlot
    <3>6. presses' \in 0..MaxPresses /\ twice' = twice
      <4>1. presses < MaxPresses /\ presses' = presses + 1 /\ twice' = twice
        BY <2>6 DEF StoreExamples
      <4> QED BY <2>0, <4>1
    <3> QED BY <2>0, <3>3, <3>4, <3>5, <3>6 DEF CardTypeOK
  <2>7. CASE Dies(r)
    BY <2>0, <2>7, CardIdleType DEF Dies, CardTypeOK
  <2> QED BY <2>1, <2>2, <2>3, <2>4, <2>5, <2>6, <2>7
<1> QED BY <1>1, <1>2

\* Every reachable state of StudyExtras is well typed.
THEOREM CardTypeCorrect == CardSpec => []CardTypeOK
<1>1. CardInit => CardTypeOK
  BY CardInitType
<1>2. CardTypeOK /\ [CardNext]_cardVars => CardTypeOK'
  BY CardTypeStep
<1> QED BY <1>1, <1>2, PTL DEF CardSpec

-----------------------------------------------------------------------------
\* StudyExtras: what the card keeps

\* As long as two requests have not generated the forms at once, the one that generates
\* them now found none, and there are none yet.
FormsInv ==
    ~twice => /\ \A r, s \in Generating : r = s
              /\ Generating # {} => row.forms = Null

\* A request that is not stale holds the examples as they are, and they are what is shown
\* of all that was told.
ShownInv ==
    /\ ~row.exists => row = NoRow
    /\ OneEach(told)
    /\ \A r \in Slots : extras[r].at = "examples" /\ ~extras[r].stale
           => extras[r].history = row.examples
    /\ PastStaysVisible

CardInv == CardTypeOK /\ FormsInv /\ ShownInv

\* At first nothing is generated and nothing was told.
LEMMA CardInvInit == CardInit => CardInv
<1> SUFFICES ASSUME CardInit PROVE CardInv
  OBVIOUS
<1>1. CardTypeOK
  BY CardInitType
<1>2. \A r \in Slots : extras[r].at = "idle"
  BY DEF CardInit, CardIdle
<1>3. FormsInv
  BY <1>2 DEF FormsInv, Generating
<1>4. Capped(<<>>) = <<>>
  <2>1. <<>> \in Seq(Sentences) /\ Len(<<>>) = 0 /\ 0 <= MAX_EXAMPLE_HISTORY
    BY StudyExtrasAssumption
  <2> QED BY <2>1, CappedIs
<1>5. ShownInv
  BY <1>2, <1>4 DEF CardInit, NoRow, ShownInv, OneEach, PastStaysVisible
<1> QED BY <1>1, <1>3, <1>5 DEF CardInv

\* A step keeps the forms to the one request that generates them.
LEMMA FormsStep == CardInv /\ [CardNext]_cardVars => FormsInv'
<1> SUFFICES ASSUME CardInv, [CardNext]_cardVars PROVE FormsInv'
  OBVIOUS
<1>0. /\ extras \in [Slots -> CardSlot] /\ row \in Row /\ twice \in BOOLEAN
      /\ FormsInv /\ (~row.exists => row = NoRow)
  BY DEF CardInv, CardTypeOK, ShownInv
<1>1. CASE UNCHANGED cardVars
  BY <1>0, <1>1 DEF cardVars, FormsInv, Generating
<1>2. CASE CardNext
  <2> SUFFICES ASSUME NEW r \in Slots,
                      \/ ReadForForms(r) \/ StoreForms(r) \/ WillInsert(r) \/ InsertForms(r)
                      \/ ReadForExamples(r) \/ StoreExamples(r) \/ Dies(r)
               PROVE  FormsInv'
    BY <1>2 DEF CardNext
  <2>1. CASE ReadForForms(r)
    BY <1>0, <2>1 DEF ReadForForms, FormsInv, Generating, CardIdle
  <2>2. CASE StoreForms(r)
    <3>0. CardEnds(r, FALSE)
      BY <2>2 DEF StoreForms
    <3>1. \A s \in Slots : s \in Generating' => s # r /\ s \in Generating
      <4>1. /\ extras'[r] = CardIdle
            /\ \A s \in Slots \ {r} : extras'[s].at = extras[s].at
        BY <1>0, <3>0, CardEndsSlots, FALSE \in BOOLEAN
      <4> QED BY <4>1 DEF Generating, CardIdle
    <3>2. r \in Generating
      BY <2>2 DEF StoreForms, Generating
    <3>3. ~twice => Generating' = {}
      BY <1>0, <3>1, <3>2 DEF FormsInv, Generating
    <3> QED BY <2>2, <3>3 DEF FormsInv, StoreForms
  <2>3. CASE WillInsert(r)
    <3>1. Generating' = Generating
      BY <1>0, <2>3 DEF WillInsert, Generating
    <3> QED BY <1>0, <2>3, <3>1 DEF FormsInv, WillInsert
  <2>4. CASE InsertForms(r)
    <3>0. CardEnds(r, FALSE)
      BY <2>4 DEF InsertForms
    <3>1. \A s \in Slots : s \in Generating' => s # r /\ s \in Generating
      <4>1. /\ extras'[r] = CardIdle
            /\ \A s \in Slots \ {r} : extras'[s].at = extras[s].at
        BY <1>0, <3>0, CardEndsSlots, FALSE \in BOOLEAN
      <4> QED BY <4>1 DEF Generating, CardIdle
    <3>2. r \in Generating
      BY <2>4 DEF InsertForms, Generating
    <3>3. ~twice => Generating' = {}
      BY <1>0, <3>1, <3>2 DEF FormsInv, Generating
    <3> QED BY <2>4, <3>3 DEF FormsInv, InsertForms
  <2>5. CASE ReadForExamples(r)
    <3>1. Generating' = Generating
      BY <1>0, <2>5 DEF ReadForExamples, Generating, CardIdle
    <3> QED BY <1>0, <2>5, <3>1 DEF FormsInv, ReadForExamples
  <2>6. CASE StoreExamples(r)
    <3>1. row'.forms = row.forms /\ twice' = twice /\ \E w \in BOOLEAN : CardEnds(r, w)
      BY <1>0, <2>6 DEF StoreExamples, Row
    <3>2. \A s \in Slots : s \in Generating' => s \in Generating
      BY <1>0, <3>1, CardEndsSlots DEF Generating, CardIdle
    <3>3. Generating' \subseteq Generating
      BY <3>2 DEF Generating
    <3> QED BY <1>0, <3>1, <3>3 DEF FormsInv
  <2>7. CASE Dies(r)
    <3>1. \A s \in Slots : s \in Generating' => s \in Generating
      BY <1>0, <2>7 DEF Dies, Generating, CardIdle
    <3>2. Generating' \subseteq Generating
      BY <3>1 DEF Generating
    <3> QED BY <1>0, <2>7, <3>2 DEF FormsInv, Dies
  <2> QED BY <2>1, <2>2, <2>3, <2>4, <2>5, <2>6, <2>7
<1> QED BY <1>1, <1>2

\* A step keeps the examples what is shown of all that was told.
LEMMA ShownStep == CardInv /\ [CardNext]_cardVars => ShownInv'
<1> SUFFICES ASSUME CardInv, [CardNext]_cardVars PROVE ShownInv'
  OBVIOUS
<1>0. /\ extras \in [Slots -> CardSlot] /\ row \in Row /\ lost \in BOOLEAN
      /\ told \in Seq(Sentences) /\ OneEach(told) /\ PastStaysVisible
      /\ ~row.exists => row = NoRow
      /\ \A s \in Slots : extras[s].at = "examples" /\ ~extras[s].stale
             => extras[s].history = row.examples
  BY DEF CardInv, CardTypeOK, ShownInv
<1>1. CASE UNCHANGED cardVars
  BY <1>0, <1>1 DEF cardVars, ShownInv, PastStaysVisible
<1>2. CASE CardNext
  <2> SUFFICES ASSUME NEW r \in Slots,
                      \/ ReadForForms(r) \/ StoreForms(r) \/ WillInsert(r) \/ InsertForms(r)
                      \/ ReadForExamples(r) \/ StoreExamples(r) \/ Dies(r)
               PROVE  ShownInv'
    BY <1>2 DEF CardNext
  <2>1. CASE ReadForForms(r) \/ WillInsert(r) \/ Dies(r)
    <3>1. ASSUME NEW s \in Slots, extras'[s].at = "examples" PROVE extras'[s] = extras[s]
      <4>1. CASE s # r
        BY <1>0, <2>1, <4>1 DEF ReadForForms, WillInsert, Dies
      <4>2. CASE s = r
        <5>1. extras'[r].at # "examples"
          <6>1. ReadForForms(r) => extras'[r].at = "forms"
            BY <1>0 DEF ReadForForms, CardIdle
          <6>2. WillInsert(r) => extras'[r].at = "insert"
            BY <1>0 DEF WillInsert, CardSlot
          <6>3. Dies(r) => extras'[r].at = "idle"
            BY <1>0 DEF Dies, CardIdle
          <6> QED BY <2>1, <6>1, <6>2, <6>3
        <5> QED BY <3>1, <4>2, <5>1
      <4> QED BY <4>1, <4>2
    <3>2. UNCHANGED <<row, told, lost>>
      BY <2>1 DEF ReadForForms, WillInsert, Dies
    <3> QED BY <1>0, <3>1, <3>2 DEF ShownInv, PastStaysVisible
  <2>2. CASE StoreForms(r) \/ InsertForms(r)
    <3>1. CardEnds(r, FALSE) /\ UNCHANGED <<told, lost>>
      BY <2>2 DEF StoreForms, InsertForms
    <3>2. row'.exists /\ row'.examples = row.examples
      BY <1>0, <2>2 DEF StoreForms, InsertForms, NoRow, Row
    <3>3. \A s \in Slots : extras'[s].at = "examples" => extras'[s] = extras[s]
      BY <1>0, <3>1 DEF CardEnds, CardIdle
    <3> QED BY <1>0, <3>1, <3>2, <3>3 DEF ShownInv, PastStaysVisible
  <2>3. CASE ReadForExamples(r)
    <3>1. \A s \in Slots : extras'[s].at = "examples" =>
              extras'[s] = extras[s] \/ extras'[s].history = row.examples
      BY <1>0, <2>3 DEF ReadForExamples, CardIdle
    <3>2. UNCHANGED <<row, told, lost>>
      BY <2>3 DEF ReadForExamples
    <3> QED BY <1>0, <3>1, <3>2 DEF ShownInv, PastStaysVisible
  <2>4. CASE StoreExamples(r)
    <3> DEFINE history == extras[r].history
    <3>1. PICK fresh \in Replies :
             LET merged == Merge(history, fresh)
                 written == ~(extras[r].loaded /\ merged = history)
             IN /\ row' = [row EXCEPT !.exists = TRUE,
                                      !.examples = IF written THEN merged ELSE @]
                /\ told' = Distinct(fresh \o told)
                /\ lost' = (lost \/ extras[r].stale)
                /\ CardEnds(r, written)
      BY <2>4 DEF StoreExamples
    <3> DEFINE merged == Merge(history, fresh)
               written == ~(extras[r].loaded /\ merged = history)
    <3>2. fresh \in Seq(Sentences) /\ history \in Seq(Sentences) /\ extras[r].at = "examples"
      BY <1>0, <2>4, RepliesType DEF CardSlot, StoreExamples
    <3>3. row'.exists /\ row'.examples = IF written THEN merged ELSE row.examples
      BY <1>0, <3>1 DEF Row
    <3>4. OneEach(told')
      <4>1. fresh \o told \in Seq(Sentences)
        BY <1>0, <3>2
      <4> QED BY <3>1, <4>1, DistinctKeys
    <3>5. \A s \in Slots : extras'[s].at = "examples" /\ ~extras'[s].stale
              => extras'[s].history = row'.examples
      <4>1. CardEnds(r, written) /\ written \in BOOLEAN
        BY <3>1
      <4> HIDE DEF written, merged
      <4> QED BY <1>0, <3>3, <4>1, CardEndsSlots DEF CardIdle
    <3>6. PastStaysVisible'
      <4> SUFFICES ASSUME ~lost' PROVE row'.examples = Capped(told')
        BY DEF PastStaysVisible
      <4>1. ~lost /\ ~extras[r].stale
        BY <1>0, <3>1 DEF CardSlot
      <4>2. history = row.examples /\ row.examples = Capped(told)
        BY <1>0, <3>2, <4>1 DEF PastStaysVisible
      <4>3. row'.examples = merged
        BY <3>3, <4>2
      <4>4. merged = Capped(Distinct(fresh \o Capped(told)))
        BY <4>2 DEF Merge
      <4> QED BY <1>0, <3>1, <3>2, <4>3, <4>4, CutOffStaysOff
    <3> QED BY <3>3, <3>4, <3>5, <3>6 DEF ShownInv
  <2> QED BY <2>1, <2>2, <2>3, <2>4
<1> QED BY <1>1, <1>2

\* The inductive invariant of StudyExtras.
LEMMA CardInductive == CardSpec => []CardInv
<1>1. CardInit => CardInv
  BY CardInvInit
<1>2. CardInv /\ [CardNext]_cardVars => CardInv'
  BY CardTypeStep, FormsStep, ShownStep DEF CardInv
<1> QED BY <1>1, <1>2, PTL DEF CardSpec

\* As long as no press was stored over one it had not read, a card shows the newest of all
\* the sentences it was ever told, for any length of the history: a sentence that was cut
\* off is never missed by a later merge.
THEOREM PastIsShown == CardSpec => []PastStaysVisible
<1>1. CardInv => PastStaysVisible
  BY DEF CardInv, ShownInv
<1> QED BY <1>1, CardInductive, PTL

\* Forms once stored are replaced only when two requests generated them at once, and
\* neither column of a card is written by the endpoint of the other.
THEOREM FormsStayStored == CardSpec => FormsAreStable
<1>1. ASSUME CardInv, [CardNext]_cardVars
      PROVE  [/\ row.forms # Null /\ row'.forms # row.forms => twice
              /\ row.forms # row'.forms => row'.examples = row.examples]_cardVars
  <2>0. row \in Row /\ FormsInv /\ (~row.exists => row = NoRow)
    BY <1>1 DEF CardInv, CardTypeOK, ShownInv
  <2> SUFFICES ASSUME CardNext, row'.forms # row.forms
               PROVE  (row.forms # Null => twice) /\ row'.examples = row.examples
    BY <1>1
  <2>1. PICK r \in Slots : StoreForms(r) \/ InsertForms(r)
    BY <2>0 DEF CardNext, ReadForForms, WillInsert, ReadForExamples, StoreExamples, Dies, Row
  <2>2. r \in Generating
    BY <2>1 DEF StoreForms, InsertForms, Generating
  <2>3. row.forms # Null => twice
    BY <2>0, <2>2 DEF FormsInv
  <2>4. row'.examples = row.examples
    BY <2>0, <2>1 DEF StoreForms, InsertForms, NoRow, Row
  <2> QED BY <2>3, <2>4
<1> QED BY <1>1, CardInductive, PTL DEF CardSpec, FormsAreStable

-----------------------------------------------------------------------------
\* FormRules

\* The words an elision leaves.
Elisions == {"j'", "m'", "t'", "s'", "l'"}

\* No word of the form is to be elided.
Settled(form, beforeH) ==
    \A i \in 1..(Len(form) - 1) : ~Elides(form[i], form[i + 1], beforeH)

\* The words that an elision takes and leaves, and that no word is elided before one of them.
LEMMA ElisionOf ==
    /\ \A w, n, h : Elides(w, n, h) => w \in Elidable /\ Elided(w) \in Elisions
    /\ \A w, n : \A h \in BOOLEAN :
           (Elides(w, n, FALSE) => Elides(w, n, h)) /\ (Elides(w, n, h) => Elides(w, n, TRUE))
    /\ \A w, n, h : n \in Elidable \cup Elisions => ~Elides(w, n, h)
    /\ Elidable \cap Elisions = {}
    /\ Elidable \cup Elisions \subseteq Words
    /\ Elided("je") = "j'" /\ Elided("me") = "m'" /\ Elided("te") = "t'" /\ Elided("se") = "s'"
<1>1. \A w, n, h : Elides(w, n, h) => w \in Elidable
  BY DEF Elides, Elidable
<1>2. \A w \in Elidable : Elided(w) \in Elisions
  BY DEF Elided, Elidable, Elisions
<1>3. Elidable \cap Elisions = {} /\ Elidable \cup Elisions \subseteq Words
  BY FormRulesAssumption DEF Elidable, Elisions, DETERMINERS, SUBJECTS, CLITICS
<1>4. \A w, n : \A h \in BOOLEAN :
          (Elides(w, n, FALSE) => Elides(w, n, h)) /\ (Elides(w, n, h) => Elides(w, n, TRUE))
  BY DEF Elides
<1>5. \A w, n, h : n \in Elidable \cup Elisions => ~Elides(w, n, h)
  BY FormRulesAssumption DEF Elides, Elidable, Elisions
<1>6. Elided("je") = "j'" /\ Elided("me") = "m'" /\ Elided("te") = "t'" /\ Elided("se") = "s'"
  BY DEF Elided
<1>7. QED BY <1>1, <1>2, <1>3, <1>4, <1>5, <1>6

\* The word w is elided to x.
Becomes(w, x) == w \in Elidable /\ x = Elided(w)

\* Elision keeps the length and the last word, and each other word or its elision.
LEMMA ElideWords ==
    ASSUME NEW form \in Seq(Words), NEW beforeH
    PROVE  /\ Elide(form, beforeH) \in Seq(Words)
           /\ Len(Elide(form, beforeH)) = Len(form)
           /\ \A i \in 1..Len(form) :
                 Elide(form, beforeH)[i] =
                     IF i < Len(form) /\ Elides(form[i], form[i + 1], beforeH)
                     THEN Elided(form[i]) ELSE form[i]
<1>1. \A i \in 1..Len(form) :
          (IF i < Len(form) /\ Elides(form[i], form[i + 1], beforeH)
           THEN Elided(form[i]) ELSE form[i]) \in Words
  BY ElisionOf
<1>2. Len(form) \in Nat /\ DOMAIN form = 1..Len(form)
  OBVIOUS
<1>3. Elide(form, beforeH) \in [1..Len(form) -> Words]
  BY <1>1, <1>2 DEF Elide
<1>4. Elide(form, beforeH) \in Seq(Words) /\ Len(Elide(form, beforeH)) = Len(form)
  BY <1>2, <1>3
<1>5. QED BY <1>2, <1>4 DEF Elide

\* Elision leaves nothing to elide.
LEMMA ElideSettles ==
    ASSUME NEW form \in Seq(Words), NEW beforeH
    PROVE  Settled(Elide(form, beforeH), beforeH)
<1> DEFINE once == Elide(form, beforeH)
<1>1. SUFFICES ASSUME NEW i \in 1..(Len(once) - 1) PROVE ~Elides(once[i], once[i + 1], beforeH)
  BY DEF Settled
<1>2. Len(once) = Len(form) /\ Len(form) \in Nat
  BY ElideWords
<1>3. i \in 1..Len(form) /\ i + 1 \in 1..Len(form) /\ i < Len(form)
  BY <1>1, <1>2
<1>4. /\ once[i] = IF Elides(form[i], form[i + 1], beforeH) THEN Elided(form[i]) ELSE form[i]
      /\ once[i + 1] = form[i + 1] \/ once[i + 1] \in Elisions
  BY <1>3, ElideWords, ElisionOf
<1>5. QED BY <1>4, ElisionOf

\* And what has nothing to elide is left alone.
LEMMA SettledStays ==
    ASSUME NEW form \in Seq(Words), NEW beforeH, Settled(form, beforeH)
    PROVE  Elide(form, beforeH) = form
<1>1. \A i \in 1..Len(form) : i < Len(form) => ~Elides(form[i], form[i + 1], beforeH)
  BY DEF Settled
<1>2. \A i \in 1..Len(form) : Elide(form, beforeH)[i] = form[i]
  BY <1>1, ElideWords
<1>3. QED BY <1>2, ElideWords

\* A form without its first word.
LEMMA TailWords ==
    ASSUME NEW form \in Seq(Words), form # <<>>
    PROVE  /\ Tail(form) \in Seq(Words)
           /\ Len(Tail(form)) = Len(form) - 1
           /\ \A i \in 1..(Len(form) - 1) : Tail(form)[i] = form[i + 1]
OBVIOUS

\* A form without its first word, or left alone.
LEMMA WithoutWords ==
    ASSUME NEW form \in Seq(Words), NEW words
    PROVE  Without(form, words) \in Seq(Words)
BY TailWords DEF Without, Starts

-----------------------------------------------------------------------------

\* A noun's form is read as it was stored.
LEMMA NounStays ==
    ASSUME NEW form \in Seq(Words)
    PROVE  /\ NounForm(form) \in Seq(Words)
           /\ Settled(NounForm(form), FALSE)
           /\ NounForm(NounForm(form)) = NounForm(form)
<1> DEFINE bare == IF Len(form) > 1 THEN <<Definite(form[1])>> \o Tail(form) ELSE form
           once == Elide(bare, FALSE)
<1>1. Definite(form[1]) \in Words \/ Len(form) <= 1
  <2>1. CASE Len(form) > 1
    <3>1. form[1] \in Words
      BY <2>1
    <3>2. {"le", "la", "les"} \subseteq Words
      BY FormRulesAssumption DEF DETERMINERS
    <3>3. QED BY <3>1, <3>2 DEF Definite
  <2>2. QED BY <2>1
<1>2. /\ bare \in Seq(Words) /\ Len(bare) = Len(form)
      /\ Len(form) > 1 => bare[1] = Definite(form[1])
  <2>1. CASE Len(form) > 1
    <3>1. Tail(form) \in Seq(Words) /\ Len(Tail(form)) = Len(form) - 1
      BY <2>1, TailWords
    <3>2. QED BY <1>1, <2>1, <3>1
  <2>2. QED BY <2>1
<1> HIDE DEF bare
<1>3. once \in Seq(Words) /\ Len(once) = Len(form) /\ Settled(once, FALSE)
  BY <1>2, ElideWords, ElideSettles
<1>4. Len(form) > 1 => Definite(once[1]) = once[1]
  <2>1. SUFFICES ASSUME Len(form) > 1 PROVE Definite(once[1]) = once[1]
    OBVIOUS
  <2>2. once[1] = bare[1] \/ once[1] \in Elisions
    <3>1. 1 \in 1..Len(bare)
      BY <1>2, <2>1
    <3>2. once[1] = IF 1 < Len(bare) /\ Elides(bare[1], bare[1 + 1], FALSE)
                    THEN Elided(bare[1]) ELSE bare[1]
      BY <1>2, <3>1, ElideWords
    <3>3. QED BY <3>2, ElisionOf
  <2>3. \A w : Definite(w) \notin {"un", "une", "des"}
    BY DEF Definite
  <2>4. once[1] \notin {"un", "une", "des"}
    BY <1>2, <2>1, <2>2, <2>3 DEF Elisions
  <2>5. QED BY <2>4 DEF Definite
<1> HIDE DEF once
<1>5. (IF Len(once) > 1 THEN <<Definite(once[1])>> \o Tail(once) ELSE once) = once
  <2>1. CASE Len(once) > 1
    <3>1. <<once[1]>> \o Tail(once) = once
      <4>1. once # <<>> /\ Head(once) = once[1]
        BY <1>3, <2>1
      <4>2. QED BY <1>3, <4>1
    <3>2. QED BY <1>3, <1>4, <2>1, <3>1
  <2>2. QED BY <2>1
<1>6. NounForm(form) = once
  BY DEF NounForm, bare, once
<1>7. NounForm(once) = once
  <2>1. NounForm(once) = Elide(once, FALSE)
    BY <1>5 DEF NounForm
  <2>2. QED BY <2>1, <1>3, SettledStays
<1>8. QED BY <1>3, <1>6, <1>7

\* So are an adjective's two forms, and its plurals.
LEMMA AdjectiveStays ==
    ASSUME NEW forms, NEW lemma, Bare(lemma) = lemma,
           \A label \in DOMAIN forms : Bare(Bare(forms[label])) = Bare(forms[label])
    PROVE  LET once == AdjectiveForms(forms, lemma)
               stored == [masculine |-> once.masculine, feminine |-> once.feminine]
           IN AdjectiveForms(stored, lemma) = once
<1> DEFINE once == AdjectiveForms(forms, lemma)
           stored == [masculine |-> once.masculine, feminine |-> once.feminine]
           feminine == IF "feminine" \in DOMAIN forms THEN Bare(forms["feminine"]) ELSE lemma
           masculine == IF feminine = lemma /\ "masculine" \in DOMAIN forms
                        THEN Bare(forms["masculine"]) ELSE lemma
<1>1. CASE lemma \in Invariable
  BY <1>1 DEF AdjectiveForms
<1>2. CASE lemma \notin Invariable
  <2>1. Bare(feminine) = feminine /\ Bare(masculine) = masculine
    OBVIOUS
  <2>2. once = [masculine |-> masculine, feminine |-> feminine,
                plurals |-> {Plural(masculine, "m"), Plural(feminine, "f")}]
    BY <1>2 DEF AdjectiveForms
  <2>3. feminine # lemma => masculine = lemma
    OBVIOUS
  <2> HIDE DEF feminine, masculine, once
  <2>4. /\ stored.masculine = masculine /\ stored.feminine = feminine
        /\ DOMAIN stored = {"masculine", "feminine"}
    BY <2>2
  <2> HIDE DEF stored
  <2>5. AdjectiveForms(stored, lemma) =
            LET f == feminine
                m == IF f = lemma THEN masculine ELSE lemma
            IN [masculine |-> m, feminine |-> f, plurals |-> {Plural(m, "m"), Plural(f, "f")}]
    BY <1>2, <2>1, <2>4 DEF AdjectiveForms
  <2>6. AdjectiveForms(stored, lemma) = once
    BY <2>2, <2>3, <2>5
  <2>7. QED BY <2>6 DEF stored, once
<1>3. QED BY <1>1, <1>2

-----------------------------------------------------------------------------

\* The complement of the headword is in the form, behind its first k words.
MentionedAt(form, lemma, k) ==
    /\ k \in 0..(Len(form) - (Len(lemma) - 1))
    /\ \A i \in 1..(Len(lemma) - 1) : form[k + i] = lemma[i + 1]

\* Mentions says that it is somewhere.
LEMMA MentionsIs ==
    ASSUME NEW form \in Seq(Words), NEW lemma \in Seq(Words), Len(lemma) > 1
    PROVE  Mentions(form, Tail(lemma)) <=> \E k \in Nat : MentionedAt(form, lemma, k)
<1> DEFINE comp == Tail(lemma)
           n == Len(lemma) - 1
<1>1. /\ comp \in Seq(Words) /\ Len(comp) = n /\ n \in Nat
      /\ \A i \in 1..n : comp[i] = lemma[i + 1]
  BY TailWords
<1> HIDE DEF comp
<1>2. ASSUME NEW k \in 0..(Len(form) - n)
      PROVE  SubSeq(form, k + 1, k + n) = comp <=> \A i \in 1..n : form[k + i] = lemma[i + 1]
  <2>1. k \in Nat /\ Len(form) \in Nat /\ \A j \in (k + 1)..(k + n) : j \in 1..Len(form)
    BY <1>1, <1>2
  <2>2. \A j \in (k + 1)..(k + n) : form[j] \in Words
    BY <2>1
  <2>3. /\ SubSeq(form, k + 1, k + n) \in Seq(Words)
        /\ Len(SubSeq(form, k + 1, k + n)) =
               IF k + 1 <= k + n THEN (k + n) - (k + 1) + 1 ELSE 0
        /\ \A i \in 1..((k + n) - (k + 1) + 1) :
               SubSeq(form, k + 1, k + n)[i] = form[(k + 1) + i - 1]
    BY <1>1, <2>1, <2>2, SubSeqProperties
  <2> DEFINE sub == SubSeq(form, k + 1, k + n)
  <2> HIDE DEF sub
  <2>4. sub \in Seq(Words) /\ Len(sub) = n /\ \A i \in 1..n : sub[i] = form[k + i]
    <3>1. (k + n) - (k + 1) + 1 = n /\ (IF k + 1 <= k + n THEN n ELSE 0) = n
      BY <1>1, <2>1
    <3>2. \A i \in 1..n : (k + 1) + i - 1 = k + i
      BY <1>1, <2>1
    <3>3. QED BY <2>3, <3>1, <3>2 DEF sub
  <2>5. sub = comp <=> \A i \in 1..n : sub[i] = comp[i]
    <3>1. sub \in [1..n -> Words] /\ comp \in [1..n -> Words]
      BY <1>1, <2>4
    <3>2. ASSUME \A i \in 1..n : sub[i] = comp[i] PROVE sub = comp
      BY <3>1, <3>2
    <3>3. QED BY <3>2
  <2>6. QED BY <1>1, <2>4, <2>5 DEF sub
<1>3. Mentions(form, comp) <=>
          \E k \in 0..(Len(form) - n) : SubSeq(form, k + 1, k + n) = comp
  BY <1>1 DEF Mentions
<1>4. \A k \in 0..(Len(form) - n) : k \in Nat
  BY <1>1
<1>5. QED BY <1>2, <1>3, <1>4 DEF MentionedAt, comp

\* Elision leaves a complement where it is.
LEMMA MentionStays ==
    ASSUME NEW form \in Seq(Words), NEW lemma \in Seq(Words), Len(lemma) > 1, AsSaid(lemma),
           NEW k \in Nat, MentionedAt(form, lemma, k), NEW beforeH \in BOOLEAN
    PROVE  MentionedAt(Elide(form, beforeH), lemma, k)
<1> DEFINE once == Elide(form, beforeH)
           n == Len(lemma) - 1
<1>1. n \in Nat /\ k \in 0..(Len(form) - n) /\ Len(form) \in Nat
  BY DEF MentionedAt
<1>2. Len(once) = Len(form)
  BY ElideWords
<1>3. ASSUME NEW i \in 1..n PROVE once[k + i] = lemma[i + 1]
  <2>1. k + i \in 1..Len(form) /\ form[k + i] = lemma[i + 1]
    BY <1>1 DEF MentionedAt
  <2>2. once[k + i] = IF k + i < Len(form) /\ Elides(form[k + i], form[k + i + 1], beforeH)
                      THEN Elided(form[k + i]) ELSE form[k + i]
    BY <2>1, ElideWords
  <2>3. ~Elides(form[k + i], form[k + i + 1], beforeH)
    <3>1. SUFFICES ASSUME lemma[i + 1] \in Elidable
                   PROVE  ~Elides(form[k + i], form[k + i + 1], beforeH)
      BY <2>1, ElisionOf
    <3>2. i + 1 \in 2..Len(lemma)
      BY <1>1
    <3>3. i + 1 < Len(lemma) /\ ~Elides(lemma[i + 1], lemma[(i + 1) + 1], TRUE)
      BY <3>1, <3>2 DEF AsSaid
    <3>4. i + 1 \in 1..n /\ k + (i + 1) = k + i + 1
      BY <1>1, <3>3
    <3>5. form[k + (i + 1)] = lemma[(i + 1) + 1]
      <4>1. \A j \in 1..n : form[k + j] = lemma[j + 1]
        BY DEF MentionedAt
      <4> HIDE DEF n
      <4>2. QED BY <3>4, <4>1
    <3>6. ~Elides(form[k + i], form[k + i + 1], TRUE)
      BY <2>1, <3>3, <3>4, <3>5
    <3>7. QED BY <3>6, ElisionOf
  <2>4. QED BY <2>1, <2>2, <2>3
<1>4. QED BY <1>1, <1>2, <1>3 DEF MentionedAt

\* A complement that was put back, or was not missing, is not put back again.
LEMMA RestoredStays ==
    ASSUME NEW form \in Seq(Words), form # <<>>, NEW lemma \in Seq(Words),
           Starts(lemma, {"avoir"}) => AsSaid(lemma), NEW beforeH \in BOOLEAN
    PROVE  LET restored == RestoreComplement(form, lemma)
               once == Elide(restored, beforeH)
           IN /\ restored \in Seq(Words) /\ Len(restored) >= Len(form)
              /\ restored[1] = form[1]
              /\ RestoreComplement(once, lemma) = once
<1> DEFINE restored == RestoreComplement(form, lemma)
           once == Elide(restored, beforeH)
<1>1. CASE ~(Starts(lemma, {"avoir"}) /\ Len(lemma) > 1)
  BY <1>1 DEF RestoreComplement
<1>2. CASE Starts(lemma, {"avoir"}) /\ Len(lemma) > 1
  <2> DEFINE comp == Tail(lemma)
  <2>1. /\ comp \in Seq(Words) /\ Len(comp) = Len(lemma) - 1 /\ Len(comp) \in Nat
        /\ \A i \in 1..(Len(lemma) - 1) : comp[i] = lemma[i + 1]
    BY <1>2, TailWords
  <2>2. Len(form) \in Nat /\ Len(form) >= 1 /\ Len(lemma) \in Nat
    OBVIOUS
  <2>3. CASE ~Mentions(form, comp) /\ form[Len(form)] # lemma[2]
    <3>1. restored = form \o comp
      BY <1>2, <2>3 DEF RestoreComplement
    <3>2. /\ restored \in Seq(Words) /\ Len(restored) = Len(form) + Len(comp)
          /\ restored[1] = form[1]
          /\ \A i \in 1..Len(comp) : restored[Len(form) + i] = comp[i]
      BY <2>1, <2>2, <3>1
    <3> HIDE DEF restored
    <3>3. MentionedAt(restored, lemma, Len(form))
      BY <2>1, <2>2, <3>2 DEF MentionedAt
    <3>4. Mentions(once, comp)
      BY <1>2, <2>2, <3>2, <3>3, MentionStays, MentionsIs, ElideWords
    <3>5. RestoreComplement(once, lemma) = once
      BY <3>4 DEF RestoreComplement
    <3>6. QED BY <2>1, <2>2, <3>2, <3>5 DEF restored
  <2>4. CASE Mentions(form, comp)
    <3>1. restored = form
      BY <2>4 DEF RestoreComplement
    <3>2. Mentions(once, comp)
      BY <1>2, <2>4, <3>1, MentionStays, MentionsIs, ElideWords
    <3>3. RestoreComplement(once, lemma) = once
      BY <3>2 DEF RestoreComplement
    <3>4. QED BY <2>2, <3>1, <3>3
  <2>5. CASE form[Len(form)] = lemma[2]
    <3>1. restored = form
      BY <2>2, <2>5 DEF RestoreComplement
    <3>2. Len(once) = Len(form) /\ once[Len(form)] = form[Len(form)]
      BY <2>2, <3>1, ElideWords
    <3>3. RestoreComplement(once, lemma) = once
      BY <2>2, <2>5, <3>2 DEF RestoreComplement
    <3>4. QED BY <2>2, <3>1, <3>3
  <2>6. QED BY <2>3, <2>4, <2>5
<1>3. QED BY <1>1, <1>2

-----------------------------------------------------------------------------

\* The clitic and the form of être that go with a subject.
LEMMA SubjectWords ==
    ASSUME NEW s \in SUBJECTS \ {"j'"}
    PROVE  /\ CliticOf(s) \in CLITICS
           /\ EtreOf(s) \in ETRE /\ EtreOf(s) \notin Elidable
           /\ \A h : ~Elides(s, CliticOf(s), h)
           /\ CliticOf(s) \in Elidable =>
                  Elided(CliticOf(s)) \in CLITICS /\ \A h : ~Elides(s, Elided(CliticOf(s)), h)
<1>1. CASE s = "je"
  <2>1. CliticOf(s) = "me" /\ EtreOf(s) = "suis"
    BY <1>1 DEF CliticOf, EtreOf
  <2>2. QED BY <2>1, ElisionOf DEF CLITICS, ETRE, Elidable, Elisions
<1>2. CASE s # "je"
  <2>1. s \notin Elidable
    BY <1>2 DEF SUBJECTS, Elidable
  <2>2. CliticOf(s) \in {"te", "se", "nous", "vous"}
    BY <1>2 DEF CliticOf, SUBJECTS
  <2>3. EtreOf(s) \in ETRE
    BY DEF EtreOf, SUBJECTS, ETRE
  <2>4. ETRE \cap Elidable = {}
    BY DEF ETRE, Elidable
  <2>5. QED BY <2>1, <2>2, <2>3, <2>4, ElisionOf DEF CLITICS, Elidable, Elisions
<1>3. QED BY <1>1, <1>2

\* A form of the passé composé of a reflexive verb.
Composed(s, rest) == Elide(<<s, CliticOf(s), EtreOf(s)>> \o rest, FALSE)

\* What ReflexivePasseCompose makes of a form: the subject, its clitic, its form of être,
\* and what is left of the form.
LEMMA PasseComposeIs ==
    ASSUME NEW form \in Seq(Words)
    PROVE  \E s \in SUBJECTS \ {"j'"} :
              LET rest == Without(Without(Without(form, SUBJECTS), CLITICS), AVOIR \cup ETRE)
              IN /\ ReflexivePasseCompose(form) = Composed(s, rest)
                 /\ rest \in Seq(Words)
<1> DEFINE rest == Without(Without(Without(form, SUBJECTS), CLITICS), AVOIR \cup ETRE)
           subject == IF Starts(form, SUBJECTS) THEN form[1] ELSE "je"
           s == IF subject = "j'" THEN "je" ELSE subject
<1>1. subject \in SUBJECTS
  BY DEF Starts, SUBJECTS
<1> HIDE DEF subject
<1>2. s \in SUBJECTS \ {"j'"}
  BY <1>1 DEF SUBJECTS
<1>3. CliticOf(subject) = CliticOf(s) /\ EtreOf(subject) = EtreOf(s)
  BY DEF CliticOf, EtreOf
<1>4. rest \in Seq(Words)
  BY WithoutWords
<1>5. ReflexivePasseCompose(form) =
          Elide(<<s, CliticOf(subject), EtreOf(subject)>> \o rest, FALSE)
  BY DEF ReflexivePasseCompose, subject
<1>6. QED BY <1>2, <1>3, <1>4, <1>5 DEF Composed

\* The same of a form that is one already.
LEMMA PasseComposeOf ==
    ASSUME NEW form \in Seq(Words), Len(form) >= 3, NEW s \in SUBJECTS \ {"j'"}, form[1] = s,
           form[2] \in CLITICS, form[3] \in AVOIR \cup ETRE
    PROVE  \E rest \in Seq(Words) :
              /\ ReflexivePasseCompose(form) = Composed(s, rest)
              /\ Len(rest) = Len(form) - 3
              /\ \A i \in 1..Len(rest) : rest[i] = form[i + 3]
<1> DEFINE one == Tail(form)
           two == Tail(one)
           rest == Tail(two)
<1>1. Len(form) \in Nat /\ form # <<>>
  OBVIOUS
<1>2. /\ one \in Seq(Words) /\ Len(one) = Len(form) - 1
      /\ \A i \in 1..(Len(form) - 1) : one[i] = form[i + 1]
  BY <1>1, TailWords
<1> HIDE DEF one
<1>3. one # <<>> /\ one[1] = form[2]
  BY <1>1, <1>2
<1>4. /\ two \in Seq(Words) /\ Len(two) = Len(form) - 2
      /\ \A i \in 1..(Len(one) - 1) : two[i] = one[i + 1]
  BY <1>1, <1>2, <1>3, TailWords
<1> HIDE DEF two
<1>5. two # <<>> /\ two[1] = form[3]
  BY <1>1, <1>2, <1>4
<1>6. /\ rest \in Seq(Words) /\ Len(rest) = Len(form) - 3
      /\ \A i \in 1..(Len(two) - 1) : rest[i] = two[i + 1]
  BY <1>1, <1>4, <1>5, TailWords
<1> HIDE DEF rest
<1>7. \A i \in 1..Len(rest) : rest[i] = form[i + 3]
  <2>1. TAKE i \in 1..Len(rest)
  <2>2. i \in 1..(Len(two) - 1) /\ i + 1 \in 1..(Len(one) - 1) /\ (i + 1) + 1 \in 1..(Len(form) - 1)
    BY <1>1, <1>2, <1>4, <1>6
  <2>3. rest[i] = two[i + 1] /\ two[i + 1] = one[(i + 1) + 1]
    BY <1>4, <1>6, <2>2
  <2>4. one[(i + 1) + 1] = form[((i + 1) + 1) + 1] /\ ((i + 1) + 1) + 1 = i + 3
    BY <1>2, <2>2
  <2>5. QED BY <2>3, <2>4
<1>8. Without(Without(Without(form, SUBJECTS), CLITICS), AVOIR \cup ETRE) = rest
  <2>1. Without(form, SUBJECTS) = one
    BY <1>1 DEF Without, Starts, one
  <2>2. Without(one, CLITICS) = two
    BY <1>3 DEF Without, Starts, two
  <2>3. Without(two, AVOIR \cup ETRE) = rest
    BY <1>5 DEF Without, Starts, rest
  <2>4. QED BY <2>1, <2>2, <2>3
<1>9. (IF Starts(form, SUBJECTS) THEN form[1] ELSE "je") = s /\ s # "j'"
  BY <1>1 DEF Starts
<1>10. ReflexivePasseCompose(form) = Composed(s, rest)
  BY <1>8, <1>9 DEF ReflexivePasseCompose, Composed
<1>11. QED BY <1>6, <1>7, <1>10

\* Three words and the rest.
LEMMA ThreeWords ==
    ASSUME NEW s \in Words, NEW c \in Words, NEW e \in Words, NEW rest \in Seq(Words)
    PROVE  LET form == <<s, c, e>> \o rest
           IN /\ form \in Seq(Words) /\ Len(form) = Len(rest) + 3
              /\ form[1] = s /\ form[2] = c /\ form[3] = e
              /\ \A i \in 1..Len(rest) : form[i + 3] = rest[i]
OBVIOUS

\* The words of once, which is such a form that has been elided once more.
Composition(s, rest, once, beforeH) ==
    /\ once \in Seq(Words) /\ Len(once) = Len(rest) + 3
    /\ once[1] = s /\ once[3] = EtreOf(s)
    /\ once[2] = IF Elides(CliticOf(s), EtreOf(s), beforeH)
                 THEN Elided(CliticOf(s)) ELSE CliticOf(s)
    /\ once[2] \in CLITICS
    /\ \A i \in 1..Len(rest) : once[i + 3] = rest[i] \/ Becomes(rest[i], once[i + 3])
    /\ Settled(rest, beforeH) => \A i \in 1..Len(rest) : once[i + 3] = rest[i]

\* These are the words of a form of the passé composé, elided for a verb with an h or not.
LEMMA TwiceElided ==
    ASSUME NEW s \in SUBJECTS \ {"j'"}, NEW rest \in Seq(Words), NEW beforeH \in BOOLEAN
    PROVE  /\ Composed(s, rest) \in Seq(Words)
           /\ Composition(s, rest, Elide(Composed(s, rest), beforeH), beforeH)
<1> DEFINE c == CliticOf(s)
           e == EtreOf(s)
           form == <<s, c, e>> \o rest
           composed == Elide(form, FALSE)
           once == Elide(composed, beforeH)
<1>1. /\ c \in CLITICS /\ e \in ETRE /\ e \notin Elidable
      /\ \A h : ~Elides(s, c, h)
      /\ c \in Elidable => Elided(c) \in CLITICS /\ \A h : ~Elides(s, Elided(c), h)
  BY SubjectWords
<1> HIDE DEF c, e
<1>2. s \in Words /\ c \in Words /\ e \in Words
  BY <1>1, FormRulesAssumption
<1>3. /\ form \in Seq(Words) /\ Len(form) = Len(rest) + 3 /\ Len(rest) \in Nat
      /\ form[1] = s /\ form[2] = c /\ form[3] = e
      /\ \A i \in 1..Len(rest) : form[i + 3] = rest[i]
  BY <1>2, ThreeWords
<1> HIDE DEF form
<1>4. /\ composed \in Seq(Words) /\ Len(composed) = Len(form)
      /\ \A i \in 1..Len(form) :
            composed[i] = IF i < Len(form) /\ Elides(form[i], form[i + 1], FALSE)
                          THEN Elided(form[i]) ELSE form[i]
  BY <1>3, ElideWords
<1> HIDE DEF composed
<1>5. /\ once \in Seq(Words) /\ Len(once) = Len(form)
      /\ \A i \in 1..Len(form) :
            once[i] = IF i < Len(form) /\ Elides(composed[i], composed[i + 1], beforeH)
                      THEN Elided(composed[i]) ELSE composed[i]
  BY <1>4, ElideWords
<1> HIDE DEF once
<1>6. /\ 1 \in 1..Len(form) /\ 2 \in 1..Len(form) /\ 3 \in 1..Len(form)
      /\ 1 < Len(form) /\ 2 < Len(form) /\ 1 + 1 = 2 /\ 2 + 1 = 3
  BY <1>3
<1>7. composed[3] = e /\ once[3] = e
  <2>1. \A n, h : ~Elides(e, n, h)
    BY <1>1, ElisionOf
  <2>2. composed[3] = e
    BY <1>3, <1>4, <1>6, <2>1
  <2>3. QED BY <1>5, <1>6, <2>1, <2>2
<1>8. composed[2] = IF Elides(c, e, FALSE) THEN Elided(c) ELSE c
  BY <1>3, <1>4, <1>6
<1>9. composed[2] = c \/ Becomes(c, composed[2])
  BY <1>8, ElisionOf DEF Becomes
<1>10. composed[1] = s
  BY <1>1, <1>3, <1>4, <1>6
<1>11. once[1] = s
  <2>1. ~Elides(composed[1], composed[2], beforeH)
    BY <1>1, <1>9, <1>10 DEF Becomes
  <2>2. QED BY <1>5, <1>6, <1>10, <2>1
<1>12. once[2] = IF Elides(c, e, beforeH) THEN Elided(c) ELSE c
  <2>1. once[2] = IF Elides(composed[2], e, beforeH) THEN Elided(composed[2]) ELSE composed[2]
    BY <1>5, <1>6, <1>7
  <2>2. CASE Elides(c, e, FALSE)
    <3>1. Elides(c, e, beforeH) /\ composed[2] \in Elisions
      BY <1>8, <2>2, ElisionOf
    <3>2. ~Elides(composed[2], e, beforeH)
      BY <3>1, ElisionOf
    <3>3. QED BY <1>8, <2>1, <2>2, <3>1, <3>2
  <2>3. CASE ~Elides(c, e, FALSE)
    BY <1>8, <2>1, <2>3
  <2>4. QED BY <2>2, <2>3
<1>13. once[2] \in CLITICS
  BY <1>1, <1>12, ElisionOf
<1>14. ASSUME NEW i \in 1..Len(rest)
       PROVE  once[i + 3] = rest[i] \/ Becomes(rest[i], once[i + 3])
  <2>1. i + 3 \in 1..Len(form) /\ form[i + 3] = rest[i]
    BY <1>3
  <2>2. composed[i + 3] = IF i + 3 < Len(form) /\ Elides(form[i + 3], form[(i + 3) + 1], FALSE)
                          THEN Elided(form[i + 3]) ELSE form[i + 3]
    BY <1>4, <2>1
  <2>3. composed[i + 3] = rest[i]
        \/ (Becomes(rest[i], composed[i + 3]) /\ composed[i + 3] \in Elisions)
    BY <2>1, <2>2, ElisionOf DEF Becomes
  <2>4. once[i + 3] = composed[i + 3] \/ Becomes(composed[i + 3], once[i + 3])
    BY <1>5, <2>1, ElisionOf DEF Becomes
  <2>5. QED BY <2>3, <2>4, ElisionOf DEF Becomes
<1>15. ASSUME Settled(rest, beforeH), NEW i \in 1..Len(rest)
       PROVE  once[i + 3] = rest[i]
  <2>1. ASSUME NEW j \in 1..Len(rest)
        PROVE  /\ composed[j + 3] = rest[j]
               /\ j < Len(rest) => ~Elides(rest[j], rest[j + 1], beforeH)
    <3>1. j + 3 \in 1..Len(form) /\ form[j + 3] = rest[j]
      BY <1>3
    <3>2. CASE j < Len(rest)
      <4>1. j \in 1..(Len(rest) - 1) /\ j + 1 \in 1..Len(rest) /\ (j + 3) + 1 = (j + 1) + 3
        BY <1>3, <3>2
      <4>2. ~Elides(rest[j], rest[j + 1], beforeH)
        BY <1>15, <4>1 DEF Settled
      <4>3. form[(j + 3) + 1] = rest[j + 1]
        BY <1>3, <4>1
      <4>4. ~Elides(form[j + 3], form[(j + 3) + 1], FALSE)
        BY <3>1, <4>2, <4>3, ElisionOf
      <4>5. QED BY <1>4, <3>1, <4>2, <4>4
    <3>3. CASE ~(j < Len(rest))
      <4>1. ~(j + 3 < Len(form))
        BY <1>3, <3>3
      <4>2. QED BY <1>4, <3>1, <3>3, <4>1
    <3>4. QED BY <3>2, <3>3
  <2>2. i + 3 \in 1..Len(form) /\ composed[i + 3] = rest[i]
    BY <1>3, <2>1
  <2>3. ~(i + 3 < Len(form) /\ Elides(composed[i + 3], composed[(i + 3) + 1], beforeH))
    <3>1. SUFFICES ASSUME i + 3 < Len(form)
                   PROVE  ~Elides(composed[i + 3], composed[(i + 3) + 1], beforeH)
      OBVIOUS
    <3>2. i < Len(rest) /\ i + 1 \in 1..Len(rest) /\ (i + 3) + 1 = (i + 1) + 3
      BY <1>3, <3>1
    <3>3. composed[(i + 3) + 1] = rest[i + 1]
      BY <2>1, <3>2
    <3>4. QED BY <2>1, <2>2, <3>2, <3>3
  <2>4. QED BY <1>5, <2>2, <2>3
<1>16. QED
  <2>1. composed = Composed(s, rest) /\ once = Elide(Composed(s, rest), beforeH)
    BY DEF c, e, form, composed, once, Composed
  <2>2. Composition(s, rest, once, beforeH)
    BY <1>3, <1>5, <1>7, <1>11, <1>12, <1>13, <1>14, <1>15 DEF c, e, Composition
  <2>3. QED BY <1>4, <2>1, <2>2

\* A form of the passé composé that is corrected and elided is so already.
LEMMA PasseComposeStays ==
    ASSUME NEW form \in Seq(Words), NEW beforeH \in BOOLEAN
    PROVE  LET once == Elide(ReflexivePasseCompose(form), beforeH)
           IN /\ ReflexivePasseCompose(form) \in Seq(Words)
              /\ Elide(ReflexivePasseCompose(once), beforeH) = once
              /\ SaidOnce(form) => Agreed(once)
<1> DEFINE rest == Without(Without(Without(form, SUBJECTS), CLITICS), AVOIR \cup ETRE)
           once == Elide(ReflexivePasseCompose(form), beforeH)
<1>1. PICK s \in SUBJECTS \ {"j'"} :
          /\ ReflexivePasseCompose(form) = Composed(s, rest)
          /\ rest \in Seq(Words)
  BY PasseComposeIs
<1>2. SaidOnce(form) => \A i \in DOMAIN rest : rest[i] \notin CLITICS \cup AVOIR \cup ETRE
  BY DEF SaidOnce
<1> HIDE DEF rest, once
<1>3. /\ ReflexivePasseCompose(form) \in Seq(Words) /\ once \in Seq(Words)
      /\ Len(once) = Len(rest) + 3 /\ once[1] = s /\ once[3] = EtreOf(s)
      /\ once[2] = IF Elides(CliticOf(s), EtreOf(s), beforeH)
                   THEN Elided(CliticOf(s)) ELSE CliticOf(s)
      /\ once[2] \in CLITICS
      /\ \A i \in 1..Len(rest) :
            once[i + 3] = rest[i] \/ Becomes(rest[i], once[i + 3])
  BY <1>1, TwiceElided DEF Composition, once
<1>4. Settled(once, beforeH)
  BY <1>3, ElideSettles DEF once
<1>5. Len(rest) \in Nat /\ EtreOf(s) \in ETRE
  BY <1>1, SubjectWords
<1>6. Elide(ReflexivePasseCompose(once), beforeH) = once
  <2>1. PICK tail \in Seq(Words) :
            /\ ReflexivePasseCompose(once) = Composed(s, tail)
            /\ Len(tail) = Len(once) - 3
            /\ \A i \in 1..Len(tail) : tail[i] = once[i + 3]
    <3>1. Len(once) >= 3 /\ once[3] \in AVOIR \cup ETRE
      BY <1>3, <1>5
    <3>2. QED BY <1>3, <3>1, PasseComposeOf
  <2>2. Settled(tail, beforeH)
    <3>1. SUFFICES ASSUME NEW i \in 1..(Len(tail) - 1) PROVE ~Elides(tail[i], tail[i + 1], beforeH)
      BY DEF Settled
    <3>2. i \in 1..Len(tail) /\ i + 1 \in 1..Len(tail) /\ i + 3 \in 1..(Len(once) - 1)
          /\ (i + 1) + 3 = (i + 3) + 1
      BY <1>3, <1>5, <2>1
    <3>3. tail[i] = once[i + 3] /\ tail[i + 1] = once[(i + 3) + 1]
      BY <2>1, <3>2
    <3>4. ~Elides(once[i + 3], once[(i + 3) + 1], beforeH)
      BY <1>4, <3>2 DEF Settled
    <3>5. QED BY <3>3, <3>4
  <2> DEFINE again == Elide(ReflexivePasseCompose(once), beforeH)
  <2> HIDE DEF again
  <2>3. /\ again \in Seq(Words) /\ Len(again) = Len(tail) + 3
        /\ again[1] = s /\ again[3] = EtreOf(s)
        /\ again[2] = IF Elides(CliticOf(s), EtreOf(s), beforeH)
                      THEN Elided(CliticOf(s)) ELSE CliticOf(s)
        /\ \A i \in 1..Len(tail) : again[i + 3] = tail[i]
    BY <2>1, <2>2, TwiceElided DEF Composition, again
  <2>4. Len(again) = Len(once) /\ Len(once) \in Nat
    BY <1>3, <1>5, <2>1, <2>3
  <2>5. \A i \in 1..Len(once) : again[i] = once[i]
    <3>1. TAKE i \in 1..Len(once)
    <3>2. CASE i \in {1, 2, 3}
      BY <1>3, <2>3, <3>2
    <3>3. CASE i > 3
      <4>1. i - 3 \in 1..Len(tail) /\ (i - 3) + 3 = i
        BY <2>1, <2>4, <3>3
      <4>2. QED BY <2>1, <2>3, <4>1
    <3>4. QED BY <2>4, <3>2, <3>3
  <2>6. again = once
    BY <1>3, <2>3, <2>4, <2>5
  <2>7. QED BY <2>6 DEF again
<1>7. ASSUME SaidOnce(form), NEW i \in 2..Len(once)
      PROVE  /\ once[i] \in CLITICS <=> i = 2
             /\ once[i] \in AVOIR \cup ETRE <=> i = 3
             /\ i = 3 => once[i] = EtreOf(once[1])
  <2>1. CASE i = 2
    <3>1. CLITICS \cap (AVOIR \cup ETRE) = {}
      BY DEF CLITICS, AVOIR, ETRE
    <3>2. QED BY <1>3, <2>1, <3>1
  <2>2. CASE i = 3
    <3>1. CLITICS \cap ETRE = {}
      BY DEF CLITICS, ETRE
    <3>2. QED BY <1>3, <1>5, <2>2, <3>1
  <2>3. CASE i > 3
    <3>1. i - 3 \in 1..Len(rest) /\ (i - 3) + 3 = i
      BY <1>3, <1>5, <2>3
    <3>2. rest[i - 3] \notin CLITICS \cup AVOIR \cup ETRE
      BY <1>2, <1>7, <3>1, <1>1
    <3>3. once[i] = rest[i - 3] \/ Becomes(rest[i - 3], once[i])
      BY <1>3, <3>1
    <3>4. rest[i - 3] \in Elidable => Elided(rest[i - 3]) \in {"j'", "l'"}
      BY <3>2 DEF Elidable, Elided, CLITICS
    <3>5. {"j'", "l'"} \cap (CLITICS \cup AVOIR \cup ETRE) = {}
      BY DEF CLITICS, AVOIR, ETRE
    <3>6. QED BY <2>3, <3>2, <3>3, <3>4, <3>5 DEF Becomes
  <2>4. QED BY <2>1, <2>2, <2>3
<1>8. QED BY <1>3, <1>6, <1>7 DEF once, Agreed

-----------------------------------------------------------------------------

\* The form of a verb, not a reflexive one in the passé composé, needs no correction.
Correct(form, lemma) ==
    lemma \in Impersonal \/ Reflexive(lemma) \/ (Len(form) > 1 /\ form[1] \in SUBJECTS)

\* A word before a form.
LEMMA OneWord ==
    ASSUME NEW w \in Words, NEW form \in Seq(Words), form # <<>>
    PROVE  /\ <<w>> \o form \in Seq(Words) /\ <<w>> \o form # <<>>
           /\ Len(<<w>> \o form) > 1 /\ (<<w>> \o form)[1] = w
OBVIOUS

\* Corrected does what it says.
LEMMA CorrectedIs ==
    ASSUME NEW form \in Seq(Words), form # <<>>, NEW lemma, NEW label,
           ~(lemma \notin Impersonal /\ Reflexive(lemma) /\ label = "passe compose")
    PROVE  /\ Corrected(form, lemma, label) \in Seq(Words)
           /\ Corrected(form, lemma, label) # <<>>
           /\ Correct(Corrected(form, lemma, label), lemma)
           /\ Correct(form, lemma) => Corrected(form, lemma, label) = form
<1>1. "je" \in Words /\ "je" \in SUBJECTS
  BY FormRulesAssumption DEF SUBJECTS
<1>2. CASE lemma \in Impersonal \/ Reflexive(lemma)
  BY <1>2 DEF Corrected, Correct
<1>3. CASE ~(lemma \in Impersonal \/ Reflexive(lemma))
  <2>1. Corrected(form, lemma, label) =
            IF Len(form) > 1 /\ form[1] \in SUBJECTS THEN form ELSE <<"je">> \o form
    BY <1>3 DEF Corrected
  <2>2. CASE Len(form) > 1 /\ form[1] \in SUBJECTS
    BY <1>1, <2>1, <2>2 DEF Correct
  <2>3. CASE ~(Len(form) > 1 /\ form[1] \in SUBJECTS)
    <3>1. /\ <<"je">> \o form \in Seq(Words) /\ <<"je">> \o form # <<>>
          /\ Len(<<"je">> \o form) > 1 /\ (<<"je">> \o form)[1] = "je"
      BY <1>1, OneWord
    <3>2. QED BY <1>1, <1>3, <2>1, <2>3, <3>1 DEF Correct
  <2>4. QED BY <2>2, <2>3
<1>4. QED BY <1>2, <1>3

\* Neither words that are added at the end nor elision make a form need it again.
LEMMA CorrectStays ==
    ASSUME NEW form \in Seq(Words), NEW lemma, Correct(form, lemma),
           NEW longer \in Seq(Words), Len(longer) >= Len(form), longer[1] = form[1], NEW beforeH
    PROVE  Correct(Elide(longer, beforeH), lemma)
<1> DEFINE once == Elide(longer, beforeH)
<1>1. SUFFICES ASSUME Len(form) > 1, form[1] \in SUBJECTS
               PROVE  Len(once) > 1 /\ once[1] \in SUBJECTS
  BY DEF Correct
<1>2. Len(longer) > 1 /\ Len(longer) \in Nat /\ 1 \in 1..Len(longer)
  BY <1>1
<1>3. /\ Len(once) = Len(longer)
      /\ once[1] = IF 1 < Len(longer) /\ Elides(longer[1], longer[1 + 1], beforeH)
                   THEN Elided(longer[1]) ELSE longer[1]
  BY <1>2, ElideWords
<1>4. \A w \in SUBJECTS : w \in Elidable => Elided(w) \in SUBJECTS
  BY ElisionOf DEF SUBJECTS, Elidable
<1>5. QED BY <1>1, <1>2, <1>3, <1>4, ElisionOf

\* A verb's form is read as it was stored.
LEMMA VerbStays ==
    ASSUME NEW form \in Seq(Words), form # <<>>, NEW lemma \in Seq(Words), NEW label,
           Starts(lemma, {"avoir"}) => AsSaid(lemma)
    PROVE  LET once == VerbForm(form, lemma, label)
           IN /\ once \in Seq(Words)
              /\ Settled(once, lemma \notin AspiratedH)
              /\ VerbForm(once, lemma, label) = once
<1> DEFINE beforeH == lemma \notin AspiratedH
           corrected == Corrected(form, lemma, label)
           once == Elide(RestoreComplement(corrected, lemma), beforeH)
<1>1. beforeH \in BOOLEAN /\ VerbForm(form, lemma, label) = once
  BY DEF VerbForm
<1>2. CASE lemma \notin Impersonal /\ Reflexive(lemma) /\ label = "passe compose"
  <2>1. \A f : Corrected(f, lemma, label) = ReflexivePasseCompose(f)
    BY <1>2 DEF Corrected
  <2>2. \A f : RestoreComplement(f, lemma) = f
    BY <1>2 DEF RestoreComplement, Reflexive, Starts
  <2>3. \A f : VerbForm(f, lemma, label) = Elide(ReflexivePasseCompose(f), beforeH)
    BY <2>1, <2>2 DEF VerbForm
  <2> HIDE DEF beforeH, once
  <2>4. /\ ReflexivePasseCompose(form) \in Seq(Words)
        /\ VerbForm(VerbForm(form, lemma, label), lemma, label) = VerbForm(form, lemma, label)
    BY <1>1, <2>3, PasseComposeStays
  <2>5. QED BY <1>1, <2>3, <2>4, ElideWords, ElideSettles DEF beforeH
<1>3. CASE ~(lemma \notin Impersonal /\ Reflexive(lemma) /\ label = "passe compose")
  <2> DEFINE restored == RestoreComplement(corrected, lemma)
  <2> HIDE DEF beforeH
  <2>1. corrected \in Seq(Words) /\ corrected # <<>> /\ Correct(corrected, lemma)
    BY <1>3, CorrectedIs
  <2>2. /\ restored \in Seq(Words) /\ Len(restored) >= Len(corrected)
        /\ restored[1] = corrected[1]
        /\ RestoreComplement(Elide(restored, beforeH), lemma) = Elide(restored, beforeH)
    <3> HIDE DEF corrected
    <3>1. QED BY <1>1, <2>1, RestoredStays
  <2> HIDE DEF restored
  <2>3. once = Elide(restored, beforeH)
    BY DEF restored
  <2> HIDE DEF once, corrected
  <2>4. Correct(once, lemma)
    BY <2>1, <2>2, <2>3, CorrectStays
  <2>5. /\ once \in Seq(Words) /\ Len(once) = Len(restored)
        /\ Settled(once, beforeH) /\ Elide(once, beforeH) = once
    BY <2>2, <2>3, ElideWords, ElideSettles, SettledStays
  <2>6. VerbForm(once, lemma, label) = once
    <3>1. once # <<>>
      BY <2>1, <2>2, <2>5
    <3>2. Corrected(once, lemma, label) = once
      BY <1>3, <2>4, <2>5, <3>1, CorrectedIs
    <3>3. QED BY <2>2, <2>3, <2>5, <3>2 DEF VerbForm, beforeH
  <2>7. QED BY <1>1, <2>5, <2>6 DEF beforeH
<1>4. QED BY <1>2, <1>3

\* In what is settled no word that can be elided is left before a vowel.
LEMMA SettledIs ==
    ASSUME NEW form, NEW beforeH, Settled(form, beforeH)
    PROVE  \A i \in 1..(Len(form) - 1) : form[i + 1] \in Vowels => form[i] \notin Elidable
BY DEF Settled, Elides

-----------------------------------------------------------------------------

\* ReadsAsStored: for any words and any ordinary reply, the forms of a word that tidy_forms
\* corrected before they were stored are not changed when it corrects them again on read.
THEOREM FormsReadAsStored == FormSpec => []ReadsAsStored
<1> DEFINE Asked == asking = Unasked \/ asking \in FormReplies
<1>1. FormInit => Asked
  BY DEF FormInit
<1>2. Asked /\ [FormNext]_asking => Asked'
  BY DEF FormNext
<1>3. ASSUME Asked PROVE ReadsAsStored
  <2>1. SUFFICES ASSUME asking \in FormReplies, Ordinary(asking) PROVE ReadsAsStored
    BY <1>3 DEF ReadsAsStored
  <2>2. /\ asking.pos \in {"verb", "noun", "adjective"}
        /\ asking.lemma \in Seq(Words)
        /\ asking.pos # "adjective" => asking.form \in Seq(Words) /\ asking.form # <<>>
    BY <2>1, FormRulesAssumption
  <2>3. CASE asking.pos = "adjective"
    <3>1. /\ Bare(asking.lemma) = asking.lemma
          /\ \A label \in DOMAIN asking.forms :
                 Bare(Bare(asking.forms[label])) = Bare(asking.forms[label])
      BY <2>1, <2>3 DEF Ordinary
    <3>2. QED BY <2>3, <3>1, AdjectiveStays DEF ReadsAsStored
  <2>4. CASE asking.pos = "noun"
    <3> DEFINE once == NounForm(asking.form)
    <3>1. \A form : Tidy(form, asking.lemma, asking.pos, asking.label) = NounForm(form)
      BY <2>4 DEF Tidy
    <3>2. /\ NounForm(once) = once
          /\ \A i \in 1..(Len(once) - 1) : once[i + 1] \in Vowels => once[i] \notin Elidable
      BY <2>2, <2>4, NounStays, SettledIs
    <3> HIDE DEF once
    <3>3. QED BY <2>4, <3>1, <3>2 DEF ReadsAsStored, once
  <2>5. CASE asking.pos = "verb"
    <3> DEFINE once == VerbForm(asking.form, asking.lemma, asking.label)
    <3>1. \A form : Tidy(form, asking.lemma, asking.pos, asking.label) =
                        VerbForm(form, asking.lemma, asking.label)
      BY <2>5 DEF Tidy
    <3>2. /\ VerbForm(once, asking.lemma, asking.label) = once
          /\ \A i \in 1..(Len(once) - 1) : once[i + 1] \in Vowels => once[i] \notin Elidable
      BY <2>1, <2>2, <2>5, VerbStays, SettledIs DEF Ordinary
    <3>3. ASSUME asking.label = "passe compose", Reflexive(asking.lemma),
                 asking.lemma \notin Impersonal, SaidOnce(asking.form)
          PROVE  Agreed(once)
      <4> DEFINE beforeH == asking.lemma \notin AspiratedH
      <4>1. once = Elide(ReflexivePasseCompose(asking.form), beforeH)
        BY <3>3 DEF VerbForm, Corrected, RestoreComplement, Reflexive, Starts
      <4>2. beforeH \in BOOLEAN
        OBVIOUS
      <4> HIDE DEF once, beforeH
      <4>3. QED BY <2>2, <2>5, <3>3, <4>1, <4>2, PasseComposeStays
    <3>4. Tidy(asking.form, asking.lemma, asking.pos, asking.label) = once
      BY <3>1
    <3> HIDE DEF once
    <3>5. Tidy(once, asking.lemma, asking.pos, asking.label) = once
      BY <3>1, <3>2
    <3>6. QED BY <2>5, <3>2, <3>3, <3>4, <3>5 DEF ReadsAsStored
  <2>6. QED BY <2>2, <2>3, <2>4, <2>5
<1>4. QED BY <1>1, <1>2, <1>3, PTL DEF FormSpec

=============================================================================
