------------------------------ MODULE WeakSpots ------------------------------
(***************************************************************************)
(* The missed questions of one learner and one comprehension set           *)
(* (app/progress): a submit of the set records or resolves them, the       *)
(* learner answers or dismisses them one by one, and a re-sync of the      *)
(* content replaces the set under both.                                    *)
(*                                                                         *)
(* A submit writes with SQL expressions under the write lock.  An answer   *)
(* and a dismissal load the row, decide, and write back the columns they   *)
(* have changed, as absolute values, whatever was committed in between.    *)
(***************************************************************************)
EXTENDS Integers, FiniteSets

CONSTANTS
    Reqs,       \* request slots
    Questions,  \* every question the set has had or will have
    MaxMisses   \* bound: the wrong answers given to one question

ASSUME WeakSpotsAssumption == MaxMisses \in Nat

VARIABLES
    asked,    \* the questions of the synced set, {} if it was removed
    spots,    \* the learner's weak_spots rows, one per question
    req,      \* what each slot is doing
    misses,   \* history: the wrong answers committed for a question
    latest,   \* history: the last verdict committed on a question
    crossed   \* history: questions of which one write crossed another

vars == <<asked, spots, req, misses, latest, crossed>>

Spot == [row : BOOLEAN, missed : Nat, resolved : BOOLEAN]

NoSpot == [row |-> FALSE, missed |-> 0, resolved |-> FALSE]

\* "seen" is the row as loaded, "of" the question it is about; a submit has graded
\* the questions "of" and found those in "right" correct.  "stale": the question has
\* been written since it was loaded.
Slot == [at : {"idle", "submit", "loaded", "judged", "dismiss"}, of : SUBSET Questions,
         right : SUBSET Questions, seen : Spot, stale : BOOLEAN]

Request == {s \in Slot : s.right \subseteq s.of}

Idle == [at |-> "idle", of |-> {}, right |-> {}, seen |-> NoSpot, stale |-> FALSE]

Init ==
    /\ asked = Questions
    /\ spots = [q \in Questions |-> NoSpot]
    /\ req = [r \in Reqs |-> Idle]
    /\ misses = [q \in Questions |-> 0]
    /\ latest = [q \in Questions |-> "none"]
    /\ crossed = {}

Open(q) == spots[q].row /\ ~spots[q].resolved

\* get_weak_spots: the open rows whose question the set still has.
Queue == {q \in asked : Open(q)}

-----------------------------------------------------------------------------
\* History

\* Whoever has loaded a question that is written now holds an old row.
Ends(r, written) ==
    req' = [s \in Reqs |->
        CASE s = r -> Idle
          [] s # r /\ req[s].at \in {"loaded", "judged", "dismiss"} /\ req[s].of \cap written # {} ->
               [req[s] EXCEPT !.stale = TRUE]
          [] OTHER -> req[s]]

Verdicts(missed, cleared) ==
    /\ misses' = [q \in Questions |-> IF q \in missed THEN misses[q] + 1 ELSE misses[q]]
    /\ latest' = [q \in Questions |-> IF q \in missed THEN "miss"
                                      ELSE IF q \in cleared THEN "clear" ELSE latest[q]]

Crosses(r) == crossed' = IF req[r].stale THEN crossed \cup req[r].of ELSE crossed

Within(missed) == \A q \in missed : misses[q] < MaxMisses

-----------------------------------------------------------------------------
\* Submitting the set

\* submit reads the set and grades every question of it; one left out is wrong.
ReadSet(r, right) ==
    /\ req[r].at = "idle"
    /\ right \subseteq asked
    /\ req' = [req EXCEPT ![r] = [Idle EXCEPT !.at = "submit", !.of = asked, !.right = right]]
    /\ UNCHANGED <<asked, spots, misses, latest, crossed>>

\* The upsert of a miss, and two plausible slips.
Missed_Kept(s) == [row |-> TRUE, missed |-> s.missed + 1, resolved |-> s.resolved]

Missed_Reset(s) == [row |-> TRUE, missed |-> 1, resolved |-> FALSE]

Missed(s) == [row |-> TRUE, missed |-> s.missed + 1, resolved |-> FALSE]

\* A correct answer resolves the row, if there is one.
Resolved(s) == [s EXCEPT !.resolved = s.row]

SyncWeakSpots(r) ==
    LET wrong == req[r].of \ req[r].right IN
    /\ req[r].at = "submit"
    /\ Within(wrong)
    /\ spots' = [q \in Questions |-> IF q \in wrong THEN Missed(spots[q])
                                     ELSE IF q \in req[r].right THEN Resolved(spots[q])
                                     ELSE spots[q]]
    /\ Verdicts(wrong, req[r].right)
    /\ Ends(r, req[r].of)
    /\ UNCHANGED <<asked, crossed>>

-----------------------------------------------------------------------------
\* Answering or dismissing one question

\* A resolved row answers 404 (qa-449); so does a question without a row.
LoadForAnswer(r, q) ==
    /\ req[r].at = "idle"
    /\ Open(q)
    /\ req' = [req EXCEPT ![r] = [Idle EXCEPT !.at = "loaded", !.of = {q}, !.seen = spots[q]]]
    /\ UNCHANGED <<asked, spots, misses, latest, crossed>>

\* The answer is judged by the set as it is now, if it still has the question.
Judge(r, right) ==
    /\ req[r].at = "loaded"
    /\ req[r].of \subseteq asked
    /\ right \subseteq req[r].of
    /\ req' = [req EXCEPT ![r].at = "judged", ![r].right = right]
    /\ UNCHANGED <<asked, spots, misses, latest, crossed>>

QuestionGone(r) ==
    /\ req[r].at = "loaded"
    /\ ~(req[r].of \subseteq asked)
    /\ req' = [req EXCEPT ![r] = Idle]
    /\ UNCHANGED <<asked, spots, misses, latest, crossed>>

AnswerRight(r) ==
    /\ req[r].at = "judged"
    /\ req[r].right = req[r].of
    /\ spots' = [q \in Questions |-> IF q \in req[r].of THEN [spots[q] EXCEPT !.resolved = TRUE]
                                     ELSE spots[q]]
    /\ Verdicts({}, req[r].of)
    /\ Ends(r, req[r].of)
    /\ Crosses(r)
    /\ UNCHANGED asked

\* times_missed += 1 writes the count that was loaded plus one, and nothing else.
AnswerWrong(r) ==
    /\ req[r].at = "judged"
    /\ req[r].right = {}
    /\ Within(req[r].of)
    /\ spots' = [q \in Questions |-> IF q \in req[r].of
                                     THEN [spots[q] EXCEPT !.missed = req[r].seen.missed + 1]
                                     ELSE spots[q]]
    /\ Verdicts(req[r].of, {})
    /\ Ends(r, req[r].of)
    /\ Crosses(r)
    /\ UNCHANGED asked

\* A dismissal asks neither for an open row nor for the question to exist.
LoadForDismiss(r, q) ==
    /\ req[r].at = "idle"
    /\ spots[q].row
    /\ req' = [req EXCEPT ![r] = [Idle EXCEPT !.at = "dismiss", !.of = {q}, !.seen = spots[q]]]
    /\ UNCHANGED <<asked, spots, misses, latest, crossed>>

\* Of a row that was loaded resolved there is no change to write.
Dismiss(r) ==
    /\ req[r].at = "dismiss"
    /\ spots' = [q \in Questions |-> IF q \in req[r].of /\ ~req[r].seen.resolved
                                     THEN [spots[q] EXCEPT !.resolved = TRUE] ELSE spots[q]]
    /\ Verdicts({}, req[r].of)
    /\ Ends(r, req[r].of)
    /\ Crosses(r)
    /\ UNCHANGED asked

-----------------------------------------------------------------------------

\* The request dies before its commit and is rolled back.
Die(r) ==
    /\ req[r].at # "idle"
    /\ req' = [req EXCEPT ![r] = Idle]
    /\ UNCHANGED <<asked, spots, misses, latest, crossed>>

\* sync_sets deletes the sets of the level and inserts the authored ones; the rows
\* of the learners stay.
SyncSets(now) ==
    /\ asked' = now
    /\ UNCHANGED <<spots, req, misses, latest, crossed>>

Next ==
    \/ \E now \in SUBSET Questions : SyncSets(now)
    \/ \E r \in Reqs :
        \/ \E right \in SUBSET Questions : ReadSet(r, right) \/ Judge(r, right)
        \/ \E q \in Questions : LoadForAnswer(r, q) \/ LoadForDismiss(r, q)
        \/ SyncWeakSpots(r) \/ QuestionGone(r)
        \/ AnswerRight(r) \/ AnswerWrong(r) \/ Dismiss(r) \/ Die(r)

Spec == Init /\ [][Next]_vars

-----------------------------------------------------------------------------
\* Properties

\* Values are of their types, and a row is there because of a miss it has counted.
TypeOK ==
    /\ asked \in SUBSET Questions
    /\ spots \in [Questions -> Spot]
    /\ req \in [Reqs -> Request]
    /\ misses \in [Questions -> Nat]
    /\ latest \in [Questions -> {"none", "miss", "clear"}]
    /\ crossed \in SUBSET Questions
    /\ \A q \in Questions : spots[q].row <=> spots[q].missed > 0

\* A wrong answer adds one miss (answer_weak_spot, sync_weak_spots): the count is never
\* above the wrong answers given, and is exact while no answer or dismissal of the
\* question crossed another write of it.
MissesAddUp ==
    \A q \in Questions :
        /\ spots[q].missed <= misses[q]
        /\ q \notin crossed => spots[q].missed = misses[q]

\* The queue (get_weak_spots) holds the questions the set asks whose last verdict is a
\* miss, however submits, answers, dismissals and re-syncs follow on each other, while
\* no answer or dismissal of the question crossed another write of it.
QueueIsLatestVerdict ==
    \A q \in Questions \ crossed : q \in Queue <=> q \in asked /\ latest[q] = "miss"

=============================================================================
