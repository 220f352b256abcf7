---------------------------- MODULE ExamAttempt -----------------------------
(***************************************************************************)
(* The mock exam attempts of one learner at one blueprint, app/exam/api:   *)
(* start or resume, record a section, finish with a report.  The learner's *)
(* requests run concurrently (two tabs, a double click, a retry).          *)
(*                                                                         *)
(* Reads are in autocommit; from its first INSERT or UPDATE to its commit  *)
(* a request holds SQLite's write lock.  Each handler here reads, decides, *)
(* and makes a single write: one action for each half.  What finish pays   *)
(* is in module Progress.                                                  *)
(***************************************************************************)
EXTENDS ExamScoring

CONSTANTS
    Skills,       \* the skills the learner records, a subset of Skill
    Required,     \* the skills of the blueprint's sections
    Scores,       \* the comprehension answers sent
    Estimates,    \* the writing and speaking answers sent
    MaxAttempts,  \* bound: attempts that can be inserted
    Reqs          \* request slots

ASSUME ExamAssumption ==
    /\ Skills \subseteq Skill
    /\ Required \subseteq Skills
    /\ Required # {}
    /\ Scores \subseteq Int \X Int
    /\ Estimates \subseteq Int
    /\ MaxAttempts \in Nat \ {0}

VARIABLES
    attempt,     \* exam_attempts, by id
    req,         \* what each request slot is doing and has read
    last,        \* history: the mark each attempt and skill was last recorded with
    replies,     \* history: the reports finish has answered, by attempt
    late,        \* history: attempts a section was written to after a finish read it
    raced        \* history: two starts were both about to insert

vars == <<attempt, req, last, replies, late, raced>>

Ids == 1..MaxAttempts

NoMarks == [s \in {} |-> 0]
NoReport == [per_skill |-> NoMarks, overall |-> 0, met |-> FALSE]
NoAttempt == [status |-> "none", sections |-> NoMarks, report |-> NoReport]
Idle == [at |-> "idle", on |-> 1, skill |-> "reading", mark |-> 0, seen |-> NoMarks]

Init ==
    /\ attempt = [a \in Ids |-> NoAttempt]
    /\ req = [r \in Reqs |-> Idle]
    /\ last = [a \in Ids |-> NoMarks]
    /\ replies = [a \in Ids |-> {}]
    /\ late = {}
    /\ raced = FALSE

Open == {a \in Ids : attempt[a].status = "in_progress"}
Unused == {a \in Ids : attempt[a].status = "none"}

Done(r) == req' = [req EXCEPT ![r] = Idle]

\* json_set and the merge of a mark into a partial profile.
Patch(marks, s, m) == [k \in DOMAIN marks \cup {s} |-> IF k = s THEN m ELSE marks[k]]

-----------------------------------------------------------------------------
\* start

\* No attempt to resume was found.  One is resumed; several make the query raise.
MayInsert_Always == TRUE

MayInsert == Open = {}

StartRead(r) ==
    /\ req[r].at = "idle"
    /\ MayInsert
    /\ req' = [req EXCEPT ![r] = [Idle EXCEPT !.at = "start"]]
    /\ raced' = (raced \/ \E q \in Reqs : req[q].at = "start")
    /\ UNCHANGED <<attempt, last, replies, late>>

\* The new row takes the next id.
StartInsert(r) ==
    /\ req[r].at = "start"
    /\ \E a \in Unused :
        /\ \A b \in Unused : a <= b
        /\ attempt' = [attempt EXCEPT ![a].status = "in_progress"]
    /\ Done(r)
    /\ UNCHANGED <<last, replies, late, raced>>

-----------------------------------------------------------------------------
\* record_section

RecordRead(r, a, s, answer) ==
    /\ req[r].at = "idle"
    /\ a \in Open
    /\ Valid(s, answer)
    /\ req' = [req EXCEPT ![r] = [at |-> "record", on |-> a, skill |-> s,
                                  mark |-> Mark(s, answer), seen |-> attempt[a].sections]]
    /\ UNCHANGED <<attempt, last, replies, late, raced>>

\* The update patches one key of the stored object, whatever the status is by now.
Recorded_Blob(r) == Patch(req[r].seen, req[r].skill, req[r].mark)

Recorded(r) == Patch(attempt[req[r].on].sections, req[r].skill, req[r].mark)

Finishing(a) == {r \in Reqs : req[r].at = "finish" /\ req[r].on = a}

RecordWrite(r) ==
    LET a == req[r].on IN
    /\ req[r].at = "record"
    /\ attempt' = [attempt EXCEPT ![a].sections = Recorded(r)]
    /\ last' = [last EXCEPT ![a] = Patch(@, req[r].skill, req[r].mark)]
    /\ late' = IF attempt[a].status = "finished" \/ Finishing(a) # {}
               THEN late \cup {a} ELSE late
    /\ Done(r)
    /\ UNCHANGED <<replies, raced>>

-----------------------------------------------------------------------------
\* finish

\* A finished attempt is answered with its stored report.
FinishAgain(r, a) ==
    /\ req[r].at = "idle"
    /\ attempt[a].status = "finished"
    /\ replies' = [replies EXCEPT ![a] = @ \cup {attempt[a].report}]
    /\ UNCHANGED <<attempt, req, last, late, raced>>

\* "No score until the test is complete": with a section missing, 409.
Complete(marks) == Required \subseteq DOMAIN marks

FinishRead(r, a) ==
    /\ req[r].at = "idle"
    /\ a \in Open
    /\ Complete(attempt[a].sections)
    /\ req' = [req EXCEPT ![r] = [Idle EXCEPT !.at = "finish", !.on = a,
                                              !.seen = attempt[a].sections]]
    /\ UNCHANGED <<attempt, last, replies, late, raced>>

\* The update counts one row only if the attempt is still in progress.
Flips(a) == attempt[a].status = "in_progress"

\* A plausible slip: the report leaves out a section the blueprint does not list.
Reported_Required(r) == Report([s \in Required |-> req[r].seen[s]])

Reported(r) == Report(req[r].seen)

\* A plausible slip: finish answers the report of the row as it was loaded.
Replied_Loaded(r) == NoReport

\* Winner and loser both answer the report each computed.
Replied(r) == Reported(r)

FinishWrite(r) ==
    LET a == req[r].on IN
    /\ req[r].at = "finish"
    /\ attempt' = IF Flips(a) THEN [attempt EXCEPT ![a].status = "finished",
                                                   ![a].report = Reported(r)]
                              ELSE attempt
    /\ replies' = [replies EXCEPT ![a] = @ \cup {Replied(r)}]
    /\ Done(r)
    /\ UNCHANGED <<last, late, raced>>

-----------------------------------------------------------------------------

\* A request dies before its commit and leaves nothing behind.
Die(r) ==
    /\ req[r].at # "idle"
    /\ Done(r)
    /\ UNCHANGED <<attempt, last, replies, late, raced>>

Answers(s) == IF s \in Comprehension THEN Scores ELSE Estimates

Next ==
    \E r \in Reqs :
        \/ StartRead(r) \/ StartInsert(r)
        \/ \E a \in Ids :
            \/ \E s \in Skills : \E answer \in Answers(s) : RecordRead(r, a, s, answer)
            \/ FinishAgain(r, a)
            \/ FinishRead(r, a)
        \/ RecordWrite(r) \/ FinishWrite(r)
        \/ Die(r)

Spec == Init /\ [][Next]_vars

-----------------------------------------------------------------------------
\* readiness: the best band of each skill over the finished TEF mocks

Finished == {a \in Ids : attempt[a].status = "finished"}

Series(s) == {attempt[a].report.per_skill[s] :
                 a \in {b \in Finished : s \in DOMAIN attempt[b].report.per_skill}}

\* A plausible slip: the most recent band in place of the best.
Best_Recent(s) ==
    LET of == {b \in Finished : s \in DOMAIN attempt[b].report.per_skill}
    IN attempt[CHOOSE a \in of : \A b \in of : b <= a].report.per_skill[s]

Best(s) == CHOOSE m \in Series(s) : \A n \in Series(s) : n <= m

-----------------------------------------------------------------------------
\* Properties

Profiles == UNION {[S -> 0..50] : S \in SUBSET Skills}
Reports  == {Report(p) : p \in {q \in Profiles : Complete(q)}}

Attempt == [status : {"none", "in_progress", "finished"}, sections : Profiles,
            report : Reports \cup {NoReport}]
Request == [at : {"idle", "start", "record", "finish"}, on : Ids, skill : Skill,
            mark : 0..50, seen : Profiles]

\* Attempts and slots are well typed, a report exists exactly when the attempt is
\* finished, and a slot about to write holds what its write needs.
TypeOK ==
    /\ attempt \in [Ids -> Attempt]
    /\ req \in [Reqs -> Request]
    /\ last \in [Ids -> Profiles]
    /\ replies \in [Ids -> SUBSET Reports]
    /\ late \in SUBSET Ids
    /\ raced \in BOOLEAN
    /\ \A a \in Ids : attempt[a].status = "finished" <=> attempt[a].report # NoReport
    /\ \A r \in Reqs :
        /\ req[r].at = "record" => req[r].skill \in Skills
        /\ req[r].at = "finish" => Complete(req[r].seen)
        /\ req[r].at \in {"record", "finish"} => attempt[req[r].on].status # "none"

\* Concurrent recordings of different skills all persist: an attempt holds the last
\* mark recorded for every skill (record_section's json_set, qa-170).
NoSectionLost == \A a \in Ids : attempt[a].sections = last[a]

\* An attempt is finished only with a report on every section of its blueprint,
\* although finish decided on sections it read before its update.
FinishedComplete ==
    \A a \in Finished : Required \subseteq DOMAIN attempt[a].report.per_skill

\* A report is final: no second finish, late section or retry changes it.
ReportFinal ==
    [][\A a \in Ids : attempt[a].status = "finished" =>
        attempt'[a].status = "finished" /\ attempt'[a].report = attempt[a].report]_vars

\* Unless a section was written after a finish had read the attempt, the report is
\* the report of the sections on record, all of them.
ReportMatchesSections ==
    \A a \in Finished \ late : attempt[a].report = Report(attempt[a].sections)

\* Unless, again, a section came late: winners, losers and repeats of finish have all
\* answered one report, the stored one, and none answered before it was stored.
RepliesAgree == \A a \in Ids \ late : replies[a] \subseteq {attempt[a].report} \ {NoReport}

\* Unless two starts were about to insert at once, one attempt at most is in progress.
OneOpenUnlessRaced == ~raced => Cardinality(Open) <= 1

\* The best band of a skill, once there is one, never falls (api.py readiness).
ReadinessRises ==
    [][\A s \in Skills : Series(s) # {} => Series(s)' # {} /\ Best(s)' >= Best(s)]_vars

\* "Resume an in-progress attempt for this blueprint instead of spawning duplicates, so
\* "start" can't litter the resume list / history (qa-150)" (exam/api.py:100).
NoDuplicateAttempts == Cardinality(Open) <= 1

\* "can't record after finishing" (tests/test_exam.py:313).
SectionsClosed ==
    [][\A a \in Finished : attempt'[a].sections = attempt[a].sections]_vars

=============================================================================
