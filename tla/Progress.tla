------------------------------ MODULE Progress ------------------------------
(***************************************************************************)
(* The progress of one learner: lesson results, the waive escape hatch,    *)
(* and every endpoint that pays XP through record_activity (lessons,       *)
(* comprehension sets, mock exams, reviews and drills).                    *)
(*                                                                         *)
(* Every table here is keyed by user_id and no handler touches another     *)
(* learner's rows, so one learner is enough.  What is concurrent is that   *)
(* learner's requests: a request slot r runs one handler at a time.  A     *)
(* handler reads in autocommit until its first INSERT or UPDATE, which     *)
(* takes SQLite's write lock; from there to its commit no other request    *)
(* writes, and what it reads is current.  So a handler is one action per   *)
(* await that precedes its first write, and one action for the rest.       *)
(*                                                                         *)
(* Authored content does not change here.  A lesson row that does not      *)
(* exist yet is the row with no pass, no waiver and no failed attempt:     *)
(* every handler treats the two alike.                                     *)
(***************************************************************************)
EXTENDS Gating, Activity, FiniteSets, Functions

CONSTANTS
    Sets,          \* comprehension sets
    SetLevel,
    Exams,         \* the learner's exam attempts, every section recorded
    ExamLevel,
    Reqs,          \* request slots: how many requests may be in flight
    None,          \* no lesson or exam attempt
    Daily,         \* bound: which of "review" and "drill" the requests may be
    MaxDay,        \* bound: how many days the clock may reach
    MaxAttempts    \* bound: failed attempts recorded for one lesson

ASSUME ProgressAssumption ==
    /\ SetLevel \in [Sets -> Levels]
    /\ ExamLevel \in [Exams -> Levels]
    /\ IsFiniteSet(Lessons) /\ IsFiniteSet(Sets) /\ IsFiniteSet(Exams)
    /\ MaxDay \in Nat \ {0}
    /\ MaxAttempts \in Nat

VARIABLES
    today,       \* date.today()
    lesson,      \* progress_lesson_completions, one row per lesson
    setPasses,   \* comprehension_passes: the sets whose XP has been claimed
    examDone,    \* the exam attempts whose status is "finished"
    ledger,      \* progress_daily_xp: xp by day and source, 0 for no row
    prog,        \* the progress_user row
    req,         \* what each request slot is doing and has read so far
    activeDays,  \* history: the days record_activity has stamped
    straddled    \* history: some activity was stamped with a day already over

tables == <<lesson, setPasses, examDone, ledger, prog, activeDays, straddled>>
vars == <<today, tables, req>>

XP_PER_LESSON   == 10
COMPREHENSION_XP == 15
EXAM_XP         == 25
REVIEW_XP       == 10
DRILL_XP        == 10
WAIVE_AFTER_ATTEMPTS == 2

Days    == 1..MaxDay
Sources == {"lesson", "comprehension", "exam", "review", "drill"}

LessonRow == [passed : BOOLEAN, waived : BOOLEAN, attempts : Nat]
ProgressRow == [level : 0..6, xp : Nat, streak : Nat, last : 0..MaxDay]

\* A request is idle, or about to take its next step "at".
Stages == {"idle", "pass", "fail", "waive", "rewaive", "restamp", "finish",
           "review", "drill"}
LessonStages == {"pass", "fail", "waive", "rewaive", "restamp", "drill"}
DatedStages  == {"waive", "rewaive", "restamp", "review", "drill"}
Request == [at : Stages, on : Lessons \cup Exams \cup {None}, day : 0..MaxDay,
            seen : ProgressRow]

Idle == [at |-> "idle", on |-> None, day |-> 0, seen |-> NoProgress]

-----------------------------------------------------------------------------

\* Lessons that satisfy gating.  A row with failed attempts only does not.
CompletedLessons == {l \in Lessons : lesson[l].passed \/ lesson[l].waived}

PassedLessons == {l \in Lessons : lesson[l].passed}

\* A plausible slip: the total takes the award, granted or not.
RecordActivity_Ungranted(day, lv, source, award, oncePerDay) ==
    /\ ledger' = [ledger EXCEPT ![day][source] =
                      @ + Granted(ledger[day][source], award, oncePerDay)]
    /\ prog' = RecordOn(prog, day, lv, award)
    /\ activeDays' = activeDays \cup {day}
    /\ straddled' = (straddled \/ day < today)

\* _claim_daily_xp and record_activity: the ledger cell of that day and source,
\* and the learner's row.
RecordActivity(day, lv, source, award, oncePerDay) ==
    LET granted == Granted(ledger[day][source], award, oncePerDay) IN
    /\ ledger' = [ledger EXCEPT ![day][source] = @ + granted]
    /\ prog' = RecordOn(prog, day, lv, granted)
    /\ activeDays' = activeDays \cup {day}
    /\ straddled' = (straddled \/ day < today)

Begin(r, stage, on, day) ==
    /\ req[r] = Idle
    /\ req' = [req EXCEPT ![r] =
                   [at |-> stage, on |-> on, day |-> day, seen |-> NoProgress]]
    /\ UNCHANGED <<today, tables>>

Done(r) == req' = [req EXCEPT ![r] = Idle]

Init ==
    /\ today = 1
    /\ lesson = [l \in Lessons |-> [passed |-> FALSE, waived |-> FALSE, attempts |-> 0]]
    /\ setPasses = {}
    /\ examDone = {}
    /\ ledger = [d \in Days |-> [s \in Sources |-> 0]]
    /\ prog = NoProgress
    /\ req = [r \in Reqs |-> Idle]
    /\ activeDays = {}
    /\ straddled = FALSE

-----------------------------------------------------------------------------
\* submit_result

\* The gate is read before the first write: a locked lesson is answered 409.
GateOpen_Ungated(l) == TRUE

GateOpen(l) == IsLessonUnlocked(l, CompletedLessons)

SubmitLesson(r, l, verdict) ==
    /\ GateOpen(l)
    /\ Begin(r, verdict, l, 0)

\* The insert-or-ignore found no row, or the guarded update flipped the row.
FirstPass_Any(l) == TRUE

FirstPass(l) == ~lesson[l].passed

CommitPass(r) ==
    LET l == req[r].on IN
    /\ req[r].at = "pass"
    /\ lesson' = [lesson EXCEPT ![l].passed = TRUE]
    /\ RecordActivity(today, LessonLevel[l], "lesson",
                      IF FirstPass(l) THEN XP_PER_LESSON ELSE 0, FALSE)
    /\ Done(r)
    /\ UNCHANGED <<today, setPasses, examDone>>

\* The upsert of a failed attempt leaves passed and waived alone.
FailedRow_Revokes(row) == [row EXCEPT !.attempts = @ + 1, !.passed = FALSE]

FailedRow(row) == [row EXCEPT !.attempts = @ + 1]

\* A failed attempt creates the progress row but is no activity.
CommitFail(r) ==
    LET l == req[r].on IN
    /\ req[r].at = "fail"
    /\ lesson[l].attempts < MaxAttempts
    /\ lesson' = [lesson EXCEPT ![l] = FailedRow(@)]
    /\ prog' = GetOrCreate(prog, LessonLevel[l])
    /\ Done(r)
    /\ UNCHANGED <<today, setPasses, examDone, ledger, activeDays, straddled>>

-----------------------------------------------------------------------------
\* waive_lesson

MayWaive_AnyAttempt(row) == ~row.passed

MayWaive(row) ==
    /\ ~row.passed
    /\ row.waived \/ row.attempts >= WAIVE_AFTER_ATTEMPTS

\* The gate and the row are read, and record_activity takes today's date, all
\* before the first write.  The gate never closes again, so reading it together
\* with the row is reading it first.
ReadForWaive(r, l) ==
    /\ GateOpen(l)
    /\ MayWaive(lesson[l])
    /\ Begin(r, IF lesson[l].waived THEN "rewaive" ELSE "waive", l, today)

\* Setting the flag is flushed when record_activity reads the progress row.
CommitWaive(r) ==
    LET l == req[r].on IN
    /\ req[r].at = "waive"
    /\ lesson' = [lesson EXCEPT ![l].waived = TRUE]
    /\ RecordActivity(req[r].day, LessonLevel[l], "lesson", 0, FALSE)
    /\ Done(r)
    /\ UNCHANGED <<today, setPasses, examDone>>

\* Waiving again flushes nothing, so the progress row is read without the lock.
ReadForRewaive(r) ==
    /\ req[r].at = "rewaive"
    /\ req' = [req EXCEPT ![r].at = "restamp", ![r].seen = prog]
    /\ UNCHANGED <<today, tables>>

\* Only the columns that differ from the row as read are written back.
CommitRewaive(r) ==
    LET s == req[r].seen
        n == RecordOn(s, req[r].day, LessonLevel[req[r].on], 0)
    IN
    /\ req[r].at = "restamp"
    /\ prog' = [prog EXCEPT !.level  = IF n.level  = s.level  THEN @ ELSE n.level,
                            !.streak = IF n.streak = s.streak THEN @ ELSE n.streak,
                            !.last   = IF n.last   = s.last   THEN @ ELSE n.last]
    /\ activeDays' = activeDays \cup {req[r].day}
    /\ straddled' = (straddled \/ req[r].day < today)
    /\ Done(r)
    /\ UNCHANGED <<today, lesson, setPasses, examDone, ledger>>

-----------------------------------------------------------------------------
\* Comprehension submit, exam finish, review and drill

\* An in-time pass claims the (user, set) marker; only the first claim pays.  The
\* handler writes from its first statement on, so it is one step.
ClaimsSet(s) == s \notin setPasses

PassSet(s) ==
    /\ ClaimsSet(s)
    /\ setPasses' = setPasses \cup {s}
    /\ RecordActivity(today, SetLevel[s], "comprehension", COMPREHENSION_XP, FALSE)
    /\ UNCHANGED <<today, lesson, examDone, req>>

\* A finish that reads "finished" only reports; the others go on to the update.
StartFinish(r, x) ==
    /\ x \notin examDone
    /\ Begin(r, "finish", x, 0)

\* The rowcount of UPDATE ... WHERE status = "in_progress".
FlipsStatus_Unguarded(x) == TRUE

FlipsStatus(x) == x \notin examDone

CommitFinish(r) ==
    LET x == req[r].on IN
    /\ req[r].at = "finish"
    /\ IF FlipsStatus(x)
       THEN /\ examDone' = examDone \cup {x}
            /\ RecordActivity(today, ExamLevel[x], "exam", EXAM_XP, FALSE)
       ELSE UNCHANGED <<examDone, ledger, prog, activeDays, straddled>>
    /\ Done(r)
    /\ UNCHANGED <<today, lesson, setPasses>>

\* The card (review) or the model's answer (drill) is in hand, and record_activity
\* has taken today's date; the pending changes are flushed by its first query.
StartReview(r) == "review" \in Daily /\ Begin(r, "review", None, today)

StartDrill(r, l) == "drill" \in Daily /\ Begin(r, "drill", l, today)

CommitReview(r) ==
    /\ req[r].at = "review"
    /\ RecordActivity(req[r].day, 1, "review", REVIEW_XP, TRUE)
    /\ Done(r)
    /\ UNCHANGED <<today, lesson, setPasses, examDone>>

CommitDrill(r) ==
    /\ req[r].at = "drill"
    /\ RecordActivity(req[r].day, LessonLevel[req[r].on], "drill", DRILL_XP, TRUE)
    /\ Done(r)
    /\ UNCHANGED <<today, lesson, setPasses, examDone>>

-----------------------------------------------------------------------------

\* A request dies before its commit (an exception, a restart): its transaction
\* is rolled back and nothing it did remains.
Die(r) ==
    /\ req[r] # Idle
    /\ Done(r)
    /\ UNCHANGED <<today, tables>>

Midnight ==
    /\ today < MaxDay
    /\ today' = today + 1
    /\ UNCHANGED <<tables, req>>

Next ==
    \/ Midnight
    \/ \E s \in Sets : PassSet(s)
    \/ \E r \in Reqs :
        \/ \E l \in Lessons :
            \/ \E v \in {"pass", "fail"} : SubmitLesson(r, l, v)
            \/ ReadForWaive(r, l)
            \/ StartDrill(r, l)
        \/ \E x \in Exams : StartFinish(r, x)
        \/ StartReview(r)
        \/ CommitPass(r) \/ CommitFail(r)
        \/ CommitWaive(r) \/ ReadForRewaive(r) \/ CommitRewaive(r)
        \/ CommitFinish(r) \/ CommitReview(r) \/ CommitDrill(r)
        \/ Die(r)

Spec == Init /\ [][Next]_vars

-----------------------------------------------------------------------------
\* Properties

\* The tables hold rows of their columns' types, and a request that waits for its
\* next step remembers a lesson, an exam attempt or a day, as that step needs.
TypeOK ==
    /\ today \in Days
    /\ lesson \in [Lessons -> LessonRow]
    /\ setPasses \in SUBSET Sets
    /\ examDone \in SUBSET Exams
    /\ ledger \in [Days -> [Sources -> Nat]]
    /\ prog \in ProgressRow
    /\ req \in [Reqs -> Request]
    /\ activeDays \in SUBSET Days
    /\ straddled \in BOOLEAN
    /\ \A r \in Reqs :
        /\ req[r].at \in LessonStages => req[r].on \in Lessons
        /\ req[r].at = "finish" => req[r].on \in Exams
        /\ req[r].at \in DatedStages => req[r].day \in 1..today

RewardDays(source) == {d \in Days : ledger[d][source] > 0}

\* The learner's total is exactly what was earned: ten for each lesson passed,
\* fifteen for each set, twenty-five for each exam, ten for each day with a review
\* and for each day with a drill.  Submits, finishes and reviews that race neither
\* pay twice nor lose an award (progress/service.py record_activity).
XpIsEarned ==
    prog.xp = XP_PER_LESSON * Cardinality(PassedLessons)
            + COMPREHENSION_XP * Cardinality(setPasses)
            + EXAM_XP * Cardinality(examDone)
            + REVIEW_XP * Cardinality(RewardDays("review"))
            + DRILL_XP * Cardinality(RewardDays("drill"))

\* The daily-goal ring and the total agree: the ledger's rows add up to the xp the
\* learner has (progress/service.py xp_earned_today).
LedgerAddsUp == prog.xp = SumFunction([d \in Days |-> SumFunction(ledger[d])])

\* A waived lesson had the failed attempts the hatch asks for, although the waive
\* decided on a row it read before it wrote (progress/api.py waive_lesson).
WaiverIsEarned ==
    \A l \in Lessons : lesson[l].waived => lesson[l].attempts >= WAIVE_AFTER_ATTEMPTS

\* Every lesson with a result lies in a unit that is open now, although its gate
\* was read before other requests wrote (content/api.py is_lesson_unlocked).
ResultsOnlyBehindOpenGates ==
    \A l \in Lessons :
        lesson[l].passed \/ lesson[l].waived \/ lesson[l].attempts > 0
            => IsLessonUnlocked(l, CompletedLessons)

\* The path only opens: a complete unit stays complete and an open one is never
\* locked again (content/api.py compute_unit_status).
PathOnlyOpens ==
    [][\A u \in Units :
        /\ UnitStatus(u, CompletedLessons) = "complete"
            => UnitStatus(u, CompletedLessons') = "complete"
        /\ UnitStatus(u, CompletedLessons) # "locked"
            => UnitStatus(u, CompletedLessons') # "locked"]_vars

\* The level on the board never falls, not even by the waive that writes back a
\* row it read without the lock (progress/service.py:123-127).
LevelNeverFalls == [][prog'.level >= prog.level]_vars

\* As long as no activity was stamped with a day already over, the streak is the
\* length of the run of active days that ends at last_active (compute_streak).
StreakIsTheRun ==
    ~straddled /\ prog.last # 0 =>
        /\ (prog.last - prog.streak + 1) .. prog.last \subseteq activeDays
        /\ (prog.last - prog.streak) \notin activeDays
        /\ \A d \in activeDays : d <= prog.last

-----------------------------------------------------------------------------
\* The awards this module implements

Awards ==
    ({"lesson"} \X Lessons) \cup ({"comprehension"} \X Sets) \cup ({"exam"} \X Exams)
        \cup ({"review", "drill"} \X Days)

Worth ==
    [a \in Awards |-> CASE a[1] = "lesson"        -> XP_PER_LESSON
                        [] a[1] = "comprehension" -> COMPREHENSION_XP
                        [] a[1] = "exam"          -> EXAM_XP
                        [] a[1] = "review"        -> REVIEW_XP
                        [] a[1] = "drill"         -> DRILL_XP]

PaidAwards ==
    ({"lesson"} \X PassedLessons) \cup ({"comprehension"} \X setPasses)
        \cup ({"exam"} \X examDone) \cup ({"review"} \X RewardDays("review"))
        \cup ({"drill"} \X RewardDays("drill"))

Xp == INSTANCE XpAwards WITH paid <- PaidAwards, xp <- prog.xp

\* Every step of the five endpoints pays one award that was not paid before, or
\* changes neither the total nor what counts as paid.
ImplementsAwards == Xp!Spec

=============================================================================
