--------------------------- MODULE ProgressProofs ---------------------------
(***************************************************************************)
(* Proofs about Progress for any content, any number of requests in flight *)
(* and any bound on the clock and on failed attempts.                      *)
(***************************************************************************)
EXTENDS Progress, FoldProofs

-----------------------------------------------------------------------------
\* The pure operators return rows of their types

\* Recording an activity gives a progress row.
LEMMA RecordOnType ==
    ASSUME NEW p \in ProgressRow, NEW d \in Days, NEW lv \in Levels, NEW g \in Nat
    PROVE  RecordOn(p, d, lv, g) \in ProgressRow
BY ProgressAssumption DEF RecordOn, GetOrCreate, PromoteLevel, ComputeStreak, ProgressRow, Days, Levels

\* A row that is read or created is a progress row.
LEMMA GetOrCreateType ==
    ASSUME NEW p \in ProgressRow, NEW lv \in Levels
    PROVE  GetOrCreate(p, lv) \in ProgressRow
BY DEF GetOrCreate, ProgressRow, Levels

\* What is granted is a number of points.
LEMMA GrantedType ==
    ASSUME NEW cell \in Nat, NEW award \in Nat, NEW once \in BOOLEAN
    PROVE  Granted(cell, award, once) \in Nat
BY DEF Granted

\* record_activity keeps ledger, progress and active days well typed.
LEMMA RecordActivityType ==
    ASSUME TypeOK, NEW d \in 1..today, NEW lv \in Levels, NEW s \in Sources,
           NEW award \in Nat, NEW once \in BOOLEAN,
           RecordActivity(d, lv, s, award, once)
    PROVE  /\ ledger' \in [Days -> [Sources -> Nat]]
           /\ prog' \in ProgressRow
           /\ activeDays' \in SUBSET Days
           /\ straddled' \in BOOLEAN
<1> DEFINE g == Granted(ledger[d][s], award, once)
<1>1. d \in Days
  BY ProgressAssumption DEF TypeOK, Days
<1>2. g \in Nat
  BY <1>1, GrantedType DEF TypeOK
<1>3. prog' \in ProgressRow
  BY <1>1, <1>2, RecordOnType DEF RecordActivity, TypeOK
<1>4. ledger' = [ledger EXCEPT ![d][s] = @ + g]
  BY DEF RecordActivity
<1>5. ledger' \in [Days -> [Sources -> Nat]]
  <2> HIDE DEF g
  <2> QED BY <1>1, <1>2, <1>4 DEF TypeOK
<1>6. activeDays' \in SUBSET Days /\ straddled' \in BOOLEAN
  BY <1>1 DEF RecordActivity, TypeOK
<1> QED BY <1>3, <1>5, <1>6

-----------------------------------------------------------------------------
\* Type correctness

\* What every request slot must satisfy, as one predicate of the slot.
SlotOK(q) ==
    /\ q \in Request
    /\ q.at \in LessonStages => q.on \in Lessons
    /\ q.at = "finish" => q.on \in Exams
    /\ q.at \in DatedStages => q.day \in 1..today

\* One slot that moves well typed leaves all of them so.
LEMMA SlotUpdate ==
    ASSUME TypeOK, today' = today, NEW r \in Reqs, NEW q,
           req' = [req EXCEPT ![r] = q],
           SlotOK(q)
    PROVE  /\ req' \in [Reqs -> Request]
           /\ \A i \in Reqs : SlotOK(req[i])'
BY DEF TypeOK, SlotOK

\* The idle slot is well typed.
LEMMA IdleOK == SlotOK(Idle)
BY ProgressAssumption
   DEF SlotOK, Idle, Request, Stages, LessonStages, DatedStages, NoProgress, ProgressRow

\* The empty tables are well typed.
LEMMA InitType == Init => TypeOK
<1> SUFFICES ASSUME Init PROVE TypeOK
  OBVIOUS
<1>1. today \in Days /\ prog \in ProgressRow
  BY ProgressAssumption DEF Init, Days, NoProgress, ProgressRow
<1>2. lesson \in [Lessons -> LessonRow] /\ ledger \in [Days -> [Sources -> Nat]]
  BY DEF Init, LessonRow
<1>3. \A r \in Reqs : SlotOK(req[r])
  BY IdleOK DEF Init
<1>4. req \in [Reqs -> Request]
  BY IdleOK DEF Init, SlotOK
<1> QED BY <1>1, <1>2, <1>3, <1>4 DEF Init, TypeOK, SlotOK

\* A slot that finishes leaves all of them well typed.
LEMMA DoneOK ==
    ASSUME TypeOK, today' = today, NEW r \in Reqs, Done(r)
    PROVE  /\ req' \in [Reqs -> Request]
           /\ \A i \in Reqs : SlotOK(req[i])'
BY IdleOK, SlotUpdate DEF Done

\* A slot that begins leaves all of them well typed.
LEMMA BeginOK ==
    ASSUME TypeOK, NEW r \in Reqs, NEW stage \in Stages,
           NEW on \in Lessons \cup Exams \cup {None}, NEW day \in 0..today,
           stage \in LessonStages => on \in Lessons,
           stage = "finish" => on \in Exams,
           stage \in DatedStages => day \in 1..today,
           Begin(r, stage, on, day)
    PROVE  TypeOK'
<1> DEFINE q == [at |-> stage, on |-> on, day |-> day, seen |-> NoProgress]
<1>1. day \in 0..MaxDay
  BY ProgressAssumption DEF TypeOK, Days
<1>2. NoProgress \in ProgressRow
  BY ProgressAssumption DEF NoProgress, ProgressRow
<1>3. SlotOK(q)
  BY <1>1, <1>2 DEF SlotOK, Request
<1>4. /\ req' = [req EXCEPT ![r] = q]
      /\ UNCHANGED <<today, lesson, setPasses, examDone, ledger, prog, activeDays, straddled>>
  BY DEF Begin, tables
<1>5. /\ req' \in [Reqs -> Request]
      /\ \A i \in Reqs : SlotOK(req[i])'
  <2> HIDE DEF q
  <2> QED BY <1>3, <1>4, SlotUpdate
<1> QED BY <1>4, <1>5 DEF TypeOK, SlotOK

\* A commit whose lesson row, ledger, progress row and history are well typed.
LEMMA CommitOK ==
    ASSUME TypeOK, NEW r \in Reqs, Done(r), today' = today,
           lesson' \in [Lessons -> LessonRow],
           setPasses' \in SUBSET Sets, examDone' \in SUBSET Exams,
           ledger' \in [Days -> [Sources -> Nat]], prog' \in ProgressRow,
           activeDays' \in SUBSET Days, straddled' \in BOOLEAN
    PROVE  TypeOK'
BY DoneOK DEF TypeOK, SlotOK

\* A request about a lesson holds a lesson, of some level.
LEMMA LessonSlot ==
    ASSUME TypeOK, NEW r \in Reqs, req[r].at \in LessonStages
    PROVE  /\ req[r].on \in Lessons
           /\ LessonLevel[req[r].on] \in Levels
BY ContentAssumption DEF TypeOK

\* Every step keeps the state well typed.
LEMMA TypeStep == TypeOK /\ [Next]_vars => TypeOK'
<1> SUFFICES ASSUME TypeOK, [Next]_vars PROVE TypeOK'
  OBVIOUS
<1> USE DEF Levels
<1>1. CASE Midnight
  BY <1>1, ProgressAssumption DEF Midnight, tables, TypeOK, Days
<1>2. ASSUME NEW s \in Sets, PassSet(s) PROVE TypeOK'
  <2>1. SetLevel[s] \in 1..6 /\ today \in 1..today /\ COMPREHENSION_XP \in Nat
    BY ProgressAssumption DEF TypeOK, Days, COMPREHENSION_XP
  <2>2. "comprehension" \in Sources /\ FALSE \in BOOLEAN
    BY DEF Sources
  <2>3. RecordActivity(today, SetLevel[s], "comprehension", COMPREHENSION_XP, FALSE)
    BY <1>2 DEF PassSet
  <2>4. /\ ledger' \in [Days -> [Sources -> Nat]]
        /\ prog' \in ProgressRow
        /\ activeDays' \in SUBSET Days
        /\ straddled' \in BOOLEAN
    BY <2>1, <2>2, <2>3, RecordActivityType
  <2> QED BY <1>2, <2>4 DEF PassSet, TypeOK
<1>3. ASSUME NEW r \in Reqs, NEW l \in Lessons, NEW v \in {"pass", "fail"},
             SubmitLesson(r, l, v)
      PROVE  TypeOK'
  <2>1. v \in Stages /\ v \in LessonStages /\ v # "finish" /\ v \notin DatedStages
    BY DEF Stages, LessonStages, DatedStages
  <2>2. 0 \in 0..today
    BY DEF TypeOK, Days
  <2> QED BY <1>3, <2>1, <2>2, BeginOK DEF SubmitLesson
<1>4. ASSUME NEW r \in Reqs, NEW l \in Lessons, ReadForWaive(r, l) PROVE TypeOK'
  <2> DEFINE v == IF lesson[l].waived THEN "rewaive" ELSE "waive"
  <2>1. v \in Stages /\ v \in LessonStages /\ v # "finish"
    BY DEF Stages, LessonStages
  <2>2. today \in 0..today /\ today \in 1..today
    BY DEF TypeOK, Days
  <2>3. Begin(r, v, l, today)
    BY <1>4 DEF ReadForWaive
  <2> HIDE DEF v
  <2> QED BY <2>1, <2>2, <2>3, BeginOK
<1>5. ASSUME NEW r \in Reqs, NEW l \in Lessons, StartDrill(r, l) PROVE TypeOK'
  <2>1. "drill" \in Stages /\ "drill" # "finish"
    BY DEF Stages
  <2>2. today \in 0..today /\ today \in 1..today
    BY DEF TypeOK, Days
  <2> QED BY <1>5, <2>1, <2>2, BeginOK DEF StartDrill
<1>6. ASSUME NEW r \in Reqs, NEW x \in Exams, StartFinish(r, x) PROVE TypeOK'
  <2>1. "finish" \in Stages /\ "finish" \notin LessonStages /\ "finish" \notin DatedStages
    BY DEF Stages, LessonStages, DatedStages
  <2>2. 0 \in 0..today
    BY DEF TypeOK, Days
  <2> QED BY <1>6, <2>1, <2>2, BeginOK DEF StartFinish
<1>7. ASSUME NEW r \in Reqs, StartReview(r) PROVE TypeOK'
  <2>1. "review" \in Stages /\ "review" \notin LessonStages /\ "review" # "finish"
    BY DEF Stages, LessonStages
  <2>2. today \in 0..today /\ today \in 1..today
    BY DEF TypeOK, Days
  <2> QED BY <1>7, <2>1, <2>2, BeginOK DEF StartReview
<1>8. ASSUME NEW r \in Reqs, CommitPass(r) PROVE TypeOK'
  <2> DEFINE l == req[r].on
             award == IF FirstPass(l) THEN XP_PER_LESSON ELSE 0
  <2>1. l \in Lessons /\ LessonLevel[l] \in 1..6
    BY <1>8, LessonSlot DEF CommitPass, LessonStages
  <2>2. award \in Nat /\ today \in 1..today /\ "lesson" \in Sources
    BY DEF XP_PER_LESSON, TypeOK, Days, Sources
  <2>3. /\ ledger' \in [Days -> [Sources -> Nat]]
        /\ prog' \in ProgressRow
        /\ activeDays' \in SUBSET Days
        /\ straddled' \in BOOLEAN
    <3>1. RecordActivity(today, LessonLevel[l], "lesson", award, FALSE)
      BY <1>8 DEF CommitPass
    <3> HIDE DEF l, award
    <3> QED BY <3>1, <2>1, <2>2, RecordActivityType
  <2>4. lesson' \in [Lessons -> LessonRow]
    BY <1>8, <2>1 DEF CommitPass, TypeOK, LessonRow
  <2> QED BY <1>8, <2>3, <2>4, CommitOK DEF CommitPass, TypeOK
<1>9. ASSUME NEW r \in Reqs, CommitFail(r) PROVE TypeOK'
  <2> DEFINE l == req[r].on
  <2>1. l \in Lessons /\ LessonLevel[l] \in 1..6
    BY <1>9, LessonSlot DEF CommitFail, LessonStages
  <2>2. lesson' \in [Lessons -> LessonRow]
    <3>1. lesson[l] \in LessonRow
      BY <2>1 DEF TypeOK
    <3>2. FailedRow(lesson[l]) \in LessonRow
      BY <3>1 DEF FailedRow, LessonRow
    <3>3. lesson' = [lesson EXCEPT ![l] = FailedRow(lesson[l])]
      BY <1>9 DEF CommitFail
    <3> QED BY <2>1, <3>2, <3>3 DEF TypeOK
  <2>3. prog' \in ProgressRow
    BY <1>9, <2>1, GetOrCreateType DEF CommitFail, TypeOK
  <2> QED BY <1>9, <2>2, <2>3, CommitOK DEF CommitFail, TypeOK
<1>10. ASSUME NEW r \in Reqs, CommitWaive(r) PROVE TypeOK'
  <2> DEFINE l == req[r].on
  <2>1. l \in Lessons /\ LessonLevel[l] \in 1..6
    BY <1>10, LessonSlot DEF CommitWaive, LessonStages
  <2>2. req[r].day \in 1..today /\ "lesson" \in Sources
    BY <1>10 DEF CommitWaive, TypeOK, DatedStages, Sources
  <2>3. /\ ledger' \in [Days -> [Sources -> Nat]]
        /\ prog' \in ProgressRow
        /\ activeDays' \in SUBSET Days
        /\ straddled' \in BOOLEAN
    BY <1>10, <2>1, <2>2, RecordActivityType DEF CommitWaive
  <2>4. lesson' \in [Lessons -> LessonRow]
    BY <1>10, <2>1 DEF CommitWaive, TypeOK, LessonRow
  <2> QED BY <1>10, <2>3, <2>4, CommitOK DEF CommitWaive, TypeOK
<1>11. ASSUME NEW r \in Reqs, ReadForRewaive(r) PROVE TypeOK'
  <2> DEFINE q == [req[r] EXCEPT !.at = "restamp", !.seen = prog]
  <2>1. req[r] \in Request /\ prog \in ProgressRow /\ req[r].at = "rewaive"
    BY <1>11 DEF TypeOK, ReadForRewaive
  <2>2. q \in Request /\ q.at = "restamp" /\ q.on = req[r].on /\ q.day = req[r].day
    BY <2>1 DEF Request, Stages
  <2>3. SlotOK(q)
    BY <2>1, <2>2 DEF SlotOK, TypeOK, LessonStages, DatedStages
  <2>4. req' = [req EXCEPT ![r] = q] /\ UNCHANGED <<today, tables>>
    BY <1>11 DEF ReadForRewaive
  <2> HIDE DEF q
  <2>5. /\ req' \in [Reqs -> Request]
        /\ \A i \in Reqs : SlotOK(req[i])'
    BY <2>3, <2>4, SlotUpdate
  <2> QED BY <2>4, <2>5 DEF tables, TypeOK, SlotOK
<1>12. ASSUME NEW r \in Reqs, CommitRewaive(r) PROVE TypeOK'
  <2> DEFINE l == req[r].on
             n == RecordOn(req[r].seen, req[r].day, LessonLevel[l], 0)
  <2>1. l \in Lessons /\ LessonLevel[l] \in 1..6
    BY <1>12, LessonSlot DEF CommitRewaive, LessonStages
  <2>2. req[r].day \in 1..today /\ req[r].day \in Days /\ req[r].seen \in ProgressRow
    BY <1>12, ProgressAssumption DEF CommitRewaive, TypeOK, DatedStages, Request, Days
  <2>3. n \in ProgressRow
    BY <2>1, <2>2, RecordOnType
  <2>4. prog' \in ProgressRow
    <3> HIDE DEF n
    <3>1. prog' = [prog EXCEPT
             !.level  = IF n.level  = req[r].seen.level  THEN @ ELSE n.level,
             !.streak = IF n.streak = req[r].seen.streak THEN @ ELSE n.streak,
             !.last   = IF n.last   = req[r].seen.last   THEN @ ELSE n.last]
      BY <1>12 DEF CommitRewaive, n
    <3> QED BY <2>3, <3>1 DEF TypeOK, ProgressRow
  <2>5. activeDays' \in SUBSET Days /\ straddled' \in BOOLEAN
    BY <1>12, <2>2 DEF CommitRewaive, TypeOK
  <2> QED BY <1>12, <2>4, <2>5, CommitOK DEF CommitRewaive, TypeOK
<1>13. ASSUME NEW r \in Reqs, CommitFinish(r) PROVE TypeOK'
  <2> DEFINE x == req[r].on
  <2>1. x \in Exams /\ ExamLevel[x] \in 1..6
    BY <1>13, ProgressAssumption DEF CommitFinish, TypeOK
  <2>2. EXAM_XP \in Nat /\ today \in 1..today /\ "exam" \in Sources
    BY DEF EXAM_XP, TypeOK, Days, Sources
  <2>3. /\ ledger' \in [Days -> [Sources -> Nat]]
        /\ prog' \in ProgressRow
        /\ activeDays' \in SUBSET Days
        /\ straddled' \in BOOLEAN
        /\ examDone' \in SUBSET Exams
    <3>1. CASE FlipsStatus(x)
      <4>1. RecordActivity(today, ExamLevel[x], "exam", EXAM_XP, FALSE)
        BY <1>13, <3>1 DEF CommitFinish
      <4>2. examDone' \in SUBSET Exams
        BY <1>13, <2>1, <3>1 DEF CommitFinish, TypeOK
      <4> QED BY <4>1, <4>2, <2>1, <2>2, RecordActivityType
    <3>2. CASE ~FlipsStatus(x)
      BY <1>13, <3>2 DEF CommitFinish, TypeOK
    <3> QED BY <3>1, <3>2
  <2> QED BY <1>13, <2>3, CommitOK DEF CommitFinish, TypeOK
<1>14. ASSUME NEW r \in Reqs, CommitReview(r) PROVE TypeOK'
  <2>1. req[r].day \in 1..today /\ "review" \in Sources /\ REVIEW_XP \in Nat /\ 1 \in 1..6
    BY <1>14 DEF CommitReview, TypeOK, DatedStages, Sources, REVIEW_XP
  <2>2. /\ ledger' \in [Days -> [Sources -> Nat]]
        /\ prog' \in ProgressRow
        /\ activeDays' \in SUBSET Days
        /\ straddled' \in BOOLEAN
    BY <1>14, <2>1, RecordActivityType DEF CommitReview
  <2> QED BY <1>14, <2>2, CommitOK DEF CommitReview, TypeOK
<1>15. ASSUME NEW r \in Reqs, CommitDrill(r) PROVE TypeOK'
  <2>1. LessonLevel[req[r].on] \in 1..6
    BY <1>15, LessonSlot DEF CommitDrill, LessonStages
  <2>2. req[r].day \in 1..today /\ "drill" \in Sources /\ DRILL_XP \in Nat
    BY <1>15 DEF CommitDrill, TypeOK, DatedStages, Sources, DRILL_XP
  <2>3. /\ ledger' \in [Days -> [Sources -> Nat]]
        /\ prog' \in ProgressRow
        /\ activeDays' \in SUBSET Days
        /\ straddled' \in BOOLEAN
    BY <1>15, <2>1, <2>2, RecordActivityType DEF CommitDrill
  <2> QED BY <1>15, <2>3, CommitOK DEF CommitDrill, TypeOK
<1>16. ASSUME NEW r \in Reqs, Die(r) PROVE TypeOK'
  BY <1>16, CommitOK DEF Die, tables, TypeOK
<1>17. CASE UNCHANGED vars
  BY <1>17 DEF vars, tables, TypeOK
<1> QED
  BY <1>1, <1>2, <1>3, <1>4, <1>5, <1>6, <1>7, <1>8, <1>9, <1>10, <1>11, <1>12, <1>13,
     <1>14, <1>15, <1>16, <1>17 DEF Next

\* Every reachable state is well typed.
THEOREM TypeCorrect == Spec => []TypeOK
BY InitType, TypeStep, PTL DEF Spec

-----------------------------------------------------------------------------
\* What one step pays

Unpaid == UNCHANGED <<setPasses, examDone>>
NoDailyReward == RewardDays("review")' = RewardDays("review") /\ RewardDays("drill")' = RewardDays("drill")

PaysNothing ==
    /\ prog'.xp = prog.xp /\ PassedLessons' = PassedLessons /\ Unpaid /\ NoDailyReward

PaysLesson(l) ==
    /\ l \notin PassedLessons /\ PassedLessons' = PassedLessons \cup {l}
    /\ prog'.xp = prog.xp + XP_PER_LESSON
    /\ Unpaid /\ NoDailyReward

PaysSet(s) ==
    /\ s \notin setPasses /\ setPasses' = setPasses \cup {s}
    /\ prog'.xp = prog.xp + COMPREHENSION_XP
    /\ PassedLessons' = PassedLessons /\ examDone' = examDone /\ NoDailyReward

PaysExam(x) ==
    /\ x \notin examDone /\ examDone' = examDone \cup {x}
    /\ prog'.xp = prog.xp + EXAM_XP
    /\ PassedLessons' = PassedLessons /\ setPasses' = setPasses /\ NoDailyReward

PaysReview(d) ==
    /\ d \notin RewardDays("review") /\ RewardDays("review")' = RewardDays("review") \cup {d}
    /\ prog'.xp = prog.xp + REVIEW_XP
    /\ PassedLessons' = PassedLessons /\ Unpaid /\ RewardDays("drill")' = RewardDays("drill")

PaysDrill(d) ==
    /\ d \notin RewardDays("drill") /\ RewardDays("drill")' = RewardDays("drill") \cup {d}
    /\ prog'.xp = prog.xp + DRILL_XP
    /\ PassedLessons' = PassedLessons /\ Unpaid /\ RewardDays("review")' = RewardDays("review")

\* The xp column after record_activity.
LEMMA RecordXp ==
    ASSUME TypeOK, NEW d, NEW lv \in Levels, NEW g \in Nat
    PROVE  RecordOn(prog, d, lv, g).xp = prog.xp + g
BY DEF RecordOn, GetOrCreate, TypeOK, ProgressRow

\* An award for a unit adds to the total and marks no day as rewarded.
LEMMA RecordUnit ==
    ASSUME TypeOK, NEW d \in Days, NEW lv \in Levels, NEW award \in Nat,
           NEW s \in {"lesson", "comprehension", "exam"},
           RecordActivity(d, lv, s, award, FALSE)
    PROVE  prog'.xp = prog.xp + award /\ NoDailyReward
<1>1. Granted(ledger[d][s], award, FALSE) = award
  BY DEF Granted
<1>2. prog'.xp = prog.xp + award
  BY <1>1, RecordXp DEF RecordActivity
<1>3. ledger' = [ledger EXCEPT ![d][s] = @ + award]
  BY <1>1 DEF RecordActivity
<1>4. \A e \in Days : ledger'[e]["review"] = ledger[e]["review"]
                      /\ ledger'[e]["drill"] = ledger[e]["drill"]
  BY <1>3 DEF TypeOK, Sources
<1> QED BY <1>2, <1>4 DEF NoDailyReward, RewardDays

\* A capped award pays on the first activity of its source and day, and only then.
LEMMA RecordDaily ==
    ASSUME TypeOK, NEW d \in Days, NEW lv \in Levels, NEW award \in Nat \ {0},
           NEW s \in {"review", "drill"},
           RecordActivity(d, lv, s, award, TRUE)
    PROVE  /\ \A o \in {"review", "drill"} \ {s} : RewardDays(o)' = RewardDays(o)
           /\ \/ prog'.xp = prog.xp /\ RewardDays(s)' = RewardDays(s)
              \/ /\ d \notin RewardDays(s)
                 /\ RewardDays(s)' = RewardDays(s) \cup {d}
                 /\ prog'.xp = prog.xp + award
<1> DEFINE g == Granted(ledger[d][s], award, TRUE)
<1>1. ledger[d][s] \in Nat
  BY DEF TypeOK, Sources
<1>2. g = IF ledger[d][s] > 0 THEN 0 ELSE award
  BY DEF Granted
<1>3. g \in Nat
  BY <1>1, GrantedType
<1>4. prog'.xp = prog.xp + g
  <2>1. prog' = RecordOn(prog, d, lv, g)
    BY DEF RecordActivity
  <2> HIDE DEF g
  <2> QED BY <2>1, <1>3, RecordXp
<1>5. ledger' = [ledger EXCEPT ![d][s] = @ + g]
  BY DEF RecordActivity
<1> HIDE DEF g
<1>6. \A e \in Days, o \in Sources :
        ledger'[e][o] = IF e = d /\ o = s THEN ledger[d][s] + g ELSE ledger[e][o]
  BY <1>5 DEF TypeOK, Sources
<1>7. \A o \in {"review", "drill"} \ {s} : RewardDays(o)' = RewardDays(o)
  BY <1>6 DEF RewardDays, Sources
<1>8. CASE ledger[d][s] > 0
  <2>1. g = 0
    BY <1>2, <1>8
  <2>2. prog'.xp = prog.xp
    BY <1>4, <2>1 DEF TypeOK, ProgressRow
  <2>3. \A e \in Days : ledger'[e][s] = ledger[e][s]
    BY <1>1, <1>6, <2>1 DEF Sources
  <2>4. RewardDays(s)' = RewardDays(s)
    BY <2>3 DEF RewardDays
  <2> QED BY <1>7, <2>2, <2>4
<1>9. CASE ~(ledger[d][s] > 0)
  <2>1. g = award /\ ledger[d][s] = 0
    BY <1>1, <1>2, <1>9
  <2>2. d \notin RewardDays(s)
    BY <1>9 DEF RewardDays
  <2>3. RewardDays(s)' = RewardDays(s) \cup {d}
    BY <1>6, <2>1 DEF RewardDays, Sources
  <2> QED BY <1>4, <1>7, <2>1, <2>2, <2>3
<1> QED BY <1>8, <1>9

\* A step that leaves the tables alone pays nothing.
LEMMA QuietPays == ASSUME UNCHANGED tables PROVE PaysNothing
BY DEF tables, PaysNothing, PassedLessons, Unpaid, NoDailyReward, RewardDays

\* A step pays one award that was not paid before, or nothing.
LEMMA StepPays ==
    ASSUME TypeOK, [Next]_vars
    PROVE  \/ PaysNothing
           \/ \E l \in Lessons : PaysLesson(l)
           \/ \E s \in Sets : PaysSet(s)
           \/ \E x \in Exams : PaysExam(x)
           \/ \E d \in Days : PaysReview(d)
           \/ \E d \in Days : PaysDrill(d)
<1> DEFINE Goal == \/ PaysNothing
                   \/ \E l \in Lessons : PaysLesson(l)
                   \/ \E s \in Sets : PaysSet(s)
                   \/ \E x \in Exams : PaysExam(x)
                   \/ \E d \in Days : PaysReview(d)
                   \/ \E d \in Days : PaysDrill(d)
<1> SUFFICES Goal
  OBVIOUS
<1>0. today \in Days /\ 1 \in Levels
  BY DEF TypeOK, Levels
<1>1. CASE UNCHANGED tables
  BY <1>1, QuietPays
<1>2. ASSUME NEW s \in Sets, PassSet(s) PROVE Goal
  <2>1. SetLevel[s] \in Levels /\ COMPREHENSION_XP \in Nat
    BY ProgressAssumption DEF COMPREHENSION_XP
  <2>2. prog'.xp = prog.xp + COMPREHENSION_XP /\ NoDailyReward
    BY <1>0, <1>2, <2>1, RecordUnit DEF PassSet
  <2>3. PaysSet(s)
    BY <1>2, <2>2 DEF PassSet, ClaimsSet, PaysSet, PassedLessons
  <2> QED BY <2>3
<1>3. ASSUME NEW r \in Reqs, CommitPass(r) PROVE Goal
  <2> DEFINE l == req[r].on
             award == IF FirstPass(l) THEN XP_PER_LESSON ELSE 0
  <2>1. l \in Lessons /\ LessonLevel[l] \in Levels
    BY <1>3, LessonSlot DEF CommitPass, LessonStages
  <2>2. award \in Nat
    BY DEF XP_PER_LESSON
  <2>3. prog'.xp = prog.xp + award /\ NoDailyReward
    <3>1. RecordActivity(today, LessonLevel[l], "lesson", award, FALSE)
      BY <1>3 DEF CommitPass
    <3> HIDE DEF l, award
    <3> QED BY <1>0, <2>1, <2>2, <3>1, RecordUnit
  <2>4. lesson' = [lesson EXCEPT ![l].passed = TRUE] /\ Unpaid
    BY <1>3 DEF CommitPass, Unpaid
  <2>5. PassedLessons' = PassedLessons \cup {l}
    BY <2>1, <2>4 DEF PassedLessons, TypeOK, LessonRow
  <2>6. CASE FirstPass(l)
    <3>1. l \notin PassedLessons /\ award = XP_PER_LESSON
      BY <2>6 DEF FirstPass, PassedLessons
    <3> HIDE DEF l, award
    <3>2. PaysLesson(l)
      BY <2>3, <2>4, <2>5, <3>1 DEF PaysLesson
    <3> QED BY <2>1, <3>2
  <2>7. CASE ~FirstPass(l)
    <3>1. PassedLessons' = PassedLessons /\ award = 0
      BY <2>1, <2>5, <2>7 DEF FirstPass, PassedLessons
    <3> HIDE DEF award
    <3>2. PaysNothing
      BY <2>3, <2>4, <3>1 DEF PaysNothing, TypeOK, ProgressRow
    <3> QED BY <3>2
  <2> QED BY <2>6, <2>7
<1>4. ASSUME NEW r \in Reqs, CommitFail(r) PROVE Goal
  <2> DEFINE l == req[r].on
  <2>1. l \in Lessons
    BY <1>4, LessonSlot DEF CommitFail, LessonStages
  <2>2. \A k \in Lessons : lesson'[k].passed = lesson[k].passed
    BY <1>4, <2>1 DEF CommitFail, FailedRow, TypeOK, LessonRow
  <2>3. prog'.xp = prog.xp
    BY <1>4 DEF CommitFail, GetOrCreate, TypeOK, ProgressRow
  <2>4. PaysNothing
    BY <1>4, <2>2, <2>3 DEF CommitFail, PaysNothing, PassedLessons, Unpaid, NoDailyReward, RewardDays
  <2> QED BY <2>4
<1>5. ASSUME NEW r \in Reqs, CommitWaive(r) PROVE Goal
  <2> DEFINE l == req[r].on
  <2>1. l \in Lessons /\ LessonLevel[l] \in Levels
    BY <1>5, LessonSlot DEF CommitWaive, LessonStages
  <2>2. req[r].day \in Days
    BY <1>5, ProgressAssumption DEF CommitWaive, TypeOK, DatedStages, Days
  <2>3. prog'.xp = prog.xp + 0 /\ NoDailyReward
    BY <1>5, <2>1, <2>2, RecordUnit DEF CommitWaive
  <2>4. \A k \in Lessons : lesson'[k].passed = lesson[k].passed
    BY <1>5, <2>1 DEF CommitWaive, TypeOK, LessonRow
  <2>5. PaysNothing
    BY <1>5, <2>3, <2>4 DEF CommitWaive, PaysNothing, PassedLessons, Unpaid, TypeOK, ProgressRow
  <2> QED BY <2>5
<1>6. ASSUME NEW r \in Reqs, CommitRewaive(r) PROVE Goal
  <2>1. prog'.xp = prog.xp
    BY <1>6 DEF CommitRewaive, TypeOK, ProgressRow
  <2>2. PaysNothing
    BY <1>6, <2>1 DEF CommitRewaive, PaysNothing, PassedLessons, Unpaid, NoDailyReward, RewardDays
  <2> QED BY <2>2
<1>7. ASSUME NEW r \in Reqs, CommitFinish(r) PROVE Goal
  <2> DEFINE x == req[r].on
  <2>1. x \in Exams /\ ExamLevel[x] \in Levels /\ EXAM_XP \in Nat
    BY <1>7, ProgressAssumption DEF CommitFinish, TypeOK, EXAM_XP
  <2>2. CASE FlipsStatus(x)
    <3>1. RecordActivity(today, ExamLevel[x], "exam", EXAM_XP, FALSE)
      BY <1>7, <2>2 DEF CommitFinish
    <3>2. prog'.xp = prog.xp + EXAM_XP /\ NoDailyReward
      BY <1>0, <2>1, <3>1, RecordUnit
    <3>3. PaysExam(x)
      BY <1>7, <2>2, <3>2 DEF CommitFinish, FlipsStatus, PaysExam, PassedLessons
    <3> QED BY <2>1, <3>3
  <2>3. CASE ~FlipsStatus(x)
    BY <1>7, <2>3 DEF CommitFinish, PaysNothing, PassedLessons, Unpaid, NoDailyReward, RewardDays
  <2> QED BY <2>2, <2>3
<1>8. ASSUME NEW r \in Reqs, CommitReview(r) PROVE Goal
  <2>1. req[r].day \in Days /\ REVIEW_XP \in Nat \ {0}
    BY <1>8, ProgressAssumption DEF CommitReview, TypeOK, DatedStages, Days, REVIEW_XP
  <2>2. /\ RewardDays("drill")' = RewardDays("drill")
        /\ \/ prog'.xp = prog.xp /\ RewardDays("review")' = RewardDays("review")
           \/ /\ req[r].day \notin RewardDays("review")
              /\ RewardDays("review")' = RewardDays("review") \cup {req[r].day}
              /\ prog'.xp = prog.xp + REVIEW_XP
    BY <1>0, <1>8, <2>1, RecordDaily DEF CommitReview
  <2>3. PassedLessons' = PassedLessons /\ Unpaid
    BY <1>8 DEF CommitReview, PassedLessons, Unpaid
  <2> QED BY <2>1, <2>2, <2>3 DEF PaysNothing, PaysReview, NoDailyReward
<1>9. ASSUME NEW r \in Reqs, CommitDrill(r) PROVE Goal
  <2>1. req[r].day \in Days /\ DRILL_XP \in Nat \ {0} /\ LessonLevel[req[r].on] \in Levels
    BY <1>9, ProgressAssumption, LessonSlot
       DEF CommitDrill, TypeOK, DatedStages, LessonStages, Days, DRILL_XP
  <2>2. /\ RewardDays("review")' = RewardDays("review")
        /\ \/ prog'.xp = prog.xp /\ RewardDays("drill")' = RewardDays("drill")
           \/ /\ req[r].day \notin RewardDays("drill")
              /\ RewardDays("drill")' = RewardDays("drill") \cup {req[r].day}
              /\ prog'.xp = prog.xp + DRILL_XP
    BY <1>9, <2>1, RecordDaily DEF CommitDrill
  <2>3. PassedLessons' = PassedLessons /\ Unpaid
    BY <1>9 DEF CommitDrill, PassedLessons, Unpaid
  <2> QED BY <2>1, <2>2, <2>3 DEF PaysNothing, PaysDrill, NoDailyReward
<1>10. ASSUME NEW r \in Reqs, NEW l \in Lessons, NEW v \in {"pass", "fail"}, SubmitLesson(r, l, v)
       PROVE  Goal
  BY <1>1, <1>10 DEF SubmitLesson, Begin
<1>11. ASSUME NEW r \in Reqs, NEW l \in Lessons, ReadForWaive(r, l) PROVE Goal
  BY <1>1, <1>11 DEF ReadForWaive, Begin
<1>12. ASSUME NEW r \in Reqs, NEW l \in Lessons, StartDrill(r, l) PROVE Goal
  BY <1>1, <1>12 DEF StartDrill, Begin
<1>13. ASSUME NEW r \in Reqs, NEW x \in Exams, StartFinish(r, x) PROVE Goal
  BY <1>1, <1>13 DEF StartFinish, Begin
<1>14. ASSUME NEW r \in Reqs, StartReview(r) PROVE Goal
  BY <1>1, <1>14 DEF StartReview, Begin
<1>15. ASSUME NEW r \in Reqs, ReadForRewaive(r) PROVE Goal
  BY <1>1, <1>15 DEF ReadForRewaive
<1>16. ASSUME NEW r \in Reqs, Die(r) PROVE Goal
  BY <1>1, <1>16 DEF Die
<1>17. CASE Midnight
  BY <1>1, <1>17 DEF Midnight
<1>18. CASE UNCHANGED vars
  BY <1>1, <1>18 DEF vars
<1> HIDE DEF Goal
<1> QED
  BY <1>2, <1>3, <1>4, <1>5, <1>6, <1>7, <1>8, <1>9, <1>10, <1>11, <1>12, <1>13,
     <1>14, <1>15, <1>16, <1>17, <1>18 DEF Next

-----------------------------------------------------------------------------
\* The total is what was earned

\* What is counted is finite.
LEMMA FiniteTables ==
    ASSUME TypeOK
    PROVE  /\ IsFiniteSet(PassedLessons) /\ IsFiniteSet(setPasses) /\ IsFiniteSet(examDone)
           /\ IsFiniteSet(RewardDays("review")) /\ IsFiniteSet(RewardDays("drill"))
<1>1. IsFiniteSet(Days)
  BY ProgressAssumption, FS_Interval DEF Days
<1>2. /\ PassedLessons \subseteq Lessons /\ setPasses \subseteq Sets /\ examDone \subseteq Exams
      /\ RewardDays("review") \subseteq Days /\ RewardDays("drill") \subseteq Days
  BY DEF PassedLessons, RewardDays, TypeOK
<1> QED BY <1>1, <1>2, ProgressAssumption, FS_Subset

\* Every step moves the total by what it adds to the counted sets.
LEMMA EarnedStep ==
    ASSUME TypeOK, XpIsEarned, [Next]_vars
    PROVE  XpIsEarned'
<1> DEFINE p  == Cardinality(PassedLessons)
           c  == Cardinality(setPasses)
           x  == Cardinality(examDone)
           rv == Cardinality(RewardDays("review"))
           dr == Cardinality(RewardDays("drill"))
<1>1. p \in Nat /\ c \in Nat /\ x \in Nat /\ rv \in Nat /\ dr \in Nat
  BY FiniteTables, FS_CardinalityType
<1>2. prog.xp = 10 * p + 15 * c + 25 * x + 10 * rv + 10 * dr
  BY DEF XpIsEarned, XP_PER_LESSON, COMPREHENSION_XP, EXAM_XP, REVIEW_XP, DRILL_XP
<1>3. SUFFICES prog'.xp = 10 * p' + 15 * c' + 25 * x' + 10 * rv' + 10 * dr'
  BY DEF XpIsEarned, XP_PER_LESSON, COMPREHENSION_XP, EXAM_XP, REVIEW_XP, DRILL_XP
<1>4. CASE PaysNothing
  BY <1>2, <1>4 DEF PaysNothing, Unpaid, NoDailyReward
<1>5. ASSUME NEW l \in Lessons, PaysLesson(l) PROVE prog'.xp = 10 * p' + 15 * c' + 25 * x' + 10 * rv' + 10 * dr'
  <2>1. p' = p + 1
    BY <1>5, FiniteTables, FS_AddElement DEF PaysLesson
  <2>2. c' = c /\ x' = x /\ rv' = rv /\ dr' = dr /\ prog'.xp = prog.xp + 10
    BY <1>5 DEF PaysLesson, Unpaid, NoDailyReward, XP_PER_LESSON
  <2> HIDE DEF p, c, x, rv, dr
  <2> QED BY <1>1, <1>2, <2>1, <2>2
<1>6. ASSUME NEW s \in Sets, PaysSet(s) PROVE prog'.xp = 10 * p' + 15 * c' + 25 * x' + 10 * rv' + 10 * dr'
  <2>1. c' = c + 1
    BY <1>6, FiniteTables, FS_AddElement DEF PaysSet
  <2>2. p' = p /\ x' = x /\ rv' = rv /\ dr' = dr /\ prog'.xp = prog.xp + 15
    BY <1>6 DEF PaysSet, NoDailyReward, COMPREHENSION_XP
  <2> HIDE DEF p, c, x, rv, dr
  <2> QED BY <1>1, <1>2, <2>1, <2>2
<1>7. ASSUME NEW e \in Exams, PaysExam(e) PROVE prog'.xp = 10 * p' + 15 * c' + 25 * x' + 10 * rv' + 10 * dr'
  <2>1. x' = x + 1
    BY <1>7, FiniteTables, FS_AddElement DEF PaysExam
  <2>2. p' = p /\ c' = c /\ rv' = rv /\ dr' = dr /\ prog'.xp = prog.xp + 25
    BY <1>7 DEF PaysExam, NoDailyReward, EXAM_XP
  <2> HIDE DEF p, c, x, rv, dr
  <2> QED BY <1>1, <1>2, <2>1, <2>2
<1>8. ASSUME NEW d \in Days, PaysReview(d) PROVE prog'.xp = 10 * p' + 15 * c' + 25 * x' + 10 * rv' + 10 * dr'
  <2>1. rv' = rv + 1
    BY <1>8, FiniteTables, FS_AddElement DEF PaysReview
  <2>2. p' = p /\ c' = c /\ x' = x /\ dr' = dr /\ prog'.xp = prog.xp + 10
    BY <1>8 DEF PaysReview, Unpaid, REVIEW_XP
  <2> HIDE DEF p, c, x, rv, dr
  <2> QED BY <1>1, <1>2, <2>1, <2>2
<1>9. ASSUME NEW d \in Days, PaysDrill(d) PROVE prog'.xp = 10 * p' + 15 * c' + 25 * x' + 10 * rv' + 10 * dr'
  <2>1. dr' = dr + 1
    BY <1>9, FiniteTables, FS_AddElement DEF PaysDrill
  <2>2. p' = p /\ c' = c /\ x' = x /\ rv' = rv /\ prog'.xp = prog.xp + 10
    BY <1>9 DEF PaysDrill, Unpaid, DRILL_XP
  <2> HIDE DEF p, c, x, rv, dr
  <2> QED BY <1>1, <1>2, <2>1, <2>2
<1> QED BY <1>4, <1>5, <1>6, <1>7, <1>8, <1>9, StepPays

\* Initially nothing is counted and the total is zero.
LEMMA EarnedInit == Init => XpIsEarned
<1> SUFFICES ASSUME Init PROVE XpIsEarned
  OBVIOUS
<1>1. /\ PassedLessons = {} /\ setPasses = {} /\ examDone = {}
      /\ RewardDays("review") = {} /\ RewardDays("drill") = {} /\ prog.xp = 0
  BY DEF Init, PassedLessons, RewardDays, NoProgress, Sources
<1>2. Cardinality({}) = 0
  BY FS_EmptySet
<1> QED BY <1>1, <1>2 DEF XpIsEarned, XP_PER_LESSON, COMPREHENSION_XP, EXAM_XP, REVIEW_XP, DRILL_XP

\* The learner's total is ten for each lesson passed, fifteen for each set, twenty-five
\* for each exam and ten for each day with a review and each day with a drill.
THEOREM XpEarned == Spec => []XpIsEarned
<1>1. Init => XpIsEarned
  BY EarnedInit
<1>2. TypeOK /\ XpIsEarned /\ [Next]_vars => XpIsEarned'
  BY EarnedStep
<1> QED BY <1>1, <1>2, TypeCorrect, PTL DEF Spec

-----------------------------------------------------------------------------
\* The endpoints implement the abstract payment of awards

\* What each kind of award is worth.
LEMMA WorthOf ==
    /\ \A l \in Lessons : <<"lesson", l>> \in Awards /\ Worth[<<"lesson", l>>] = XP_PER_LESSON
    /\ \A s \in Sets : <<"comprehension", s>> \in Awards /\ Worth[<<"comprehension", s>>] = COMPREHENSION_XP
    /\ \A x \in Exams : <<"exam", x>> \in Awards /\ Worth[<<"exam", x>>] = EXAM_XP
    /\ \A d \in Days : <<"review", d>> \in Awards /\ Worth[<<"review", d>>] = REVIEW_XP
    /\ \A d \in Days : <<"drill", d>> \in Awards /\ Worth[<<"drill", d>>] = DRILL_XP
BY DEF Awards, Worth

\* The steps of the endpoints are steps of the abstract specification.
LEMMA AwardsStep == TypeOK /\ [Next]_vars => [Xp!Next]_<<PaidAwards, prog.xp>>
<1> SUFFICES ASSUME TypeOK, [Next]_vars PROVE [Xp!Next]_<<PaidAwards, prog.xp>>
  OBVIOUS
<1>1. CASE PaysNothing
  BY <1>1 DEF PaysNothing, Unpaid, NoDailyReward, PaidAwards
<1>2. ASSUME NEW a \in Awards, a \notin PaidAwards, PaidAwards' = PaidAwards \cup {a},
             prog'.xp = prog.xp + Worth[a]
      PROVE  Xp!Next
  BY <1>2 DEF Xp!Next, Xp!Pay
<1>3. ASSUME NEW l \in Lessons, PaysLesson(l) PROVE Xp!Next
  <2> DEFINE a == <<"lesson", l>>
  <2>1. a \notin PaidAwards /\ PaidAwards' = PaidAwards \cup {a}
    BY <1>3 DEF PaysLesson, Unpaid, NoDailyReward, PaidAwards
  <2>2. a \in Awards /\ prog'.xp = prog.xp + Worth[a]
    BY <1>3, WorthOf DEF PaysLesson
  <2> QED BY <1>2, <2>1, <2>2
<1>4. ASSUME NEW s \in Sets, PaysSet(s) PROVE Xp!Next
  <2> DEFINE a == <<"comprehension", s>>
  <2>1. a \notin PaidAwards /\ PaidAwards' = PaidAwards \cup {a}
    BY <1>4 DEF PaysSet, NoDailyReward, PaidAwards
  <2>2. a \in Awards /\ prog'.xp = prog.xp + Worth[a]
    BY <1>4, WorthOf DEF PaysSet
  <2> QED BY <1>2, <2>1, <2>2
<1>5. ASSUME NEW x \in Exams, PaysExam(x) PROVE Xp!Next
  <2> DEFINE a == <<"exam", x>>
  <2>1. a \notin PaidAwards /\ PaidAwards' = PaidAwards \cup {a}
    BY <1>5 DEF PaysExam, NoDailyReward, PaidAwards
  <2>2. a \in Awards /\ prog'.xp = prog.xp + Worth[a]
    BY <1>5, WorthOf DEF PaysExam
  <2> QED BY <1>2, <2>1, <2>2
<1>6. ASSUME NEW d \in Days, PaysReview(d) PROVE Xp!Next
  <2> DEFINE a == <<"review", d>>
  <2>1. a \notin PaidAwards /\ PaidAwards' = PaidAwards \cup {a}
    BY <1>6 DEF PaysReview, Unpaid, PaidAwards
  <2>2. a \in Awards /\ prog'.xp = prog.xp + Worth[a]
    BY <1>6, WorthOf DEF PaysReview
  <2> QED BY <1>2, <2>1, <2>2
<1>7. ASSUME NEW d \in Days, PaysDrill(d) PROVE Xp!Next
  <2> DEFINE a == <<"drill", d>>
  <2>1. a \notin PaidAwards /\ PaidAwards' = PaidAwards \cup {a}
    BY <1>7 DEF PaysDrill, Unpaid, PaidAwards
  <2>2. a \in Awards /\ prog'.xp = prog.xp + Worth[a]
    BY <1>7, WorthOf DEF PaysDrill
  <2> QED BY <1>2, <2>1, <2>2
<1> QED BY <1>1, <1>3, <1>4, <1>5, <1>6, <1>7, StepPays

\* The empty tables stand for no award paid.
LEMMA AwardsInit == Init => Xp!Init
<1> SUFFICES ASSUME Init PROVE Xp!Init
  OBVIOUS
<1>1. /\ PassedLessons = {} /\ setPasses = {} /\ examDone = {}
      /\ RewardDays("review") = {} /\ RewardDays("drill") = {} /\ prog.xp = 0
  BY DEF Init, PassedLessons, RewardDays, NoProgress, Sources
<1> QED BY <1>1 DEF Xp!Init, PaidAwards

\* What the five endpoints do to the learner's total is what XpAwards promises: an
\* award is paid at most once, in full, and at the moment it is recorded as paid.
THEOREM AwardsImplemented == Spec => ImplementsAwards
<1>1. Spec => Xp!Spec
  BY AwardsInit, AwardsStep, TypeCorrect, PTL DEF Spec, Xp!Spec
<1> QED BY <1>1 DEF ImplementsAwards

(***************************************************************************)
(* The learning path: gates read before the write still hold when the      *)
(* write lands, waivers are earned, levels only rise.  The one fact behind *)
(* them is that completed lessons are never uncompleted and gating is      *)
(* monotone in them.                                                       *)
(***************************************************************************)

-----------------------------------------------------------------------------
\* Gating is monotone

\* With more lessons done, more units are complete.
LEMMA CompleteMonotone ==
    ASSUME NEW D, NEW E, D \subseteq E, NEW lv
    PROVE  CompleteUnits(lv, D) \subseteq CompleteUnits(lv, E)
BY DEF CompleteUnits

\* With more lessons done, what was unlocked stays so.
LEMMA UnlockMonotone ==
    ASSUME NEW D, NEW E, D \subseteq E, NEW u, UnlockOk(u, D)
    PROVE  UnlockOk(u, E)
BY CompleteMonotone DEF UnlockOk

\* A unit that is complete stays so, one that is not locked stays unlocked.
LEMMA StatusMonotone ==
    ASSUME NEW D, NEW E, D \subseteq E, NEW u \in Units
    PROVE  /\ UnitStatus(u, D) = "complete" => UnitStatus(u, E) = "complete"
           /\ UnitStatus(u, D) # "locked" => UnitStatus(u, E) # "locked"
<1>1. CompleteUnits(UnitLevel[u], D) \subseteq CompleteUnits(UnitLevel[u], E)
  BY CompleteMonotone
<1>2. UnlockOk(u, D) => UnlockOk(u, E)
  BY UnlockMonotone
<1> QED BY <1>1, <1>2 DEF UnitStatus

\* With more lessons done, a lesson that was open stays so.
LEMMA UnlockedMonotone ==
    ASSUME NEW D, NEW E, D \subseteq E, NEW l, IsLessonUnlocked(l, D)
    PROVE  IsLessonUnlocked(l, E)
<1>1. CASE Owners(l) = {}
  BY <1>1 DEF IsLessonUnlocked
<1>2. CASE Owners(l) # {}
  <2>1. OwningUnit(l) \in Units
    BY <1>2 DEF OwningUnit, Owners, LevelUnits
  <2> QED BY <1>2, <2>1, StatusMonotone DEF IsLessonUnlocked
<1> QED BY <1>1, <1>2

-----------------------------------------------------------------------------
\* What one step does to the lesson rows

RowFrame ==
    \A l \in Lessons :
        /\ lesson[l].passed => lesson'[l].passed
        /\ lesson[l].waived => lesson'[l].waived
        /\ lesson[l].attempts <= lesson'[l].attempts
        /\ lesson'[l] # lesson[l] =>
              \E r \in Reqs : req[r].on = l /\ req[r].at \in {"pass", "fail", "waive"}
        /\ lesson'[l].waived /\ ~lesson[l].waived =>
              \E r \in Reqs : req[r].on = l /\ req[r].at = "waive"

\* A step that leaves the lesson rows alone stays within their frame.
LEMMA SameRows == ASSUME TypeOK, lesson' = lesson PROVE RowFrame
BY DEF RowFrame, TypeOK, LessonRow

\* What any step may do to the lesson rows.
LEMMA RowStep == ASSUME TypeOK, [Next]_vars PROVE RowFrame
<1>1. CASE lesson' = lesson
  BY <1>1, SameRows
<1>2. ASSUME NEW r \in Reqs, CommitPass(r) PROVE RowFrame
  <2>1. req[r].on \in Lessons
    BY <1>2, LessonSlot DEF CommitPass, LessonStages
  <2> QED BY <1>2, <2>1 DEF CommitPass, RowFrame, TypeOK, LessonRow
<1>3. ASSUME NEW r \in Reqs, CommitFail(r) PROVE RowFrame
  <2>1. req[r].on \in Lessons
    BY <1>3, LessonSlot DEF CommitFail, LessonStages
  <2> QED BY <1>3, <2>1 DEF CommitFail, FailedRow, RowFrame, TypeOK, LessonRow
<1>4. ASSUME NEW r \in Reqs, CommitWaive(r) PROVE RowFrame
  <2>1. req[r].on \in Lessons
    BY <1>4, LessonSlot DEF CommitWaive, LessonStages
  <2> QED BY <1>4, <2>1 DEF CommitWaive, RowFrame, TypeOK, LessonRow
<1>5. ASSUME NEW r \in Reqs,
             \/ \E l \in Lessons : \/ \E v \in {"pass", "fail"} : SubmitLesson(r, l, v)
                                   \/ ReadForWaive(r, l)
                                   \/ StartDrill(r, l)
             \/ \E x \in Exams : StartFinish(r, x)
             \/ StartReview(r)
      PROVE  lesson' = lesson
  BY <1>5 DEF SubmitLesson, ReadForWaive, StartDrill, StartFinish, StartReview, Begin, tables
<1>6. ASSUME NEW r \in Reqs,
             \/ ReadForRewaive(r) \/ CommitRewaive(r) \/ CommitFinish(r)
             \/ CommitReview(r) \/ CommitDrill(r) \/ Die(r)
      PROVE  lesson' = lesson
  BY <1>6 DEF ReadForRewaive, CommitRewaive, CommitFinish, CommitReview, CommitDrill, Die, tables
<1>7. ASSUME Midnight \/ (\E s \in Sets : PassSet(s)) \/ UNCHANGED vars
      PROVE  lesson' = lesson
  BY <1>7 DEF Midnight, PassSet, vars, tables
<1> QED BY <1>1, <1>2, <1>3, <1>4, <1>5, <1>6, <1>7 DEF Next

\* Completed lessons are never uncompleted.
LEMMA CompletedGrows == ASSUME RowFrame PROVE CompletedLessons \subseteq CompletedLessons'
BY DEF RowFrame, CompletedLessons

\* The path only opens.
THEOREM PathOpens == Spec => PathOnlyOpens
<1>1. TypeOK /\ [Next]_vars =>
        [\A u \in Units :
            /\ UnitStatus(u, CompletedLessons) = "complete"
                => UnitStatus(u, CompletedLessons') = "complete"
            /\ UnitStatus(u, CompletedLessons) # "locked"
                => UnitStatus(u, CompletedLessons') # "locked"]_vars
  BY RowStep, CompletedGrows, StatusMonotone
<1> QED BY <1>1, TypeCorrect, PTL DEF Spec, PathOnlyOpens

-----------------------------------------------------------------------------
\* What one step does to a request slot

\* A request at one of these stages has read its gate and will write.
PastGate == {"pass", "fail", "waive", "rewaive", "restamp"}

NewPastGate(q) ==
    /\ q.at \in {"pass", "fail", "waive", "rewaive"}
    /\ GateOpen(q.on)
    /\ q.at = "waive" => MayWaive(lesson[q.on]) /\ ~lesson[q.on].waived
    /\ q.at = "rewaive" => lesson[q.on].waived

SlotFrame ==
    \A r \in Reqs :
        \/ req'[r] = req[r]
        \/ req'[r].at \notin PastGate
        \/ NewPastGate(req'[r])
        \/ /\ req[r].at = "rewaive"
           /\ req'[r].on = req[r].on
           /\ req'[r].at = "restamp"
           /\ req'[r].seen = prog

\* A slot that moves is within the frame if what it read to pass a gate holds now.
LEMMA SlotChange ==
    ASSUME TypeOK, NEW r \in Reqs, NEW q, req' = [req EXCEPT ![r] = q],
           q.at \notin PastGate \/ NewPastGate(q)
    PROVE  SlotFrame
BY DEF SlotFrame, TypeOK

\* A slot that finishes has nothing left that it read.
LEMMA SlotDone == ASSUME TypeOK, NEW r \in Reqs, Done(r) PROVE SlotFrame
BY SlotChange DEF Done, Idle, PastGate

\* A slot that begins read what holds now.
LEMMA SlotBegin ==
    ASSUME TypeOK, NEW r \in Reqs, NEW at, NEW on, NEW day, Begin(r, at, on, day),
           at \notin PastGate
             \/ NewPastGate([at |-> at, on |-> on, day |-> day, seen |-> NoProgress])
    PROVE  SlotFrame
BY SlotChange DEF Begin

\* What any step may do to the slots.
LEMMA SlotStep == ASSUME TypeOK, [Next]_vars PROVE SlotFrame
<1>1. CASE req' = req
  BY <1>1 DEF SlotFrame
<1>2. ASSUME NEW r \in Reqs, Done(r) PROVE SlotFrame
  BY <1>2, SlotDone
<1>3. ASSUME NEW r \in Reqs, NEW l \in Lessons, NEW v \in {"pass", "fail"}, SubmitLesson(r, l, v)
      PROVE  SlotFrame
  BY <1>3, SlotBegin DEF SubmitLesson, NewPastGate
<1>4. ASSUME NEW r \in Reqs, NEW l \in Lessons, ReadForWaive(r, l) PROVE SlotFrame
  <2> DEFINE at == IF lesson[l].waived THEN "rewaive" ELSE "waive"
  <2>1. Begin(r, at, l, today) /\ GateOpen(l) /\ MayWaive(lesson[l])
    BY <1>4 DEF ReadForWaive
  <2>2. lesson[l].waived \in BOOLEAN
    BY DEF TypeOK, LessonRow
  <2>3. NewPastGate([at |-> at, on |-> l, day |-> today, seen |-> NoProgress])
    BY <2>1, <2>2 DEF NewPastGate
  <2> HIDE DEF at
  <2> QED BY <2>1, <2>3, SlotBegin
<1>5. ASSUME NEW r \in Reqs, NEW l \in Lessons, StartDrill(r, l) PROVE SlotFrame
  BY <1>5, SlotBegin DEF StartDrill, PastGate
<1>6. ASSUME NEW r \in Reqs, NEW x \in Exams, StartFinish(r, x) PROVE SlotFrame
  BY <1>6, SlotBegin DEF StartFinish, PastGate
<1>7. ASSUME NEW r \in Reqs, StartReview(r) PROVE SlotFrame
  BY <1>7, SlotBegin DEF StartReview, PastGate
<1>8. ASSUME NEW r \in Reqs, ReadForRewaive(r) PROVE SlotFrame
  <2>1. req' = [req EXCEPT ![r] = [@ EXCEPT !.at = "restamp", !.seen = prog]]
    BY <1>8 DEF ReadForRewaive
  <2> QED BY <1>8, <2>1 DEF ReadForRewaive, SlotFrame, TypeOK, Request
<1>9. ASSUME NEW r \in Reqs,
             \/ CommitPass(r) \/ CommitFail(r) \/ CommitWaive(r) \/ CommitRewaive(r)
             \/ CommitFinish(r) \/ CommitReview(r) \/ CommitDrill(r) \/ Die(r)
      PROVE  Done(r)
  BY <1>9 DEF CommitPass, CommitFail, CommitWaive, CommitRewaive, CommitFinish, CommitReview,
              CommitDrill, Die
<1>10. ASSUME Midnight \/ (\E s \in Sets : PassSet(s)) \/ UNCHANGED vars
       PROVE  req' = req
  BY <1>10 DEF Midnight, PassSet, vars
<1> QED BY <1>1, <1>2, <1>3, <1>4, <1>5, <1>6, <1>7, <1>8, <1>9, <1>10 DEF Next

-----------------------------------------------------------------------------
\* Gates and waivers

\* What was true of the gate and the row when a request read them is still true
\* while it waits to write.
ReadsStillHold ==
    \A r \in Reqs :
        /\ req[r].at \in PastGate => GateOpen(req[r].on)
        /\ req[r].at = "waive" => lesson[req[r].on].attempts >= WAIVE_AFTER_ATTEMPTS
        /\ req[r].at \in {"rewaive", "restamp"} => lesson[req[r].on].waived

PathInv == ReadsStillHold /\ WaiverIsEarned /\ ResultsOnlyBehindOpenGates

\* Initially there is nothing to earn and nothing was read.
LEMMA PathInit == Init => PathInv
<1> SUFFICES ASSUME Init PROVE PathInv
  OBVIOUS
<1>1. ReadsStillHold
  BY DEF Init, Idle, ReadsStillHold, PastGate
<1>2. WaiverIsEarned /\ ResultsOnlyBehindOpenGates
  BY DEF Init, WaiverIsEarned, ResultsOnlyBehindOpenGates
<1> QED BY <1>1, <1>2 DEF PathInv

\* Whatever a slot read and decided on stays true.
LEMMA ReadsStep ==
    ASSUME TypeOK, TypeOK', [Next]_vars, ReadsStillHold
    PROVE  ReadsStillHold'
<1>1. RowFrame /\ SlotFrame
  BY RowStep, SlotStep
<1>2. \A l : GateOpen(l) => GateOpen(l)'
  BY <1>1, CompletedGrows, UnlockedMonotone DEF GateOpen
<1> SUFFICES ASSUME NEW r \in Reqs
             PROVE  /\ req'[r].at \in PastGate => GateOpen(req[r].on)'
                    /\ req'[r].at = "waive" => lesson'[req'[r].on].attempts >= WAIVE_AFTER_ATTEMPTS
                    /\ req'[r].at \in {"rewaive", "restamp"} => lesson'[req'[r].on].waived
  BY DEF ReadsStillHold
<1>3. req'[r].at \in {"waive", "rewaive", "restamp"} => req'[r].on \in Lessons
  BY DEF TypeOK, LessonStages
<1>4. \A l \in Lessons : lesson[l].attempts \in Nat /\ lesson'[l].attempts \in Nat
  BY DEF TypeOK, LessonRow
<1>5. CASE req'[r] = req[r]
  BY <1>1, <1>2, <1>3, <1>4, <1>5 DEF ReadsStillHold, RowFrame, WAIVE_AFTER_ATTEMPTS
<1>6. CASE req'[r].at \notin PastGate
  BY <1>6 DEF PastGate
<1>7. CASE NewPastGate(req'[r])
  BY <1>1, <1>2, <1>3, <1>4, <1>7 DEF NewPastGate, MayWaive, RowFrame, WAIVE_AFTER_ATTEMPTS
<1>8. CASE /\ req[r].at = "rewaive" /\ req'[r].on = req[r].on
           /\ req'[r].at = "restamp" /\ req'[r].seen = prog
  BY <1>1, <1>2, <1>3, <1>8 DEF ReadsStillHold, RowFrame, PastGate
<1> QED BY <1>1, <1>5, <1>6, <1>7, <1>8 DEF SlotFrame

\* Every step keeps waivers earned and results behind open gates.
LEMMA PathStep ==
    ASSUME TypeOK, TypeOK', [Next]_vars, PathInv
    PROVE  PathInv'
<1> USE DEF PathInv
<1>1. RowFrame
  BY RowStep
<1>2. ReadsStillHold'
  BY ReadsStep
<1>3. \A l \in Lessons : lesson[l].attempts \in Nat /\ lesson'[l].attempts \in Nat
  BY DEF TypeOK, LessonRow
<1>4. WaiverIsEarned'
  BY <1>1, <1>3 DEF WaiverIsEarned, RowFrame, ReadsStillHold, WAIVE_AFTER_ATTEMPTS
<1>5. \A l \in Lessons : IsLessonUnlocked(l, CompletedLessons) => IsLessonUnlocked(l, CompletedLessons')
  BY <1>1, CompletedGrows, UnlockedMonotone
<1>6. \A l \in Lessons : lesson'[l] # lesson[l] => IsLessonUnlocked(l, CompletedLessons)
  BY <1>1 DEF RowFrame, ReadsStillHold, GateOpen, PastGate
<1>7. ResultsOnlyBehindOpenGates'
  BY <1>5, <1>6 DEF ResultsOnlyBehindOpenGates
<1> QED BY <1>2, <1>4, <1>7

\* The inductive invariant of the path.
LEMMA PathAlways == Spec => []PathInv
<1>1. TypeOK /\ TypeOK' /\ PathInv /\ [Next]_vars => PathInv'
  BY PathStep
<1> QED BY <1>1, PathInit, TypeCorrect, PTL DEF Spec

\* The escape hatch opens only after the failed attempts it asks for.
THEOREM WaiversEarned == Spec => []WaiverIsEarned
BY PathAlways, PTL DEF PathInv

\* No result is recorded for a lesson of a unit that is locked.
THEOREM GatesHold == Spec => []ResultsOnlyBehindOpenGates
BY PathAlways, PTL DEF PathInv

-----------------------------------------------------------------------------
\* The level on the board

\* Recording an activity raises the level to the activity's, and never lowers it.
LEMMA RecordOnLevel ==
    ASSUME NEW p \in ProgressRow, NEW lv \in Levels, NEW d, NEW g
    PROVE  /\ RecordOn(p, d, lv, g).level >= p.level
           /\ RecordOn(p, d, lv, g).level >= lv
           /\ p.level >= lv => RecordOn(p, d, lv, g).level = p.level
BY DEF RecordOn, GetOrCreate, PromoteLevel, ProgressRow, Levels

\* The same of record_activity as a step.
LEMMA RecordActivityLevel ==
    ASSUME TypeOK, NEW d, NEW lv \in Levels, NEW s, NEW award, NEW once,
           RecordActivity(d, lv, s, award, once)
    PROVE  prog'.level >= prog.level /\ prog'.level >= lv
BY RecordOnLevel DEF RecordActivity, TypeOK

\* A waived lesson has raised the level to its own.  A waive that writes back a row
\* it read earlier relies on it: promoting that row changes nothing.
LevelReached ==
    /\ \A l \in Lessons : lesson[l].waived => prog.level >= LessonLevel[l]
    /\ \A r \in Reqs : req[r].at = "restamp" => req[r].seen.level >= LessonLevel[req[r].on]

LevelFrame ==
    /\ prog'.level >= prog.level
    /\ \A l \in Lessons :
          lesson'[l].waived /\ ~lesson[l].waived => prog'.level >= LessonLevel[l]

\* A step that leaves progress and lessons alone leaves the level.
LEMMA SameLevel ==
    ASSUME TypeOK, prog' = prog, lesson' = lesson
    PROVE  LevelFrame
BY DEF LevelFrame, TypeOK, ProgressRow

\* What any step may do to the level.
LEMMA LevelStep == ASSUME TypeOK, LevelReached, [Next]_vars PROVE LevelFrame
<1>1. ASSUME NEW r \in Reqs, CommitPass(r) PROVE LevelFrame
  <2>1. req[r].on \in Lessons /\ LessonLevel[req[r].on] \in Levels
    BY <1>1, LessonSlot DEF CommitPass, LessonStages
  <2>2. prog'.level >= prog.level
    BY <1>1, <2>1, RecordActivityLevel DEF CommitPass
  <2> QED BY <1>1, <2>1, <2>2 DEF CommitPass, LevelFrame, TypeOK, LessonRow
<1>2. ASSUME NEW r \in Reqs, CommitFail(r) PROVE LevelFrame
  <2>1. req[r].on \in Lessons /\ LessonLevel[req[r].on] \in Levels
    BY <1>2, LessonSlot DEF CommitFail, LessonStages
  <2>2. prog'.level >= prog.level
    BY <1>2, <2>1 DEF CommitFail, GetOrCreate, TypeOK, ProgressRow, Levels
  <2> QED BY <1>2, <2>1, <2>2 DEF CommitFail, FailedRow, LevelFrame, TypeOK, LessonRow
<1>3. ASSUME NEW r \in Reqs, CommitWaive(r) PROVE LevelFrame
  <2>1. req[r].on \in Lessons /\ LessonLevel[req[r].on] \in Levels
    BY <1>3, LessonSlot DEF CommitWaive, LessonStages
  <2>2. prog'.level >= prog.level /\ prog'.level >= LessonLevel[req[r].on]
    BY <1>3, <2>1, RecordActivityLevel DEF CommitWaive
  <2> QED BY <1>3, <2>1, <2>2 DEF CommitWaive, LevelFrame, TypeOK, LessonRow
<1>4. ASSUME NEW r \in Reqs, CommitRewaive(r) PROVE LevelFrame
  <2> DEFINE s == req[r].seen
             n == RecordOn(s, req[r].day, LessonLevel[req[r].on], 0)
  <2>1. s \in ProgressRow /\ LessonLevel[req[r].on] \in Levels
    BY <1>4, LessonSlot DEF CommitRewaive, LessonStages, TypeOK, Request
  <2>2. n.level = s.level
    BY <1>4, <2>1, RecordOnLevel DEF CommitRewaive, LevelReached
  <2>3. prog'.level = IF n.level = s.level THEN prog.level ELSE n.level
    BY <1>4 DEF CommitRewaive, TypeOK, ProgressRow
  <2>4. prog'.level = prog.level /\ lesson' = lesson
    BY <1>4, <2>2, <2>3 DEF CommitRewaive
  <2> QED BY <2>4 DEF LevelFrame, TypeOK, ProgressRow
<1>5. ASSUME NEW r \in Reqs, CommitFinish(r) PROVE LevelFrame
  <2>1. lesson' = lesson /\ ExamLevel[req[r].on] \in Levels
    BY <1>5, ProgressAssumption DEF CommitFinish, TypeOK
  <2>2. CASE FlipsStatus(req[r].on)
    BY <1>5, <2>1, <2>2, RecordActivityLevel DEF CommitFinish, LevelFrame
  <2>3. CASE ~FlipsStatus(req[r].on)
    BY <1>5, <2>1, <2>3, SameLevel DEF CommitFinish
  <2> QED BY <2>2, <2>3
<1>6. ASSUME NEW r \in Reqs, CommitReview(r) PROVE LevelFrame
  <2>1. 1 \in Levels
    BY DEF Levels
  <2> QED BY <1>6, <2>1, RecordActivityLevel DEF CommitReview, LevelFrame
<1>7. ASSUME NEW r \in Reqs, CommitDrill(r) PROVE LevelFrame
  <2>1. LessonLevel[req[r].on] \in Levels
    BY <1>7, LessonSlot DEF CommitDrill, LessonStages
  <2> QED BY <1>7, <2>1, RecordActivityLevel DEF CommitDrill, LevelFrame
<1>8. ASSUME NEW s \in Sets, PassSet(s) PROVE LevelFrame
  BY <1>8, ProgressAssumption, RecordActivityLevel DEF PassSet, LevelFrame
<1>9. ASSUME NEW r \in Reqs,
             \/ \E l \in Lessons : \/ \E v \in {"pass", "fail"} : SubmitLesson(r, l, v)
                                   \/ ReadForWaive(r, l)
                                   \/ StartDrill(r, l)
             \/ \E x \in Exams : StartFinish(r, x)
             \/ StartReview(r) \/ ReadForRewaive(r) \/ Die(r)
      PROVE  lesson' = lesson /\ prog' = prog
  BY <1>9 DEF SubmitLesson, ReadForWaive, StartDrill, StartFinish, StartReview, Begin,
              ReadForRewaive, Die, tables
<1>10. ASSUME Midnight \/ UNCHANGED vars PROVE lesson' = lesson /\ prog' = prog
  BY <1>10 DEF Midnight, vars, tables
<1> QED
  BY <1>1, <1>2, <1>3, <1>4, <1>5, <1>6, <1>7, <1>8, <1>9, <1>10, SameLevel DEF Next

\* What a waived lesson raised the level to stays reached, also by a row a slot will write back.
LEMMA ReachedStep ==
    ASSUME TypeOK, TypeOK', ReadsStillHold, LevelReached, [Next]_vars
    PROVE  LevelReached'
<1>1. LevelFrame /\ SlotFrame
  BY LevelStep, SlotStep
<1>2. prog.level \in 0..6 /\ prog'.level \in 0..6 /\ \A l \in Lessons : LessonLevel[l] \in 1..6
  BY ContentAssumption DEF TypeOK, ProgressRow, Levels
<1>3. \A l \in Lessons : lesson'[l].waived => prog'.level >= LessonLevel[l]
  BY <1>1, <1>2 DEF LevelFrame, LevelReached
<1>4. ASSUME NEW r \in Reqs, req'[r].at = "restamp"
      PROVE  req'[r].seen.level >= LessonLevel[req'[r].on]
  <2>1. CASE req'[r] = req[r]
    BY <1>4, <2>1 DEF LevelReached
  <2>2. CASE req[r].at = "rewaive" /\ req'[r].on = req[r].on /\ req'[r].seen = prog
    <3>1. req[r].on \in Lessons /\ lesson[req[r].on].waived
      BY <2>2 DEF TypeOK, LessonStages, ReadsStillHold
    <3> QED BY <2>2, <3>1 DEF LevelReached
  <2> QED BY <1>1, <1>4, <2>1, <2>2 DEF SlotFrame, PastGate, NewPastGate
<1> QED BY <1>3, <1>4 DEF LevelReached

\* The level on the board never falls.
THEOREM LevelRises == Spec => LevelNeverFalls
<1>1. Init => LevelReached
  BY DEF Init, Idle, LevelReached
<1>2. TypeOK /\ TypeOK' /\ PathInv /\ LevelReached /\ [Next]_vars => LevelReached'
  BY ReachedStep DEF PathInv
<1>3. TypeOK /\ LevelReached /\ [Next]_vars => [prog'.level >= prog.level]_vars
  BY LevelStep DEF LevelFrame
<1> QED BY <1>1, <1>2, <1>3, TypeCorrect, PathAlways, PTL DEF Spec, LevelNeverFalls

-----------------------------------------------------------------------------
\* The ledger

\* There are finitely many sources of xp.
LEMMA FiniteSources == IsFiniteSet(Sources)
<1>1. IsFiniteSet({})
  BY FS_EmptySet
<1>2. Sources = ((((({} \cup {"lesson"}) \cup {"comprehension"}) \cup {"exam"}) \cup {"review"})
                    \cup {"drill"})
  BY DEF Sources
<1> QED BY <1>1, <1>2, FS_AddElement

\* What every step may do to the ledger and the total: the same to both.
Credits(d, s, g) == ledger' = [ledger EXCEPT ![d][s] = @ + g] /\ prog'.xp = prog.xp + g

LedgerFrame ==
    \/ ledger' = ledger /\ prog'.xp = prog.xp
    \/ \E d \in Days, s \in Sources, g \in Nat : Credits(d, s, g)

\* record_activity credits the ledger and the total alike.
LEMMA RecordCredits ==
    ASSUME TypeOK, NEW d \in Days, NEW lv, NEW s \in Sources, NEW award \in Nat,
           NEW once \in BOOLEAN, RecordActivity(d, lv, s, award, once)
    PROVE  LedgerFrame
<1> DEFINE g == Granted(ledger[d][s], award, once)
<1>1. g \in Nat
  BY GrantedType DEF TypeOK
<1>2. prog'.xp = prog.xp + g
  BY DEF RecordActivity, RecordOn, GetOrCreate, TypeOK, ProgressRow
<1>3. Credits(d, s, g)
  BY <1>2 DEF RecordActivity, Credits
<1> QED BY <1>1, <1>3 DEF LedgerFrame

\* A step that leaves progress and ledger alone credits nothing.
LEMMA LedgerStep == ASSUME TypeOK, [Next]_vars PROVE LedgerFrame
<1>0. /\ today \in Days /\ \A n \in 1..today : n \in Days
      /\ "lesson" \in Sources /\ "comprehension" \in Sources /\ "exam" \in Sources
      /\ "review" \in Sources /\ "drill" \in Sources
      /\ TRUE \in BOOLEAN /\ FALSE \in BOOLEAN
      /\ 0 \in Nat /\ XP_PER_LESSON \in Nat /\ COMPREHENSION_XP \in Nat /\ EXAM_XP \in Nat
      /\ REVIEW_XP \in Nat /\ DRILL_XP \in Nat
  BY ProgressAssumption DEF TypeOK, Days, Sources, XP_PER_LESSON, COMPREHENSION_XP, EXAM_XP,
     REVIEW_XP, DRILL_XP
<1>1. ASSUME NEW r \in Reqs, CommitPass(r) PROVE LedgerFrame
  <2>1. (IF FirstPass(req[r].on) THEN XP_PER_LESSON ELSE 0) \in Nat
    BY <1>0
  <2> QED BY <1>0, <1>1, <2>1, RecordCredits DEF CommitPass
<1>2. ASSUME NEW r \in Reqs, CommitFail(r) PROVE LedgerFrame
  BY <1>2 DEF CommitFail, GetOrCreate, LedgerFrame, TypeOK, ProgressRow
<1>3. ASSUME NEW r \in Reqs, CommitWaive(r) PROVE LedgerFrame
  <2>1. req[r].day \in Days
    BY <1>0, <1>3 DEF CommitWaive, TypeOK, DatedStages
  <2> QED BY <1>0, <1>3, <2>1, RecordCredits DEF CommitWaive
<1>4. ASSUME NEW r \in Reqs, CommitRewaive(r) PROVE LedgerFrame
  BY <1>4 DEF CommitRewaive, LedgerFrame, TypeOK, ProgressRow
<1>5. ASSUME NEW r \in Reqs, CommitFinish(r) PROVE LedgerFrame
  <2>1. CASE FlipsStatus(req[r].on)
    BY <1>0, <1>5, <2>1, RecordCredits DEF CommitFinish
  <2>2. CASE ~FlipsStatus(req[r].on)
    BY <1>5, <2>2 DEF CommitFinish, LedgerFrame
  <2> QED BY <2>1, <2>2
<1>6. ASSUME NEW r \in Reqs, CommitReview(r) PROVE LedgerFrame
  <2>1. req[r].day \in Days
    BY <1>0, <1>6 DEF CommitReview, TypeOK, DatedStages
  <2> QED BY <1>0, <1>6, <2>1, RecordCredits DEF CommitReview
<1>7. ASSUME NEW r \in Reqs, CommitDrill(r) PROVE LedgerFrame
  <2>1. req[r].day \in Days
    BY <1>0, <1>7 DEF CommitDrill, TypeOK, DatedStages
  <2> QED BY <1>0, <1>7, <2>1, RecordCredits DEF CommitDrill
<1>8. ASSUME NEW s \in Sets, PassSet(s) PROVE LedgerFrame
  BY <1>0, <1>8, RecordCredits DEF PassSet
<1>9. ASSUME NEW r \in Reqs,
             \/ \E l \in Lessons : \/ \E v \in {"pass", "fail"} : SubmitLesson(r, l, v)
                                   \/ ReadForWaive(r, l)
                                   \/ StartDrill(r, l)
             \/ \E x \in Exams : StartFinish(r, x)
             \/ StartReview(r) \/ ReadForRewaive(r) \/ Die(r)
      PROVE  LedgerFrame
  BY <1>9 DEF SubmitLesson, ReadForWaive, StartDrill, StartFinish, StartReview, Begin,
              ReadForRewaive, Die, tables, LedgerFrame
<1>10. ASSUME Midnight \/ UNCHANGED vars PROVE LedgerFrame
  BY <1>10 DEF Midnight, vars, tables, LedgerFrame
<1> QED
  BY <1>1, <1>2, <1>3, <1>4, <1>5, <1>6, <1>7, <1>8, <1>9, <1>10 DEF Next

\* The empty ledger adds up to the empty total.
LEMMA LedgerInit == Init => LedgerAddsUp
<1> SUFFICES ASSUME Init PROVE LedgerAddsUp
  OBVIOUS
<1>1. IsFiniteSet(Days) /\ IsFiniteSet(Sources)
  <2>1. IsFiniteSet(Days)
    BY ProgressAssumption, FS_Interval DEF Days
  <2> QED BY <2>1, FiniteSources
<1>2. SumFunction([s \in Sources |-> 0]) = 0 /\ SumFunction([d \in Days |-> 0]) = 0
  BY <1>1, SumOfZeros
<1>3. \A d \in Days : ledger[d] = [s \in Sources |-> 0]
  BY DEF Init
<1>4. [d \in Days |-> SumFunction(ledger[d])] = [d \in Days |-> 0]
  BY <1>2, <1>3
<1>5. prog.xp = 0
  BY DEF Init, NoProgress
<1> QED BY <1>2, <1>4, <1>5 DEF LedgerAddsUp

\* A credit to the ledger and the total leaves them equal.
LEMMA LedgerStays == ASSUME TypeOK, TypeOK', LedgerAddsUp, [Next]_vars PROVE LedgerAddsUp'
<1> DEFINE f == [d \in Days |-> SumFunction(ledger[d])]
           h == [d \in Days |-> SumFunction(ledger'[d])]
<1>1. IsFiniteSet(Days) /\ IsFiniteSet(Sources)
  <2>1. IsFiniteSet(Days)
    BY ProgressAssumption, FS_Interval DEF Days
  <2> QED BY <2>1, FiniteSources
<1>2. \A d \in Days : ledger[d] \in [Sources -> Int] /\ ledger'[d] \in [Sources -> Int]
  BY DEF TypeOK
<1>3. \A d \in Days : SumFunction(ledger[d]) \in Int /\ SumFunction(ledger'[d]) \in Int
  BY <1>1, <1>2, SumType
<1>4. f \in [Days -> Int] /\ h \in [Days -> Int]
  BY <1>3
<1>5. CASE ledger' = ledger /\ prog'.xp = prog.xp
  BY <1>5 DEF LedgerAddsUp
<1>6. ASSUME NEW d \in Days, NEW s \in Sources, NEW g \in Nat, Credits(d, s, g)
      PROVE  prog'.xp = SumFunction(h)
  <2>1. /\ ledger'[d][s] = ledger[d][s] + g
        /\ \A t \in Sources \ {s} : ledger'[d][t] = ledger[d][t]
        /\ \A e \in Days \ {d} : ledger'[e] = ledger[e]
    BY <1>6 DEF Credits, TypeOK
  <2>2. SumFunction(ledger'[d]) = SumFunction(ledger[d]) + ledger'[d][s] - ledger[d][s]
    BY <1>1, <1>2, <2>1, SumUpdate
  <2>3. SumFunction(ledger'[d]) = SumFunction(ledger[d]) + g
    BY <1>2, <1>3, <2>1, <2>2
  <2>4. h[d] = f[d] + g /\ \A e \in Days \ {d} : h[e] = f[e]
    BY <2>1, <2>3
  <2> HIDE DEF f, h
  <2>5. SumFunction(h) = SumFunction(f) + h[d] - f[d]
    BY <1>1, <1>4, <2>4, SumUpdate
  <2>6. f[d] \in Int /\ SumFunction(f) \in Int
    BY <1>1, <1>4, SumType
  <2>7. SumFunction(h) = SumFunction(f) + g
    BY <2>4, <2>5, <2>6
  <2>8. prog'.xp = prog.xp + g /\ prog.xp = SumFunction(f)
    BY <1>6 DEF Credits, LedgerAddsUp, f
  <2> QED BY <2>7, <2>8
<1>7. LedgerFrame
  BY LedgerStep
<1> QED BY <1>5, <1>6, <1>7 DEF LedgerFrame, LedgerAddsUp

\* The rows of the ledger, whatever days and sources they are of, add up to the total.
THEOREM LedgerAgrees == Spec => []LedgerAddsUp
<1>1. Init => LedgerAddsUp
  BY LedgerInit
<1>2. TypeOK /\ TypeOK' /\ LedgerAddsUp /\ [Next]_vars => LedgerAddsUp'
  BY LedgerStays
<1> QED BY <1>1, <1>2, TypeCorrect, PTL DEF Spec

-----------------------------------------------------------------------------
\* The streak

\* The streak is the length of the run of active days that ends on the last one.
RunInv ==
    /\ activeDays \subseteq 1..today
    /\ prog.last = 0 => activeDays = {}
    /\ prog.last # 0 =>
        /\ prog.streak >= 1
        /\ (prog.last - prog.streak + 1) .. prog.last \subseteq activeDays
        /\ (prog.last - prog.streak) \notin activeDays
        /\ \A d \in activeDays : d <= prog.last

\* A row read today to be written back is the row as it is, or as it was before the
\* first activity of today.
SeenInv ==
    \A r \in Reqs : req[r].at = "restamp" /\ req[r].day = today =>
        LET s == req[r].seen IN
        \/ prog.streak = s.streak /\ prog.last = s.last
        \/ prog.streak = ComputeStreak(s.streak, s.last, today) /\ prog.last = today

StreakInv == ~straddled => RunInv /\ SeenInv

\* An activity of today is stamped on the row; other steps leave streak and days alone.
Stamps ==
    /\ today' = today
    /\ prog'.streak = ComputeStreak(prog.streak, prog.last, today) /\ prog'.last = today
    /\ activeDays' = activeDays \cup {today}

Keeps ==
    /\ today' = today \/ today' = today + 1
    /\ prog'.streak = prog.streak /\ prog'.last = prog.last
    /\ activeDays' = activeDays

StreakFrame == straddled' \/ (~straddled /\ (Stamps \/ Keeps))

\* record_activity stamps today, unless the day it was given is over.
LEMMA RecordStamps ==
    ASSUME TypeOK, NEW d \in 1..today, NEW lv, NEW s, NEW award, NEW once,
           RecordActivity(d, lv, s, award, once), today' = today
    PROVE  StreakFrame
<1>1. straddled' = (straddled \/ d < today)
  BY DEF RecordActivity
<1>2. CASE straddled'
  BY <1>2 DEF StreakFrame
<1>3. CASE ~straddled'
  <2>1. d = today /\ ~straddled
    <3>1. ~straddled /\ ~(d < today)
      BY <1>1, <1>3
    <3> QED BY <3>1 DEF TypeOK, Days
  <2>2. /\ prog'.streak = ComputeStreak(prog.streak, prog.last, today) /\ prog'.last = today
        /\ activeDays' = activeDays \cup {today}
    BY <2>1 DEF RecordActivity, RecordOn, GetOrCreate, TypeOK, ProgressRow
  <2> QED BY <2>1, <2>2 DEF StreakFrame, Stamps
<1> QED BY <1>2, <1>3

\* Writing back a row that was read today comes to the same.
LEMMA RewaiveStamps ==
    ASSUME TypeOK, StreakInv, NEW r \in Reqs, CommitRewaive(r)
    PROVE  StreakFrame
<1> DEFINE s == req[r].seen
           n == RecordOn(s, req[r].day, LessonLevel[req[r].on], 0)
<1>1. /\ straddled' = (straddled \/ req[r].day < today) /\ today' = today
      /\ activeDays' = activeDays \cup {req[r].day}
  BY DEF CommitRewaive
<1>2. CASE straddled'
  BY <1>2 DEF StreakFrame
<1>3. CASE ~straddled'
  <2>1. req[r].day = today /\ ~straddled /\ today \in Nat \ {0}
    <3>1. ~straddled /\ ~(req[r].day < today)
      BY <1>1, <1>3
    <3> QED BY <3>1 DEF CommitRewaive, TypeOK, DatedStages, Days
  <2>2. s \in ProgressRow
    BY DEF TypeOK, Request
  <2>3. n.streak = ComputeStreak(s.streak, s.last, today) /\ n.last = today
    BY <2>1, <2>2 DEF RecordOn, GetOrCreate, ProgressRow
  <2>4. /\ prog'.streak = IF n.streak = s.streak THEN prog.streak ELSE n.streak
        /\ prog'.last = IF n.last = s.last THEN prog.last ELSE n.last
    BY DEF CommitRewaive, TypeOK, ProgressRow
  <2> HIDE DEF s, n
  <2>5. \/ prog.streak = s.streak /\ prog.last = s.last
        \/ prog.streak = ComputeStreak(s.streak, s.last, today) /\ prog.last = today
    BY <2>1 DEF StreakInv, SeenInv, CommitRewaive, s
  <2>6. /\ prog'.streak = ComputeStreak(prog.streak, prog.last, today)
        /\ prog'.last = today
    BY <2>1, <2>3, <2>4, <2>5 DEF ComputeStreak
  <2> QED BY <1>1, <2>1, <2>6 DEF StreakFrame, Stamps
<1> QED BY <1>2, <1>3

\* What any step may do to the streak.
LEMMA StreakStep == ASSUME TypeOK, StreakInv, [Next]_vars PROVE StreakFrame
<1>1. CASE Keeps /\ straddled' = straddled
  BY <1>1 DEF StreakFrame
<1>2. today \in 1..today
  BY DEF TypeOK, Days
<1>3. ASSUME NEW r \in Reqs, req[r].at \in DatedStages PROVE req[r].day \in 1..today
  BY <1>3 DEF TypeOK
<1>4. ASSUME NEW r \in Reqs, CommitPass(r) PROVE StreakFrame
  BY <1>2, <1>4, RecordStamps DEF CommitPass
<1>5. ASSUME NEW r \in Reqs, CommitFail(r) PROVE StreakFrame
  <2>1. Keeps /\ straddled' = straddled
    BY <1>5 DEF CommitFail, GetOrCreate, Keeps, TypeOK, ProgressRow
  <2> QED BY <1>1, <2>1
<1>6. ASSUME NEW r \in Reqs, CommitWaive(r) PROVE StreakFrame
  <2>1. req[r].day \in 1..today
    BY <1>3, <1>6 DEF CommitWaive, DatedStages
  <2> QED BY <1>6, <2>1, RecordStamps DEF CommitWaive
<1>7. ASSUME NEW r \in Reqs, CommitRewaive(r) PROVE StreakFrame
  BY <1>7, RewaiveStamps
<1>8. ASSUME NEW r \in Reqs, CommitFinish(r) PROVE StreakFrame
  <2>1. CASE FlipsStatus(req[r].on)
    BY <1>2, <1>8, <2>1, RecordStamps DEF CommitFinish
  <2>2. CASE ~FlipsStatus(req[r].on)
    BY <1>1, <1>8, <2>2 DEF CommitFinish, Keeps
  <2> QED BY <2>1, <2>2
<1>9. ASSUME NEW r \in Reqs, CommitReview(r) PROVE StreakFrame
  <2>1. req[r].day \in 1..today
    BY <1>3, <1>9 DEF CommitReview, DatedStages
  <2> QED BY <1>9, <2>1, RecordStamps DEF CommitReview
<1>10. ASSUME NEW r \in Reqs, CommitDrill(r) PROVE StreakFrame
  <2>1. req[r].day \in 1..today
    BY <1>3, <1>10 DEF CommitDrill, DatedStages
  <2> QED BY <1>10, <2>1, RecordStamps DEF CommitDrill
<1>11. ASSUME NEW s \in Sets, PassSet(s) PROVE StreakFrame
  BY <1>2, <1>11, RecordStamps DEF PassSet
<1>12. ASSUME NEW r \in Reqs,
              \/ \E l \in Lessons : \/ \E v \in {"pass", "fail"} : SubmitLesson(r, l, v)
                                    \/ ReadForWaive(r, l)
                                    \/ StartDrill(r, l)
              \/ \E x \in Exams : StartFinish(r, x)
              \/ StartReview(r) \/ ReadForRewaive(r) \/ Die(r)
       PROVE  Keeps /\ straddled' = straddled
  BY <1>12 DEF SubmitLesson, ReadForWaive, StartDrill, StartFinish, StartReview, Begin,
               ReadForRewaive, Die, tables, Keeps
<1>13. ASSUME Midnight \/ UNCHANGED vars PROVE Keeps /\ straddled' = straddled
  BY <1>13 DEF Midnight, vars, tables, Keeps
<1> QED
  BY <1>1, <1>4, <1>5, <1>6, <1>7, <1>8, <1>9, <1>10, <1>11, <1>12, <1>13 DEF Next

\* A request keeps the day it took and the row it read.
SeenFrame ==
    \A r \in Reqs : req'[r].at = "restamp" =>
        req'[r] = req[r] \/ (req'[r].seen = prog /\ UNCHANGED <<today, prog>>)

\* What any step may do to a row about to be written back.
LEMMA SeenStep == ASSUME TypeOK, [Next]_vars PROVE SeenFrame
<1>1. ASSUME NEW r \in Reqs, NEW q, req' = [req EXCEPT ![r] = q], q.at # "restamp"
      PROVE  SeenFrame
  BY <1>1 DEF SeenFrame, TypeOK
<1>2. ASSUME NEW r \in Reqs, Done(r) PROVE SeenFrame
  <2>1. req' = [req EXCEPT ![r] = Idle] /\ Idle.at # "restamp"
    BY <1>2 DEF Done, Idle
  <2> QED BY <1>1, <2>1
<1>3. ASSUME NEW r \in Reqs, NEW at, NEW on, NEW d, Begin(r, at, on, d), at # "restamp"
      PROVE  SeenFrame
  <2> DEFINE q == [at |-> at, on |-> on, day |-> d, seen |-> NoProgress]
  <2>1. req' = [req EXCEPT ![r] = q] /\ q.at # "restamp"
    BY <1>3 DEF Begin
  <2> HIDE DEF q
  <2> QED BY <1>1, <2>1
<1>4. ASSUME NEW r \in Reqs, ReadForRewaive(r) PROVE SeenFrame
  BY <1>4 DEF ReadForRewaive, SeenFrame, TypeOK, Request, tables
<1>5. ASSUME NEW r \in Reqs, NEW l \in Lessons,
             \/ \E v \in {"pass", "fail"} : SubmitLesson(r, l, v)
             \/ ReadForWaive(r, l) \/ StartDrill(r, l)
      PROVE  SeenFrame
  BY <1>3, <1>5 DEF SubmitLesson, ReadForWaive, StartDrill
<1>6. ASSUME NEW r \in Reqs, (\E x \in Exams : StartFinish(r, x)) \/ StartReview(r)
      PROVE  SeenFrame
  BY <1>3, <1>6 DEF StartFinish, StartReview
<1>7. ASSUME NEW r \in Reqs,
             \/ CommitPass(r) \/ CommitFail(r) \/ CommitWaive(r) \/ CommitRewaive(r)
             \/ CommitFinish(r) \/ CommitReview(r) \/ CommitDrill(r) \/ Die(r)
      PROVE  Done(r)
  BY <1>7 DEF CommitPass, CommitFail, CommitWaive, CommitRewaive, CommitFinish, CommitReview,
              CommitDrill, Die
<1>8. ASSUME Midnight \/ (\E s \in Sets : PassSet(s)) \/ UNCHANGED vars PROVE req' = req
  BY <1>8 DEF Midnight, PassSet, vars
<1>9. CASE req' = req
  BY <1>9 DEF SeenFrame
<1> QED BY <1>2, <1>4, <1>5, <1>6, <1>7, <1>8, <1>9 DEF Next

\* Every step keeps the streak the run of active days.
LEMMA RunStep ==
    ASSUME TypeOK, StreakInv, [Next]_vars
    PROVE  StreakInv'
<1> SUFFICES ASSUME ~straddled' PROVE RunInv' /\ SeenInv'
  BY DEF StreakInv
<1>1. ~straddled /\ (Stamps \/ Keeps)
  BY StreakStep DEF StreakFrame
<1>2. RunInv /\ SeenInv
  BY <1>1 DEF StreakInv
<1>3. /\ today \in Nat \ {0} /\ prog.streak \in Nat /\ prog.last \in Nat
      /\ \A d \in activeDays : d \in Nat \ {0} /\ d <= today
      /\ \A r \in Reqs : req[r].at = "restamp" => req[r].day \in Nat /\ req[r].day <= today
  <2>1. today \in Nat \ {0} /\ prog \in ProgressRow
    BY DEF TypeOK, Days
  <2>2. \A d \in activeDays : d \in Nat \ {0} /\ d <= today
    BY <1>2, <2>1 DEF RunInv
  <2>3. \A r \in Reqs : req[r].at = "restamp" => req[r].day \in 1..today
    BY DEF TypeOK, DatedStages
  <2> QED BY <2>1, <2>2, <2>3 DEF ProgressRow
<1>4. RunInv'
  <2>1. CASE Keeps
    BY <1>2, <1>3, <2>1 DEF Keeps, RunInv
  <2>2. CASE Stamps
    <3>1. activeDays' \subseteq 1..today' /\ prog'.last # 0 /\ \A d \in activeDays' : d <= prog'.last
      BY <1>3, <2>2 DEF Stamps
    <3>2. CASE prog.last = 0
      <4>1. prog'.streak = 1 /\ prog'.last = today /\ activeDays' = {today}
        BY <1>2, <2>2, <3>2 DEF Stamps, RunInv, ComputeStreak
      <4> QED BY <1>3, <3>1, <4>1 DEF RunInv
    <3>3. CASE prog.last = today
      <4>1. prog'.streak = prog.streak /\ prog'.last = prog.last /\ today \in activeDays
        BY <1>2, <1>3, <2>2, <3>3 DEF Stamps, RunInv, ComputeStreak
      <4>2. activeDays' = activeDays
        BY <2>2, <4>1 DEF Stamps
      <4> QED BY <1>2, <1>3, <3>1, <3>3, <4>1, <4>2 DEF RunInv
    <3>4. CASE prog.last # 0 /\ prog.last = today - 1
      <4>1. prog'.streak = prog.streak + 1 /\ prog'.last = today
        BY <1>3, <2>2, <3>4 DEF Stamps, ComputeStreak
      <4>2. \A d \in (today - prog.streak) .. today : d = today \/ d \in activeDays
        BY <1>2, <1>3, <3>4 DEF RunInv
      <4>3. today - prog.streak - 1 # today /\ today - prog.streak - 1 \notin activeDays
        BY <1>2, <1>3, <3>4 DEF RunInv
      <4> QED BY <1>3, <2>2, <3>1, <4>1, <4>2, <4>3 DEF Stamps, RunInv
    <3>5. CASE prog.last # 0 /\ prog.last # today /\ prog.last # today - 1
      <4>1. prog'.streak = 1 /\ prog'.last = today
        BY <2>2, <3>5 DEF Stamps, ComputeStreak
      <4>2. today - 1 \notin activeDays
        BY <1>2, <1>3, <3>5 DEF RunInv
      <4> QED BY <1>3, <2>2, <3>1, <4>1, <4>2 DEF Stamps, RunInv
    <3> QED BY <3>2, <3>3, <3>4, <3>5
  <2> QED BY <1>1, <2>1, <2>2
<1>5. SeenInv'
  <2> SUFFICES ASSUME NEW r \in Reqs, req'[r].at = "restamp", req'[r].day = today'
               PROVE  LET s == req'[r].seen IN
                      \/ prog'.streak = s.streak /\ prog'.last = s.last
                      \/ prog'.streak = ComputeStreak(s.streak, s.last, today') /\ prog'.last = today'
    BY DEF SeenInv
  <2>1. CASE req'[r].seen = prog /\ UNCHANGED <<today, prog>>
    BY <2>1
  <2>2. CASE req'[r] = req[r]
    <3>1. today' = today
      BY <1>1, <1>3, <2>2 DEF Stamps, Keeps
    <3> DEFINE s == req[r].seen
    <3>2. \/ prog.streak = s.streak /\ prog.last = s.last
          \/ prog.streak = ComputeStreak(s.streak, s.last, today) /\ prog.last = today
      BY <1>2, <2>2, <3>1 DEF SeenInv
    <3> HIDE DEF s
    <3>3. \/ prog'.streak = prog.streak /\ prog'.last = prog.last
          \/ prog'.streak = ComputeStreak(prog.streak, prog.last, today) /\ prog'.last = today
      BY <1>1 DEF Stamps, Keeps
    <3>4. \/ prog'.streak = s.streak /\ prog'.last = s.last
          \/ prog'.streak = ComputeStreak(s.streak, s.last, today) /\ prog'.last = today
      BY <1>3, <3>2, <3>3 DEF ComputeStreak
    <3> QED BY <2>2, <3>1, <3>4 DEF s
  <2> QED BY <2>1, <2>2, SeenStep DEF SeenFrame
<1> QED BY <1>4, <1>5

\* While no activity is stamped with a day already over, the streak is the run of
\* active days, also when a repeated waive writes back a row it read without the lock.
THEOREM StreakCounts == Spec => []StreakIsTheRun
<1>1. Init => StreakInv
  BY DEF Init, Idle, NoProgress, StreakInv, RunInv, SeenInv
<1>2. TypeOK /\ StreakInv /\ [Next]_vars => StreakInv'
  BY RunStep
<1>3. StreakInv => StreakIsTheRun
  BY DEF StreakInv, RunInv, StreakIsTheRun
<1> QED BY <1>1, <1>2, <1>3, TypeCorrect, PTL DEF Spec

=============================================================================
