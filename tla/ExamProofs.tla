----------------------------- MODULE ExamProofs -----------------------------
(***************************************************************************)
(* Proofs about ExamAttempt for any number of attempts and of requests in  *)
(* flight, both formats and any answers.                                   *)
(***************************************************************************)
EXTENDS ExamAttempt, MockScores, FoldProofs

-----------------------------------------------------------------------------
\* Marks are at most 50 half points, or a CLB band

\* Every row of the table names a CLB level from 3 to 9.
LEMMA BandRange == \A i \in 1..7 : Band(i)[2] \in 3..9
BY DEF Band, Bands

\* Whatever the fraction, the level is one of the table.
LEMMA ClbRange ==
    ASSUME NEW f, f[1] \in Nat, f[2] \in Nat
    PROVE  ClbFromFraction(f) \in 3..9
<1> DEFINE Reached == {i \in 1..7 : 100 * f[1] >= Band(i)[1] * f[2]}
<1>1. Len(Bands) = 7
  BY DEF Bands
<1>2. 7 \in Reached
  BY DEF Band, Bands
<1> HIDE DEF Reached
<1>3. Reached \subseteq 1..7
  BY DEF Reached
<1>4. \E i \in Reached : \A j \in Reached : i <= j
  BY <1>2, <1>3
<1>5. PICK i \in Reached : i = (CHOOSE k \in Reached : \A j \in Reached : k <= j)
  BY <1>4
<1>6. ClbFromFraction(f) = Band(i)[2]
  BY <1>1, <1>5 DEF ClbFromFraction, Reaches, Reached
<1> QED BY <1>3, <1>6, BandRange

\* A fraction of at most one gives at most fifty half points.
LEMMA DelfRange ==
    ASSUME NEW c \in Nat, NEW t \in Nat, t > 0, c <= t
    PROVE  (100 * c + t) \div (2 * t) \in 0..50
<1> DEFINE n == 100 * c + t
           d == 2 * t
           q == n \div d
<1>1. n \in Nat /\ d \in Nat /\ d > 0 /\ n < 51 * d
  OBVIOUS
<1>2. q \in Int /\ d * q <= n /\ n < d * (q + 1)
  BY <1>1
<1> HIDE DEF n, d, q
<1>3. q >= 0
  BY <1>1, <1>2
<1>4. q < 51
  BY <1>1, <1>2
<1> QED BY <1>2, <1>3, <1>4 DEF q, n, d

\* The points of a fraction, with the factors of its formula multiplied out.
LEMMA PointsOf ==
    ASSUME NEW f, f[1] \in Nat
    PROVE  DelfPoints(f) = (100 * f[1] + f[2]) \div (2 * f[2])
<1>1. 4 * (DELF_SECTION_MAX * f[1]) = 100 * f[1]
  BY DEF DELF_SECTION_MAX
<1> QED BY <1>1 DEF DelfPoints, HalfPoint

\* Every mark that record_section stores.
LEMMA MarkRange ==
    ASSUME NEW s \in Skills, NEW answer \in Answers(s), Valid(s, answer)
    PROVE  Mark(s, answer) \in 0..50
<1>1. CASE s \in Comprehension
  <2>1. answer[1] \in Nat /\ answer[2] \in Nat /\ answer[2] > 0 /\ answer[1] <= answer[2]
    BY <1>1, ExamAssumption DEF Answers, Valid
  <2>2. ClbFromFraction(answer) \in 0..50
    BY <2>1, ClbRange
  <2>3. DelfPoints(answer) \in 0..50
    BY <2>1, DelfRange, PointsOf
  <2> QED BY <1>1, <2>2, <2>3, FormatAssumption DEF Mark
<1>2. CASE s \notin Comprehension
  <2>1. answer \in Int /\ (Format = "delf" => answer \in 0..100)
    <3>1. answer \in Int
      BY <1>2, ExamAssumption DEF Answers
    <3>2. ASSUME Format = "delf" PROVE answer \in 0..100
      BY <1>2, <3>2 DEF Valid, DELF_SECTION_MAX
    <3> QED BY <3>1, <3>2
  <2>2. Clamp(answer) \in 0..50
    BY <2>1 DEF Clamp
  <2>3. Format = "delf" => HalfPoint(answer, 4) \in 0..50
    BY <2>1 DEF HalfPoint
  <2> QED BY <1>2, <2>2, <2>3, FormatAssumption DEF Mark
<1> QED BY <1>1, <1>2

-----------------------------------------------------------------------------
\* Profiles and reports

\* Setting one section of a profile of marks gives a profile of marks.
LEMMA PatchType ==
    ASSUME NEW p \in Profiles, NEW s \in Skills, NEW m \in 0..50
    PROVE  Patch(p, s, m) \in Profiles
<1>1. PICK S \in SUBSET Skills : p \in [S -> 0..50]
  BY DEF Profiles
<1>2. Patch(p, s, m) \in [S \cup {s} -> 0..50]
  BY <1>1 DEF Patch
<1> QED BY <1>2 DEF Profiles

\* No marks at all are a profile.
LEMMA NoMarksType == NoMarks \in Profiles
<1>1. NoMarks \in [{} -> 0..50]
  BY DEF NoMarks
<1> QED BY <1>1 DEF Profiles

\* Either report lists the sections it was computed from.
LEMMA ReportOf == ASSUME NEW p PROVE Report(p).per_skill = p
BY DEF Report, ClbReport, DelfReport

\* The report on a complete profile is a report, and not the missing one.
LEMMA ReportType ==
    ASSUME NEW p \in Profiles, Complete(p)
    PROVE  Report(p) \in Reports /\ Report(p) # NoReport
<1>1. Report(p) \in Reports
  BY DEF Reports
<1>2. DOMAIN p # {} /\ DOMAIN NoMarks = {}
  BY ExamAssumption DEF Complete, NoMarks
<1>3. Report(p).per_skill # NoReport.per_skill
  BY <1>2, ReportOf DEF NoReport
<1> QED BY <1>1, <1>3

\* Every report that is there covers the required sections.
LEMMA ReportComplete == ASSUME NEW x \in Reports PROVE Required \subseteq DOMAIN x.per_skill
BY ReportOf DEF Reports, Complete

-----------------------------------------------------------------------------
\* Type correctness

SlotOK(q, table) ==
    /\ q \in Request
    /\ q.at = "record" => q.skill \in Skills
    /\ q.at = "finish" => Complete(q.seen)
    /\ q.at \in {"record", "finish"} => table[q.on].status # "none"

RowOK(x) == x \in Attempt /\ (x.status = "finished" <=> x.report # NoReport)

\* TypeOK, row by row and slot by slot.
LEMMA TypeParts ==
    TypeOK <=> /\ attempt \in [Ids -> Attempt] /\ \A a \in Ids : RowOK(attempt[a])
               /\ req \in [Reqs -> Request] /\ \A r \in Reqs : SlotOK(req[r], attempt)
               /\ last \in [Ids -> Profiles] /\ replies \in [Ids -> SUBSET Reports]
               /\ late \in SUBSET Ids /\ raced \in BOOLEAN
BY DEF TypeOK, SlotOK, RowOK

\* The idle slot is well typed.
LEMMA IdleType == Idle \in Request /\ Idle.at = "idle"
BY ExamAssumption, NoMarksType DEF Idle, Request, Ids, Skill

\* A row that does not exist yet is well typed.
LEMMA NoAttemptType == NoAttempt \in Attempt
BY NoMarksType DEF NoAttempt, Attempt

\* A row keeps its type and existing rows stay, so the other slots stay well typed.
LEMMA StepOK ==
    ASSUME TypeOK, NEW r \in Reqs, NEW q, req' = [req EXCEPT ![r] = q], SlotOK(q, attempt'),
           \/ attempt' = attempt
           \/ \E a \in Ids : \E x : attempt' = [attempt EXCEPT ![a] = x] /\ RowOK(x)
                            /\ x.status # "none",
           last' \in [Ids -> Profiles], replies' \in [Ids -> SUBSET Reports],
           late' \in SUBSET Ids, raced' \in BOOLEAN
    PROVE  TypeOK'
<1>1. /\ attempt' \in [Ids -> Attempt] /\ \A a \in Ids : RowOK(attempt'[a])
      /\ \A a \in Ids : attempt[a].status # "none" => attempt'[a].status # "none"
  BY TypeParts DEF RowOK
<1>2. q \in Request
  BY DEF SlotOK
<1>3. req' \in [Reqs -> Request]
  BY <1>2, TypeParts
<1>4. ASSUME NEW i \in Reqs PROVE SlotOK(req'[i], attempt')
  <2>1. CASE i = r
    BY <2>1, TypeParts
  <2>2. CASE i # r
    <3>1. req'[i] = req[i] /\ SlotOK(req[i], attempt) /\ req[i].on \in Ids
      BY <2>2, TypeParts DEF SlotOK, Request
    <3> QED BY <1>1, <3>1 DEF SlotOK
  <2> QED BY <2>1, <2>2
<1> QED BY <1>1, <1>3, <1>4 DEF TypeOK, SlotOK, RowOK

\* A slot that moves while the rows stay leaves the state well typed.
LEMMA SameRows ==
    ASSUME TypeOK, NEW r \in Reqs, NEW q, req' = [req EXCEPT ![r] = q], SlotOK(q, attempt),
           attempt' = attempt, last' = last, replies' \in [Ids -> SUBSET Reports],
           late' = late, raced' \in BOOLEAN
    PROVE  TypeOK'
BY StepOK DEF TypeOK

\* A slot may become idle whatever the rows are.
LEMMA IdleOK == \A table : SlotOK(Idle, table)
BY IdleType DEF SlotOK

\* Every step keeps the state well typed.
LEMMA TypeStep == TypeOK /\ [Next]_vars => TypeOK'
<1> SUFFICES ASSUME TypeOK, [Next]_vars PROVE TypeOK'
  OBVIOUS
<1> USE TypeParts
<1>1. ASSUME NEW r \in Reqs, StartRead(r) PROVE TypeOK'
  <2> DEFINE q == [Idle EXCEPT !.at = "start"]
  <2>1. SlotOK(q, attempt)
    BY IdleType DEF SlotOK, Request, Idle
  <2>2. raced' \in BOOLEAN
    BY <1>1 DEF StartRead
  <2>3. req' = [req EXCEPT ![r] = q] /\ UNCHANGED <<attempt, last, replies, late>>
    BY <1>1 DEF StartRead
  <2> HIDE DEF q
  <2> QED BY <2>1, <2>2, <2>3, SameRows
<1>2. ASSUME NEW r \in Reqs, StartInsert(r) PROVE TypeOK'
  <2>1. PICK a \in Unused : attempt' = [attempt EXCEPT ![a].status = "in_progress"]
    BY <1>2 DEF StartInsert
  <2> DEFINE x == [attempt[a] EXCEPT !.status = "in_progress"]
  <2>2. a \in Ids /\ attempt[a].status = "none" /\ attempt[a] \in Attempt
    BY DEF Unused
  <2>3. attempt[a].report = NoReport
    BY <2>2 DEF RowOK
  <2>4. RowOK(x) /\ x.status # "none"
    BY <2>2, <2>3 DEF RowOK, Attempt
  <2>5. attempt' = [attempt EXCEPT ![a] = x]
    BY <2>1
  <2>6. req' = [req EXCEPT ![r] = Idle] /\ UNCHANGED <<last, replies, late, raced>>
    BY <1>2 DEF StartInsert, Done
  <2>7. /\ last' \in [Ids -> Profiles] /\ replies' \in [Ids -> SUBSET Reports]
        /\ late' \in SUBSET Ids /\ raced' \in BOOLEAN
    BY <2>6
  <2> HIDE DEF x
  <2> QED BY <2>2, <2>4, <2>5, <2>6, <2>7, IdleOK, StepOK
<1>3. ASSUME NEW r \in Reqs, NEW a \in Ids, NEW s \in Skills, NEW answer \in Answers(s),
             RecordRead(r, a, s, answer)
      PROVE  TypeOK'
  <2> DEFINE q == [at |-> "record", on |-> a, skill |-> s, mark |-> Mark(s, answer),
                   seen |-> attempt[a].sections]
  <2>1. Mark(s, answer) \in 0..50 /\ attempt[a].sections \in Profiles /\ s \in Skill
    BY <1>3, MarkRange, ExamAssumption DEF RecordRead, Attempt
  <2>2. attempt[a].status # "none"
    BY <1>3 DEF RecordRead, Open
  <2>3. SlotOK(q, attempt)
    BY <2>1, <2>2 DEF SlotOK, Request
  <2>4. req' = [req EXCEPT ![r] = q] /\ UNCHANGED <<attempt, last, replies, late, raced>>
    BY <1>3 DEF RecordRead
  <2> HIDE DEF q
  <2> QED BY <2>3, <2>4, SameRows
<1>4. ASSUME NEW r \in Reqs, RecordWrite(r) PROVE TypeOK'
  <2> DEFINE a == req[r].on
             x == [attempt[a] EXCEPT !.sections = Recorded(r)]
  <2>1. a \in Ids /\ req[r].skill \in Skills /\ req[r].mark \in 0..50 /\ attempt[a].status # "none"
    BY <1>4 DEF RecordWrite, SlotOK, Request
  <2>2. attempt[a] \in Attempt /\ RowOK(attempt[a])
    BY <2>1
  <2>3. Recorded(r) \in Profiles
    BY <2>1, <2>2, PatchType DEF Recorded, Attempt
  <2>4. RowOK(x) /\ x.status # "none"
    BY <2>1, <2>2, <2>3 DEF RowOK, Attempt
  <2>5. attempt' = [attempt EXCEPT ![a] = x]
    BY <1>4 DEF RecordWrite
  <2>6. last' \in [Ids -> Profiles]
    BY <1>4, <2>1, PatchType DEF RecordWrite
  <2>7. late' \in SUBSET Ids
    BY <1>4, <2>1 DEF RecordWrite
  <2>8. req' = [req EXCEPT ![r] = Idle] /\ UNCHANGED <<replies, raced>>
    BY <1>4 DEF RecordWrite, Done
  <2>9. replies' \in [Ids -> SUBSET Reports] /\ raced' \in BOOLEAN
    BY <2>8
  <2>10. a \in Ids
    BY <2>1
  <2> HIDE DEF x, a
  <2> QED BY <2>4, <2>5, <2>6, <2>7, <2>8, <2>9, <2>10, IdleOK, StepOK
<1>5. ASSUME NEW r \in Reqs, NEW a \in Ids, FinishAgain(r, a) PROVE TypeOK'
  <2>1. attempt[a].report \in Reports
    BY <1>5 DEF FinishAgain, RowOK, Attempt
  <2>2. replies' \in [Ids -> SUBSET Reports]
    BY <1>5, <2>1 DEF FinishAgain
  <2> QED BY <1>5, <2>2 DEF FinishAgain, TypeOK
<1>6. ASSUME NEW r \in Reqs, NEW a \in Ids, FinishRead(r, a) PROVE TypeOK'
  <2> DEFINE q == [Idle EXCEPT !.at = "finish", !.on = a, !.seen = attempt[a].sections]
  <2>1. attempt[a].sections \in Profiles /\ attempt[a].status # "none" /\ Complete(attempt[a].sections)
    BY <1>6 DEF FinishRead, Open, Attempt
  <2>2. SlotOK(q, attempt)
    BY <2>1, IdleType DEF SlotOK, Request, Idle
  <2>3. req' = [req EXCEPT ![r] = q] /\ UNCHANGED <<attempt, last, replies, late, raced>>
    BY <1>6 DEF FinishRead
  <2> HIDE DEF q
  <2> QED BY <2>2, <2>3, SameRows
<1>7. ASSUME NEW r \in Reqs, FinishWrite(r) PROVE TypeOK'
  <2> DEFINE a == req[r].on
             x == [attempt[a] EXCEPT !.status = "finished", !.report = Reported(r)]
  <2>1. a \in Ids /\ req[r].seen \in Profiles /\ Complete(req[r].seen)
    BY <1>7 DEF FinishWrite, SlotOK, Request
  <2>2. Reported(r) \in Reports /\ Reported(r) # NoReport
    BY <2>1, ReportType DEF Reported
  <2>3. RowOK(x) /\ x.status # "none"
    BY <2>1, <2>2 DEF RowOK, Attempt
  <2>4. attempt' = attempt \/ attempt' = [attempt EXCEPT ![a] = x]
    BY <1>7 DEF FinishWrite
  <2>5. replies' \in [Ids -> SUBSET Reports]
    BY <1>7, <2>1, <2>2 DEF FinishWrite, Replied
  <2>6. req' = [req EXCEPT ![r] = Idle] /\ UNCHANGED <<last, late, raced>>
    BY <1>7 DEF FinishWrite, Done
  <2>7. last' \in [Ids -> Profiles] /\ late' \in SUBSET Ids /\ raced' \in BOOLEAN /\ a \in Ids
    BY <2>1, <2>6
  <2> HIDE DEF x, a
  <2> QED BY <2>3, <2>4, <2>5, <2>6, <2>7, IdleOK, StepOK
<1>8. ASSUME NEW r \in Reqs, Die(r) PROVE TypeOK'
  BY <1>8, IdleOK, SameRows DEF Die, Done
<1>9. CASE UNCHANGED vars
  BY <1>9 DEF vars, TypeOK
<1> QED BY <1>1, <1>2, <1>3, <1>4, <1>5, <1>6, <1>7, <1>8, <1>9 DEF Next

\* Every reachable state is well typed.
THEOREM TypeCorrect == Spec => []TypeOK
<1>1. ASSUME Init PROVE TypeOK
  <2>1. \A a \in Ids : RowOK(attempt[a])
    BY <1>1, NoAttemptType DEF Init, RowOK, NoAttempt
  <2>2. attempt \in [Ids -> Attempt] /\ last \in [Ids -> Profiles]
    BY <1>1, NoAttemptType, NoMarksType DEF Init
  <2>3. req \in [Reqs -> Request] /\ \A r \in Reqs : SlotOK(req[r], attempt)
    BY <1>1, IdleType, IdleOK DEF Init
  <2> QED BY <1>1, <2>1, <2>2, <2>3, TypeParts DEF Init
<1> QED BY <1>1, TypeStep, PTL DEF Spec

-----------------------------------------------------------------------------
\* What a step does to an attempt

\* An attempt is left alone, opened, given a mark, or finished while it was open.
Left(a) == attempt'[a] = attempt[a] /\ last'[a] = last[a]

Opened(a) ==
    /\ attempt[a].status = "none" /\ last'[a] = last[a]
    /\ attempt'[a] = [attempt[a] EXCEPT !.status = "in_progress"]

Marked(a) ==
    \E s \in Skills, m \in 0..50 :
        /\ attempt'[a] = [attempt[a] EXCEPT !.sections = Patch(attempt[a].sections, s, m)]
        /\ last'[a] = Patch(last[a], s, m)

Closed(a) ==
    \E x \in Reports :
        /\ attempt[a].status = "in_progress" /\ last'[a] = last[a]
        /\ attempt'[a] = [attempt[a] EXCEPT !.status = "finished", !.report = x]

AttemptFrame == \A a \in Ids : Left(a) \/ Opened(a) \/ Marked(a) \/ Closed(a)

\* What any step may do to the attempts.
LEMMA AttemptStep == ASSUME TypeOK, [Next]_vars PROVE AttemptFrame
<1> USE TypeParts
<1>1. CASE attempt' = attempt /\ last' = last
  BY <1>1 DEF AttemptFrame, Left
<1>2. ASSUME NEW r \in Reqs, StartInsert(r) PROVE AttemptFrame
  <2>1. PICK a \in Unused : attempt' = [attempt EXCEPT ![a].status = "in_progress"]
    BY <1>2 DEF StartInsert
  <2>2. a \in Ids /\ attempt[a].status = "none" /\ last' = last
    BY <1>2 DEF Unused, StartInsert
  <2> QED BY <2>1, <2>2 DEF AttemptFrame, Left, Opened
<1>3. ASSUME NEW r \in Reqs, RecordWrite(r) PROVE AttemptFrame
  <2> DEFINE a == req[r].on
  <2>1. a \in Ids /\ req[r].skill \in Skills /\ req[r].mark \in 0..50
    BY <1>3 DEF RecordWrite, SlotOK, Request
  <2>2. attempt'[a] = [attempt[a] EXCEPT !.sections = Patch(attempt[a].sections, req[r].skill, req[r].mark)]
    BY <1>3, <2>1 DEF RecordWrite, Recorded, Attempt
  <2>3. last'[a] = Patch(last[a], req[r].skill, req[r].mark)
    BY <1>3, <2>1 DEF RecordWrite
  <2>4. \A b \in Ids \ {a} : attempt'[b] = attempt[b] /\ last'[b] = last[b]
    BY <1>3, <2>1 DEF RecordWrite
  <2>5. Marked(a)
    BY <2>1, <2>2, <2>3 DEF Marked
  <2> HIDE DEF a
  <2> QED BY <2>4, <2>5 DEF AttemptFrame, Left
<1>4. ASSUME NEW r \in Reqs, FinishWrite(r) PROVE AttemptFrame
  <2> DEFINE a == req[r].on
  <2>1. a \in Ids /\ Reported(r) \in Reports
    BY <1>4, ReportType DEF FinishWrite, SlotOK, Request, Reported
  <2>2. last' = last
    BY <1>4 DEF FinishWrite
  <2>3. CASE Flips(a)
    <3>1. attempt'[a] = [attempt[a] EXCEPT !.status = "finished", !.report = Reported(r)]
      BY <1>4, <2>1, <2>3 DEF FinishWrite
    <3>2. \A b \in Ids \ {a} : attempt'[b] = attempt[b]
      BY <1>4, <2>1, <2>3 DEF FinishWrite
    <3> QED BY <2>1, <2>2, <2>3, <3>1, <3>2 DEF AttemptFrame, Flips, Left, Closed
  <2>4. CASE ~Flips(a)
    BY <1>1, <1>4, <2>2, <2>4 DEF FinishWrite
  <2> QED BY <2>3, <2>4
<1>5. ASSUME NEW r \in Reqs, NEW a \in Ids,
             \/ \E s \in Skills : \E answer \in Answers(s) : RecordRead(r, a, s, answer)
             \/ FinishAgain(r, a) \/ FinishRead(r, a)
      PROVE  attempt' = attempt /\ last' = last
  BY <1>5 DEF RecordRead, FinishAgain, FinishRead
<1>6. ASSUME NEW r \in Reqs, StartRead(r) \/ Die(r) PROVE attempt' = attempt /\ last' = last
  BY <1>6 DEF StartRead, Die
<1>7. CASE UNCHANGED vars
  BY <1>1, <1>7 DEF vars
<1> QED BY <1>1, <1>2, <1>3, <1>4, <1>5, <1>6, <1>7 DEF Next

\* Concurrent recordings of different skills all persist.
THEOREM SectionsPersist == Spec => []NoSectionLost
<1>1. Init => NoSectionLost
  BY DEF Init, NoAttempt, NoSectionLost
<1>2. ASSUME TypeOK, NoSectionLost, [Next]_vars PROVE NoSectionLost'
  <2> SUFFICES ASSUME NEW a \in Ids PROVE attempt'[a].sections = last'[a]
    BY DEF NoSectionLost
  <2>1. attempt[a] \in Attempt /\ attempt[a].sections = last[a]
    BY <1>2, TypeParts DEF NoSectionLost
  <2>2. CASE Left(a)
    BY <2>1, <2>2 DEF Left
  <2>3. CASE Opened(a)
    BY <2>1, <2>3 DEF Opened, Attempt
  <2>4. CASE Marked(a)
    BY <2>1, <2>4 DEF Marked, Attempt
  <2>5. CASE Closed(a)
    BY <2>1, <2>5 DEF Closed, Attempt
  <2> QED BY <1>2, <2>2, <2>3, <2>4, <2>5, AttemptStep DEF AttemptFrame
<1> QED BY <1>1, <1>2, TypeCorrect, PTL DEF Spec

\* An attempt is finished only with a report on every section of its blueprint.
THEOREM FinishedIsComplete == Spec => []FinishedComplete
<1>1. ASSUME TypeOK PROVE FinishedComplete
  <2>1. \A a \in Finished : attempt[a].report \in Reports
    BY <1>1, TypeParts DEF Finished, RowOK, Attempt
  <2> QED BY <2>1, ReportComplete DEF FinishedComplete
<1> QED BY <1>1, TypeCorrect, PTL

\* No step changes a report, nor the fact that there is one.
LEMMA ReportStays ==
    ASSUME TypeOK, [Next]_vars, NEW a \in Ids, attempt[a].status = "finished"
    PROVE  attempt'[a].status = "finished" /\ attempt'[a].report = attempt[a].report
<1>1. attempt[a] \in Attempt
  BY TypeParts
<1>2. CASE Marked(a)
  BY <1>1, <1>2 DEF Marked, Attempt
<1>3. CASE Left(a) \/ Opened(a) \/ Closed(a)
  BY <1>3 DEF Left, Opened, Closed
<1> QED BY <1>2, <1>3, AttemptStep DEF AttemptFrame

\* A report is final.
THEOREM ReportsAreFinal == Spec => ReportFinal
<1>1. TypeOK /\ [Next]_vars =>
        [\A a \in Ids : attempt[a].status = "finished" =>
            attempt'[a].status = "finished" /\ attempt'[a].report = attempt[a].report]_vars
  BY ReportStays
<1> QED BY <1>1, TypeCorrect, PTL DEF Spec, ReportFinal

-----------------------------------------------------------------------------
\* What a finish has read, and what it answers

\* Of an attempt no section came late for: a finish in flight holds the sections as they
\* are, the report is theirs, and it is all that was ever answered.
OnTime(a) ==
    /\ \A r \in Finishing(a) : req[r].seen = attempt[a].sections
    /\ attempt[a].status = "finished" => attempt[a].report = Report(attempt[a].sections)
    /\ replies[a] \subseteq {attempt[a].report} \ {NoReport}

RepliesInv == \A a \in Ids \ late : OnTime(a)

\* An attempt whose row stays, and that no finish has read otherwise, stays on time.
LEMMA StaysOnTime ==
    ASSUME RepliesInv, NEW a \in Ids \ late, attempt'[a] = attempt[a], replies'[a] = replies[a],
           \A r \in Finishing(a)' : \/ r \in Finishing(a) /\ req'[r] = req[r]
                                    \/ req'[r].seen = attempt[a].sections
    PROVE  OnTime(a)'
BY DEF RepliesInv, OnTime

\* A slot that moves and does not begin a finish leaves the finishes in flight.
LEMMA OtherFinishes ==
    ASSUME TypeOK, NEW r \in Reqs, NEW q, req' = [req EXCEPT ![r] = q], q.at # "finish",
           NEW a \in Ids
    PROVE  \A s \in Finishing(a)' : s \in Finishing(a) /\ req'[s] = req[s]
BY DEF Finishing, TypeOK

\* Every step keeps the attempts on time that it does not make late.
LEMMA RepliesStep == ASSUME TypeOK, RepliesInv, [Next]_vars PROVE RepliesInv'
<1> USE TypeParts
<1>1. ASSUME NEW r \in Reqs, NEW q, req' = [req EXCEPT ![r] = q], q.at # "finish",
             UNCHANGED <<attempt, replies, late>>
      PROVE  RepliesInv'
  <2> SUFFICES ASSUME NEW a \in Ids \ late PROVE OnTime(a)'
    BY <1>1 DEF RepliesInv
  <2>1. \A s \in Finishing(a)' : s \in Finishing(a) /\ req'[s] = req[s]
    BY <1>1, OtherFinishes
  <2> QED BY <1>1, <2>1, StaysOnTime
<1>2. ASSUME NEW r \in Reqs, StartRead(r) \/ Die(r) PROVE RepliesInv'
  <2>1. UNCHANGED <<attempt, replies, late>>
    BY <1>2 DEF StartRead, Die
  <2>2. \E q : req' = [req EXCEPT ![r] = q] /\ q.at # "finish"
    BY <1>2, IdleType DEF StartRead, Die, Done, Idle
  <2> QED BY <1>1, <2>1, <2>2
<1>3. ASSUME NEW r \in Reqs, NEW a \in Ids, NEW s \in Skills, NEW answer \in Answers(s),
             RecordRead(r, a, s, answer)
      PROVE  RepliesInv'
  <2> DEFINE q == [at |-> "record", on |-> a, skill |-> s, mark |-> Mark(s, answer),
                   seen |-> attempt[a].sections]
  <2>1. req' = [req EXCEPT ![r] = q] /\ UNCHANGED <<attempt, replies, late>>
    BY <1>3 DEF RecordRead
  <2>2. q.at # "finish"
    OBVIOUS
  <2> HIDE DEF q
  <2> QED BY <1>1, <2>1, <2>2
<1>4. ASSUME NEW r \in Reqs, StartInsert(r) PROVE RepliesInv'
  <2> SUFFICES ASSUME NEW a \in Ids \ late PROVE OnTime(a)'
    BY <1>4 DEF StartInsert, RepliesInv
  <2>1. PICK b \in Unused : attempt' = [attempt EXCEPT ![b].status = "in_progress"]
    BY <1>4 DEF StartInsert
  <2>2. \A s \in Finishing(a)' : s \in Finishing(a) /\ req'[s] = req[s]
    <3>1. req' = [req EXCEPT ![r] = Idle] /\ Idle.at # "finish"
      BY <1>4, IdleType DEF StartInsert, Done
    <3> QED BY <3>1, OtherFinishes
  <2>3. CASE a # b
    BY <1>4, <2>1, <2>2, <2>3, StaysOnTime DEF StartInsert
  <2>4. CASE a = b
    <3>1. /\ attempt'[a].status = "in_progress"
          /\ attempt'[a].report = attempt[a].report
          /\ attempt'[a].sections = attempt[a].sections
      BY <2>1, <2>4 DEF Attempt
    <3> QED BY <1>4, <2>2, <3>1 DEF StartInsert, RepliesInv, OnTime
  <2> QED BY <2>3, <2>4
<1>5. ASSUME NEW r \in Reqs, RecordWrite(r) PROVE RepliesInv'
  <2> SUFFICES ASSUME NEW a \in Ids, a \notin late' PROVE OnTime(a)'
    BY DEF RepliesInv
  <2> DEFINE b == req[r].on
  <2>1. b \in Ids /\ a \notin late
    BY <1>5 DEF RecordWrite, SlotOK, Request
  <2>2. attempt' = [attempt EXCEPT ![b].sections = Recorded(r)] /\ replies' = replies
    BY <1>5 DEF RecordWrite
  <2>3. \A s \in Finishing(a)' : s \in Finishing(a) /\ req'[s] = req[s]
    <3>1. req' = [req EXCEPT ![r] = Idle] /\ Idle.at # "finish"
      BY <1>5, IdleType DEF RecordWrite, Done
    <3> QED BY <3>1, OtherFinishes
  <2>4. CASE a # b
    <3>1. attempt'[a] = attempt[a]
      BY <2>1, <2>2, <2>4
    <3> QED BY <2>1, <2>2, <2>3, <3>1, StaysOnTime
  <2>5. CASE a = b
    <3>1. attempt[a].status # "finished" /\ Finishing(a) = {}
      BY <1>5, <2>1, <2>5 DEF RecordWrite
    <3>2. attempt'[a].status = attempt[a].status /\ attempt'[a].report = attempt[a].report
      BY <2>1, <2>2, <2>5 DEF Attempt
    <3> QED BY <2>1, <2>2, <2>3, <3>1, <3>2 DEF RepliesInv, OnTime
  <2> QED BY <2>4, <2>5
<1>6. ASSUME NEW r \in Reqs, NEW b \in Ids, FinishAgain(r, b) PROVE RepliesInv'
  <2> SUFFICES ASSUME NEW a \in Ids \ late PROVE OnTime(a)'
    BY <1>6 DEF FinishAgain, RepliesInv
  <2>1. attempt[b].report # NoReport
    BY <1>6 DEF FinishAgain, RowOK
  <2>2. replies'[a] \subseteq {attempt[a].report} \ {NoReport}
    BY <1>6, <2>1 DEF FinishAgain, RepliesInv, OnTime
  <2>3. attempt' = attempt /\ req' = req
    BY <1>6 DEF FinishAgain
  <2> QED BY <2>2, <2>3 DEF RepliesInv, OnTime, Finishing
<1>7. ASSUME NEW r \in Reqs, NEW b \in Ids, FinishRead(r, b) PROVE RepliesInv'
  <2> SUFFICES ASSUME NEW a \in Ids \ late PROVE OnTime(a)'
    BY <1>7 DEF FinishRead, RepliesInv
  <2> DEFINE q == [Idle EXCEPT !.at = "finish", !.on = b, !.seen = attempt[b].sections]
  <2>1. q.on = b /\ q.seen = attempt[b].sections
    BY DEF Idle
  <2>2. req' = [req EXCEPT ![r] = q] /\ attempt' = attempt /\ replies' = replies
    BY <1>7 DEF FinishRead
  <2> HIDE DEF q
  <2>3. \A s \in Finishing(a)' :
            \/ s \in Finishing(a) /\ req'[s] = req[s]
            \/ req'[s].seen = attempt[a].sections
    BY <2>1, <2>2 DEF Finishing, TypeOK
  <2> QED BY <2>2, <2>3, StaysOnTime
<1>8. ASSUME NEW r \in Reqs, FinishWrite(r) PROVE RepliesInv'
  <2> SUFFICES ASSUME NEW a \in Ids \ late PROVE OnTime(a)'
    BY <1>8 DEF FinishWrite, RepliesInv
  <2> DEFINE b == req[r].on
  <2>1. b \in Ids /\ req[r].seen \in Profiles /\ Complete(req[r].seen) /\ attempt[b].status # "none"
    BY <1>8 DEF FinishWrite, SlotOK, Request
  <2>2. Reported(r) # NoReport
    BY <2>1, ReportType DEF Reported
  <2>3. \A s \in Finishing(a)' : s \in Finishing(a) /\ req'[s] = req[s]
    <3>1. req' = [req EXCEPT ![r] = Idle] /\ Idle.at # "finish"
      BY <1>8, IdleType DEF FinishWrite, Done
    <3> QED BY <3>1, OtherFinishes
  <2>4. CASE a # b
    <3>1. attempt'[a] = attempt[a] /\ replies'[a] = replies[a]
      BY <1>8, <2>1, <2>4 DEF FinishWrite
    <3> QED BY <2>3, <3>1, StaysOnTime
  <2>5. CASE a = b
    <3>1. r \in Finishing(a)
      BY <1>8, <2>5 DEF FinishWrite, Finishing
    <3>2. Reported(r) = Report(attempt[a].sections)
      BY <3>1 DEF RepliesInv, OnTime, Reported
    <3>3. replies'[a] = replies[a] \cup {Reported(r)}
      BY <1>8, <2>1, <2>5 DEF FinishWrite, Replied
    <3>4. CASE Flips(a)
      <4>1. /\ attempt'[a].status = "finished" /\ attempt'[a].report = Reported(r)
            /\ attempt'[a].sections = attempt[a].sections
        BY <1>8, <2>1, <2>5, <3>4 DEF FinishWrite, Attempt
      <4>2. replies[a] = {}
        BY <3>4 DEF Flips, RepliesInv, OnTime, RowOK
      <4> QED BY <2>2, <2>3, <3>2, <3>3, <4>1, <4>2 DEF RepliesInv, OnTime
    <3>5. CASE ~Flips(a)
      <4>1. attempt' = attempt
        BY <1>8, <2>5, <3>5 DEF FinishWrite
      <4>2. attempt[a].status = "finished"
        BY <2>1, <2>5, <3>5 DEF Flips, Attempt
      <4> QED BY <2>2, <2>3, <3>2, <3>3, <4>1, <4>2 DEF RepliesInv, OnTime
    <3> QED BY <3>4, <3>5
  <2> QED BY <2>4, <2>5
<1>9. CASE UNCHANGED vars
  BY <1>9 DEF vars, RepliesInv, OnTime, Finishing
<1> QED BY <1>2, <1>3, <1>4, <1>5, <1>6, <1>7, <1>8, <1>9 DEF Next

\* Attempts no section comes late for stay on time.
LEMMA RepliesInvariant == Spec => []RepliesInv
<1>1. Init => RepliesInv
  BY DEF Init, RepliesInv, OnTime, Finishing, Idle, NoAttempt
<1> QED BY <1>1, RepliesStep, TypeCorrect, PTL DEF Spec

\* Unless a section came late, the report is the report of the sections on record.
THEOREM ReportIsTrue == Spec => []ReportMatchesSections
<1>1. RepliesInv => ReportMatchesSections
  BY DEF RepliesInv, OnTime, ReportMatchesSections, Finished
<1> QED BY <1>1, RepliesInvariant, PTL

\* Unless a section came late, every finish answers the one stored report.
THEOREM FinishesAgree == Spec => []RepliesAgree
<1>1. RepliesInv => RepliesAgree
  BY DEF RepliesInv, OnTime, RepliesAgree
<1> QED BY <1>1, RepliesInvariant, PTL

-----------------------------------------------------------------------------
\* One attempt in progress

\* Until two starts meet, a start about to insert is the only one and found nothing open.
StartInv ==
    ~raced =>
        /\ \A a, b \in Open : a = b
        /\ \A r \in Reqs : req[r].at = "start" => Open = {}
        /\ \A q, r \in Reqs : req[q].at = "start" /\ req[r].at = "start" => q = r

\* Every step keeps starts apart that do not meet.
LEMMA StartStep == ASSUME TypeOK, StartInv, [Next]_vars PROVE StartInv'
<1> USE TypeParts
<1>1. ASSUME raced' = raced, Open' \subseteq Open,
             \A r \in Reqs : req'[r].at = "start" => req[r].at = "start"
      PROVE  StartInv'
  BY <1>1 DEF StartInv
<1>2. ASSUME NEW r \in Reqs, NEW q, req' = [req EXCEPT ![r] = q], q.at # "start"
      PROVE  \A s \in Reqs : req'[s].at = "start" => req[s].at = "start" /\ s # r
  BY <1>2
<1>3. ASSUME NEW r \in Reqs, StartRead(r) PROVE StartInv'
  <2>1. Open' = Open /\ Open = {}
    BY <1>3 DEF StartRead, MayInsert, Open
  <2>2. raced' = (raced \/ \E q \in Reqs : req[q].at = "start")
    BY <1>3 DEF StartRead
  <2>3. \A s \in Reqs : s # r => req'[s] = req[s]
    BY <1>3 DEF StartRead
  <2> QED BY <2>1, <2>2, <2>3 DEF StartInv
<1>4. ASSUME NEW r \in Reqs, StartInsert(r) PROVE StartInv'
  <2>1. PICK a \in Unused : attempt' = [attempt EXCEPT ![a].status = "in_progress"]
    BY <1>4 DEF StartInsert
  <2>2. Open' \subseteq Open \cup {a}
    BY <2>1 DEF Open, Unused
  <2>3. \A s \in Reqs : req'[s].at = "start" => req[s].at = "start" /\ s # r
    BY <1>2, <1>4, IdleType DEF StartInsert, Done
  <2>4. req[r].at = "start" /\ raced' = raced
    BY <1>4 DEF StartInsert
  <2> QED BY <2>2, <2>3, <2>4 DEF StartInv
<1>5. ASSUME NEW r \in Reqs,
             \/ \E a \in Ids, s \in Skills : \E answer \in Answers(s) : RecordRead(r, a, s, answer)
             \/ \E a \in Ids : FinishRead(r, a)
             \/ Die(r)
      PROVE  StartInv'
  <2>1. attempt' = attempt /\ raced' = raced
    BY <1>5 DEF RecordRead, FinishRead, Die
  <2>2. \A q \in Reqs : q # r => req'[q] = req[q]
    BY <1>5 DEF RecordRead, FinishRead, Die, Done
  <2>3. req'[r].at # "start"
    <3>1. ASSUME NEW a \in Ids, NEW s \in Skills, NEW answer \in Answers(s),
                 RecordRead(r, a, s, answer)
          PROVE  req'[r].at # "start"
      BY <3>1 DEF RecordRead
    <3>2. ASSUME NEW a \in Ids, FinishRead(r, a) PROVE req'[r].at # "start"
      BY <3>2 DEF FinishRead, Idle
    <3>3. CASE Die(r)
      BY <3>3, IdleType DEF Die, Done
    <3> QED BY <1>5, <3>1, <3>2, <3>3
  <2> QED BY <1>1, <2>1, <2>2, <2>3 DEF Open
<1>6. ASSUME NEW r \in Reqs, RecordWrite(r) \/ FinishWrite(r) PROVE StartInv'
  <2>1. \A a \in Ids : attempt'[a].status = attempt[a].status \/ attempt'[a].status = "finished"
    <3>1. CASE RecordWrite(r)
      BY <3>1 DEF RecordWrite, Attempt
    <3>2. CASE FinishWrite(r)
      BY <3>2 DEF FinishWrite, Attempt
    <3> QED BY <1>6, <3>1, <3>2
  <2>2. Open' \subseteq Open
    BY <2>1 DEF Open
  <2>3. req' = [req EXCEPT ![r] = Idle] /\ raced' = raced
    BY <1>6 DEF RecordWrite, FinishWrite, Done
  <2> QED BY <1>1, <1>2, <2>2, <2>3, IdleType
<1>7. ASSUME NEW r \in Reqs, NEW a \in Ids, FinishAgain(r, a) PROVE StartInv'
  BY <1>1, <1>7 DEF FinishAgain, Open
<1>8. CASE UNCHANGED vars
  BY <1>1, <1>8 DEF vars, Open
<1> QED BY <1>3, <1>4, <1>5, <1>6, <1>7, <1>8 DEF Next

\* Unless two starts were about to insert at once, one attempt at most is in progress.
THEOREM OneAttemptOpen == Spec => []OneOpenUnlessRaced
<1>1. Init => StartInv
  BY DEF Init, StartInv, Open, NoAttempt, Idle
<1>2. StartInv => OneOpenUnlessRaced
  <2> SUFFICES ASSUME StartInv, ~raced PROVE Cardinality(Open) <= 1
    BY DEF OneOpenUnlessRaced
  <2>1. CASE Open = {}
    BY <2>1, FS_EmptySet
  <2>2. CASE Open # {}
    <3>1. PICK a \in Open : Open = {a}
      BY <2>2 DEF StartInv
    <3> QED BY <3>1, FS_Singleton
  <2> QED BY <2>1, <2>2
<1> QED BY <1>1, <1>2, StartStep, TypeCorrect, PTL DEF Spec
-----------------------------------------------------------------------------
\* readiness: the best band never falls

\* What a report contributes to the best band of a skill is a mark.
LEMMA ReportMarks ==
    ASSUME NEW x \in Reports, NEW s \in DOMAIN x.per_skill
    PROVE  x.per_skill[s] \in 0..50
<1>1. x.per_skill \in Profiles
  BY ReportOf DEF Reports
<1>2. PICK S \in SUBSET Skills : x.per_skill \in [S -> 0..50]
  BY <1>1 DEF Profiles
<1> QED BY <1>2

\* The best of some marks is the greatest of them.
LEMMA BestIs ==
    ASSUME NEW S, S \subseteq 0..50, S # {}
    PROVE  LET best == CHOOSE m \in S : \A n \in S : n <= m
           IN  best \in S /\ \A n \in S : n <= best
<1>1. \E m \in S : \A n \in S : n <= m
  BY GreatestNatural
<1> QED BY <1>1

\* The best band of a skill, once there is one, never falls: a report that counts is never
\* changed and never stops counting.
THEOREM BestNeverFalls == Spec => ReadinessRises
<1>1. ASSUME TypeOK, TypeOK', [Next]_vars, NEW s \in Skills, Series(s) # {}
      PROVE  Series(s)' # {} /\ Best(s)' >= Best(s)
  <2>1. \A a \in Finished : a \in Finished' /\ attempt'[a].report = attempt[a].report
    BY <1>1, ReportStays DEF Finished
  <2>2. Series(s) \subseteq Series(s)'
    BY <2>1 DEF Series
  <2>3. Series(s)' \subseteq 0..50
    <3>1. \A a \in Finished' : attempt'[a].report \in Reports
      BY <1>1 DEF TypeOK, Finished, Attempt
    <3> QED BY <3>1, ReportMarks DEF Series
  <2>4. Best(s) \in Series(s) /\ Best(s) \in Int
    BY <1>1, <2>2, <2>3, BestIs DEF Best
  <2>5. Best(s)' \in Series(s)' /\ \A n \in Series(s)' : n <= Best(s)'
    BY <1>1, <2>2, <2>3, BestIs DEF Best
  <2> QED BY <2>2, <2>3, <2>4, <2>5
<1>2. TypeOK /\ TypeOK' /\ [Next]_vars =>
        [\A s \in Skills : Series(s) # {} => Series(s)' # {} /\ Best(s)' >= Best(s)]_vars
  BY <1>1
<1> QED BY <1>2, TypeCorrect, PTL DEF Spec, ReadinessRises
-----------------------------------------------------------------------------
\* MockScores: the scales are monotone

\* The bands of the table fall from row to row.
LEMMA BandsFall == \A i, j \in 1..7 : i <= j => Band(j)[2] <= Band(i)[2]
BY DEF Band, Bands

\* More correct answers of as many questions never lower the band.
LEMMA ClbMonotone ==
    ASSUME NEW a \in Nat, NEW b \in Nat, NEW n \in Nat, a <= b
    PROVE  ClbFromFraction(<<a, n>>) <= ClbFromFraction(<<b, n>>)
<1> DEFINE Reached(c) == {i \in 1..7 : 100 * c >= Band(i)[1] * n}
           Row(c) == CHOOSE i \in Reached(c) : \A j \in Reached(c) : i <= j
<1>1. Len(Bands) = 7 /\ Band(7)[1] = 0
  BY DEF Band, Bands
<1>2. \A c \in Nat : 7 \in Reached(c)
  BY <1>1
<1>3. \A c \in Nat : Row(c) \in Reached(c) /\ \A j \in Reached(c) : Row(c) <= j
  <2> SUFFICES ASSUME NEW c \in Nat
               PROVE  Row(c) \in Reached(c) /\ \A j \in Reached(c) : Row(c) <= j
    OBVIOUS
  <2> DEFINE R == Reached(c)
  <2>1. R \subseteq Nat /\ R # {}
    BY <1>2
  <2>2. \E i \in R : \A j \in R : i <= j
    <3> HIDE DEF R
    <3> QED BY <2>1, LeastNatural
  <2> QED BY <2>2
<1>4. Reached(a) \subseteq Reached(b)
  <2> SUFFICES ASSUME NEW i \in 1..7, 100 * a >= Band(i)[1] * n PROVE 100 * b >= Band(i)[1] * n
    OBVIOUS
  <2>1. Band(i)[1] \in Nat
    BY DEF Band, Bands
  <2>2. Band(i)[1] * n \in Int
    BY <2>1
  <2> QED BY <2>2
<1>5. Row(b) <= Row(a) /\ Row(a) \in 1..7 /\ Row(b) \in 1..7
  BY <1>3, <1>4
<1>6. \A c \in Nat : ClbFromFraction(<<c, n>>) = Band(Row(c))[2]
  BY <1>1 DEF ClbFromFraction, Reaches
<1> HIDE DEF Row
<1> QED BY <1>5, <1>6, BandsFall

\* Whole division by a positive number is monotone.
LEMMA DivMonotone ==
    ASSUME NEW x \in Nat, NEW y \in Nat, NEW d \in Nat \ {0}, x <= y
    PROVE  x \div d <= y \div d
<1> DEFINE q == x \div d
           r == y \div d
<1>1. q \in Int /\ r \in Int /\ d * q <= x /\ y < d * (r + 1)
  OBVIOUS
<1> HIDE DEF q, r
<1>2. d * q < d * (r + 1)
  BY <1>1
<1>3. ASSUME r < q PROVE FALSE
  <2>1. PICK k \in Nat : q = (r + 1) + k
    BY <1>1, <1>3
  <2>2. d * q = d * (r + 1) + d * k /\ d * k >= 0
    BY <1>1, <2>1
  <2> QED BY <1>1, <1>2, <2>2
<1>4. q <= r
  BY <1>1, <1>3
<1> QED BY <1>4 DEF q, r

\* More correct answers of as many questions never lower the points.
LEMMA DelfMonotone ==
    ASSUME NEW a \in Nat, NEW b \in Nat, NEW n \in Nat \ {0}, a <= b
    PROVE  DelfPoints(<<a, n>>) <= DelfPoints(<<b, n>>)
<1>1. 100 * a + n \in Nat /\ 100 * b + n \in Nat /\ 2 * n \in Nat \ {0}
      /\ 100 * a + n <= 100 * b + n
  OBVIOUS
<1>2. (100 * a + n) \div (2 * n) <= (100 * b + n) \div (2 * n)
  BY <1>1, DivMonotone
<1>3. \A c \in Nat : DelfPoints(<<c, n>>) = (100 * c + n) \div (2 * n)
  <2> SUFFICES ASSUME NEW c \in Nat PROVE DelfPoints(<<c, n>>) = (100 * c + n) \div (2 * n)
    OBVIOUS
  <2>1. <<c, n>>[1] = c /\ <<c, n>>[2] = n
    OBVIOUS
  <2> QED BY <2>1, PointsOf
<1> QED BY <1>2, <1>3

\* Both instances score a fraction by the definitions of ExamScoring.
LEMMA SameScales ==
    /\ \A f : Tef!ClbFromFraction(f) = ClbFromFraction(f)
    /\ \A f : Delf!DelfPoints(f) = DelfPoints(f)
BY DEF ClbFromFraction, Tef!ClbFromFraction, Reaches, Tef!Reaches, Band, Tef!Band, Bands,
       Tef!Bands, DelfPoints, Delf!DelfPoints, HalfPoint, Delf!HalfPoint, DELF_SECTION_MAX,
       Delf!DELF_SECTION_MAX

\* The mark of a section for n correct answers, or for n points.
TefMarkOf(s, n) ==
    IF s = "writing" THEN Clamp(n) ELSE ClbFromFraction(<<n, Questions>>)

DelfMarkOf(s, n) ==
    IF s = "writing" THEN HalfPoint(n, 4) ELSE DelfPoints(<<n, Questions>>)

\* The sections taken are three.
LEMMA TakenAre == Taken = {"reading", "listening", "writing"} /\ IsFiniteSet(Taken)
<1>1. Taken = {"reading", "listening", "writing"}
  BY DEF Taken, Written, Tef!Comprehension
<1>2. \A x : IsFiniteSet({x})
  BY FS_Singleton
<1>3. IsFiniteSet({"reading"} \cup {"listening"})
  BY <1>2, FS_Union
<1>4. IsFiniteSet(({"reading"} \cup {"listening"}) \cup {"writing"})
  BY <1>2, <1>3, FS_Union
<1>5. Taken = ({"reading"} \cup {"listening"}) \cup {"writing"}
  BY <1>1
<1> QED BY <1>1, <1>4, <1>5

\* The two instances mark a section as the formulas above say.
LEMMA MarksAre ==
    ASSUME NEW s \in Taken, NEW n
    PROVE  LET answer == IF s = Written THEN n ELSE <<n, Questions>>
           IN  /\ Tef!Mark(s, answer) = TefMarkOf(s, n)
               /\ Delf!Mark(s, answer) = DelfMarkOf(s, n)
<1>1. Tef!Clamp(n) = Clamp(n) /\ Delf!HalfPoint(n, 4) = HalfPoint(n, 4)
  BY DEF Tef!Clamp, Clamp, Delf!HalfPoint, HalfPoint
<1> QED BY <1>1, TakenAre, SameScales
        DEF Tef!Mark, Delf!Mark, Written, Tef!Comprehension, Delf!Comprehension,
            TefMarkOf, DelfMarkOf

\* A mark is a number and rises with the answers.
LEMMA MarksRise ==
    ASSUME NEW s \in Taken, NEW a \in Nat, NEW b \in Nat, a <= b
    PROVE  /\ TefMarkOf(s, a) \in Nat /\ TefMarkOf(s, a) <= TefMarkOf(s, b)
           /\ DelfMarkOf(s, a) \in Nat /\ DelfMarkOf(s, a) <= DelfMarkOf(s, b)
<1>0. Questions \in Nat \ {0}
  BY MockAssumption
<1>1. CASE s = "writing"
  <2>1. Clamp(a) \in Nat /\ Clamp(a) <= Clamp(b)
    BY DEF Clamp
  <2>2. (4 * a + 4) \div 8 \in Nat /\ (4 * a + 4) \div 8 <= (4 * b + 4) \div 8
    BY DivMonotone, 4 * a + 4 \in Nat, 4 * b + 4 \in Nat, 8 \in Nat \ {0}, 4 * a + 4 <= 4 * b + 4
  <2> QED BY <1>1, <2>1, <2>2 DEF TefMarkOf, DelfMarkOf, HalfPoint
<1>2. CASE s # "writing"
  <2>1. ClbFromFraction(<<a, Questions>>) \in Nat
    <3>1. ClbFromFraction(<<a, Questions>>) \in 3..9
      BY <1>0, ClbRange
    <3> QED BY <3>1
  <2>2. DelfPoints(<<a, Questions>>) \in Nat
    <3>1. 100 * a + Questions \in Nat /\ 2 * Questions \in Nat \ {0}
      BY <1>0
    <3>2. \A x \in Nat, d \in Nat \ {0} : x \div d \in Nat
      OBVIOUS
    <3> QED BY <3>1, <3>2, PointsOf
  <2> QED BY <1>0, <1>2, <2>1, <2>2, ClbMonotone, DelfMonotone DEF TefMarkOf, DelfMarkOf
<1> QED BY <1>1, <1>2

\* The lowest of the marks is one of them, and none is lower.
LEMMA LowestIs ==
    ASSUME NEW f \in [Taken -> Nat]
    PROVE  /\ \E s \in Taken : Tef!Lowest(f) = f[s]
           /\ \A s \in Taken : Tef!Lowest(f) <= f[s]
<1>1. Range(f) \subseteq Nat /\ Range(f) # {}
  BY TakenAre DEF Range
<1>2. \E n \in Range(f) : \A m \in Range(f) : n <= m
  <2> DEFINE R == Range(f)
  <2> HIDE DEF R
  <2>1. R \subseteq Nat /\ R # {}
    BY <1>1 DEF R
  <2>2. \E n \in R : \A m \in R : n <= m
    BY <2>1, LeastNatural
  <2> QED BY <2>2 DEF R
<1>3. Tef!Lowest(f) \in Range(f) /\ \A m \in Range(f) : Tef!Lowest(f) <= m
  BY <1>2 DEF Tef!Lowest, Tef!Range, Range
<1> QED BY <1>3 DEF Range

\* An instance adds up a function as the library does.
LEMMA SameSum == \A f : Delf!SumFunction(f) = SumFunction(f)
BY DEF SumFunction, SumFunctionOnSet, FoldFunctionOnSet, MapThenFoldSet,
       Delf!SumFunction, Delf!SumFunctionOnSet, Delf!FoldFunctionOnSet, Delf!MapThenFoldSet

\* What the report of a TEF mock holds.
LEMMA TefReportIs ==
    ASSUME NEW f
    PROVE  /\ Tef!Report(f).per_skill = f
           /\ Tef!Report(f).overall = Tef!Lowest(f)
           /\ Tef!Report(f).met = (Tef!Lowest(f) >= 7)
<1> DEFINE met == Tef!Lowest(f) >= 7
<1>1. Tef!Report(f) = [per_skill |-> f, overall |-> Tef!Lowest(f), met |-> met]
  BY DEF Tef!Report, Tef!ClbReport, Tef!Overall, Tef!TARGET_CLB
<1>2. /\ Tef!Report(f).per_skill = f
      /\ Tef!Report(f).overall = Tef!Lowest(f)
      /\ Tef!Report(f).met = met
  <2> HIDE DEF met
  <2> QED BY <1>1
<1> QED BY <1>2, Zenon DEF met

\* What the report of a DELF mock holds.
LEMMA DelfReportIs ==
    ASSUME NEW f
    PROVE  /\ Delf!Report(f).per_skill = f
           /\ Delf!Report(f).overall = SumFunction(f)
           /\ Delf!Report(f).met = (SumFunction(f) >= 100 /\ Delf!Floor(f))
<1> HIDE DEF SumFunction
<1> DEFINE met == SumFunction(f) >= 2 * Delf!DELF_PASS_TOTAL /\ Delf!Floor(f)
<1>1. Delf!Report(f) = [per_skill |-> f, overall |-> SumFunction(f), met |-> met]
  BY SameSum, Zenon DEF Delf!Report, Delf!DelfReport
<1>2. /\ Delf!Report(f).per_skill = f
      /\ Delf!Report(f).overall = SumFunction(f)
      /\ Delf!Report(f).met = met
  <2> HIDE DEF met
  <2> QED BY <1>1
<1>3. 2 * Delf!DELF_PASS_TOTAL = 100
  BY DEF Delf!DELF_PASS_TOTAL
<1> QED BY <1>2, <1>3, Zenon DEF met

\* Higher marks make a better report, of either format.
LEMMA ReportsRise ==
    ASSUME NEW f \in [Taken -> Nat], NEW g \in [Taken -> Nat], \A s \in Taken : f[s] <= g[s]
    PROVE  /\ Raised(Tef!Report(f), Tef!Report(g))
           /\ Raised(Delf!Report(f), Delf!Report(g))
<1>1. Tef!Lowest(f) \in Nat /\ Tef!Lowest(g) \in Nat /\ Tef!Lowest(f) <= Tef!Lowest(g)
  <2>1. PICK s \in Taken : Tef!Lowest(g) = g[s]
    BY LowestIs
  <2>2. PICK r \in Taken : Tef!Lowest(f) = f[r]
    BY LowestIs
  <2>3. Tef!Lowest(f) <= f[s] /\ f[s] <= g[s]
    BY LowestIs
  <2> QED BY <2>1, <2>2, <2>3
<1>2. Raised(Tef!Report(f), Tef!Report(g))
  <2>1. Tef!Report(f).met => Tef!Report(g).met
    <3>1. Tef!Lowest(f) >= 7 => Tef!Lowest(g) >= 7
      BY <1>1
    <3> QED BY <3>1, TefReportIs, Zenon
  <2> QED BY <1>1, <2>1, TefReportIs DEF Raised
<1>3. /\ SumFunction(f) \in Int /\ SumFunction(g) \in Int
      /\ SumFunction(f) <= SumFunction(g)
  <2>1. f \in [Taken -> Int] /\ g \in [Taken -> Int]
    OBVIOUS
  <2> QED BY <2>1, TakenAre, SumType, SumMonotone
<1>4. Delf!Floor(f) => Delf!Floor(g)
  BY DEF Delf!Floor, Delf!DELF_SECTION_MIN
<1>5. Raised(Delf!Report(f), Delf!Report(g))
  <2>1. Delf!Report(f).met => Delf!Report(g).met
    <3>1. SumFunction(f) >= 100 => SumFunction(g) >= 100
      BY <1>3
    <3> QED BY <1>4, <3>1, DelfReportIs, Zenon
  <2> QED BY <1>3, <2>1, DelfReportIs DEF Raised
<1> QED BY <1>2, <1>5

-----------------------------------------------------------------------------
\* MockScores: its theorems

\* The answers to a mock stay within its questions and the best writing score.
THEOREM MockTypeCorrect == MockSpec => []MockTypeOK
<1>1. MockInit => MockTypeOK
  BY MockAssumption DEF MockInit, MockTypeOK, Blank, Top
<1>2. MockTypeOK /\ [MockNext]_answers => MockTypeOK'
  BY MockAssumption DEF MockTypeOK, MockNext, Better, Top
<1> QED BY <1>1, <1>2, PTL DEF MockSpec

\* The marks are those of the answers given, and numbers.
MarksAgree ==
    /\ TefMarks = [s \in Taken |-> TefMarkOf(s, answers[s])]
    /\ DelfMarks = [s \in Taken |-> DelfMarkOf(s, answers[s])]
    /\ TefMarks \in [Taken -> Nat] /\ DelfMarks \in [Taken -> Nat]

\* A walk over well-formed answers always has them.
LEMMA MarksOfAnswers == MockTypeOK => MarksAgree
<1> SUFFICES ASSUME MockTypeOK PROVE MarksAgree
  OBVIOUS
<1>1. \A s \in Taken : /\ Tef!Mark(s, Answer(s)) = TefMarkOf(s, answers[s])
                       /\ Delf!Mark(s, Answer(s)) = DelfMarkOf(s, answers[s])
  BY MarksAre DEF Answer
<1>2. \A s \in Taken : TefMarkOf(s, answers[s]) \in Nat /\ DelfMarkOf(s, answers[s]) \in Nat
  <2>1. \A s \in Taken : answers[s] \in Nat /\ answers[s] <= answers[s]
    BY DEF MockTypeOK
  <2> QED BY <2>1, MarksRise
<1> QED BY <1>1, <1>2 DEF MarksAgree, TefMarks, DelfMarks

\* One more correct answer never lowers a mark or the overall one and never undoes a target
\* met, in a mock of any length, TEF or DELF.
THEOREM BetterHurtsNever == MockSpec => BetterNeverHurts
<1>1. ASSUME MockTypeOK, MockTypeOK', MockNext, MarksAgree, MarksAgree'
      PROVE  Raised(TefResult, TefResult') /\ Raised(DelfResult, DelfResult')
  <2>1. \A s \in Taken : answers[s] \in Nat /\ answers'[s] \in Nat /\ answers[s] <= answers'[s]
    BY <1>1 DEF MockTypeOK, MockNext, Better
  <2>2. \A s \in Taken : /\ TefMarkOf(s, answers[s]) <= TefMarkOf(s, answers'[s])
                         /\ DelfMarkOf(s, answers[s]) <= DelfMarkOf(s, answers'[s])
    BY <2>1, MarksRise
  <2>3. /\ TefMarks \in [Taken -> Nat] /\ TefMarks' \in [Taken -> Nat]
        /\ DelfMarks \in [Taken -> Nat] /\ DelfMarks' \in [Taken -> Nat]
        /\ \A s \in Taken : TefMarks[s] <= TefMarks'[s] /\ DelfMarks[s] <= DelfMarks'[s]
    BY <1>1, <2>2 DEF MarksAgree
  <2> QED BY <2>3, ReportsRise DEF TefResult, DelfResult
<1>2. ASSUME MockTypeOK, MockTypeOK', [MockNext]_answers, answers' # answers,
             MarksAgree, MarksAgree'
      PROVE  Raised(TefResult, TefResult') /\ Raised(DelfResult, DelfResult')
  BY <1>1, <1>2
<1> QED BY <1>2, MarksOfAnswers, MockTypeCorrect, PTL DEF MockSpec, BetterNeverHurts

-----------------------------------------------------------------------------
\* MockScores: the marks are what the answers are worth

\* The rows of a level ask for no less than its percentage, and one of them for no more.
LEMMA RowsOfLevel ==
    ASSUME NEW level \in 1..9
    PROVE  /\ \A i \in 1..7 : Band(i)[2] >= level => Band(i)[1] >= Percentage[level]
           /\ \E i \in 1..7 : Band(i)[1] = Percentage[level] /\ Band(i)[2] >= level
<1>1. \A i \in 1..7 : Band(i)[2] >= level => Band(i)[1] >= Percentage[level]
  BY DEF Band, Bands, Percentage
<1>2. \E i \in 1..7 : Band(i)[1] = Percentage[level] /\ Band(i)[2] >= level
  <2> DEFINE i == IF level <= 3 THEN 7 ELSE 10 - level
  <2>1. i \in 1..7 /\ Band(i)[1] = Percentage[level] /\ Band(i)[2] >= level
    BY DEF Band, Bands, Percentage
  <2> QED BY <2>1
<1> QED BY <1>1, <1>2

\* The first row reached decides as the percentages do.
LEMMA LevelIffReached ==
    ASSUME NEW c \in Nat, NEW n \in Nat, NEW level \in 1..9
    PROVE  ClbFromFraction(<<c, n>>) >= level <=> 100 * c >= Percentage[level] * n
<1> DEFINE Reached == {i \in 1..7 : 100 * c >= Band(i)[1] * n}
<1>1. Len(Bands) = 7 /\ Band(7)[1] = 0 /\ Percentage[level] \in Nat
  BY DEF Band, Bands, Percentage
<1>2. \A i \in 1..7 : Band(i)[1] \in Nat /\ Band(i)[2] \in Nat
  BY DEF Band, Bands
<1>3. 7 \in Reached /\ Reached \subseteq Nat /\ Reached \subseteq 1..7
  BY <1>1
<1>4. PICK row \in Reached : /\ ClbFromFraction(<<c, n>>) = Band(row)[2]
                             /\ \A j \in Reached : row <= j
  <2> DEFINE first == CHOOSE i \in Reached : \A j \in Reached : i <= j
  <2>1. ClbFromFraction(<<c, n>>) = Band(first)[2]
    BY <1>1 DEF ClbFromFraction, Reaches
  <2>2. \E i \in Reached : \A j \in Reached : i <= j
    <3> HIDE DEF Reached
    <3> QED BY <1>3, LeastNatural
  <2>3. first \in Reached /\ \A j \in Reached : first <= j
    <3> HIDE DEF Reached
    <3> QED BY <2>2
  <2> HIDE DEF Reached, first
  <2> QED BY <2>1, <2>3
<1>5. row \in 1..7 /\ 100 * c >= Band(row)[1] * n
  BY <1>4
<1>6. ASSUME Band(row)[2] >= level PROVE 100 * c >= Percentage[level] * n
  <2>1. PICK k \in Nat : Band(row)[1] = Percentage[level] + k
    <3>1. Band(row)[1] >= Percentage[level] /\ Band(row)[1] \in Nat
      BY <1>2, <1>5, <1>6, RowsOfLevel
    <3> QED BY <1>1, <3>1, Band(row)[1] - Percentage[level] \in Nat
  <2>2. Band(row)[1] * n = Percentage[level] * n + k * n /\ k * n \in Nat
        /\ Percentage[level] * n \in Nat
    BY <1>1, <2>1
  <2> QED BY <1>5, <2>2
<1>7. ASSUME 100 * c >= Percentage[level] * n PROVE Band(row)[2] >= level
  <2>1. PICK i \in 1..7 : Band(i)[1] = Percentage[level] /\ Band(i)[2] >= level
    BY RowsOfLevel
  <2>2. i \in Reached
    BY <1>7, <2>1
  <2>3. row <= i
    BY <1>4, <2>2
  <2> QED BY <1>2, <1>5, <2>1, <2>3, BandsFall
<1> QED BY <1>4, <1>6, <1>7

\* A mark in half points is within half of one of the exact points, and a tie is below it.
LEMMA PointsAreClose ==
    ASSUME MockTypeOK, NEW s \in Taken
    PROVE  LET mark == DelfMarks[s]
           IN  /\ mark \in Nat /\ InParts(mark) \in Int /\ Exact(s) \in Int
               /\ InParts(mark) - Questions <= Exact(s)
               /\ Exact(s) < InParts(mark) + Questions
<1> DEFINE n == answers[s]
           mark == DelfMarks[s]
<1>0. Questions \in Nat \ {0} /\ n \in Nat
  BY MockAssumption DEF MockTypeOK
<1>1. mark = DelfMarkOf(s, n) /\ mark \in Nat
  BY MarksOfAnswers DEF MarksAgree
<1>2. CASE s = "writing"
  <2>1. mark = (4 * n + 4) \div 8 /\ Exact(s) = n * Questions
    BY <1>1, <1>2 DEF DelfMarkOf, HalfPoint, Exact, Written
  <2>2. 2 * mark <= n + 1 /\ n <= 2 * mark
    BY <1>0, <2>1
  <2> HIDE DEF mark, n
  <2>3. PICK k \in Nat : n = 2 * mark - k /\ k <= 1
    BY <1>0, <1>1, <2>2, 2 * mark - n \in Nat
  <2>4. n * Questions = 2 * Questions * mark - k * Questions /\ k * Questions \in 0..Questions
    <3>1. k = 0 \/ k = 1
      BY <2>3
    <3> QED BY <1>0, <1>1, <2>3, <3>1
  <2>5. 2 * Questions * mark \in Int
    BY <1>0, <1>1
  <2>6. InParts(mark) = 2 * Questions * mark
    BY DEF InParts
  <2> HIDE DEF InParts
  <2>7. /\ InParts(mark) \in Int /\ Exact(s) \in Int
        /\ InParts(mark) - Questions <= Exact(s) /\ Exact(s) < InParts(mark) + Questions
    BY <1>0, <2>1, <2>4, <2>5, <2>6
  <2> QED BY <1>1, <2>7 DEF mark
<1>3. CASE s # "writing"
  <2>1. mark = (100 * n + Questions) \div (2 * Questions) /\ Exact(s) = 100 * n
    BY <1>0, <1>1, <1>3, PointsOf DEF DelfMarkOf, Exact, Written
  <2> DEFINE d == 2 * Questions
             m == 100 * n + Questions
  <2>2. d \in Nat \ {0} /\ m \in Nat
    BY <1>0
  <2>3. mark = m \div d /\ InParts(mark) = d * mark
    BY <2>1 DEF InParts
  <2> HIDE DEF d, m, mark, n
  <2>4. d * mark <= m /\ m < d * (mark + 1)
    BY <2>2, <2>3
  <2>5. d * (mark + 1) = d * mark + d /\ d * mark \in Int
    BY <1>1, <2>2
  <2>6. /\ InParts(mark) \in Int /\ Exact(s) \in Int
        /\ InParts(mark) - Questions <= Exact(s) /\ Exact(s) < InParts(mark) + Questions
    BY <1>0, <2>1, <2>3, <2>4, <2>5 DEF d, m
  <2> QED BY <1>1, <2>6 DEF mark
<1> QED BY <1>2, <1>3

\* Of two numbers of half points the greater is at least one half point further on.
LEMMA PartsApart ==
    ASSUME NEW x \in Int, NEW y \in Int, x < y
    PROVE  InParts(x) \in Int /\ InParts(y) \in Int /\ InParts(x) + InParts(1) <= InParts(y)
<1>0. Questions \in Nat \ {0}
  BY MockAssumption
<1>1. PICK k \in Nat : y = x + 1 + k
  BY y - x - 1 \in Nat
<1>2. /\ 2 * Questions * y = 2 * Questions * x + 2 * Questions * 1 + 2 * Questions * k
      /\ 2 * Questions * k \in Nat /\ 2 * Questions * x \in Int
  BY <1>0, <1>1
<1> QED BY <1>0, <1>2 DEF InParts

\* A level is reached exactly by those with its percentage of the answers.
LEMMA TrueLevels == MockTypeOK => LevelsAreTrue
<1> SUFFICES ASSUME MockTypeOK, NEW s \in Tef!Comprehension, NEW level \in 1..9
             PROVE  TefMarks[s] >= level <=> 100 * answers[s] >= Percentage[level] * Questions
  BY DEF LevelsAreTrue, Percentage
<1>1. s \in Taken /\ s # "writing" /\ answers[s] \in Nat /\ Questions \in Nat
  BY TakenAre, MockAssumption DEF MockTypeOK, Tef!Comprehension
<1>2. TefMarks[s] = ClbFromFraction(<<answers[s], Questions>>)
  BY <1>1, MarksOfAnswers DEF MarksAgree, TefMarkOf
<1> QED BY <1>1, <1>2, LevelIffReached

\* No other half point is nearer to the exact points, and none above is as near.
LEMMA NearestPoints == MockTypeOK => PointsAreNearest
<1> SUFFICES ASSUME MockTypeOK, NEW s \in Taken, NEW hp \in 0..50
             PROVE  LET mark == DelfMarks[s]
                        mine == Distance(InParts(mark), Exact(s))
                        its  == Distance(InParts(hp), Exact(s))
                    IN  mine < its \/ (mine = its /\ hp <= mark)
  BY DEF PointsAreNearest, Delf!DELF_SECTION_MAX
<1> DEFINE mark == DelfMarks[s]
           here == InParts(mark)
           there == InParts(hp)
           e == Exact(s)
<1>1. mark \in Nat /\ here \in Int /\ e \in Int /\ here - Questions <= e /\ e < here + Questions
  BY PointsAreClose
<1>2. InParts(1) = 2 * Questions /\ Questions \in Nat
  BY MockAssumption DEF InParts
<1>3. hp < mark => there \in Int /\ there + 2 * Questions <= here
  BY <1>1, <1>2, PartsApart
<1>4. mark < hp => there \in Int /\ here + 2 * Questions <= there
  BY <1>1, <1>2, PartsApart
<1>5. hp = mark => there = here
  OBVIOUS
<1> HIDE DEF mark, here, there, e
<1>6. LET mine == Distance(here, e)
          its  == Distance(there, e)
      IN  mine < its \/ (mine = its /\ hp <= mark)
  <2>1. CASE hp = mark
    BY <1>1, <1>5, <2>1 DEF Distance
  <2>2. CASE hp < mark
    BY <1>1, <1>2, <1>3, <2>2 DEF Distance
  <2>3. CASE mark < hp
    BY <1>1, <1>2, <1>4, <2>3 DEF Distance
  <2> QED BY <1>1, <2>1, <2>2, <2>3
<1> QED BY <1>6 DEF mark, here, there, e

\* The sum over the three sections is the sum of the three marks.
LEMMA SumOfThree ==
    ASSUME NEW f \in [Taken -> Int]
    PROVE  SumFunction(f) = f["reading"] + f["listening"] + f["writing"]
<1> HIDE DEF SumFunction
<1> DEFINE zeros == [s \in Taken |-> 0]
           one == [zeros EXCEPT !["reading"] = f["reading"]]
           two == [one EXCEPT !["listening"] = f["listening"]]
<1>1. zeros \in [Taken -> Int] /\ one \in [Taken -> Int] /\ two \in [Taken -> Int]
  BY TakenAre
<1>2. SumFunction(zeros) = 0
  BY TakenAre, SumOfZeros
<1>3. /\ one["reading"] = f["reading"] /\ zeros["reading"] = 0
      /\ \A s \in Taken \ {"reading"} : one[s] = zeros[s]
  BY TakenAre
<1>4. /\ two["listening"] = f["listening"] /\ one["listening"] = 0
      /\ \A s \in Taken \ {"listening"} : two[s] = one[s]
  BY TakenAre
<1>5. two["writing"] = 0 /\ \A s \in Taken \ {"writing"} : f[s] = two[s]
  BY TakenAre
<1> HIDE DEF zeros, one, two
<1>6. SumFunction(one) = SumFunction(zeros) + one["reading"] - zeros["reading"]
  BY <1>1, <1>3, TakenAre, SumUpdate
<1>7. SumFunction(two) = SumFunction(one) + two["listening"] - one["listening"]
  BY <1>1, <1>4, TakenAre, SumUpdate
<1>8. SumFunction(f) = SumFunction(two) + f["writing"] - two["writing"]
  BY <1>1, <1>5, TakenAre, SumUpdate
<1>9. f["reading"] \in Int /\ f["listening"] \in Int /\ f["writing"] \in Int
  BY TakenAre
<1> QED BY <1>2, <1>3, <1>4, <1>5, <1>6, <1>7, <1>8, <1>9

\* A section reaches its floor of five points exactly from 4.75 points on.
LEMMA FloorIs ==
    ASSUME MockTypeOK, NEW s \in Taken
    PROVE  DelfMarks[s] >= 10 <=> Exact(s) >= 19 * Questions
<1> DEFINE mark == DelfMarks[s]
<1>1. /\ mark \in Nat /\ InParts(mark) \in Int /\ Exact(s) \in Int
      /\ InParts(mark) - Questions <= Exact(s) /\ Exact(s) < InParts(mark) + Questions
  BY PointsAreClose
<1>2. /\ InParts(1) = 2 * Questions /\ InParts(9) = 18 * Questions
      /\ InParts(10) = 20 * Questions /\ Questions \in Nat
  BY MockAssumption DEF InParts
<1> HIDE DEF mark
<1>3. ASSUME mark >= 10 PROVE Exact(s) >= 19 * Questions
  <2>1. InParts(mark) >= 20 * Questions
    <3>1. CASE mark = 10
      BY <1>2, <3>1
    <3>2. CASE mark > 10
      <4>1. InParts(10) + InParts(1) <= InParts(mark)
        BY <1>1, <3>2, PartsApart
      <4> QED BY <1>1, <1>2, <4>1
    <3> QED BY <1>1, <1>3, <3>1, <3>2
  <2> QED BY <1>1, <1>2, <2>1
<1>4. ASSUME mark < 10 PROVE Exact(s) < 19 * Questions
  <2>1. InParts(mark) <= 18 * Questions
    <3>1. CASE mark = 9
      BY <1>2, <3>1
    <3>2. CASE mark < 9
      <4>1. InParts(mark) + InParts(1) <= InParts(9)
        BY <1>1, <3>2, PartsApart
      <4> QED BY <1>1, <1>2, <4>1
    <3> QED BY <1>1, <1>4, <3>1, <3>2
  <2> QED BY <1>1, <1>2, <2>1
<1>5. mark >= 10 <=> Exact(s) >= 19 * Questions
  BY <1>1, <1>2, <1>3, <1>4
<1> QED BY <1>5 DEF mark

\* The TEF goal is met by those with seven answers in ten and a writing of seven.
LEMMA TefGoalIs == MockTypeOK => TefGoal
<1> SUFFICES ASSUME MockTypeOK PROVE TefGoal
  OBVIOUS
<1>1. TefMarks \in [Taken -> Nat]
  BY MarksOfAnswers DEF MarksAgree
<1>2. TefResult.met <=> \A s \in Taken : TefMarks[s] >= 7
  <2>1. /\ \E s \in Taken : Tef!Lowest(TefMarks) = TefMarks[s]
        /\ \A s \in Taken : Tef!Lowest(TefMarks) <= TefMarks[s]
    BY <1>1, LowestIs
  <2>2. Tef!Lowest(TefMarks) >= 7 <=> \A s \in Taken : TefMarks[s] >= 7
    BY <1>1, <2>1
  <2> QED BY <2>2, TefReportIs, Zenon DEF TefResult
<1>3. \A s \in Tef!Comprehension : TefMarks[s] >= 7 <=> 10 * answers[s] >= 7 * Questions
  <2> SUFFICES ASSUME NEW s \in Tef!Comprehension
               PROVE  TefMarks[s] >= 7 <=> 10 * answers[s] >= 7 * Questions
    OBVIOUS
  <2>1. answers[s] \in Nat /\ Questions \in Nat
    BY MockAssumption DEF MockTypeOK, Taken
  <2>2. TefMarks[s] >= 7 <=> 100 * answers[s] >= 70 * Questions
    <3>1. 7 \in DOMAIN Percentage /\ Percentage[7] = 70
      BY DEF Percentage
    <3> QED BY <3>1, TrueLevels DEF LevelsAreTrue
  <2> QED BY <2>1, <2>2
<1>4. TefMarks[Written] >= 7 <=> answers[Written] >= 7
  <2>1. Written \in Taken /\ Written = "writing" /\ answers[Written] \in Nat
    BY DEF MockTypeOK, Taken, Written
  <2>2. TefMarks[Written] = Clamp(answers[Written])
    BY <2>1, MarksOfAnswers DEF MarksAgree, TefMarkOf
  <2> QED BY <2>1, <2>2 DEF Clamp
<1> QED BY <1>2, <1>3, <1>4 DEF TefGoal, Taken

\* The three points are together within half a half point for each of the exact total.
LEMMA TotalIsClose ==
    ASSUME MockTypeOK
    PROVE  LET total == SumFunction(DelfMarks)
           IN  /\ total \in Int /\ InParts(total) \in Int /\ DelfTotal \in Int
               /\ InParts(total) <= DelfTotal + Rounding
               /\ DelfTotal < InParts(total) + Rounding
<1> DEFINE a == DelfMarks["reading"]
           b == DelfMarks["listening"]
           c == DelfMarks["writing"]
           total == SumFunction(DelfMarks)
<1>1. /\ a \in Nat /\ InParts(a) \in Int /\ Exact("reading") \in Int
      /\ InParts(a) - Questions <= Exact("reading") /\ Exact("reading") < InParts(a) + Questions
  BY TakenAre, PointsAreClose
<1>2. /\ b \in Nat /\ InParts(b) \in Int /\ Exact("listening") \in Int
      /\ InParts(b) - Questions <= Exact("listening")
      /\ Exact("listening") < InParts(b) + Questions
  BY TakenAre, PointsAreClose
<1>3. /\ c \in Nat /\ InParts(c) \in Int /\ Exact("writing") \in Int
      /\ InParts(c) - Questions <= Exact("writing") /\ Exact("writing") < InParts(c) + Questions
  BY TakenAre, PointsAreClose
<1>4. total = a + b + c
  <2>1. DelfMarks \in [Taken -> Int]
    BY MarksOfAnswers DEF MarksAgree
  <2> HIDE DEF SumFunction
  <2> QED BY <2>1, SumOfThree
<1> HIDE DEF a, b, c, total
<1>5. InParts(total) = InParts(a) + InParts(b) + InParts(c)
  BY <1>1, <1>2, <1>3, <1>4, MockAssumption DEF InParts
<1>6. Rounding = 3 * Questions
  <2>1. Cardinality(Taken) = 3
    <3>1. /\ Cardinality({"reading"}) = 1 /\ IsFiniteSet({"reading"})
          /\ Cardinality({"listening"}) = 1 /\ IsFiniteSet({"listening"})
          /\ Cardinality({"writing"}) = 1 /\ IsFiniteSet({"writing"})
      BY FS_Singleton
    <3>2. /\ Cardinality({"reading"} \cup {"listening"}) = 2
          /\ IsFiniteSet({"reading"} \cup {"listening"})
      <4>1. {"reading"} \cap {"listening"} = {}
        OBVIOUS
      <4> QED BY <3>1, <4>1, FS_Union, FS_EmptySet
    <3>3. Cardinality(({"reading"} \cup {"listening"}) \cup {"writing"}) = 3
      <4>1. ({"reading"} \cup {"listening"}) \cap {"writing"} = {}
        OBVIOUS
      <4> QED BY <3>1, <3>2, <4>1, FS_Union, FS_EmptySet
    <3>4. Taken = ({"reading"} \cup {"listening"}) \cup {"writing"}
      BY TakenAre
    <3> QED BY <3>3, <3>4
  <2> QED BY <2>1 DEF Rounding
<1>7. DelfTotal = Exact("reading") + Exact("listening") + Exact("writing")
  BY DEF DelfTotal, Written
<1>8. Questions \in Nat
  BY MockAssumption
<1>9. /\ total \in Int /\ InParts(total) \in Int /\ DelfTotal \in Int
      /\ InParts(total) <= DelfTotal + Rounding
      /\ DelfTotal < InParts(total) + Rounding
  BY <1>1, <1>2, <1>3, <1>4, <1>5, <1>6, <1>7, <1>8
<1> QED BY <1>9 DEF total

\* A DELF mock is passed by those whose exact points are enough, but for the rounding.
LEMMA DelfGoalIs == MockTypeOK => DelfGoal
<1> SUFFICES ASSUME MockTypeOK PROVE DelfGoal
  OBVIOUS
<1> DEFINE total == SumFunction(DelfMarks)
<1>1. DelfResult.met <=> total >= 100 /\ Delf!Floor(DelfMarks)
  BY DelfReportIs, Zenon DEF DelfResult
<1>2. Delf!Floor(DelfMarks) <=> AllFloors
  <2>1. DOMAIN DelfMarks = Taken
    BY DEF DelfMarks
  <2> QED BY <2>1, FloorIs DEF Delf!Floor, Delf!DELF_SECTION_MIN, AllFloors
<1>3. /\ total \in Int /\ InParts(total) \in Int /\ DelfTotal \in Int
      /\ InParts(total) <= DelfTotal + Rounding /\ DelfTotal < InParts(total) + Rounding
  BY TotalIsClose
<1>4. Rounding \in Int
  <2>1. Cardinality(Taken) \in Nat
    BY TakenAre, FS_CardinalityType
  <2> QED BY <2>1, MockAssumption DEF Rounding
<1>5. InParts(2 * Delf!DELF_PASS_TOTAL) = InParts(100)
  BY DEF Delf!DELF_PASS_TOTAL
<1> HIDE DEF total
<1>6. total > 100 => InParts(100) <= InParts(total)
  <2>1. total > 100 => InParts(100) + InParts(1) <= InParts(total)
    BY <1>3, PartsApart
  <2> QED BY <1>3, <2>1, MockAssumption DEF InParts
<1>7. total < 100 => InParts(total) <= InParts(100)
  <2>1. total < 100 => InParts(total) + InParts(1) <= InParts(100)
    BY <1>3, PartsApart
  <2> QED BY <1>3, <2>1, MockAssumption DEF InParts
<1>8. InParts(100) \in Int
  BY MockAssumption DEF InParts
<1>9. total >= 100 => DelfTotal + Rounding >= InParts(100)
  BY <1>3, <1>4, <1>6, <1>8
<1>10. DelfTotal - Rounding >= InParts(100) => total >= 100
  BY <1>3, <1>4, <1>7, <1>8
<1> QED BY <1>1, <1>2, <1>5, <1>9, <1>10 DEF DelfGoal

\* Marks and goals are what the raw answers are worth, in a mock of any length: no threshold
\* is off by one answer, no tie is rounded down, no section is left out.
THEOREM MarksAreWorth == MockSpec => []MarksAreTrue
<1>1. MockTypeOK => MarksAreTrue
  BY TrueLevels, NearestPoints, TefGoalIs, DelfGoalIs DEF MarksAreTrue
<1> QED BY <1>1, MockTypeCorrect, PTL

=============================================================================
