------------------------------ MODULE Activity ------------------------------
(***************************************************************************)
(* The shared write path of every learning activity, app/progress/service  *)
(* and the streak rule of app/progress/models: pure operators on the row   *)
(* of progress_user and on one cell of the daily XP ledger.                *)
(*                                                                         *)
(* A progress row is [level, xp, streak, last]; level 0 stands for "no row *)
(* yet" and last 0 for a last_active that is NULL.  Days count from 1.     *)
(***************************************************************************)
EXTENDS Integers

NoProgress == [level |-> 0, xp |-> 0, streak |-> 0, last |-> 0]

\* get_or_create_progress: a missing row is inserted at the caller's level.
GetOrCreate(p, lv) == IF p.level = 0 THEN [p EXCEPT !.level = lv] ELSE p

\* A plausible slip: a second activity of the same day counts again.
ComputeStreak_SameDay(streak, last, day) ==
    IF last # 0 /\ last \in {day - 1, day} THEN streak + 1 ELSE 1

ComputeStreak(streak, last, day) ==
    IF last = 0 THEN 1
    ELSE IF last = day THEN streak
    ELSE IF last = day - 1 THEN streak + 1
    ELSE 1

\* Promotion only: a lower level of the incoming activity changes nothing.
PromoteLevel(cur, lv) == IF lv > cur THEN lv ELSE cur

\* _claim_daily_xp: what an award adds, given the ledger cell it goes to.  A
\* once-per-day source has claimed its marker as soon as its cell is not empty.
Granted(cell, award, oncePerDay) ==
    IF oncePerDay /\ cell > 0 THEN 0 ELSE award

\* record_activity on the progress row: level, streak, last_active and the SQL
\* increment of xp.
RecordOn(p, day, lv, granted) ==
    LET q == GetOrCreate(p, lv)
    IN [level  |-> PromoteLevel(q.level, lv),
        xp     |-> q.xp + granted,
        streak |-> ComputeStreak(q.streak, q.last, day),
        last   |-> day]

=============================================================================
