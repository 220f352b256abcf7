------------------------------- MODULE Gating -------------------------------
(***************************************************************************)
(* The gating of the learning path, app/content/api.py: which units of a   *)
(* level are complete, available or locked for the lessons a learner has   *)
(* completed, and whether one lesson may be attempted.  Pure functions of  *)
(* the authored content; both the path view and the two write endpoints    *)
(* of app/progress/api.py go through them.                                 *)
(*                                                                         *)
(* A unit of unlock type "none" and one of type "all_of" with an empty     *)
(* list are unlocked alike, so both have an empty Requires here.           *)
(***************************************************************************)
EXTENDS Integers

CONSTANTS
    Lessons,       \* lesson ids
    Units,         \* unit ids
    LessonsOf,     \* the lessons of each unit
    Requires,      \* the unit and lesson ids a unit's unlock rule names
    UnitLevel,     \* the CEFR level of a unit, as its index in _LEVEL_ORDER plus 1
    LessonLevel    \* the CEFR level of a lesson

Levels == 1..6

\* What content sync has validated (content/loader.py): a unit lists lessons that
\* exist, all of its own level, and requires ids that exist.
ASSUME ContentAssumption ==
    /\ LessonsOf \in [Units -> SUBSET Lessons]
    /\ Requires \in [Units -> SUBSET (Units \cup Lessons)]
    /\ UnitLevel \in [Units -> Levels]
    /\ LessonLevel \in [Lessons -> Levels]
    /\ \A u \in Units : \A l \in LessonsOf[u] : LessonLevel[l] = UnitLevel[u]

-----------------------------------------------------------------------------

LevelUnits(lv) == {u \in Units : UnitLevel[u] = lv}

\* A unit with no lessons is never complete.
CompleteUnits(lv, done) ==
    {u \in LevelUnits(lv) : LessonsOf[u] # {} /\ LessonsOf[u] \subseteq done}

\* all_of: every required id is a complete unit of this level or a completed lesson.
UnlockOk(u, done) ==
    Requires[u] \subseteq (CompleteUnits(UnitLevel[u], done) \cup done)

UnitStatus(u, done) ==
    IF u \in CompleteUnits(UnitLevel[u], done) THEN "complete"
    ELSE IF UnlockOk(u, done) THEN "available"
    ELSE "locked"

Owners(l) == {u \in LevelUnits(LessonLevel[l]) : l \in LessonsOf[u]}

\* The unit that owns a lesson, the first one in the table's order when several do.
OwningUnit(l) == CHOOSE u \in Owners(l) : TRUE

\* A lesson no unit owns is ungated.
IsLessonUnlocked(l, done) ==
    Owners(l) # {} => UnitStatus(OwningUnit(l), done) # "locked"

=============================================================================
