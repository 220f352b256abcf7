----------------------------- MODULE UsageMeter -----------------------------
(***************************************************************************)
(* The daily token meter of one learner and one feature                    *)
(* (app/usage/service) and the model calls it admits.  Every metered       *)
(* endpoint runs the same protocol: read the day's row and refuse if it    *)
(* has reached the budget, call the model, read the row again, and write   *)
(* back what was read plus what the call cost.                             *)
(*                                                                         *)
(* Reads are in autocommit; the first INSERT or UPDATE of a request takes  *)
(* SQLite's write lock, which it keeps until it commits.  So a request is  *)
(* one step per await up to its first write and one step for the rest.     *)
(* Input and output tokens are two columns written together: one number.   *)
(***************************************************************************)
EXTENDS Integers, FiniteSets

CONSTANTS
    Reqs,       \* request slots: how many calls may be in flight
    Kinds,      \* which endpoints the learner uses, a subset of AllKinds
    Budget,     \* the feature's daily budget
    MaxTokens,  \* bound: what one call can cost
    MaxDay,     \* bound: how many days the clock may reach
    MaxSpent    \* bound: no call starts on a day that has cost this much

\* "drill": a tutor drill or a spoken turn.  "grade": a writing grade.  "card": a
\* card's forms or examples, a translation or a vocabulary debrief.  "lookup": a
\* dictionary preview.
AllKinds == {"drill", "grade", "card", "lookup"}

\* The endpoints that ask for today's date once, before the call.
DatedAtStart == {"drill", "grade"}

ASSUME UsageAssumption ==
    /\ Kinds \subseteq AllKinds
    /\ IsFiniteSet(Reqs)
    /\ Budget \in Nat
    /\ MaxTokens \in Nat \ {0}
    /\ MaxDay \in Nat \ {0}
    /\ MaxSpent \in Nat

VARIABLES
    today,      \* date.today()
    rows,       \* the days that have a daily_usage row
    usage,      \* its token total, 0 for no row
    req,        \* what each slot is doing
    spent,      \* history: what the calls of each day cost
    billed,     \* history: what the committed requests added for each day
    lost,       \* history: a request spent tokens and committed no bill
    overlapped  \* history: two requests billed one day from reads that overlapped

vars == <<today, rows, usage, req, spent, billed, lost, overlapped>>

Days == 1..MaxDay

Request == [at : {"idle", "calling", "answered", "read"}, kind : AllKinds, day : Days,
            tokens : 0..MaxTokens, seen : Nat, found : BOOLEAN]

Idle == [at |-> "idle", kind |-> "drill", day |-> 1, tokens |-> 0, seen |-> 0, found |-> FALSE]

Init ==
    /\ today = 1
    /\ rows = {}
    /\ usage = [d \in Days |-> 0]
    /\ req = [r \in Reqs |-> Idle]
    /\ spent = [d \in Days |-> 0]
    /\ billed = [d \in Days |-> 0]
    /\ lost = FALSE
    /\ overlapped = FALSE

-----------------------------------------------------------------------------

\* tokens_used_today below the budget.
UnderBudget_OffByOne(d) == usage[d] <= Budget

UnderBudget(d) == usage[d] < Budget

\* The request is admitted and calls the model; over budget it changes nothing.
Start(r, k) ==
    /\ req[r].at = "idle"
    /\ UnderBudget(today)
    /\ spent[today] < MaxSpent
    /\ req' = [req EXCEPT ![r] = [Idle EXCEPT !.at = "calling", !.kind = k, !.day = today]]
    /\ UNCHANGED <<today, rows, usage, spent, billed, lost, overlapped>>

BillDay(r) == IF req[r].kind \in DatedAtStart THEN req[r].day ELSE today

\* The model answers.  The endpoints that ask for the date again do so here.
Answer(r, t) ==
    LET d == BillDay(r) IN
    /\ req[r].at = "calling"
    /\ spent' = [spent EXCEPT ![d] = @ + t]
    /\ req' = [req EXCEPT ![r].at = "answered", ![r].day = d, ![r].tokens = t]
    /\ UNCHANGED <<today, rows, usage, billed, lost, overlapped>>

\* A grade that cannot be parsed raises GradingError before add_usage is reached.
Unusable(r, t) ==
    /\ req[r].at = "calling"
    /\ req[r].kind = "grade"
    /\ spent' = [spent EXCEPT ![req[r].day] = @ + t]
    /\ lost' = TRUE
    /\ req' = [req EXCEPT ![r] = Idle]
    /\ UNCHANGED <<today, rows, usage, billed, overlapped>>

\* No call is made (silence, a dictionary word) or the call fails: nothing is spent.
NoCall(r) ==
    /\ req[r].at = "calling"
    /\ req' = [req EXCEPT ![r] = Idle]
    /\ UNCHANGED <<today, rows, usage, spent, billed, lost, overlapped>>

-----------------------------------------------------------------------------
\* add_usage

Reading(r) == {q \in Reqs \ {r} : req[q].at = "read" /\ req[q].day = req[r].day}

\* The row is read again, in autocommit.
ReadRow(r) ==
    LET d == req[r].day IN
    /\ req[r].at = "answered"
    /\ req' = [req EXCEPT ![r].at = "read", ![r].seen = usage[d], ![r].found = (d \in rows)]
    /\ overlapped' = (overlapped \/ Reading(r) # {})
    /\ UNCHANGED <<today, rows, usage, spent, billed, lost>>

Write(r, seen) ==
    LET d == req[r].day IN
    /\ rows' = rows \cup {d}
    /\ usage' = [usage EXCEPT ![d] = seen + req[r].tokens]
    /\ billed' = [billed EXCEPT ![d] = @ + req[r].tokens]
    /\ UNCHANGED lost

\* The flush inserts a row where none was seen, and fails if there is one by now;
\* the request answers 500 and its bill is rolled back with it.
Clashes(r) == ~req[r].found /\ req[r].day \in rows

\* The flush of a row that was seen writes absolute totals, based on what was read.
Total_Reset(r) == 0

Total(r) == req[r].seen

Bill(r) ==
    /\ req[r].at = "read"
    /\ IF Clashes(r) THEN lost' = TRUE /\ UNCHANGED <<rows, usage, billed>>
                     ELSE Write(r, Total(r))
    /\ req' = [req EXCEPT ![r] = Idle]
    /\ UNCHANGED <<today, spent, overlapped>>

\* A lookup that found a meaning has flushed its vocab_lookup row, so it reads the
\* meter under the write lock.
BillLocked(r) ==
    /\ req[r].at = "answered"
    /\ req[r].kind = "lookup"
    /\ Write(r, usage[req[r].day])
    /\ overlapped' = (overlapped \/ Reading(r) # {})
    /\ req' = [req EXCEPT ![r] = Idle]
    /\ UNCHANGED <<today, spent>>

\* The request dies (an exception, a locked database, a restart) and is rolled back.
Die(r) ==
    /\ req[r].at \in {"answered", "read"}
    /\ lost' = TRUE
    /\ req' = [req EXCEPT ![r] = Idle]
    /\ UNCHANGED <<today, rows, usage, spent, billed, overlapped>>

Midnight ==
    /\ today < MaxDay
    /\ today' = today + 1
    /\ UNCHANGED <<rows, usage, req, spent, billed, lost, overlapped>>

Next ==
    \/ Midnight
    \/ \E r \in Reqs :
        \/ \E k \in Kinds : Start(r, k)
        \/ \E t \in 1..MaxTokens : Answer(r, t) \/ Unusable(r, t)
        \/ NoCall(r)
        \/ ReadRow(r) \/ Bill(r) \/ BillLocked(r) \/ Die(r)

Spec == Init /\ [][Next]_vars

-----------------------------------------------------------------------------
\* Properties

\* Rows and slots hold values of their types, and a day without a row reads as zero.
TypeOK ==
    /\ today \in Days
    /\ rows \in SUBSET Days
    /\ usage \in [Days -> Nat]
    /\ req \in [Reqs -> Request]
    /\ spent \in [Days -> Nat]
    /\ billed \in [Days -> Nat]
    /\ lost \in BOOLEAN
    /\ overlapped \in BOOLEAN
    /\ \A d \in Days \ rows : usage[d] = 0

\* However requests interleave, a learner is never charged for more than the requests
\* that committed have used: the read-modify-write of add_usage can only forget.
NeverOvercharged == \A d \in Days : usage[d] <= billed[d]

\* While no two requests billed one day from overlapping reads, the meter is exact
\* for every request that committed.
ExactWhenSerial == ~overlapped => usage = billed

\* If besides no request lost its bill, a day costs less than its budget plus one call
\* for each request that may be in flight: the check before the call (orchestrator.drill,
\* grader.grade, examiner.turn) can be late only for calls already started.
OvershootBounded ==
    ~overlapped /\ ~lost =>
        \A d \in Days : spent[d] < Budget + MaxTokens * Cardinality(Reqs)

\* "Per-user daily token budget enforced" (TEF_Platform_Technical_Plan.md:324): once
\* a day's calls have cost the budget and nothing is in flight, no further call starts.
BudgetEnforced ==
    [][(\A r \in Reqs : req[r].at = "idle") /\ spent[today] >= Budget
        => \A r \in Reqs : req'[r].at # "calling"]_vars

=============================================================================
