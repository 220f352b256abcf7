---------------------------- MODULE LearnerProofs -----------------------------
(***************************************************************************)
(* Proofs about UsageMeter, for any number of requests in flight, any      *)
(* budget and any cost of a call, and about Accounts, for any number of    *)
(* addresses, invites, caps and signups in flight.                         *)
(***************************************************************************)
EXTENDS UsageMeter, Accounts, FiniteSetTheorems, TLAPS

-----------------------------------------------------------------------------
\* Type correctness

\* One slot that moves well typed leaves all of them so.
LEMMA SlotType ==
    ASSUME TypeOK, NEW r \in Reqs, NEW q \in Request
    PROVE  [req EXCEPT ![r] = q] \in [Reqs -> Request]
BY DEF TypeOK

\* The idle slot is well typed.
LEMMA IdleType == Idle \in Request
BY UsageAssumption DEF Idle, Request, AllKinds, Days

\* A bill is for a day of the calendar.
LEMMA BillDayType == ASSUME TypeOK, NEW r \in Reqs PROVE BillDay(r) \in Days
BY DEF BillDay, TypeOK, Request

\* Writing a bill keeps rows and totals well typed.
LEMMA WriteType ==
    ASSUME TypeOK, NEW r \in Reqs, NEW seen \in Nat, Write(r, seen)
    PROVE  /\ rows' \in SUBSET Days /\ usage' \in [Days -> Nat] /\ billed' \in [Days -> Nat]
           /\ \A d \in Days \ rows' : usage'[d] = 0
<1>1. req[r].day \in Days /\ req[r].tokens \in Nat
  BY UsageAssumption DEF TypeOK, Request
<1> QED BY <1>1 DEF Write, TypeOK

\* Every step keeps the state well typed.
LEMMA TypeStep == TypeOK /\ [Next]_vars => TypeOK'
<1> SUFFICES ASSUME TypeOK, [Next]_vars PROVE TypeOK'
  OBVIOUS
<1>1. CASE Midnight
  BY <1>1, UsageAssumption DEF Midnight, TypeOK, Days
<1>2. ASSUME NEW r \in Reqs, NEW k \in Kinds, Start(r, k) PROVE TypeOK'
  <2>1. [Idle EXCEPT !.at = "calling", !.kind = k, !.day = today] \in Request
    BY IdleType, UsageAssumption DEF Request, TypeOK
  <2> QED BY <1>2, <2>1, SlotType DEF Start, TypeOK
<1>3. ASSUME NEW r \in Reqs, NEW t \in 1..MaxTokens, Answer(r, t) PROVE TypeOK'
  <2>1. BillDay(r) \in Days /\ t \in Nat /\ t \in 0..MaxTokens
    BY BillDayType, UsageAssumption
  <2>2. [req[r] EXCEPT !.at = "answered", !.day = BillDay(r), !.tokens = t] \in Request
    BY <2>1 DEF TypeOK, Request
  <2>3. req' \in [Reqs -> Request]
    <3>1. req' = [req EXCEPT ![r] = [@ EXCEPT !.at = "answered", !.day = BillDay(r), !.tokens = t]]
      BY <1>3 DEF Answer
    <3> QED BY <2>2, <3>1, SlotType
  <2>4. spent' \in [Days -> Nat]
    BY <1>3, <2>1 DEF Answer, TypeOK
  <2> QED BY <1>3, <2>3, <2>4 DEF Answer, TypeOK
<1>4. ASSUME NEW r \in Reqs, NEW t \in 1..MaxTokens, Unusable(r, t) PROVE TypeOK'
  <2>1. spent' \in [Days -> Nat]
    BY <1>4, UsageAssumption DEF Unusable, TypeOK, Request
  <2> QED BY <1>4, <2>1, SlotType, IdleType DEF Unusable, TypeOK
<1>5. ASSUME NEW r \in Reqs, NoCall(r) PROVE TypeOK'
  BY <1>5, SlotType, IdleType DEF NoCall, TypeOK
<1>6. ASSUME NEW r \in Reqs, ReadRow(r) PROVE TypeOK'
  <2> DEFINE d == req[r].day
  <2>1. usage[d] \in Nat /\ (d \in rows) \in BOOLEAN
    BY DEF TypeOK, Request
  <2>2. [req[r] EXCEPT !.at = "read", !.seen = usage[d], !.found = (d \in rows)] \in Request
    BY <2>1 DEF TypeOK, Request
  <2> QED BY <1>6, <2>2, SlotType DEF ReadRow, TypeOK
<1>7. ASSUME NEW r \in Reqs, Bill(r) PROVE TypeOK'
  <2>1. Total(r) \in Nat
    BY DEF Total, TypeOK, Request
  <2> QED BY <1>7, <2>1, SlotType, IdleType, WriteType DEF Bill, TypeOK, Write
<1>8. ASSUME NEW r \in Reqs, BillLocked(r) PROVE TypeOK'
  <2>1. usage[req[r].day] \in Nat
    BY DEF TypeOK, Request
  <2> QED BY <1>8, <2>1, SlotType, IdleType, WriteType DEF BillLocked, TypeOK, Write
<1>9. ASSUME NEW r \in Reqs, Die(r) PROVE TypeOK'
  BY <1>9, SlotType, IdleType DEF Die, TypeOK
<1>10. CASE UNCHANGED vars
  BY <1>10 DEF vars, TypeOK
<1> QED BY <1>1, <1>2, <1>3, <1>4, <1>5, <1>6, <1>7, <1>8, <1>9, <1>10 DEF Next

\* Every reachable state is well typed.
THEOREM TypeCorrect == Spec => []TypeOK
<1>1. ASSUME Init PROVE TypeOK
  <2>1. today \in Days
    BY <1>1, UsageAssumption DEF Init, Days
  <2>2. req \in [Reqs -> Request]
    BY <1>1, IdleType DEF Init
  <2> QED BY <1>1, <2>1, <2>2 DEF Init, TypeOK
<1> QED BY <1>1, TypeStep, PTL DEF Spec

-----------------------------------------------------------------------------
\* What one step does to the meter and to the requests that have read it

\* A bill of r: the total it read, or the current one under the lock, plus its tokens.
BillsFrom(r, seen) ==
    /\ usage' = [usage EXCEPT ![req[r].day] = seen + req[r].tokens]
    /\ billed' = [billed EXCEPT ![req[r].day] = @ + req[r].tokens]
    /\ \A q \in Reqs : req'[q].at = "read" => q # r /\ req'[q] = req[q]

MeterStep ==
    \/ /\ usage' = usage /\ billed' = billed
       /\ overlapped => overlapped'
       /\ \/ \A q \in Reqs : req'[q].at = "read" => req'[q] = req[q]
          \/ \E r \in Reqs :
                /\ req'[r].day = req[r].day /\ req'[r].seen = usage[req[r].day]
                /\ overlapped' = (overlapped \/ Reading(r) # {})
                /\ \A q \in Reqs \ {r} : req'[q] = req[q]
    \/ \E r \in Reqs :
          /\ req[r].at = "read" /\ overlapped' = overlapped
          /\ BillsFrom(r, req[r].seen)
    \/ \E r \in Reqs :
          /\ overlapped' = (overlapped \/ Reading(r) # {})
          /\ BillsFrom(r, usage[req[r].day])

\* What any step may do to the meter.
LEMMA MeterFrame == ASSUME TypeOK, [Next]_vars PROVE MeterStep
<1> DEFINE Quiet == /\ usage' = usage /\ billed' = billed
                    /\ overlapped => overlapped'
                    /\ \A q \in Reqs : req'[q].at = "read" => req'[q] = req[q]
<1>1. CASE Quiet
  BY <1>1 DEF MeterStep
<1>2. ASSUME NEW r \in Reqs, NEW q, req' = [req EXCEPT ![r] = q], q.at # "read"
      PROVE  \A i \in Reqs : req'[i].at = "read" => i # r /\ req'[i] = req[i]
  BY <1>2 DEF TypeOK
<1>3. ASSUME NEW r \in Reqs, NEW k \in Kinds, Start(r, k) PROVE Quiet
  BY <1>2, <1>3 DEF Start, Idle
<1>4. ASSUME NEW r \in Reqs, NEW t \in 1..MaxTokens, Answer(r, t) PROVE Quiet
  <2>1. req' = [req EXCEPT ![r] = [@ EXCEPT !.at = "answered", !.day = BillDay(r), !.tokens = t]]
    BY <1>4 DEF Answer
  <2>2. [req[r] EXCEPT !.at = "answered", !.day = BillDay(r), !.tokens = t].at # "read"
    BY DEF TypeOK, Request
  <2> QED BY <1>2, <1>4, <2>1, <2>2 DEF Answer
<1>5. ASSUME NEW r \in Reqs, NEW t \in 1..MaxTokens, Unusable(r, t) PROVE Quiet
  BY <1>2, <1>5 DEF Unusable, Idle
<1>6. ASSUME NEW r \in Reqs, NoCall(r) \/ Die(r) PROVE Quiet
  <2>1. req' = [req EXCEPT ![r] = Idle] /\ Idle.at # "read"
    BY <1>6 DEF NoCall, Die, Idle
  <2>2. usage' = usage /\ billed' = billed /\ overlapped' = overlapped
    BY <1>6 DEF NoCall, Die
  <2> QED BY <1>2, <2>1, <2>2
<1>7. ASSUME NEW r \in Reqs, ReadRow(r) PROVE MeterStep
  <2>1. req'[r].day = req[r].day /\ req'[r].seen = usage[req[r].day]
    BY <1>7 DEF ReadRow, TypeOK, Request
  <2>2. \A q \in Reqs \ {r} : req'[q] = req[q]
    BY <1>7 DEF ReadRow, TypeOK
  <2> QED BY <1>7, <2>1, <2>2 DEF ReadRow, MeterStep
<1>8. ASSUME NEW r \in Reqs, Bill(r) PROVE MeterStep
  <2>1. \A q \in Reqs : req'[q].at = "read" => q # r /\ req'[q] = req[q]
    <3>1. req' = [req EXCEPT ![r] = Idle] /\ Idle.at # "read"
      BY <1>8 DEF Bill, Idle
    <3> QED BY <1>2, <3>1
  <2>2. CASE Clashes(r)
    BY <1>1, <1>8, <2>1, <2>2 DEF Bill
  <2>3. CASE ~Clashes(r)
    <3>1. req[r].at = "read" /\ overlapped' = overlapped /\ Write(r, req[r].seen)
      BY <1>8, <2>3 DEF Bill, Total
    <3> QED BY <2>1, <3>1 DEF MeterStep, BillsFrom, Write
  <2> QED BY <2>2, <2>3
<1>9. ASSUME NEW r \in Reqs, BillLocked(r) PROVE MeterStep
  <2>1. \A q \in Reqs : req'[q].at = "read" => q # r /\ req'[q] = req[q]
    BY <1>2, <1>9 DEF BillLocked, Idle
  <2> QED BY <1>9, <2>1 DEF BillLocked, MeterStep, BillsFrom, Write
<1>10. ASSUME Midnight \/ UNCHANGED vars PROVE Quiet
  BY <1>10 DEF Midnight, vars
<1> HIDE DEF Quiet
<1> QED
  BY <1>1, <1>3, <1>4, <1>5, <1>6, <1>7, <1>8, <1>9, <1>10 DEF Next

-----------------------------------------------------------------------------
\* The meter never overcharges

\* A total that was read had been billed when it was read, and bills only grow.
ReadsAreBilled == \A r \in Reqs : req[r].at = "read" => req[r].seen <= billed[req[r].day]

\* No step charges for more than was billed, or reads more.
LEMMA ChargeStep ==
    ASSUME TypeOK, TypeOK', NeverOvercharged, ReadsAreBilled, [Next]_vars
    PROVE  NeverOvercharged' /\ ReadsAreBilled'
<1>1. MeterStep
  BY MeterFrame
<1>2. /\ \A d \in Days : usage[d] \in Nat /\ billed[d] \in Nat
      /\ \A r \in Reqs : req[r].day \in Days /\ req[r].seen \in Nat /\ req[r].tokens \in Nat
  BY UsageAssumption DEF TypeOK, Request
<1>3. ASSUME NEW r \in Reqs, NEW seen \in Nat, seen <= billed[req[r].day], BillsFrom(r, seen)
      PROVE  NeverOvercharged' /\ ReadsAreBilled'
  <2>1. \A d \in Days : billed[d] <= billed'[d]
    BY <1>2, <1>3 DEF BillsFrom, TypeOK
  <2>2. NeverOvercharged'
    BY <1>2, <1>3, <2>1 DEF BillsFrom, NeverOvercharged, TypeOK
  <2>3. \A q \in Reqs : req'[q].at = "read" => req'[q] = req[q]
    BY <1>3 DEF BillsFrom
  <2>4. \A d \in Days : billed'[d] \in Nat
    BY DEF TypeOK
  <2>5. ReadsAreBilled'
    BY <1>2, <2>1, <2>3, <2>4 DEF ReadsAreBilled
  <2> QED BY <2>2, <2>5
<1>4. ASSUME usage' = usage, billed' = billed, \A q \in Reqs : req'[q].at = "read" => req'[q] = req[q]
      PROVE  NeverOvercharged' /\ ReadsAreBilled'
  BY <1>4 DEF NeverOvercharged, ReadsAreBilled
<1>5. ASSUME NEW r \in Reqs, usage' = usage, billed' = billed,
             req'[r].day = req[r].day, req'[r].seen = usage[req[r].day],
             \A q \in Reqs \ {r} : req'[q] = req[q]
      PROVE  NeverOvercharged' /\ ReadsAreBilled'
  BY <1>2, <1>5 DEF NeverOvercharged, ReadsAreBilled
<1>6. ASSUME NEW r \in Reqs, req[r].at = "read", BillsFrom(r, req[r].seen)
      PROVE  NeverOvercharged' /\ ReadsAreBilled'
  BY <1>2, <1>3, <1>6 DEF ReadsAreBilled
<1>7. ASSUME NEW r \in Reqs, BillsFrom(r, usage[req[r].day])
      PROVE  NeverOvercharged' /\ ReadsAreBilled'
  BY <1>2, <1>3, <1>7 DEF NeverOvercharged
<1> QED BY <1>1, <1>4, <1>5, <1>6, <1>7 DEF MeterStep

\* The meter never exceeds what the committed requests used.
THEOREM MeterNeverOvercharges == Spec => []NeverOvercharged
<1>1. Init => NeverOvercharged /\ ReadsAreBilled
  BY DEF Init, Idle, NeverOvercharged, ReadsAreBilled
<1>2. TypeOK /\ TypeOK' /\ NeverOvercharged /\ ReadsAreBilled /\ [Next]_vars
        => NeverOvercharged' /\ ReadsAreBilled'
  BY ChargeStep
<1> QED BY <1>1, <1>2, TypeCorrect, PTL DEF Spec

-----------------------------------------------------------------------------
\* Without overlapping reads the meter is exact

\* As long as no reads overlapped, at most one request of a day has read the meter,
\* and what it read is current.
ReadsAreCurrent ==
    ~overlapped =>
        \A r \in Reqs : req[r].at = "read" =>
            /\ req[r].seen = usage[req[r].day]
            /\ Reading(r) = {}

\* Without an overlap, every step keeps the meter exact.
LEMMA ExactStep ==
    ASSUME TypeOK, TypeOK', ExactWhenSerial, ReadsAreCurrent, [Next]_vars
    PROVE  ExactWhenSerial' /\ ReadsAreCurrent'
<1> SUFFICES ASSUME ~overlapped' PROVE usage' = billed' /\ ReadsAreCurrent'
  BY DEF ExactWhenSerial, ReadsAreCurrent
<1>1. MeterStep
  BY MeterFrame
<1>2. ASSUME ~overlapped, \A q \in Reqs : req'[q].at = "read" => req'[q] = req[q],
             \A q \in Reqs : req'[q].at = "read" => usage'[req[q].day] = usage[req[q].day]
      PROVE  ReadsAreCurrent'
  BY <1>2 DEF ReadsAreCurrent, Reading
<1>3. ASSUME NEW r \in Reqs, NEW seen, seen = usage[req[r].day], ~overlapped, Reading(r) = {},
             BillsFrom(r, seen)
      PROVE  usage' = billed' /\ ReadsAreCurrent'
  <2>1. usage' = billed'
    BY <1>3 DEF BillsFrom, ExactWhenSerial, TypeOK
  <2>2. \A q \in Reqs : req'[q].at = "read" => q # r /\ req'[q] = req[q]
    BY <1>3 DEF BillsFrom
  <2>3. \A q \in Reqs : req'[q].at = "read" => req[q].day # req[r].day
    BY <1>3, <2>2 DEF Reading
  <2>4. \A q \in Reqs : req'[q].at = "read" => usage'[req[q].day] = usage[req[q].day]
    BY <1>3, <2>3 DEF BillsFrom, TypeOK, Request
  <2> QED BY <1>2, <1>3, <2>1, <2>2, <2>4
<1>4. ASSUME usage' = usage, billed' = billed, overlapped => overlapped',
             \A q \in Reqs : req'[q].at = "read" => req'[q] = req[q]
      PROVE  usage' = billed' /\ ReadsAreCurrent'
  BY <1>2, <1>4 DEF ExactWhenSerial
<1>5. ASSUME NEW r \in Reqs, usage' = usage, billed' = billed,
             overlapped' = (overlapped \/ Reading(r) # {}),
             req'[r].day = req[r].day, req'[r].seen = usage[req[r].day],
             \A q \in Reqs \ {r} : req'[q] = req[q]
      PROVE  usage' = billed' /\ ReadsAreCurrent'
  <2>1. ~overlapped /\ Reading(r) = {}
    BY <1>5
  <2>2. \A q \in Reqs \ {r} : req'[q].at = "read" => req'[q].day # req'[r].day
    BY <1>5, <2>1 DEF Reading
  <2>3. \A q \in Reqs : req'[q].at = "read" => req'[q].seen = usage'[req'[q].day]
    BY <1>5, <2>1 DEF ReadsAreCurrent
  <2>4. \A q \in Reqs \ {r} : req'[q].at = "read" => Reading(q)' = {}
    BY <1>5, <2>1, <2>2 DEF ReadsAreCurrent, Reading
  <2>5. Reading(r)' = {}
    BY <2>2 DEF Reading
  <2> QED BY <1>5, <2>1, <2>3, <2>4, <2>5 DEF ReadsAreCurrent, ExactWhenSerial
<1>6. ASSUME NEW r \in Reqs, req[r].at = "read", overlapped' = overlapped,
             BillsFrom(r, req[r].seen)
      PROVE  usage' = billed' /\ ReadsAreCurrent'
  BY <1>3, <1>6 DEF ReadsAreCurrent
<1>7. ASSUME NEW r \in Reqs, overlapped' = (overlapped \/ Reading(r) # {}),
             BillsFrom(r, usage[req[r].day])
      PROVE  usage' = billed' /\ ReadsAreCurrent'
  BY <1>3, <1>7
<1> QED BY <1>1, <1>4, <1>5, <1>6, <1>7 DEF MeterStep

\* While no two requests billed one day from overlapping reads, the meter is exact.
THEOREM MeterExactWhenSerial == Spec => []ExactWhenSerial
<1>1. Init => ExactWhenSerial /\ ReadsAreCurrent
  BY DEF Init, Idle, ExactWhenSerial, ReadsAreCurrent
<1>2. TypeOK /\ TypeOK' /\ ExactWhenSerial /\ ReadsAreCurrent /\ [Next]_vars
        => ExactWhenSerial' /\ ReadsAreCurrent'
  BY ExactStep
<1> QED BY <1>1, <1>2, TypeCorrect, PTL DEF Spec

-----------------------------------------------------------------------------
\* What a day costs beyond its budget
\*
\* Tokens are counted as cells of a grid, a column for each slot: what a slot has spent
\* and not billed, and all that a call in flight may still spend.

Grid == Reqs \X (1..MaxTokens)

Column(r, n) == {p \in Grid : p[1] = r /\ p[2] <= n}

Owes(r) == req[r].at \in {"answered", "read"}

\* What has been spent on day d and is not billed yet.
Owing(d) == {p \in Grid : Owes(p[1]) /\ req[p[1]].day = d /\ p[2] <= req[p[1]].tokens}

\* What the calls in flight may cost day d, as the clock stands.
Coming(d) == {p \in Grid : req[p[1]].at = "calling" /\ BillDay(p[1]) = d}

\* The grid has a cell for each token that each slot may spend.
LEMMA GridSize ==
    /\ IsFiniteSet(Grid)
    /\ Cardinality(Grid) = MaxTokens * Cardinality(Reqs)
    /\ Cardinality(Reqs) \in Nat
<1>1. IsFiniteSet(Reqs) /\ MaxTokens \in Nat \ {0}
  BY UsageAssumption
<1>2. IsFiniteSet(1..MaxTokens) /\ Cardinality(1..MaxTokens) = MaxTokens
  BY <1>1, FS_Interval
<1>3. Cardinality(Reqs) \in Nat
  BY <1>1, FS_CardinalityType
<1>4. IsFiniteSet(Grid) /\ Cardinality(Grid) = Cardinality(Reqs) * Cardinality(1..MaxTokens)
  BY <1>1, <1>2, FS_Product DEF Grid
<1> QED BY <1>1, <1>2, <1>3, <1>4

\* A part of the grid is finite and no larger than it.
LEMMA PartSize ==
    ASSUME NEW S \in SUBSET Grid
    PROVE  /\ IsFiniteSet(S)
           /\ Cardinality(S) \in Nat
           /\ Cardinality(S) <= Cardinality(Grid)
BY GridSize, FS_Subset, FS_CardinalityType

\* A part of the grid that is in another is no larger.
LEMMA PartGrows ==
    ASSUME NEW S \in SUBSET Grid, NEW T \in SUBSET S
    PROVE  Cardinality(T) <= Cardinality(S)
BY PartSize, FS_Subset

\* A column of n cells is a part of the grid, and adding it adds n.
LEMMA ColumnAdds ==
    ASSUME NEW r \in Reqs, NEW n \in 0..MaxTokens, NEW S \in SUBSET Grid,
           \A p \in S : p[1] # r
    PROVE  /\ S \cup Column(r, n) \in SUBSET Grid
           /\ Cardinality(S \cup Column(r, n)) = Cardinality(S) + n
<1>1. IsFiniteSet({r}) /\ Cardinality({r}) = 1
  BY FS_Singleton
<1>2. n \in Nat /\ n <= MaxTokens /\ MaxTokens \in Nat
  BY UsageAssumption
<1>3. IsFiniteSet(1..n) /\ Cardinality(1..n) = n
  BY <1>2, FS_Interval
<1>4. IsFiniteSet(Column(r, n)) /\ Cardinality(Column(r, n)) = n
  <2>1. Column(r, n) = {r} \X (1..n)
    BY <1>2 DEF Column, Grid
  <2>2. Cardinality({r} \X (1..n)) = 1 * n /\ IsFiniteSet({r} \X (1..n))
    BY <1>1, <1>3, FS_Product
  <2> QED BY <1>2, <2>1, <2>2
<1>5. Column(r, n) \subseteq Grid
  BY DEF Column
<1>6. S \cap Column(r, n) = {}
  BY DEF Column
<1>7. IsFiniteSet(S) /\ Cardinality(S) \in Nat
  BY PartSize
<1>8. Cardinality(S \cup Column(r, n)) = Cardinality(S) + n
  <2>1. Cardinality(S \cup Column(r, n))
            = Cardinality(S) + Cardinality(Column(r, n)) - Cardinality(S \cap Column(r, n))
    BY <1>4, <1>7, FS_Union
  <2>2. Cardinality(S \cap Column(r, n)) = 0
    BY <1>6, FS_EmptySet
  <2> QED BY <1>2, <1>4, <1>7, <2>1, <2>2
<1> QED BY <1>2, <1>4, <1>5, <1>7, <1>8

\* While no request lost its bill, what a day cost is what was billed or is still owed.
OwedInv == ~lost => \A d \in Days : spent[d] = billed[d] + Cardinality(Owing(d))

\* A step that changes no debt.
LEMMA SameDebt ==
    ASSUME \A q \in Reqs : /\ Owes(q)' <=> Owes(q)
                           /\ Owes(q) => req'[q].day = req[q].day /\ req'[q].tokens = req[q].tokens
    PROVE  \A d \in Days : Owing(d)' = Owing(d)
BY DEF Owing, Grid

\* Every step keeps the books: a call adds to what is owed, a bill pays it.
LEMMA OwedStep == ASSUME TypeOK, OwedInv, [Next]_vars PROVE OwedInv'
<1> SUFFICES ASSUME ~lost' PROVE \A d \in Days : spent'[d] = billed'[d] + Cardinality(Owing(d)')
  BY DEF OwedInv
<1>0. ASSUME ~lost, spent' = spent, billed' = billed, \A d \in Days : Owing(d)' = Owing(d)
      PROVE  \A d \in Days : spent'[d] = billed'[d] + Cardinality(Owing(d)')
  BY <1>0 DEF OwedInv
<1>1. CASE Midnight \/ UNCHANGED vars
  <2>1. \A d \in Days : Owing(d)' = Owing(d)
    BY <1>1, SameDebt DEF Midnight, vars, Owes
  <2> QED BY <1>0, <1>1, <2>1 DEF Midnight, vars
<1>2. ASSUME NEW r \in Reqs, NEW k \in Kinds, Start(r, k)
      PROVE  \A d \in Days : spent'[d] = billed'[d] + Cardinality(Owing(d)')
  <2>1. \A d \in Days : Owing(d)' = Owing(d)
    BY <1>2, SameDebt DEF Start, Owes, TypeOK, Idle
  <2> QED BY <1>0, <1>2, <2>1 DEF Start
<1>3. ASSUME NEW r \in Reqs, NEW t \in 1..MaxTokens, Answer(r, t)
      PROVE  \A d \in Days : spent'[d] = billed'[d] + Cardinality(Owing(d)')
  <2> PICK b \in Days : b = BillDay(r)
    BY BillDayType
  <2>0. t \in 0..MaxTokens /\ t \in Nat
    BY UsageAssumption
  <2>1. /\ req[r].at = "calling"
        /\ req'[r].at = "answered" /\ req'[r].day = b /\ req'[r].tokens = t
        /\ \A q \in Reqs \ {r} : req'[q] = req[q]
    BY <1>3 DEF Answer, TypeOK, Request
  <2>2. spent' = [spent EXCEPT ![b] = @ + t] /\ billed' = billed /\ ~lost
    BY <1>3 DEF Answer
  <2>3. \A d \in Days \ {b} : Owing(d)' = Owing(d)
    BY <2>1 DEF Owing, Owes, Grid
  <2>4. Owing(b)' = Owing(b) \cup Column(r, t)
    BY <2>0, <2>1, UsageAssumption DEF Owing, Owes, Grid, Column
  <2>5. \A p \in Owing(b) : p[1] # r
    BY <2>1 DEF Owing, Owes
  <2>6. Cardinality(Owing(b)') = Cardinality(Owing(b)) + t
    BY <2>0, <2>4, <2>5, ColumnAdds DEF Owing
  <2>7. Cardinality(Owing(b)) \in Nat
    BY PartSize DEF Owing
  <2>8. spent'[b] = billed'[b] + Cardinality(Owing(b)')
    BY <2>0, <2>2, <2>6, <2>7 DEF OwedInv, TypeOK
  <2>9. \A d \in Days \ {b} : spent'[d] = billed'[d] + Cardinality(Owing(d)')
    BY <2>2, <2>3 DEF OwedInv, TypeOK
  <2> QED BY <2>8, <2>9
<1>4. ASSUME NEW r \in Reqs, NoCall(r)
      PROVE  \A d \in Days : spent'[d] = billed'[d] + Cardinality(Owing(d)')
  <2>1. \A d \in Days : Owing(d)' = Owing(d)
    BY <1>4, SameDebt DEF NoCall, Owes, TypeOK, Idle
  <2> QED BY <1>0, <1>4, <2>1 DEF NoCall
<1>5. ASSUME NEW r \in Reqs, ReadRow(r)
      PROVE  \A d \in Days : spent'[d] = billed'[d] + Cardinality(Owing(d)')
  <2>1. \A d \in Days : Owing(d)' = Owing(d)
    BY <1>5, SameDebt DEF ReadRow, Owes, TypeOK, Request
  <2> QED BY <1>0, <1>5, <2>1 DEF ReadRow
<1>6. ASSUME NEW r \in Reqs, NEW seen, Owes(r), Write(r, seen), req' = [req EXCEPT ![r] = Idle],
             spent' = spent
      PROVE  \A d \in Days : spent'[d] = billed'[d] + Cardinality(Owing(d)')
  <2> PICK b \in Days, t \in 0..MaxTokens : b = req[r].day /\ t = req[r].tokens
    BY DEF TypeOK, Request
  <2>0. t \in Nat
    BY UsageAssumption
  <2>1. ~Owes(r)' /\ \A q \in Reqs \ {r} : req'[q] = req[q]
    BY <1>6 DEF TypeOK, Owes, Idle
  <2>2. billed' = [billed EXCEPT ![b] = @ + t] /\ ~lost
    BY <1>6 DEF Write
  <2>3. \A d \in Days \ {b} : Owing(d)' = Owing(d)
    BY <2>1 DEF Owing, Owes, Grid
  <2>4. Owing(b) = Owing(b)' \cup Column(r, t)
    BY <1>6, <2>0, <2>1, UsageAssumption DEF Owing, Owes, Grid, Column
  <2>5. \A p \in Owing(b)' : p[1] # r
    BY <2>1 DEF Owing
  <2>6. Owing(b)' \in SUBSET Grid
    BY DEF Owing, Grid
  <2>7. Cardinality(Owing(b)) = Cardinality(Owing(b)') + t /\ Cardinality(Owing(b)') \in Nat
    BY <2>0, <2>4, <2>5, <2>6, ColumnAdds, PartSize
  <2>8. spent'[b] = billed'[b] + Cardinality(Owing(b)')
    BY <1>6, <2>0, <2>2, <2>7 DEF OwedInv, TypeOK
  <2>9. \A d \in Days \ {b} : spent'[d] = billed'[d] + Cardinality(Owing(d)')
    BY <1>6, <2>2, <2>3 DEF OwedInv, TypeOK
  <2> QED BY <2>8, <2>9
<1>7. ASSUME NEW r \in Reqs, Bill(r)
      PROVE  \A d \in Days : spent'[d] = billed'[d] + Cardinality(Owing(d)')
  <2>1. Owes(r) /\ Write(r, Total(r)) /\ req' = [req EXCEPT ![r] = Idle] /\ spent' = spent
    BY <1>7 DEF Bill, Owes
  <2> QED BY <1>6, <2>1
<1>8. ASSUME NEW r \in Reqs, BillLocked(r)
      PROVE  \A d \in Days : spent'[d] = billed'[d] + Cardinality(Owing(d)')
  <2>1. /\ Owes(r) /\ Write(r, usage[req[r].day])
        /\ req' = [req EXCEPT ![r] = Idle] /\ spent' = spent
    BY <1>8 DEF BillLocked, Owes
  <2> QED BY <1>6, <2>1
<1>9. ASSUME NEW r \in Reqs, NEW t \in 1..MaxTokens, Unusable(r, t) \/ Die(r) PROVE FALSE
  BY <1>9 DEF Unusable, Die
<1>10. ASSUME NEW r \in Reqs, Die(r) PROVE FALSE
  BY <1>10 DEF Die
<1> QED BY <1>1, <1>2, <1>3, <1>4, <1>5, <1>7, <1>8, <1>9, <1>10 DEF Next

\* A call is billed to a day that has begun.
DatesInv == \A r \in Reqs : req[r].at # "idle" => req[r].day <= today

\* Every step keeps the dates of the calls behind the clock.
LEMMA DatesStep == ASSUME TypeOK, DatesInv, [Next]_vars PROVE DatesInv'
<1> today \in Int /\ \A r \in Reqs : req[r].day \in Int
  BY DEF TypeOK, Days, Request
<1>1. CASE Midnight
  BY <1>1 DEF Midnight, DatesInv
<1>2. ASSUME NEW r \in Reqs, NEW k \in Kinds, Start(r, k) PROVE DatesInv'
  BY <1>2 DEF Start, Idle, DatesInv, TypeOK
<1>3. ASSUME NEW r \in Reqs, NEW t \in 1..MaxTokens, Answer(r, t) PROVE DatesInv'
  BY <1>3 DEF Answer, BillDay, DatesInv, TypeOK, Request
<1>4. ASSUME NEW r \in Reqs, today' = today, req' = [req EXCEPT ![r] = Idle] PROVE DatesInv'
  BY <1>4 DEF DatesInv, Idle, TypeOK
<1>5. ASSUME NEW r \in Reqs, ReadRow(r) PROVE DatesInv'
  BY <1>5 DEF ReadRow, DatesInv, TypeOK, Request
<1>6. ASSUME NEW r \in Reqs, NEW t \in 1..MaxTokens, Unusable(r, t) PROVE DatesInv'
  BY <1>4, <1>6 DEF Unusable
<1>7. ASSUME NEW r \in Reqs, NoCall(r) \/ Bill(r) \/ BillLocked(r) \/ Die(r) PROVE DatesInv'
  BY <1>4, <1>7 DEF NoCall, Bill, BillLocked, Die
<1>8. CASE UNCHANGED vars
  BY <1>8 DEF vars, DatesInv
<1> QED BY <1>1, <1>2, <1>3, <1>5, <1>6, <1>7, <1>8 DEF Next

\* What a day has cost and what the calls in flight may add to it are below the bound,
\* and a day that has not begun has cost nothing.
RoomInv ==
    ~overlapped /\ ~lost =>
        \A d \in Days :
            IF d <= today THEN spent[d] + Cardinality(Coming(d)) < Budget + Cardinality(Grid)
                          ELSE spent[d] = 0

\* Every step keeps the room: a call that starts finds the day below its budget, and all
\* that is owed or coming is in the grid.
LEMMA RoomStep ==
    ASSUME Budget > 0, TypeOK, DatesInv, OwedInv, ExactWhenSerial, RoomInv, [Next]_vars
    PROVE  RoomInv'
<1> DEFINE Room(d) ==
        IF d <= today THEN spent[d] + Cardinality(Coming(d)) < Budget + Cardinality(Grid)
                      ELSE spent[d] = 0
<1> SUFFICES ASSUME ~overlapped', ~lost', NEW d \in Days PROVE Room(d)'
  BY DEF RoomInv
<1>a. /\ Budget \in Nat /\ Cardinality(Grid) \in Nat /\ today \in Int /\ d \in Int
      /\ spent[d] \in Nat
      /\ Cardinality(Coming(d)) \in Nat /\ Cardinality(Coming(d)') \in Nat
      /\ Cardinality(Coming(d)') <= Cardinality(Grid)
  <2>1. Coming(d) \in SUBSET Grid /\ Coming(d)' \in SUBSET Grid /\ Grid \in SUBSET Grid
    BY DEF Coming, Grid
  <2> QED BY <2>1, PartSize, UsageAssumption DEF TypeOK, Days
<1>b. ~overlapped /\ ~lost => Room(d)
  BY DEF RoomInv
<1>c. Grid' = Grid
  BY DEF Grid
<1> HIDE DEF Grid
<1>0. ASSUME today' = today, spent' = spent, ~overlapped, ~lost, Coming(d)' \subseteq Coming(d)
      PROVE  Room(d)'
  <2>1. Cardinality(Coming(d)') <= Cardinality(Coming(d))
    BY <1>0, PartGrows DEF Coming
  <2> QED BY <1>0, <1>a, <1>b, <1>c, <2>1
<1>1. CASE Midnight
  <2>1. CASE d = today + 1
    BY <1>1, <1>a, <1>b, <1>c, <2>1 DEF Midnight
  <2>2. CASE d <= today
    <3>1. Coming(d)' \subseteq Coming(d)
      BY <1>1, <1>a, <1>c, <2>2 DEF Midnight, Coming, BillDay, Grid
    <3>2. Cardinality(Coming(d)') <= Cardinality(Coming(d))
      BY <3>1, PartGrows DEF Coming
    <3> QED BY <1>1, <1>a, <1>b, <1>c, <2>2, <3>2 DEF Midnight
  <2>3. CASE d > today + 1
    BY <1>1, <1>a, <1>b, <2>3 DEF Midnight
  <2> QED BY <1>a, <2>1, <2>2, <2>3
<1>2. ASSUME NEW r \in Reqs, NEW k \in Kinds, Start(r, k) PROVE Room(d)'
  <2>1. /\ req'[r].at = "calling" /\ req'[r].day = today
        /\ req[r].at = "idle" /\ \A q \in Reqs \ {r} : req'[q] = req[q]
        /\ today' = today /\ spent' = spent /\ ~overlapped /\ ~lost
    BY <1>2 DEF Start, TypeOK, Idle
  <2>2. CASE d = today
    <3>1. spent[d] = usage[d] + Cardinality(Owing(d))
      BY <2>1 DEF OwedInv, ExactWhenSerial
    <3>2. usage[d] < Budget /\ usage[d] \in Nat
      BY <1>2, <2>2 DEF Start, UnderBudget, TypeOK
    <3>3. /\ Owing(d) \in SUBSET Grid /\ Coming(d)' \in SUBSET Grid
          /\ Owing(d) \cap Coming(d)' = {}
      BY <1>c, <2>1 DEF Owing, Owes, Coming, Grid
    <3>4. /\ IsFiniteSet(Owing(d)) /\ IsFiniteSet(Coming(d)')
          /\ Cardinality(Owing(d)) \in Nat
          /\ Cardinality(Owing(d) \cup Coming(d)') <= Cardinality(Grid)
      BY <3>3, PartSize
    <3>5. Cardinality(Owing(d) \cap Coming(d)') = 0
      BY <3>3, FS_EmptySet
    <3>6. Cardinality(Owing(d) \cup Coming(d)')
              = Cardinality(Owing(d)) + Cardinality(Coming(d)') - Cardinality(Owing(d) \cap Coming(d)')
      BY <3>4, FS_Union
    <3> QED BY <1>a, <1>c, <2>1, <2>2, <3>1, <3>2, <3>4, <3>5, <3>6
  <2>3. CASE d # today
    <3>1. Coming(d)' \subseteq Coming(d)
      BY <1>c, <2>1, <2>3 DEF Coming, BillDay, Grid
    <3> QED BY <1>0, <2>1, <3>1
  <2> QED BY <2>2, <2>3
<1>3. ASSUME NEW r \in Reqs, NEW t \in 1..MaxTokens, Answer(r, t) PROVE Room(d)'
  <2> PICK b \in Days : b = BillDay(r)
    BY BillDayType
  <2>1. /\ req[r].at = "calling" /\ req'[r].at = "answered"
        /\ \A q \in Reqs \ {r} : req'[q] = req[q]
        /\ today' = today /\ spent' = [spent EXCEPT ![b] = @ + t] /\ ~overlapped /\ ~lost
    BY <1>3 DEF Answer, TypeOK, Request
  <2>2. CASE d = b
    <3>1. b <= today
      BY <1>a, <2>1 DEF BillDay, DatesInv
    <3>2. Coming(d) = Coming(d)' \cup Column(r, MaxTokens)
      BY <1>c, <2>1, <2>2, UsageAssumption DEF Coming, BillDay, Column, Grid
    <3>3. Coming(d)' \in SUBSET Grid /\ \A p \in Coming(d)' : p[1] # r
      BY <1>c, <2>1 DEF Coming
    <3>4. MaxTokens \in 0..MaxTokens /\ MaxTokens \in Nat /\ t \in Nat /\ t <= MaxTokens
      BY UsageAssumption
    <3>5. Cardinality(Coming(d)) = Cardinality(Coming(d)') + MaxTokens
      BY <3>2, <3>3, <3>4, ColumnAdds
    <3>6. spent'[d] = spent[d] + t
      BY <2>1, <2>2 DEF TypeOK
    <3> QED BY <1>a, <1>b, <1>c, <2>1, <2>2, <3>1, <3>4, <3>5, <3>6
  <2>3. CASE d # b
    <3>1. Coming(d)' \subseteq Coming(d)
      BY <1>c, <2>1, <2>3 DEF Coming, BillDay, Grid
    <3>2. Cardinality(Coming(d)') <= Cardinality(Coming(d))
      BY <3>1, PartGrows DEF Coming
    <3>3. spent'[d] = spent[d]
      BY <2>1, <2>3 DEF TypeOK
    <3> QED BY <1>a, <1>b, <1>c, <2>1, <3>2, <3>3
  <2> QED BY <2>2, <2>3
<1>4. ASSUME NEW r \in Reqs, today' = today, spent' = spent, ~overlapped, ~lost,
             req'[r].at # "calling", \A q \in Reqs \ {r} : req'[q] = req[q]
      PROVE  Room(d)'
  <2>1. Coming(d)' \subseteq Coming(d)
    BY <1>c, <1>4 DEF Coming, BillDay, Grid
  <2> QED BY <1>0, <1>4, <2>1
<1>5. ASSUME NEW r \in Reqs, NoCall(r) \/ ReadRow(r) \/ BillLocked(r) PROVE Room(d)'
  BY <1>4, <1>5 DEF NoCall, ReadRow, BillLocked, Write, TypeOK, Idle, Request
<1>6. ASSUME NEW r \in Reqs, Bill(r) PROVE Room(d)'
  BY <1>4, <1>6 DEF Bill, Write, TypeOK, Idle
<1>7. ASSUME NEW r \in Reqs, NEW t \in 1..MaxTokens, Unusable(r, t) PROVE FALSE
  BY <1>7 DEF Unusable
<1>8. ASSUME NEW r \in Reqs, Die(r) PROVE FALSE
  BY <1>8 DEF Die
<1>9. CASE UNCHANGED vars
  <2>1. Coming(d)' \subseteq Coming(d)
    BY <1>9 DEF vars, Coming, BillDay, Grid
  <2> QED BY <1>0, <1>9, <2>1 DEF vars
<1> QED BY <1>1, <1>2, <1>3, <1>5, <1>6, <1>7, <1>8, <1>9 DEF Next

\* As long as no bill was lost and none overlapped, a day costs less than its budget plus
\* one call for each request that may be in flight, whatever the budget is above zero.
THEOREM OvershootIsBounded ==
    ASSUME Budget > 0
    PROVE  Spec => []OvershootBounded
<1>1. Init => DatesInv /\ OwedInv /\ ExactWhenSerial /\ ReadsAreCurrent
  <2>1. ASSUME Init PROVE OwedInv
    <3>1. \A d \in Days : Owing(d) = {}
      BY <2>1 DEF Init, Idle, Owing, Owes, Grid
    <3> QED BY <2>1, <3>1, FS_EmptySet DEF Init, OwedInv
  <2>2. Init => DatesInv
    BY DEF Init, Idle, DatesInv
  <2>3. Init => ExactWhenSerial /\ ReadsAreCurrent
    BY DEF Init, Idle, ExactWhenSerial, ReadsAreCurrent
  <2> QED BY <2>1, <2>2, <2>3
<1>2. Init => RoomInv
  <2> SUFFICES ASSUME Init, NEW d \in Days
               PROVE  IF d <= today
                        THEN spent[d] + Cardinality(Coming(d)) < Budget + Cardinality(Grid)
                        ELSE spent[d] = 0
    BY DEF RoomInv
  <2>1. Coming(d) = {}
    BY DEF Init, Idle, Coming, Grid
  <2>2. Cardinality(Coming(d)) = 0 /\ Cardinality(Grid) \in Nat
    BY <2>1, PartSize, FS_EmptySet DEF Grid
  <2> QED BY <2>2, UsageAssumption DEF Init
<1>3. TypeOK /\ RoomInv => OvershootBounded
  <2> SUFFICES ASSUME TypeOK, RoomInv, ~overlapped, ~lost, NEW d \in Days
               PROVE  spent[d] < Budget + Cardinality(Grid)
    BY GridSize DEF OvershootBounded
  <2>1. Coming(d) \in SUBSET Grid /\ Grid \in SUBSET Grid
    BY DEF Coming
  <2>2. Cardinality(Coming(d)) \in Nat /\ Cardinality(Grid) \in Nat /\ spent[d] \in Nat
    BY <2>1, PartSize DEF TypeOK
  <2>3. IF d <= today THEN spent[d] + Cardinality(Coming(d)) < Budget + Cardinality(Grid)
                      ELSE spent[d] = 0
    BY DEF RoomInv
  <2> HIDE DEF Grid, Coming
  <2> QED BY <2>2, <2>3, UsageAssumption
<1>4. /\ TypeOK /\ TypeOK' /\ ExactWhenSerial /\ ReadsAreCurrent
      /\ DatesInv /\ OwedInv /\ RoomInv /\ [Next]_vars
      => ExactWhenSerial' /\ ReadsAreCurrent' /\ DatesInv' /\ OwedInv' /\ RoomInv'
  BY ExactStep, DatesStep, OwedStep, RoomStep
<1> QED BY <1>1, <1>2, <1>3, <1>4, TypeCorrect, PTL DEF Spec

-----------------------------------------------------------------------------
\* Accounts and invites

\* An invite has no more uses than accounts, nor will have when a signup in flight commits.
Counts ==
    \A i \in Invites :
        /\ IsFiniteSet(Accounts(i))
        /\ invites[i].uses <= Cardinality(Accounts(i))
        /\ ~invites[i].minted => invites[i].uses = 0
        /\ \A r \in Holders(i) : signups[r].read <= Cardinality(Accounts(i)) /\ invites[i].minted

CountInv == AuthTypeOK /\ Counts

\* An invite no two signups held at once has at most one holder, and that one read the
\* count as it is now, below the cap.
ExactAt(i) ==
    /\ invites[i].uses = Cardinality(Accounts(i))
    /\ MaxUses[i] # Unlimited => invites[i].uses <= MaxUses[i]
    /\ \A r, s \in Holders(i) : r = s
    /\ \A r \in Holders(i) :
           /\ signups[r].read = invites[i].uses
           /\ MaxUses[i] # Unlimited => signups[r].read < MaxUses[i]

Exact == \A i \in Invites \ crossed : ExactAt(i)

\* Accounts and signups go by the normalized address, sessions by their user's password.
Names ==
    /\ \A e \in Spellings : Registered(e) => e[2] = "plain"
    /\ \A r \in Slots : signups[r].at = "hashed" => signups[r].email[2] = "plain"
    /\ \A s \in sessions : Registered(s.user) /\ users[s.user].password = s.knows

-----------------------------------------------------------------------------
\* Types

\* A normalized address is a spelling.
LEMMA NormalizedType == \A e \in Spellings : Normalized(e) \in Spellings /\ Normalized(e)[2] = "plain"
BY DEF Spellings, Normalized

\* A slot that is not idle holds a signup.
LEMMA SignupType ==
    /\ NoSignup \notin Signup
    /\ \A r \in Slots : AuthTypeOK /\ signups[r].at = "hashed" => signups[r] \in Signup
BY DEF AuthTypeOK, NoSignup, Signup

\* The tables start well typed.
LEMMA TypeInit == AuthInit => AuthTypeOK
BY DEF AuthInit, AuthTypeOK, NoUser, User, NoInvite, Invite, Session, NoSignup, Signup

\* Every step keeps them so.
LEMMA AuthTypeStep == AuthTypeOK /\ [AuthNext]_authVars => AuthTypeOK'
<1> SUFFICES ASSUME AuthTypeOK, [AuthNext]_authVars PROVE AuthTypeOK'
    OBVIOUS
<1> USE DEF AuthTypeOK
<1>1. ASSUME NEW i \in Invites, Mint(i) PROVE AuthTypeOK'
    BY <1>1 DEF Mint, Invite
<1>2. ASSUME NEW i \in Invites, Revoke(i) PROVE AuthTypeOK'
    BY <1>2 DEF Revoke, Invite
<1>3. ASSUME NEW r \in Slots, NEW e \in Spellings, NEW p \in Passwords,
             NEW c \in Invites \cup EnvCodes, StartSignup(r, e, p, c)
      PROVE  AuthTypeOK'
    <2>1. \A i \in Invites : invites[i].uses \in Nat BY DEF Invite
    <2>2. signups' \in [Slots -> Signup \cup {NoSignup}]
        BY <1>3, <2>1, NormalizedType DEF StartSignup, Signup
    <2>3. crossed' \subseteq Invites BY <1>3 DEF StartSignup
    <2> QED BY <1>3, <2>2, <2>3 DEF StartSignup
<1>4. ASSUME NEW r \in Slots, CommitSignup(r) PROVE AuthTypeOK'
    <2>1. signups[r] \in Signup BY <1>4, SignupType DEF CommitSignup
    <2>2. users' \in [Spellings -> User \cup {NoUser}]
        BY <1>4, <2>1 DEF CommitSignup, Signup, User
    <2>3. sessions' \subseteq Session
        BY <1>4, <2>1, AccountsAssumption DEF CommitSignup, Signup, Token, Session
    <2>4. invites' \in [Invites -> Invite]
        BY <1>4, <2>1 DEF CommitSignup, Counted, Signup, Invite
    <2>5. signups' \in [Slots -> Signup \cup {NoSignup}] BY <1>4 DEF CommitSignup
    <2> QED BY <1>4, <2>2, <2>3, <2>4, <2>5 DEF CommitSignup
<1>5. ASSUME NEW r \in Slots, Taken(r) PROVE AuthTypeOK'
    BY <1>5 DEF Taken
<1>6. ASSUME NEW e \in Spellings, NEW p \in Passwords, Login(e, p) PROVE AuthTypeOK'
    BY <1>6, NormalizedType, AccountsAssumption DEF Login, Token, Session
<1>7. CASE Tick
    BY <1>7 DEF Tick
<1>8. CASE UNCHANGED authVars
    BY <1>8 DEF authVars
<1> QED BY <1>1, <1>2, <1>3, <1>4, <1>5, <1>6, <1>7, <1>8 DEF AuthNext

\* Every reachable state of Accounts is well typed.
THEOREM AccountsTypeCorrect == AuthSpec => []AuthTypeOK
<1>1. AuthTypeOK /\ [AuthNext]_authVars => AuthTypeOK' BY AuthTypeStep
<1> QED BY <1>1, TypeInit, PTL DEF AuthSpec

-----------------------------------------------------------------------------
\* What the steps do to the accounts and the holders of an invite

\* A signup that commits adds its account to the invite it came by, and to no other.
LEMMA CommitAccounts ==
    ASSUME AuthTypeOK, NEW r \in Slots, CommitSignup(r), NEW i \in Invites
    PROVE  /\ signups[r].email \notin Accounts(i)
           /\ Accounts(i)' = IF signups[r].code = i THEN Accounts(i) \cup {signups[r].email} ELSE Accounts(i)
           /\ Holders(i)' = Holders(i) \ {r}
<1>1. signups[r] \in Signup BY SignupType DEF CommitSignup
<1>2. signups[r].email \in Spellings BY <1>1 DEF Signup
<1>3. users[signups[r].email] = NoUser BY DEF CommitSignup, Registered
<1>4. users[signups[r].email].via # i BY <1>3, AccountsAssumption DEF NoUser
<1>5. users' = [users EXCEPT ![signups[r].email] = [password |-> signups[r].password, via |-> signups[r].code]]
    BY DEF CommitSignup
<1>6. \A e \in Spellings : users'[e].via = IF e = signups[r].email THEN signups[r].code ELSE users[e].via
    BY <1>2, <1>5 DEF AuthTypeOK
<1>7. Holders(i)' = Holders(i) \ {r}
    BY DEF CommitSignup, Holders, NoSignup, AuthTypeOK
<1> QED BY <1>2, <1>4, <1>6, <1>7 DEF Accounts

\* A signup that starts becomes a holder of its invite, and of no other.
LEMMA StartHolders ==
    ASSUME AuthTypeOK, NEW r \in Slots, NEW e \in Spellings, NEW p \in Passwords,
           NEW c \in Invites \cup EnvCodes, StartSignup(r, e, p, c), NEW i \in Invites
    PROVE  /\ Holders(i)' = IF c = i THEN Holders(i) \cup {r} ELSE Holders(i)
           /\ r \notin Holders(i)
           /\ Accounts(i)' = Accounts(i)
<1>1. signups' = [signups EXCEPT ![r] =
         [at |-> "hashed", email |-> Normalized(e), password |-> p, code |-> c,
          read |-> IF c \in Invites THEN invites[c].uses ELSE 0]]
    BY DEF StartSignup
<1>2. \A s \in Slots : s # r => signups'[s] = signups[s] BY <1>1 DEF AuthTypeOK
<1>3. signups'[r].at = "hashed" /\ signups'[r].code = c BY <1>1 DEF AuthTypeOK
<1>4. r \notin Holders(i) BY DEF StartSignup, NoSignup, Holders
<1>5. Accounts(i)' = Accounts(i) BY DEF StartSignup, Accounts
<1> QED BY <1>2, <1>3, <1>4, <1>5 DEF Holders

\* A signup that fails holds nothing any more.
LEMMA TakenHolders ==
    ASSUME AuthTypeOK, NEW r \in Slots, Taken(r), NEW i \in Invites
    PROVE  Holders(i)' = Holders(i) \ {r} /\ Accounts(i)' = Accounts(i)
BY DEF Taken, Holders, Accounts, NoSignup, AuthTypeOK

\* The other steps leave both alone.
LEMMA SameHolders ==
    ASSUME UNCHANGED <<users, signups>>, NEW i \in Invites
    PROVE  Holders(i)' = Holders(i) /\ Accounts(i)' = Accounts(i)
BY DEF Holders, Accounts

-----------------------------------------------------------------------------
\* Uses

\* Nothing is counted at first.
LEMMA CountInit == AuthInit => Counts
<1> SUFFICES ASSUME AuthInit PROVE Counts OBVIOUS
<1>1. \A i \in Invites : Accounts(i) = {} /\ Holders(i) = {}
    BY AccountsAssumption DEF AuthInit, Accounts, Holders, NoUser, NoSignup
<1>2. \A i \in Invites : invites[i].uses = 0 BY DEF AuthInit, NoInvite
<1> QED BY <1>1, <1>2, FS_EmptySet DEF Counts

\* Every step keeps the counts below the accounts.
LEMMA CountStep ==
    CountInv /\ [AuthNext]_authVars => Counts'
<1> SUFFICES ASSUME AuthTypeOK, Counts, [AuthNext]_authVars, NEW i \in Invites
             PROVE  /\ IsFiniteSet(Accounts(i)')
                    /\ invites'[i].uses <= Cardinality(Accounts(i)')
                    /\ ~invites'[i].minted => invites'[i].uses = 0
                    /\ \A r \in Holders(i)' :
                           signups'[r].read <= Cardinality(Accounts(i)') /\ invites'[i].minted
    BY DEF CountInv, Counts
<1>0. /\ IsFiniteSet(Accounts(i)) /\ Cardinality(Accounts(i)) \in Nat
      /\ invites[i] \in Invite
      /\ invites[i].uses <= Cardinality(Accounts(i))
      /\ ~invites[i].minted => invites[i].uses = 0
      /\ \A r \in Holders(i) : signups[r].read <= Cardinality(Accounts(i)) /\ invites[i].minted
    BY FS_CardinalityType DEF Counts, AuthTypeOK
<1>1. ASSUME NEW j \in Invites, Mint(j) \/ Revoke(j)
      PROVE  /\ UNCHANGED <<users, signups>>
             /\ invites[i].minted => invites'[i].minted /\ invites'[i].uses = invites[i].uses
             /\ invites'[i].uses = invites[i].uses \/ invites'[i].uses = 0
             /\ ~invites'[i].minted => invites'[i].uses = invites[i].uses /\ ~invites[i].minted
    BY <1>1 DEF Mint, Revoke, AuthTypeOK, Invite
<1>2. ASSUME NEW j \in Invites, Mint(j) \/ Revoke(j)
      PROVE  /\ IsFiniteSet(Accounts(i)')
             /\ invites'[i].uses <= Cardinality(Accounts(i)')
             /\ ~invites'[i].minted => invites'[i].uses = 0
             /\ \A r \in Holders(i)' :
                    signups'[r].read <= Cardinality(Accounts(i)') /\ invites'[i].minted
    BY <1>0, <1>1, <1>2, SameHolders
<1>3. ASSUME NEW r \in Slots, NEW e \in Spellings, NEW p \in Passwords,
             NEW c \in Invites \cup EnvCodes, StartSignup(r, e, p, c)
      PROVE  /\ IsFiniteSet(Accounts(i)')
             /\ invites'[i].uses <= Cardinality(Accounts(i)')
             /\ ~invites'[i].minted => invites'[i].uses = 0
             /\ \A s \in Holders(i)' :
                    signups'[s].read <= Cardinality(Accounts(i)') /\ invites'[i].minted
    <2>1. /\ Holders(i)' = IF c = i THEN Holders(i) \cup {r} ELSE Holders(i)
          /\ r \notin Holders(i)
          /\ Accounts(i)' = Accounts(i)
        BY <1>3, StartHolders
    <2>2. invites' = invites BY <1>3 DEF StartSignup
    <2>3. /\ \A s \in Slots : s # r => signups'[s] = signups[s]
          /\ c = i => signups'[r].read = invites[i].uses /\ invites[i].minted
        BY <1>3 DEF StartSignup, Redeemable, AuthTypeOK
    <2>4. Holders(i) \subseteq Slots BY DEF Holders
    <2> QED BY <1>0, <2>1, <2>2, <2>3, <2>4
<1>4. ASSUME NEW r \in Slots, CommitSignup(r)
      PROVE  /\ IsFiniteSet(Accounts(i)')
             /\ invites'[i].uses <= Cardinality(Accounts(i)')
             /\ ~invites'[i].minted => invites'[i].uses = 0
             /\ \A s \in Holders(i)' :
                    signups'[s].read <= Cardinality(Accounts(i)') /\ invites'[i].minted
    <2>1. /\ signups[r].email \notin Accounts(i)
          /\ Accounts(i)' = IF signups[r].code = i THEN Accounts(i) \cup {signups[r].email} ELSE Accounts(i)
          /\ Holders(i)' = Holders(i) \ {r}
        BY <1>4, CommitAccounts
    <2>2. \A s \in Slots : s # r => signups'[s] = signups[s] BY <1>4 DEF CommitSignup, AuthTypeOK
    <2>3. Holders(i) \subseteq Slots BY DEF Holders
    <2>4. signups[r] \in Signup BY <1>4, SignupType DEF CommitSignup
    <2>5. CASE signups[r].code = i
        <3>1. r \in Holders(i) BY <1>4, <2>5 DEF CommitSignup, Holders
        <3>2. invites'[i].uses = signups[r].read + 1 /\ invites'[i].minted = invites[i].minted
            BY <1>4, <2>5 DEF CommitSignup, Counted, AuthTypeOK, Invite
        <3>3. /\ IsFiniteSet(Accounts(i)')
              /\ Cardinality(Accounts(i)') = Cardinality(Accounts(i)) + 1
            BY <1>0, <2>1, <2>5, FS_AddElement
        <3>4. signups[r].read \in Nat BY <2>4 DEF Signup
        <3>5. \A s \in Holders(i) : signups[s].read <= Cardinality(Accounts(i)) + 1
            <4> TAKE s \in Holders(i)
            <4>1. signups[s] \in Signup BY SignupType DEF Holders
            <4> QED BY <1>0, <4>1 DEF Signup
        <3>6. invites'[i].uses <= Cardinality(Accounts(i)') /\ invites'[i].minted
            BY <1>0, <3>1, <3>2, <3>3, <3>4
        <3>7. \A s \in Holders(i)' : signups'[s].read <= Cardinality(Accounts(i)')
            BY <2>1, <2>2, <2>3, <3>3, <3>5
        <3> QED BY <3>3, <3>6, <3>7
    <2>6. CASE signups[r].code # i
        <3>1. invites'[i] = invites[i]
            BY <1>4, <2>6 DEF CommitSignup, Counted, AuthTypeOK
        <3> QED BY <1>0, <2>1, <2>2, <2>3, <2>6, <3>1
    <2> QED BY <2>5, <2>6
<1>5. ASSUME NEW r \in Slots, Taken(r)
      PROVE  /\ IsFiniteSet(Accounts(i)')
             /\ invites'[i].uses <= Cardinality(Accounts(i)')
             /\ ~invites'[i].minted => invites'[i].uses = 0
             /\ \A s \in Holders(i)' :
                    signups'[s].read <= Cardinality(Accounts(i)') /\ invites'[i].minted
    <2>1. Holders(i)' = Holders(i) \ {r} /\ Accounts(i)' = Accounts(i) BY <1>5, TakenHolders
    <2>2. invites' = invites /\ \A s \in Slots : s # r => signups'[s] = signups[s]
        BY <1>5 DEF Taken, AuthTypeOK
    <2>3. Holders(i) \subseteq Slots BY DEF Holders
    <2> QED BY <1>0, <2>1, <2>2, <2>3
<1>6. ASSUME UNCHANGED <<users, invites, signups>>
      PROVE  /\ IsFiniteSet(Accounts(i)')
             /\ invites'[i].uses <= Cardinality(Accounts(i)')
             /\ ~invites'[i].minted => invites'[i].uses = 0
             /\ \A s \in Holders(i)' :
                    signups'[s].read <= Cardinality(Accounts(i)') /\ invites'[i].minted
    BY <1>0, <1>6, SameHolders
<1>7. ASSUME \/ \E e \in Spellings, p \in Passwords : Login(e, p)
             \/ Tick
             \/ UNCHANGED authVars
      PROVE  UNCHANGED <<users, invites, signups>>
    BY <1>7 DEF Login, Tick, authVars
<1> QED BY <1>2, <1>3, <1>4, <1>5, <1>6, <1>7 DEF AuthNext

\* Whatever the signups do at once, an invite is never charged for an account that was
\* not made.
THEOREM InvitesNotBurnt == AuthSpec => []NothingBurnt
<1>1. CountInv /\ [AuthNext]_authVars => CountInv' BY AuthTypeStep, CountStep DEF CountInv
<1>2. AuthInit => CountInv BY TypeInit, CountInit DEF CountInv
<1>3. CountInv => NothingBurnt BY DEF CountInv, Counts, NothingBurnt
<1> QED BY <1>1, <1>2, <1>3, PTL DEF AuthSpec

-----------------------------------------------------------------------------
\* Caps

\* The count is exact at first.
LEMMA ExactInit == AuthInit => Exact
<1> SUFFICES ASSUME AuthInit PROVE Exact OBVIOUS
<1>1. \A i \in Invites : Accounts(i) = {} /\ Holders(i) = {}
    BY AccountsAssumption DEF AuthInit, Accounts, Holders, NoUser, NoSignup
<1>2. \A i \in Invites : invites[i].uses = 0 BY DEF AuthInit, NoInvite
<1>3. \A i \in Invites : MaxUses[i] # Unlimited => 0 <= MaxUses[i] BY AccountsAssumption
<1> QED BY <1>1, <1>2, <1>3, FS_EmptySet DEF Exact, ExactAt

\* Every step keeps the count of an invite exact as long as one signup at most holds it.
LEMMA AuthExactStep ==
    CountInv /\ Exact /\ [AuthNext]_authVars => Exact'
<1> SUFFICES ASSUME AuthTypeOK, Counts, Exact, [AuthNext]_authVars, NEW i \in Invites, i \notin crossed'
             PROVE  ExactAt(i)'
    BY DEF CountInv, Exact
<1>0. /\ crossed \subseteq crossed'
      /\ IsFiniteSet(Accounts(i)) /\ Cardinality(Accounts(i)) \in Nat
      /\ invites[i] \in Invite
      /\ ~invites[i].minted => invites[i].uses = 0
    <2>1. crossed \subseteq crossed'
        BY DEF AuthNext, authVars, Mint, Revoke, StartSignup, CommitSignup, Taken, Login, Tick
    <2> QED BY <2>1, FS_CardinalityType DEF Counts, AuthTypeOK
<1>1. ExactAt(i) BY <1>0 DEF Exact
<1>2. ASSUME NEW j \in Invites, Mint(j) \/ Revoke(j) PROVE ExactAt(i)'
    <2>1. UNCHANGED <<users, signups>> /\ invites'[i].uses = invites[i].uses
        BY <1>0, <1>2 DEF Mint, Revoke, AuthTypeOK, Invite
    <2> QED BY <1>1, <2>1, SameHolders DEF ExactAt
<1>3. ASSUME NEW r \in Slots, NEW e \in Spellings, NEW p \in Passwords,
             NEW c \in Invites \cup EnvCodes, StartSignup(r, e, p, c)
      PROVE  ExactAt(i)'
    <2>1. /\ Holders(i)' = IF c = i THEN Holders(i) \cup {r} ELSE Holders(i)
          /\ r \notin Holders(i)
          /\ Accounts(i)' = Accounts(i)
        BY <1>3, StartHolders
    <2>2. invites' = invites /\ Holders(i) \subseteq Slots BY <1>3 DEF StartSignup, Holders
    <2>3. /\ \A s \in Slots : s # r => signups'[s] = signups[s]
          /\ c = i => /\ signups'[r].read = invites[i].uses
                      /\ MaxUses[i] # Unlimited => invites[i].uses < MaxUses[i]
        BY <1>3 DEF StartSignup, Redeemable, AuthTypeOK
    <2>4. c = i => Holders(i) = {} BY <1>3 DEF StartSignup
    <2> QED BY <1>1, <2>1, <2>2, <2>3, <2>4 DEF ExactAt
<1>4. ASSUME NEW r \in Slots, CommitSignup(r) PROVE ExactAt(i)'
    <2>1. /\ signups[r].email \notin Accounts(i)
          /\ Accounts(i)' = IF signups[r].code = i THEN Accounts(i) \cup {signups[r].email} ELSE Accounts(i)
          /\ Holders(i)' = Holders(i) \ {r}
        BY <1>4, CommitAccounts
    <2>2. /\ \A s \in Slots : s # r => signups'[s] = signups[s]
          /\ Holders(i) \subseteq Slots
        BY <1>4 DEF CommitSignup, AuthTypeOK, Holders
    <2>3. CASE signups[r].code = i
        <3>1. r \in Holders(i) BY <1>4, <2>3 DEF CommitSignup, Holders
        <3>2. Holders(i)' = {} BY <1>1, <2>1, <3>1 DEF ExactAt
        <3>3. invites'[i].uses = invites[i].uses + 1
            BY <1>1, <1>4, <2>3, <3>1 DEF CommitSignup, Counted, AuthTypeOK, Invite, ExactAt
        <3>4. Cardinality(Accounts(i)') = Cardinality(Accounts(i)) + 1
            BY <1>0, <2>1, <2>3, FS_AddElement
        <3>5. MaxUses[i] # Unlimited => invites[i].uses < MaxUses[i] /\ MaxUses[i] \in Nat
            BY <1>1, <3>1, AccountsAssumption DEF ExactAt
        <3>6. MaxUses[i] # Unlimited => invites'[i].uses <= MaxUses[i]
            BY <1>0, <3>3, <3>5 DEF Invite
        <3> QED BY <1>1, <3>2, <3>3, <3>4, <3>6 DEF ExactAt
    <2>4. CASE signups[r].code # i
        <3>1. invites'[i] = invites[i]
            BY <1>4, <2>4 DEF CommitSignup, Counted, AuthTypeOK
        <3> QED BY <1>1, <2>1, <2>2, <2>4, <3>1 DEF ExactAt
    <2> QED BY <2>3, <2>4
<1>5. ASSUME NEW r \in Slots, Taken(r) PROVE ExactAt(i)'
    <2>1. Holders(i)' = Holders(i) \ {r} /\ Accounts(i)' = Accounts(i) BY <1>5, TakenHolders
    <2>2. /\ invites' = invites /\ \A s \in Slots : s # r => signups'[s] = signups[s]
          /\ Holders(i) \subseteq Slots
        BY <1>5 DEF Taken, AuthTypeOK, Holders
    <2> QED BY <1>1, <2>1, <2>2 DEF ExactAt
<1>6. ASSUME \/ \E e \in Spellings, p \in Passwords : Login(e, p)
             \/ Tick
             \/ UNCHANGED authVars
      PROVE  ExactAt(i)'
    <2>1. UNCHANGED <<users, invites, signups>> BY <1>6 DEF Login, Tick, authVars
    <2> QED BY <1>1, <2>1, SameHolders DEF ExactAt
<1> QED BY <1>2, <1>3, <1>4, <1>5, <1>6 DEF AuthNext

\* The cap of an invite holds for any number of signups, unless two held it at once.
THEOREM CapsHold == AuthSpec => []CapHolds
<1>1. CountInv /\ Exact /\ [AuthNext]_authVars => (CountInv /\ Exact)'
    BY AuthTypeStep, CountStep, AuthExactStep DEF CountInv
<1>2. AuthInit => CountInv /\ Exact BY TypeInit, CountInit, ExactInit DEF CountInv
<1>3. CountInv /\ Exact => CapHolds BY DEF Exact, ExactAt, CapHolds
<1> QED BY <1>1, <1>2, <1>3, PTL DEF AuthSpec

-----------------------------------------------------------------------------
\* Addresses

\* A user is not the absence of one.
LEMMA UserNotNone == NoUser \notin User
BY AccountsAssumption DEF NoUser, User

\* Every step keeps accounts under their normalized address, with their password.
LEMMA NamesStep ==
    AuthTypeOK /\ Names /\ [AuthNext]_authVars => Names'
<1> SUFFICES ASSUME AuthTypeOK, Names, [AuthNext]_authVars PROVE Names'
    OBVIOUS
<1>1. ASSUME NEW i \in Invites, Mint(i) \/ Revoke(i) PROVE Names'
    BY <1>1 DEF Mint, Revoke, Names, Registered
<1>2. ASSUME NEW r \in Slots, NEW e \in Spellings, NEW p \in Passwords,
             NEW c \in Invites \cup EnvCodes, StartSignup(r, e, p, c)
      PROVE  Names'
    <2>1. \A s \in Slots : s # r => signups'[s] = signups[s] BY <1>2 DEF StartSignup, AuthTypeOK
    <2>2. signups'[r].email[2] = "plain" BY <1>2, NormalizedType DEF StartSignup, AuthTypeOK
    <2>3. UNCHANGED <<users, sessions>> BY <1>2 DEF StartSignup
    <2> QED BY <2>1, <2>2, <2>3 DEF Names, Registered
<1>3. ASSUME NEW r \in Slots, CommitSignup(r) PROVE Names'
    <2> DEFINE e == signups[r].email
               u == [password |-> signups[r].password, via |-> signups[r].code]
    <2>1. signups[r] \in Signup BY <1>3, SignupType DEF CommitSignup
    <2>2. e \in Spellings /\ u \in User BY <2>1 DEF Signup, User
    <2>3. e[2] = "plain" /\ ~Registered(e) BY <1>3 DEF CommitSignup, Names
    <2>4. users' = [users EXCEPT ![e] = u] BY <1>3 DEF CommitSignup
    <2>5. u # NoUser BY <2>2, UserNotNone
    <2>6. users'[e] = u /\ \A f \in Spellings : f # e => users'[f] = users[f]
        BY <2>2, <2>4 DEF AuthTypeOK
    <2>7. \A f \in Spellings : Registered(f)' => f[2] = "plain"
        BY <2>3, <2>6 DEF Names, Registered
    <2>8. sessions' = sessions \cup {Token(e, signups[r].password)} BY <1>3 DEF CommitSignup
    <2>9. ASSUME NEW s \in sessions'
          PROVE  Registered(s.user)' /\ users'[s.user].password = s.knows
        <3>1. CASE s \in sessions
            <4>1. s.user \in Spellings /\ s.user # e
                BY <2>3, <3>1 DEF Names, AuthTypeOK, Session
            <4> QED BY <2>6, <3>1, <4>1 DEF Names, Registered
        <3>2. CASE s = Token(e, signups[r].password)
            BY <2>5, <2>6, <3>2 DEF Token, Registered
        <3> QED BY <2>8, <3>1, <3>2
    <2>10. \A t \in Slots : signups'[t].at = "hashed" => signups'[t].email[2] = "plain"
        BY <1>3 DEF CommitSignup, Names, NoSignup, AuthTypeOK
    <2> QED BY <2>7, <2>9, <2>10 DEF Names
<1>4. ASSUME NEW r \in Slots, Taken(r) PROVE Names'
    BY <1>4 DEF Taken, Names, Registered, NoSignup, AuthTypeOK
<1>5. ASSUME NEW e \in Spellings, NEW p \in Passwords, Login(e, p) PROVE Names'
    BY <1>5 DEF Login, Token, Names, Registered
<1>6. CASE Tick
    BY <1>6 DEF Tick, Names, Registered
<1>7. CASE UNCHANGED authVars
    BY <1>7 DEF authVars, Names, Registered
<1> QED BY <1>1, <1>2, <1>3, <1>4, <1>5, <1>6, <1>7 DEF AuthNext

\* An address has one account, every spelling of it finds that account, and a session of
\* it was given for its password.
THEOREM AddressesAreOne == AuthSpec => []OneAccountPerAddress
<1>1. AuthTypeOK /\ Names /\ [AuthNext]_authVars => (AuthTypeOK /\ Names)' BY AuthTypeStep, NamesStep
<1>2. AuthInit => AuthTypeOK /\ Names
    <2>1. AuthInit => Names BY DEF AuthInit, Names, Registered, NoSignup
    <2> QED BY <2>1, TypeInit
<1>3. AuthTypeOK /\ Names => OneAccountPerAddress
    <2> SUFFICES ASSUME AuthTypeOK, Names PROVE OneAccountPerAddress OBVIOUS
    <2>1. \A e, f \in Spellings : Registered(e) /\ Registered(f) /\ e[1] = f[1] => e = f
        BY DEF Names, Spellings
    <2>2. \A e, f \in Spellings : Registered(e) /\ e[1] = f[1] => Normalized(f) = e
        BY DEF Names, Spellings, Normalized
    <2>3. \A e, f \in Spellings : Registered(e) /\ e[1] = f[1] => Registered(Normalized(f))
        BY <2>2
    <2> QED BY <2>1, <2>3 DEF OneAccountPerAddress, Names
<1> QED BY <1>1, <1>2, <1>3, PTL DEF AuthSpec

-----------------------------------------------------------------------------
\* The kill switch

\* A step lets nobody in on an invite that is switched off and that no signup holds.
LEMMA ShutStep ==
    ASSUME AuthTypeOK, [AuthNext]_authVars, NEW i \in Invites,
           ~invites[i].active, Holders(i) = {}
    PROVE  Accounts(i)' = Accounts(i) /\ Holders(i)' = {}
<1>1. ASSUME NEW j \in Invites, Mint(j) \/ Revoke(j)
      PROVE  Accounts(i)' = Accounts(i) /\ Holders(i)' = {}
    BY <1>1, SameHolders DEF Mint, Revoke
<1>2. ASSUME NEW r \in Slots, NEW e \in Spellings, NEW p \in Passwords,
             NEW c \in Invites \cup EnvCodes, StartSignup(r, e, p, c)
      PROVE  Accounts(i)' = Accounts(i) /\ Holders(i)' = {}
    <2>1. c # i BY <1>2 DEF StartSignup, Redeemable
    <2> QED BY <1>2, <2>1, StartHolders
<1>3. ASSUME NEW r \in Slots, CommitSignup(r)
      PROVE  Accounts(i)' = Accounts(i) /\ Holders(i)' = {}
    <2>1. signups[r].code # i BY <1>3 DEF CommitSignup, Holders
    <2> QED BY <1>3, <2>1, CommitAccounts
<1>4. ASSUME NEW r \in Slots, Taken(r)
      PROVE  Accounts(i)' = Accounts(i) /\ Holders(i)' = {}
    BY <1>4, TakenHolders
<1>5. ASSUME \/ \E e \in Spellings, p \in Passwords : Login(e, p)
             \/ Tick
             \/ UNCHANGED authVars
      PROVE  Accounts(i)' = Accounts(i) /\ Holders(i)' = {}
    BY <1>5, SameHolders DEF Login, Tick, authVars
<1> QED BY <1>1, <1>2, <1>3, <1>4, <1>5 DEF AuthNext

\* A revoked invite lets in the signups that hold it and nobody after them.
THEOREM RevokedStaysShut == AuthSpec => RevokedIsShut
<1>1. AuthTypeOK /\ [AuthNext]_authVars =>
          \A i \in Invites :
              ~invites[i].active /\ Holders(i) = {} => Accounts(i)' = Accounts(i) /\ Holders(i)' = {}
    BY ShutStep
<1> QED BY <1>1, AccountsTypeCorrect, PTL DEF AuthSpec, RevokedIsShut

=============================================================================
