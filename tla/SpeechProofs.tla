---------------------------- MODULE SpeechProofs -----------------------------
(***************************************************************************)
(* Proofs about SpeechSession for any number of requests, turns and        *)
(* conversations, any cap and any block no larger than the cap; and about  *)
(* VocabReview for courses, decks and replies of any length.               *)
(***************************************************************************)
EXTENDS SpeechSession, VocabReview, FoldProofs

-----------------------------------------------------------------------------
\* The prompt

\* What is left out of n turns is the whole blocks that bring it within the cap, and no
\* block more.
LEMMA CutWholeBlocks ==
    ASSUME NEW n \in Nat
    PROVE  /\ Cut(n) \in Nat
           /\ Cut(n) % TrimBlock = 0
           /\ Cut(n) <= n
           /\ n - Cut(n) <= HistoryMax
           /\ Cut(n) > 0 => n - Cut(n) > HistoryMax - TrimBlock
<1> DEFINE over == n - HistoryMax
           blocks == (over - 1) \div TrimBlock + 1
<1>0. TrimBlock \in Nat \ {0} /\ HistoryMax \in Nat /\ TrimBlock <= HistoryMax
  BY SpeechAssumption
<1>1. CASE over <= 0
  BY <1>0, <1>1 DEF Cut
<1>2. CASE over > 0
  <2>1. over \in Nat /\ over - 1 \in Nat
    BY <1>0, <1>2
  <2>2. /\ (over - 1) \div TrimBlock \in Nat
        /\ TrimBlock * ((over - 1) \div TrimBlock) <= over - 1
        /\ over - 1 < TrimBlock * ((over - 1) \div TrimBlock) + TrimBlock
    BY <1>0, <2>1
  <2>3. Cut(n) = blocks * TrimBlock
    BY <1>0, <2>1, <1>2, ~(over <= 0) DEF Cut
  <2>4. blocks \in Nat /\ blocks * TrimBlock = TrimBlock * ((over - 1) \div TrimBlock) + TrimBlock
    BY <2>2, <1>0
  <2>5. blocks * TrimBlock >= over /\ blocks * TrimBlock < over + TrimBlock
    BY <2>2, <2>4, <1>0
  <2>6. blocks * TrimBlock \in Nat /\ (blocks * TrimBlock) % TrimBlock = 0
    BY <2>4, <1>0
  <2> QED BY <2>1, <2>3, <2>5, <2>6, <1>0
<1> QED BY <1>0, <1>1, <1>2

\* The turns of the conversation s among the rows ts.
Count(ts, s) == Cardinality({i \in DOMAIN ts : s = NoSession \/ ts[i].sess = s})

\* A conversation has as many turns as a natural number tells.
LEMMA CountType ==
    ASSUME NEW ts \in Seq(Turn), NEW s
    PROVE  Count(ts, s) \in Nat
<1>1. IsFiniteSet(1..Len(ts))
  BY FS_Interval
<1>2. {i \in DOMAIN ts : s = NoSession \/ ts[i].sess = s} \subseteq 1..Len(ts)
  OBVIOUS
<1> QED BY <1>1, <1>2, FS_Subset, FS_CardinalityType DEF Count

\* A conversation never shrinks while turns are only appended or changed in place.
LEMMA CountGrows ==
    ASSUME NEW ts \in Seq(Turn), NEW us \in Seq(Turn), Len(us) >= Len(ts),
           \A i \in DOMAIN ts : us[i].sess = ts[i].sess, NEW s
    PROVE  Count(ts, s) <= Count(us, s)
<1>1. IsFiniteSet(1..Len(us))
  BY Len(us) \in Int, FS_Interval
<1>2. {i \in DOMAIN us : s = NoSession \/ us[i].sess = s} \subseteq 1..Len(us)
  OBVIOUS
<1>3. {i \in DOMAIN ts : s = NoSession \/ ts[i].sess = s}
        \subseteq {i \in DOMAIN us : s = NoSession \/ us[i].sess = s}
  OBVIOUS
<1> QED BY <1>1, <1>2, <1>3, FS_Subset DEF Count

-----------------------------------------------------------------------------
\* The invariant

\* What a slot with record m relies on, of the rows ts, the clips cs and the lines rc
\* that were raced for.
Fits(m, ts, cs, rc) ==
    /\ m.at = "asking" => m.from = Cut(m.n) /\ m.n <= m.to
    /\ m.at \in {"translating", "voicing", "put"} => m.of \in Touched \cap DOMAIN ts
    /\ m.at = "translating" => /\ ts[m.of].line = "model"
                               /\ m.of \notin rc => ts[m.of].en = m.seen /\ m.seen # "english"
    /\ m.at \in {"voicing", "put"} => ts[m.of].line # "authored"
    /\ m.at = "voiced" => 0 \in cs
    /\ m.at = "put" => m.of \in cs

CountInv == \A r \in Reqs :
    req[r].at = "counted" => req[r].n <= Count(turns, req[r].sess)

SlotsInv == \A r \in Reqs : Fits(req[r], turns, clips, raced)

KeysInv == \A t \in DOMAIN turns : turns[t].line = "authored" => turns[t].keyed

\* A line no two requests translated at once has its English exactly if it was paid for.
PaidInv == \A t \in Touched :
    /\ paid[t] > 0 => t \in DOMAIN turns /\ turns[t].line = "model"
    /\ t \notin raced => /\ paid[t] <= 1
                         /\ paid[t] = 1 <=> t \in DOMAIN turns /\ turns[t].en = "english"

IInv == TypeOK /\ CountInv /\ SlotsInv /\ KeysInv /\ PaidInv

\* The idle slot is well typed and relies on nothing.
LEMMA IdleFits == Idle \in Request /\ \A ts, cs, rc : Fits(Idle, ts, cs, rc)
BY SpeechAssumption DEF Idle, Request, Fits, Subtitles

\* The slots after a step that moves one of them.
LEMMA SlotMoves ==
    ASSUME req \in [Reqs -> Request], NEW r \in Reqs, NEW m \in Request, Moves(r, m)
    PROVE  /\ req' \in [Reqs -> Request]
           /\ req'[r] = m
           /\ \A s \in Reqs \ {r} : req'[s] = req[s]
BY DEF Moves

\* A step that reads or stores a clip: rows and payments stay, clips are added.
LEMMA MoveStep ==
    ASSUME IInv, NEW r \in Reqs, NEW m \in Request, Moves(r, m),
           UNCHANGED <<turns, paid, raced>>,
           clips \subseteq clips', clips' \in SUBSET (0..MaxTurns),
           Fits(m, turns, clips', raced),
           m.at = "counted" => m.n <= Count(turns, m.sess)
    PROVE  IInv'
<1>1. /\ req' \in [Reqs -> Request] /\ req'[r] = m
      /\ \A s \in Reqs \ {r} : req'[s] = req[s]
  BY SlotMoves DEF IInv, TypeOK
<1>2. TypeOK'
  BY <1>1 DEF IInv, TypeOK, ClipOf
<1>3. CountInv'
  BY <1>1 DEF IInv, CountInv
<1>4. SlotsInv'
  BY <1>1 DEF IInv, SlotsInv, Fits
<1>5. KeysInv' /\ PaidInv'
  BY DEF IInv, KeysInv, PaidInv
<1> QED BY <1>2, <1>3, <1>4, <1>5 DEF IInv

\* A new turn: keyed if it is an authored line, whose clip is stored by then.
LEMMA AppendStep ==
    ASSUME IInv, NEW r \in Reqs, NEW line \in Lines, NEW keyed \in BOOLEAN,
           Appends(r, line, keyed), keyed <=> line = "authored", keyed => 0 \in clips
    PROVE  IInv'
<1> DEFINE turn == [sess |-> req[r].sess, line |-> line, keyed |-> keyed, en |-> "null"]
<1>1. /\ req' \in [Reqs -> Request] /\ req'[r] = Idle
      /\ \A s \in Reqs \ {r} : req'[s] = req[s]
  BY IdleFits, SlotMoves DEF Appends, IInv, TypeOK
<1>2. turn \in Turn
  BY DEF Turn, Subtitles, IInv, TypeOK, Request
<1>3. turns \in Seq(Turn) /\ turns' = Append(turns, turn) /\ Len(turns) < MaxTurns
  BY DEF Appends, IInv, TypeOK
<1> HIDE DEF turn
<1>4. /\ turns' \in Seq(Turn) /\ Len(turns') = Len(turns) + 1
      /\ DOMAIN turns' = DOMAIN turns \cup {Len(turns) + 1}
      /\ turns'[Len(turns) + 1] = turn
      /\ \A t \in DOMAIN turns : turns'[t] = turns[t]
      /\ Len(turns) + 1 \notin DOMAIN turns
  BY <1>2, <1>3
<1>5. UNCHANGED <<clips, paid, raced>>
  BY DEF Appends
<1>6. turn.line = line /\ turn.keyed = keyed /\ turn.en = "null"
  BY DEF turn
<1>7. TypeOK'
  <2>1. Len(turns') <= MaxTurns
    BY <1>3, <1>4, SpeechAssumption
  <2>2. ASSUME NEW t \in DOMAIN turns', turns'[t].keyed PROVE ClipOf(t)' \in clips'
    BY <2>2, <1>4, <1>5, <1>6 DEF ClipOf, IInv, TypeOK
  <2> QED BY <2>1, <2>2, <1>1, <1>4, <1>5 DEF IInv, TypeOK
<1>8. CountInv'
  <2> SUFFICES ASSUME NEW s \in Reqs, req'[s].at = "counted"
               PROVE  req'[s].n <= Count(turns', req'[s].sess)
    BY DEF CountInv
  <2>1. req'[s] = req[s]
    BY <1>1 DEF Idle
  <2>2. req[s].n <= Count(turns, req[s].sess) /\ req[s].n \in Nat
    BY <2>1 DEF IInv, CountInv, TypeOK, Request
  <2>3. Count(turns, req[s].sess) <= Count(turns', req[s].sess)
    <3>1. Len(turns') >= Len(turns)
      BY <1>3, <1>4
    <3>2. \A t \in DOMAIN turns : turns'[t].sess = turns[t].sess
      BY <1>4
    <3> QED BY <3>1, <3>2, <1>3, <1>4, CountGrows
  <2>4. Count(turns, req[s].sess) \in Nat /\ Count(turns', req[s].sess) \in Nat
    BY <1>3, <1>4, CountType
  <2> QED BY <2>1, <2>2, <2>3, <2>4
<1>9. SlotsInv'
  <2> SUFFICES ASSUME NEW s \in Reqs PROVE Fits(req'[s], turns', clips, raced)
    BY <1>5 DEF SlotsInv
  <2>1. CASE s = r
    BY <2>1, <1>1, IdleFits
  <2>2. CASE s # r
    <3>1. Fits(req[s], turns, clips, raced) /\ req'[s] = req[s]
      BY <2>2, <1>1 DEF IInv, SlotsInv
    <3> QED BY <3>1, <1>4 DEF Fits
  <2> QED BY <2>1, <2>2
<1>10. KeysInv' /\ PaidInv'
  BY <1>4, <1>5, <1>6 DEF IInv, KeysInv, PaidInv
<1> QED BY <1>7, <1>8, <1>9, <1>10 DEF IInv

\* A row that is changed in place keeps its conversation and its line, and leaves the
\* other rows and slots as they are.
LEMMA RowStep ==
    ASSUME IInv, NEW r \in Reqs, NEW t \in DOMAIN turns, NEW row \in Turn,
           turns' = [turns EXCEPT ![t] = row],
           row.sess = turns[t].sess, row.line = turns[t].line, Moves(r, Idle)
    PROVE  /\ req' \in [Reqs -> Request] /\ req'[r] = Idle
           /\ \A s \in Reqs \ {r} : req'[s] = req[s]
           /\ turns' \in Seq(Turn) /\ Len(turns') = Len(turns) /\ DOMAIN turns' = DOMAIN turns
           /\ turns'[t] = row
           /\ \A u \in DOMAIN turns \ {t} : turns'[u] = turns[u]
           /\ \A u \in DOMAIN turns : turns'[u].line = turns[u].line
           /\ CountInv'
<1>1. /\ req' \in [Reqs -> Request] /\ req'[r] = Idle
      /\ \A s \in Reqs \ {r} : req'[s] = req[s]
  BY IdleFits, SlotMoves DEF IInv, TypeOK
<1>2. turns \in Seq(Turn)
  BY DEF IInv, TypeOK
<1>3. /\ turns' \in Seq(Turn) /\ Len(turns') = Len(turns) /\ DOMAIN turns' = DOMAIN turns
      /\ turns'[t] = row
      /\ \A u \in DOMAIN turns \ {t} : turns'[u] = turns[u]
  BY <1>2
<1>4. \A u \in DOMAIN turns : turns'[u].line = turns[u].line /\ turns'[u].sess = turns[u].sess
  BY <1>3
<1>5. CountInv'
  <2> SUFFICES ASSUME NEW s \in Reqs, req'[s].at = "counted"
               PROVE  req'[s].n <= Count(turns', req'[s].sess)
    BY DEF CountInv
  <2>1. req'[s] = req[s]
    BY <1>1 DEF Idle
  <2>2. req[s].n <= Count(turns, req[s].sess) /\ req[s].n \in Nat
    BY <2>1 DEF IInv, CountInv, TypeOK, Request
  <2>3. Len(turns') >= Len(turns)
    BY <1>2, <1>3
  <2>4. Count(turns, req[s].sess) <= Count(turns', req[s].sess)
    BY <2>3, <1>2, <1>3, <1>4, CountGrows
  <2>5. Count(turns, req[s].sess) \in Nat /\ Count(turns', req[s].sess) \in Nat
    BY <1>2, <1>3, CountType
  <2> QED BY <2>1, <2>2, <2>4, <2>5
<1> QED BY <1>1, <1>3, <1>4, <1>5

\* A clip's key is committed once the clip is stored.
LEMMA KeyStep == ASSUME IInv, NEW r \in Reqs, KeyClip(r) PROVE IInv'
<1> DEFINE t == req[r].of
           row == [turns[t] EXCEPT !.keyed = TRUE]
<1>1. /\ t \in DOMAIN turns /\ turns[t] \in Turn /\ turns[t].line # "authored" /\ t \in clips
      /\ turns \in Seq(Turn)
  BY DEF KeyClip, IInv, TypeOK, SlotsInv, Fits
<1>2. /\ row \in Turn /\ row.sess = turns[t].sess /\ row.line = turns[t].line
      /\ row.keyed /\ row.en = turns[t].en
  BY <1>1 DEF Turn
<1>3. turns' = [turns EXCEPT ![t] = row] /\ Moves(r, Idle) /\ UNCHANGED <<clips, paid, raced>>
  BY <1>1 DEF KeyClip
<1> HIDE DEF t, row
<1>4. /\ req' \in [Reqs -> Request] /\ req'[r] = Idle
      /\ \A s \in Reqs \ {r} : req'[s] = req[s]
      /\ turns' \in Seq(Turn) /\ Len(turns') = Len(turns) /\ DOMAIN turns' = DOMAIN turns
      /\ turns'[t] = row
      /\ \A u \in DOMAIN turns \ {t} : turns'[u] = turns[u]
      /\ \A u \in DOMAIN turns : turns'[u].line = turns[u].line
      /\ CountInv'
  BY <1>1, <1>2, <1>3, RowStep
<1>5. \A u \in DOMAIN turns : turns'[u].en = turns[u].en
  BY <1>2, <1>4
<1>6. TypeOK'
  <2>1. ASSUME NEW u \in DOMAIN turns, turns'[u].keyed PROVE ClipOf(u)' \in clips'
    BY <2>1, <1>1, <1>2, <1>3, <1>4 DEF ClipOf, IInv, TypeOK
  <2> QED BY <2>1, <1>3, <1>4 DEF IInv, TypeOK
<1>7. SlotsInv'
  <2> SUFFICES ASSUME NEW s \in Reqs PROVE Fits(req'[s], turns', clips, raced)
    BY <1>3 DEF SlotsInv
  <2>1. CASE s = r
    BY <2>1, <1>4, IdleFits
  <2>2. CASE s # r
    <3>1. Fits(req[s], turns, clips, raced) /\ req'[s] = req[s]
      BY <2>2, <1>4 DEF IInv, SlotsInv
    <3> QED BY <3>1, <1>4, <1>5 DEF Fits
  <2> QED BY <2>1, <2>2
<1>8. KeysInv' /\ PaidInv'
  BY <1>2, <1>3, <1>4, <1>5 DEF IInv, KeysInv, PaidInv
<1> QED BY <1>4, <1>6, <1>7, <1>8 DEF IInv

\* An answer is paid for with the subtitle it stores; if another request asks for the
\* same line, the line was raced for.
LEMMA SubtitleStep ==
    ASSUME IInv, NEW r \in Reqs, NEW en \in Subtitles, StoreSubtitle(r, en) PROVE IInv'
<1> DEFINE t == req[r].of
           row == IF en = req[r].seen THEN turns[t] ELSE [turns[t] EXCEPT !.en = en]
<1>1. /\ req[r].at = "translating" /\ en \in {"blank", "english"}
      /\ t \in Touched \cap DOMAIN turns /\ turns[t].line = "model"
      /\ t \notin raced => turns[t].en = req[r].seen /\ req[r].seen # "english"
      /\ turns \in Seq(Turn) /\ turns[t] \in Turn
  BY DEF StoreSubtitle, IInv, TypeOK, SlotsInv, Fits
<1>2. /\ row \in Turn /\ row.sess = turns[t].sess /\ row.line = turns[t].line
      /\ row.keyed = turns[t].keyed
      /\ t \notin raced => row.en = en
  BY <1>1 DEF Turn
<1>3. turns' = [turns EXCEPT ![t] = row]
  <2>1. turns = [turns EXCEPT ![t] = turns[t]]
    BY <1>1
  <2> QED BY <2>1, <1>1 DEF StoreSubtitle
<1>4. /\ Moves(r, Idle) /\ UNCHANGED clips
      /\ paid' = IF en = "english" THEN [paid EXCEPT ![t] = @ + 1] ELSE paid
      /\ raced' = IF Others(r, t) # {} THEN raced \cup {t} ELSE raced
  BY DEF StoreSubtitle
<1> HIDE DEF row
<1>5. /\ req' \in [Reqs -> Request] /\ req'[r] = Idle
      /\ \A s \in Reqs \ {r} : req'[s] = req[s]
      /\ turns' \in Seq(Turn) /\ Len(turns') = Len(turns) /\ DOMAIN turns' = DOMAIN turns
      /\ turns'[t] = row
      /\ \A u \in DOMAIN turns \ {t} : turns'[u] = turns[u]
      /\ \A u \in DOMAIN turns : turns'[u].line = turns[u].line
      /\ CountInv'
  BY <1>1, <1>2, <1>3, <1>4, RowStep
<1>6. \A u \in DOMAIN turns : turns'[u].keyed = turns[u].keyed
  BY <1>2, <1>5
<1>7. /\ paid' \in [Touched -> Nat] /\ raced' \in SUBSET Touched
      /\ \A u \in Touched \ {t} : paid'[u] = paid[u] /\ (u \in raced' <=> u \in raced)
      /\ paid'[t] = IF en = "english" THEN paid[t] + 1 ELSE paid[t]
      /\ t \in raced => t \in raced'
  BY <1>1, <1>4 DEF IInv, TypeOK
<1>8. TypeOK'
  <2>1. ASSUME NEW u \in DOMAIN turns, turns'[u].keyed PROVE ClipOf(u)' \in clips'
    BY <2>1, <1>4, <1>5, <1>6 DEF ClipOf, IInv, TypeOK
  <2> QED BY <2>1, <1>4, <1>5, <1>7 DEF IInv, TypeOK
<1>9. SlotsInv'
  <2> SUFFICES ASSUME NEW s \in Reqs PROVE Fits(req'[s], turns', clips, raced')
    BY <1>4 DEF SlotsInv
  <2>1. CASE s = r
    BY <2>1, <1>5, IdleFits
  <2>2. CASE s # r
    <3>1. Fits(req[s], turns, clips, raced) /\ req'[s] = req[s]
      BY <2>2, <1>5 DEF IInv, SlotsInv
    <3>2. req[s].at = "translating" /\ req[s].of = t => t \in raced'
      BY <2>2, <1>4 DEF Others
    <3>3. req[s].of # t => (req[s].of \in raced => req[s].of \in raced')
      BY <1>4
    <3> QED BY <3>1, <3>2, <3>3, <1>5, <1>7 DEF Fits
  <2> QED BY <2>1, <2>2
<1>10. KeysInv'
  BY <1>5, <1>6 DEF IInv, KeysInv
<1>11. PaidInv'
  <2> SUFFICES ASSUME NEW u \in Touched
               PROVE  /\ paid'[u] > 0 => u \in DOMAIN turns' /\ turns'[u].line = "model"
                      /\ u \notin raced' =>
                           /\ paid'[u] <= 1
                           /\ paid'[u] = 1 <=> u \in DOMAIN turns' /\ turns'[u].en = "english"
    BY DEF PaidInv
  <2>1. /\ paid[u] \in Nat
        /\ paid[u] > 0 => u \in DOMAIN turns /\ turns[u].line = "model"
        /\ u \notin raced => /\ paid[u] <= 1
                             /\ paid[u] = 1 <=> u \in DOMAIN turns /\ turns[u].en = "english"
    BY DEF IInv, PaidInv, TypeOK
  <2>2. CASE u = t
    BY <2>1, <2>2, <1>1, <1>2, <1>5, <1>7
  <2>3. CASE u # t
    BY <2>1, <2>3, <1>5, <1>7
  <2> QED BY <2>2, <2>3
<1> QED BY <1>5, <1>8, <1>9, <1>10, <1>11 DEF IInv

-----------------------------------------------------------------------------

\* Every step keeps the invariant.
LEMMA InvStep == IInv /\ [Next]_vars => IInv'
<1> SUFFICES ASSUME IInv, [Next]_vars PROVE IInv'
  OBVIOUS
<1>0. /\ turns \in Seq(Turn) /\ clips \in SUBSET (0..MaxTurns) /\ MaxTurns \in Nat
      /\ req \in [Reqs -> Request] /\ Len(turns) \in Nat /\ Len(turns) <= MaxTurns
  BY SpeechAssumption DEF IInv, TypeOK
<1>1. ASSUME NEW r \in Reqs, NEW s \in Sessions, CountTurns(r, s) PROVE IInv'
  <2> DEFINE m == [Idle EXCEPT !.at = "counted", !.sess = s, !.n = Cardinality(InScope(s))]
  <2>1. Cardinality(InScope(s)) = Count(turns, s)
    BY DEF InScope, Count
  <2>2. m \in Request /\ m.at = "counted" /\ m.n = Count(turns, s) /\ m.sess = s
    BY <2>1, <1>0, CountType DEF Idle, Request, Subtitles
  <2>3. Count(turns, s) \in Nat
    BY <1>0, CountType
  <2>4. Fits(m, turns, clips, raced)
    BY <2>2 DEF Fits
  <2>5. Moves(r, m) /\ UNCHANGED <<turns, clips, paid, raced>>
    BY <1>1 DEF CountTurns
  <2> HIDE DEF m
  <2> QED BY <1>0, <2>2, <2>3, <2>4, <2>5, MoveStep
<1>2. ASSUME NEW r \in Reqs, ReadTurns(r) PROVE IInv'
  <2> DEFINE s == req[r].sess
             m == [req[r] EXCEPT !.at = "asking", !.from = Cut(req[r].n),
                                 !.to = Cardinality(InScope(s))]
  <2>1. Cardinality(InScope(s)) = Count(turns, s)
    BY DEF InScope, Count
  <2>2. req[r] \in Request /\ req[r].n \in Nat /\ Cut(req[r].n) \in Nat /\ Count(turns, s) \in Nat
    BY <1>0, CountType, CutWholeBlocks DEF Request
  <2>3. req[r].n <= Count(turns, s)
    BY <1>2 DEF ReadTurns, IInv, CountInv
  <2>4. /\ m \in Request /\ m.at = "asking" /\ m.n = req[r].n /\ m.from = Cut(req[r].n)
        /\ m.to = Count(turns, s)
    BY <2>1, <2>2 DEF Request
  <2>5. Fits(m, turns, clips, raced)
    BY <2>3, <2>4 DEF Fits
  <2>6. Moves(r, m) /\ UNCHANGED <<turns, clips, paid, raced>>
    BY <1>2 DEF ReadTurns
  <2> HIDE DEF m
  <2> QED BY <1>0, <2>4, <2>5, <2>6, MoveStep
<1>3. ASSUME NEW r \in Reqs, NEW s \in Sessions, AskOpener(r, s) PROVE IInv'
  <2> DEFINE m == [Idle EXCEPT !.at = "opening", !.sess = s]
  <2>1. m \in Request /\ m.at = "opening" /\ Fits(m, turns, clips, raced)
    BY DEF Idle, Request, Subtitles, Fits
  <2>2. Moves(r, m) /\ UNCHANGED <<turns, clips, paid, raced>>
    BY <1>3 DEF AskOpener
  <2> HIDE DEF m
  <2> QED BY <1>0, <2>1, <2>2, MoveStep
<1>4. ASSUME NEW r \in Reqs, NEW s \in Sessions, VoiceCanned(r, s) PROVE IInv'
  <2> DEFINE m == [Idle EXCEPT !.at = "voiced", !.sess = s]
  <2>1. m \in Request /\ m.at = "voiced" /\ Fits(m, turns, clips', raced)
    BY <1>4 DEF VoiceCanned, Idle, Request, Subtitles, Fits
  <2>2. /\ Moves(r, m) /\ UNCHANGED <<turns, paid, raced>>
        /\ clips \subseteq clips' /\ clips' \in SUBSET (0..MaxTurns)
    BY <1>0, <1>4 DEF VoiceCanned
  <2> HIDE DEF m
  <2> QED BY <2>1, <2>2, MoveStep
<1>5. ASSUME NEW r \in Reqs, OpenAuthored(r) PROVE IInv'
  <2>1. 0 \in clips
    BY <1>5 DEF OpenAuthored, IInv, SlotsInv, Fits
  <2> QED BY <1>5, <2>1, AppendStep DEF OpenAuthored, Lines
<1>6. ASSUME NEW r \in Reqs, NEW line \in Lines, Reply(r, line) PROVE IInv'
  BY <1>6, AppendStep DEF Reply
<1>7. ASSUME NEW r \in Reqs, NEW t \in Touched, LoadLine(r, t) PROVE IInv'
  <2> DEFINE m == [Idle EXCEPT !.at = "translating", !.of = t, !.seen = turns[t].en]
  <2>1. t \in Touched \cap DOMAIN turns /\ turns[t] \in Turn /\ t \in Nat
    BY <1>0, <1>7, SpeechAssumption DEF LoadLine
  <2>2. m \in Request /\ m.at = "translating" /\ m.of = t /\ m.seen = turns[t].en
    BY <2>1, IdleFits DEF Idle, Request, Turn
  <2>3. Fits(m, turns, clips, raced)
    BY <2>1, <2>2, <1>7 DEF Fits, LoadLine, NeedsModel
  <2>4. Moves(r, m) /\ UNCHANGED <<turns, clips, paid, raced>>
    BY <1>7 DEF LoadLine
  <2> HIDE DEF m
  <2> QED BY <1>0, <2>2, <2>3, <2>4, MoveStep
<1>8. ASSUME NEW r \in Reqs, NEW t \in Touched, LoadAudio(r, t) PROVE IInv'
  <2> DEFINE m == [Idle EXCEPT !.at = "voicing", !.of = t]
  <2>1. t \in Touched \cap DOMAIN turns /\ t \in Nat /\ turns[t].line # "authored"
    BY <1>0, <1>8, SpeechAssumption DEF LoadAudio, IInv, KeysInv
  <2>2. m \in Request /\ m.at = "voicing" /\ m.of = t
    BY <2>1, IdleFits DEF Idle, Request
  <2>3. Fits(m, turns, clips, raced)
    BY <2>1, <2>2 DEF Fits
  <2>4. Moves(r, m) /\ UNCHANGED <<turns, clips, paid, raced>>
    BY <1>8 DEF LoadAudio
  <2> HIDE DEF m
  <2> QED BY <1>0, <2>2, <2>3, <2>4, MoveStep
<1>9. ASSUME NEW r \in Reqs, PutClip(r) PROVE IInv'
  <2> DEFINE m == [req[r] EXCEPT !.at = "put"]
  <2>1. /\ req[r] \in Request /\ req[r].at = "voicing" /\ Fits(req[r], turns, clips, raced)
        /\ clips' = clips \cup {req[r].of}
    BY <1>0, <1>9 DEF PutClip, IInv, SlotsInv
  <2>2. m \in Request /\ m.at = "put" /\ m.of = req[r].of
    BY <2>1 DEF Request
  <2>3. Fits(m, turns, clips', raced)
    BY <2>1, <2>2 DEF Fits
  <2>4. Moves(r, m) /\ UNCHANGED <<turns, paid, raced>>
    BY <1>9 DEF PutClip
  <2>5. clips \subseteq clips' /\ clips' \in SUBSET (0..MaxTurns)
    <3>1. req[r].of \in 1..MaxTurns
      BY <2>1, SpeechAssumption DEF Fits
    <3>2. req[r].of \in 0..MaxTurns
      BY <3>1, <1>0
    <3>3. clips' = clips \cup {req[r].of}
      BY <2>1
    <3> QED BY <3>2, <3>3, <1>0
  <2> HIDE DEF m
  <2> QED BY <2>2, <2>3, <2>4, <2>5, MoveStep
<1>10. ASSUME NEW r \in Reqs, GivesUp(r) PROVE IInv'
  BY <1>0, <1>10, IdleFits, MoveStep DEF GivesUp, Idle
<1>11. CASE UNCHANGED vars
  BY <1>11 DEF vars, IInv, TypeOK, ClipOf, CountInv, SlotsInv, KeysInv, PaidInv
<1> QED BY <1>1, <1>2, <1>3, <1>4, <1>5, <1>6, <1>7, <1>8, <1>9, <1>10, <1>11,
           KeyStep, SubtitleStep DEF Next

\* The invariant holds before anything is said.
LEMMA InvInit == Init => IInv
BY IdleFits, SpeechAssumption
DEF Init, IInv, TypeOK, CountInv, SlotsInv, KeysInv, PaidInv, Idle

\* The invariant holds in every state.
THEOREM Inductive == Spec => []IInv
BY InvInit, InvStep, PTL DEF Spec

\* Every row and slot is well typed, and a committed key names a stored clip.
THEOREM TypeCorrect == Spec => []TypeOK
<1>1. IInv => TypeOK
  BY DEF IInv
<1> QED BY <1>1, Inductive, PTL

\* Whatever the cap and the block, the prompt of a spoken turn (_recent_history) leaves
\* out whole blocks, no more of them than it must.
THEOREM PromptsFit == Spec => []PromptFits
<1>1. IInv => PromptFits
  <2> SUFFICES ASSUME IInv, NEW r \in Reqs, req[r].at = "asking"
               PROVE  /\ req[r].from % TrimBlock = 0
                      /\ 0 <= req[r].n - req[r].from /\ req[r].n - req[r].from <= HistoryMax
                      /\ req[r].from > 0 => req[r].n - req[r].from > HistoryMax - TrimBlock
                      /\ req[r].n <= req[r].to
    BY DEF PromptFits
  <2>1. req[r].from = Cut(req[r].n) /\ req[r].n <= req[r].to /\ req[r].n \in Nat
    BY DEF IInv, SlotsInv, Fits, TypeOK, Request
  <2>2. Cut(req[r].n) \in Nat /\ HistoryMax \in Nat /\ TrimBlock \in Nat
    BY <2>1, CutWholeBlocks, SpeechAssumption
  <2> QED BY <2>1, <2>2, CutWholeBlocks
<1> QED BY <1>1, Inductive, PTL

\* An examiner line no two requests translated at once is paid for at most once
\* (speech_turn_translate), and an authored one never.
THEOREM LinesPaidOnce == Spec => []LinePaidOnce
<1>1. IInv => LinePaidOnce
  BY DEF IInv, PaidInv, LinePaidOnce, TypeOK
<1> QED BY <1>1, Inductive, PTL

-----------------------------------------------------------------------------
\* VocabReview: what a debrief offers

\* Rows that may be offered together: each once, none in review.
FreshRows(ids, already) ==
    {picked \in Seq(ids) : /\ \A i, j \in DOMAIN picked : picked[i] = picked[j] => i = j
                           /\ \A i \in DOMAIN picked : picked[i] \notin already}

\* Words that may be offered together: in neither course nor deck, one for each key.
FreshWords(content, owned) ==
    {out \in Seq(Words) :
        /\ \A i, j \in DOMAIN out : PersonalKey(out[i]) = PersonalKey(out[j]) => i = j
        /\ \A i \in DOMAIN out : ~InCourse(content, out[i]) /\ PersonalKey(out[i]) \notin owned}

\* The elements of a sequence with one more at its end.
LEMMA Appended ==
    ASSUME NEW S, NEW s \in Seq(S), NEW x \in S
    PROVE  /\ Append(s, x) \in Seq(S)
           /\ DOMAIN s = 1..Len(s) /\ DOMAIN Append(s, x) = 1..(Len(s) + 1) /\ Len(s) \in Nat
           /\ \A i \in 1..Len(s) : Append(s, x)[i] = s[i]
           /\ Append(s, x)[Len(s) + 1] = x
OBVIOUS

\* One row more can be offered with those before it.
LEMMA RowStaysFresh ==
    ASSUME NEW content, NEW already, NEW limit, NEW ids, NEW w, RowOf(content, w).id \in ids,
           NEW picked \in FreshRows(ids, already)
    PROVE  PickRow(content, already, limit, picked, w) \in FreshRows(ids, already)
<1> DEFINE id == RowOf(content, w).id
<1>1. CASE PickRow(content, already, limit, picked, w) = picked
  BY <1>1
<1>2. CASE PickRow(content, already, limit, picked, w) # picked
  <2>1. /\ PickRow(content, already, limit, picked, w) = Append(picked, id)
        /\ id \notin already /\ \A i \in DOMAIN picked : picked[i] # id
    BY <1>2 DEF PickRow
  <2> HIDE DEF id
  <2>2. picked \in Seq(ids) /\ id \in ids
    BY DEF FreshRows, id
  <2> DEFINE b == Append(picked, id)
             n == Len(picked)
  <2>3. /\ n \in Nat /\ b \in Seq(ids) /\ DOMAIN picked = 1..n /\ DOMAIN b = 1..(n + 1)
        /\ \A i \in 1..n : b[i] = picked[i]
        /\ b[n + 1] = id
    BY <2>2, Appended
  <2> HIDE DEF b, n
  <2>4. \A i \in 1..(n + 1) : i \in 1..n \/ i = n + 1
    BY <2>3
  <2>5. \A i, j \in 1..n : picked[i] = picked[j] => i = j
    BY <2>3 DEF FreshRows
  <2>6. \A i \in 1..n : picked[i] \notin already /\ picked[i] # id
    BY <2>1, <2>3 DEF FreshRows
  <2>7. \A i, j \in 1..(n + 1) : b[i] = b[j] => i = j
    BY <2>3, <2>4, <2>5, <2>6
  <2>8. \A i \in 1..(n + 1) : b[i] \notin already
    BY <2>1, <2>3, <2>4, <2>6
  <2>9. Append(picked, id) \in FreshRows(ids, already)
    BY <2>3, <2>7, <2>8 DEF FreshRows, b
  <2> QED BY <2>1, <2>9
<1> QED BY <1>1, <1>2

\* Without its article a word is a word and has the same letters, marks and joins.
LEMMA NormIs ==
    ASSUME NEW w \in Words
    PROVE  Norm(w) \in Words /\ Norm(Norm(w)) = Norm(w) /\ Loose(Norm(w)) = Loose(w)
BY DEF Norm, Words, Loose, Deaccent

\* One new word more can be offered with those before it.
LEMMA NewStaysFresh ==
    ASSUME NEW content, NEW owned, NEW limit, NEW w \in Words,
           NEW out \in FreshWords(content, owned)
    PROVE  PickNew(content, owned, limit, out, w) \in FreshWords(content, owned)
<1> DEFINE x == Norm(w)
<1>1. CASE PickNew(content, owned, limit, out, w) = out
  BY <1>1
<1>2. CASE PickNew(content, owned, limit, out, w) # out
  <2>1. /\ PickNew(content, owned, limit, out, w) = Append(out, x)
        /\ ~InCourse(content, w) /\ PersonalKey(x) \notin owned
        /\ \A i \in DOMAIN out : PersonalKey(out[i]) # PersonalKey(x)
    BY <1>2 DEF PickNew
  <2>2. ~InCourse(content, x) /\ x \in Words
    BY <2>1, NormIs DEF InCourse
  <2> HIDE DEF x
  <2>3. out \in Seq(Words)
    BY DEF FreshWords
  <2> DEFINE b == Append(out, x)
             n == Len(out)
  <2>4. /\ n \in Nat /\ b \in Seq(Words) /\ DOMAIN out = 1..n /\ DOMAIN b = 1..(n + 1)
        /\ \A i \in 1..n : b[i] = out[i]
        /\ b[n + 1] = x
    BY <2>2, <2>3, Appended
  <2> HIDE DEF b, n
  <2>5. \A i \in 1..(n + 1) : i \in 1..n \/ i = n + 1
    BY <2>4
  <2>6. \A i, j \in 1..n : PersonalKey(out[i]) = PersonalKey(out[j]) => i = j
    BY <2>4 DEF FreshWords
  <2>7. \A i \in 1..n : /\ ~InCourse(content, out[i]) /\ PersonalKey(out[i]) \notin owned
                        /\ PersonalKey(out[i]) # PersonalKey(x)
    BY <2>1, <2>4 DEF FreshWords
  <2>8. \A i, j \in 1..(n + 1) : PersonalKey(b[i]) = PersonalKey(b[j]) => i = j
    BY <2>4, <2>5, <2>6, <2>7
  <2>9. \A i \in 1..(n + 1) : ~InCourse(content, b[i]) /\ PersonalKey(b[i]) \notin owned
    BY <2>1, <2>2, <2>4, <2>5, <2>7
  <2>10. Append(out, x) \in FreshWords(content, owned)
    BY <2>4, <2>8, <2>9 DEF FreshWords, b
  <2> QED BY <2>1, <2>10
<1> QED BY <1>1, <1>2

\* The rows a debrief offers can be offered together.
LEMMA CandidatesFresh ==
    ASSUME NEW content, NEW already, NEW limit, NEW words \in Seq(Words)
    PROVE  \E ids : ResolveToVocab(content, already, words, limit) \in FreshRows(ids, already)
<1> DEFINE n == Len(words)
           ids == {RowOf(content, words[i]).id : i \in 1..n}
           A == FreshRows(ids, already)
           Op(x, w) == PickRow(content, already, limit, x, w)
           step == [i \in 1..n |-> [x \in A |-> Op(x, words[i])]]
           Eq(it) == it = [T \in SUBSET (1..n) |->
                              IF T = {} THEN <<>> ELSE Op(it[T \ {Greatest(T)}], words[Greatest(T)])]
           jt == CHOOSE it : Eq(it)
<1>1. n \in Nat /\ DOMAIN words = 1..n
  OBVIOUS
<1>2. <<>> \in A
  BY DEF FreshRows
<1>3. \A i \in 1..n : \A x \in A : Op(x, words[i]) \in A
  <2> SUFFICES ASSUME NEW i \in 1..n, NEW x \in A PROVE Op(x, words[i]) \in A
    OBVIOUS
  <2>1. RowOf(content, words[i]).id \in ids
    OBVIOUS
  <2> HIDE DEF ids, n
  <2> QED BY <2>1, RowStaysFresh
<1>4. ResolveToVocab(content, already, words, limit) = jt[1..n]
  BY <1>1 DEF ResolveToVocab, FoldLeft, MapThenFoldSet, Max, Greatest
<1> HIDE DEF A, ids, Op, n
<1>5. PICK it \in [SUBSET (1..n) -> A] : IsFold(it, 1..n, <<>>, GreatestOf(n), step)
  <2>1. StepsWithin(step, 1..n, A)
    BY <1>3 DEF StepsWithin
  <2> HIDE DEF step
  <2> QED BY <1>1, <1>2, <2>1, SequenceFoldExists
<1>6. Eq(it)
  <2>1. ASSUME NEW T \in SUBSET (1..n), T # {}
        PROVE  it[T] = Op(it[T \ {Greatest(T)}], words[Greatest(T)])
    <3>1. Greatest(T) \in 1..n /\ it[T \ {Greatest(T)}] \in A
      BY <1>1, <2>1, GreatestExists
    <3>2. it[T] = step[Greatest(T)][it[T \ {Greatest(T)}]]
      BY <1>5, <2>1 DEF IsFold, GreatestOf
    <3> QED BY <3>1, <3>2
  <2>2. it[{}] = <<>>
    BY <1>5 DEF IsFold
  <2> QED BY <2>1, <2>2
<1>7. Eq(jt)
  <2> HIDE DEF Eq
  <2> QED BY <1>6
<1> HIDE DEF jt
<1>8. jt[{}] \in A
  BY <1>2, <1>7
<1>9. ASSUME NEW T \in SUBSET (1..n), T # {}, jt[T \ {Greatest(T)}] \in A PROVE jt[T] \in A
  <2>1. Greatest(T) \in 1..n
    BY <1>1, <1>9, GreatestExists
  <2>2. jt[T] = Op(jt[T \ {Greatest(T)}], words[Greatest(T)])
    BY <1>7, <1>9
  <2> QED BY <1>3, <1>9, <2>1, <2>2
<1>10. jt[1..n] \in A
  BY <1>1, <1>8, <1>9, FoldStays
<1> QED BY <1>4, <1>10 DEF A

\* The new words a debrief offers can be offered together.
LEMMA NewWordsFresh ==
    ASSUME NEW content, NEW owned, NEW limit, NEW words \in Seq(Words)
    PROVE  ResolveNewWords(content, owned, words, limit) \in FreshWords(content, owned)
<1> DEFINE n == Len(words)
           A == FreshWords(content, owned)
           Op(x, w) == PickNew(content, owned, limit, x, w)
           step == [i \in 1..n |-> [x \in A |-> Op(x, words[i])]]
           Eq(it) == it = [T \in SUBSET (1..n) |->
                              IF T = {} THEN <<>> ELSE Op(it[T \ {Greatest(T)}], words[Greatest(T)])]
           jt == CHOOSE it : Eq(it)
<1>1. n \in Nat /\ DOMAIN words = 1..n
  OBVIOUS
<1>2. <<>> \in A
  BY DEF FreshWords
<1>3. \A i \in 1..n : \A x \in A : Op(x, words[i]) \in A
  <2> SUFFICES ASSUME NEW i \in 1..n, NEW x \in A PROVE Op(x, words[i]) \in A
    OBVIOUS
  <2>1. words[i] \in Words
    OBVIOUS
  <2> HIDE DEF n
  <2> QED BY <2>1, NewStaysFresh
<1>4. ResolveNewWords(content, owned, words, limit) = jt[1..n]
  BY <1>1 DEF ResolveNewWords, FoldLeft, MapThenFoldSet, Max, Greatest
<1> HIDE DEF A, Op, n
<1>5. PICK it \in [SUBSET (1..n) -> A] : IsFold(it, 1..n, <<>>, GreatestOf(n), step)
  <2>1. StepsWithin(step, 1..n, A)
    BY <1>3 DEF StepsWithin
  <2> HIDE DEF step
  <2> QED BY <1>1, <1>2, <2>1, SequenceFoldExists
<1>6. Eq(it)
  <2>1. ASSUME NEW T \in SUBSET (1..n), T # {}
        PROVE  it[T] = Op(it[T \ {Greatest(T)}], words[Greatest(T)])
    <3>1. Greatest(T) \in 1..n /\ it[T \ {Greatest(T)}] \in A
      BY <1>1, <2>1, GreatestExists
    <3>2. it[T] = step[Greatest(T)][it[T \ {Greatest(T)}]]
      BY <1>5, <2>1 DEF IsFold, GreatestOf
    <3> QED BY <3>1, <3>2
  <2>2. it[{}] = <<>>
    BY <1>5 DEF IsFold
  <2> QED BY <2>1, <2>2
<1>7. Eq(jt)
  <2> HIDE DEF Eq
  <2> QED BY <1>6
<1> HIDE DEF jt
<1>8. jt[{}] \in A
  BY <1>2, <1>7
<1>9. ASSUME NEW T \in SUBSET (1..n), T # {}, jt[T \ {Greatest(T)}] \in A PROVE jt[T] \in A
  <2>1. Greatest(T) \in 1..n
    BY <1>1, <1>9, GreatestExists
  <2>2. jt[T] = Op(jt[T \ {Greatest(T)}], words[Greatest(T)])
    BY <1>7, <1>9
  <2> QED BY <1>3, <1>9, <2>1, <2>2
<1>10. jt[1..n] \in A
  BY <1>1, <1>8, <1>9, FoldStays
<1> QED BY <1>4, <1>10 DEF A

\* Words alike but for their marks are alike for a loose match.
LEMMA SameLoose ==
    ASSUME NEW v, NEW w, Norm(v) = Norm(w)
    PROVE  Loose(v) = Loose(w)
BY DEF Loose

\* A word that is in no row of the course, however its marks are read, has no row.
LEMMA NoRowOf ==
    ASSUME NEW content, NEW w, ~InCourse(content, w)
    PROVE  RowOf(content, w) = NoRow
<1>1. ~\E i \in DOMAIN content : Loose(content[i].fr) = Loose(w)
  BY DEF InCourse
<1>2. ~\E i \in DOMAIN content : Norm(content[i].fr) = Norm(w)
  BY <1>1, SameLoose
<1> QED BY <1>1, <1>2 DEF RowOf, FirstRow

\* What a loose match and from-word's match keep of a word.
LEMMA KeysAre ==
    ASSUME NEW x \in Words
    PROVE  /\ Loose(x) \in Words /\ Loose(x).letters = x.letters /\ Loose(x).marks = "none"
           /\ Loose(x).join = x.join /\ Loose(x).article = FALSE
           /\ MatchKey(x).letters = x.letters
           /\ MatchKey(x).join = IF x.join = "hyphen" THEN "space" ELSE x.join
<1>1. /\ Norm(x) \in Words /\ Norm(x).letters = x.letters
      /\ Norm(x).join = x.join /\ Norm(x).article = FALSE
  BY DEF Norm, Words
<1>2. /\ Loose(x) \in Words /\ Loose(x).letters = Norm(x).letters /\ Loose(x).marks = "none"
      /\ Loose(x).join = Norm(x).join /\ Loose(x).article = Norm(x).article
  <2> DEFINE y == Norm(x)
  <2>1. y \in Words
    BY <1>1
  <2> HIDE DEF y
  <2>2. /\ Deaccent(y) \in Words /\ Deaccent(y).letters = y.letters /\ Deaccent(y).marks = "none"
        /\ Deaccent(y).join = y.join /\ Deaccent(y).article = y.article
    BY <2>1 DEF Deaccent, Words
  <2> QED BY <2>2 DEF Loose, y
<1>3. MatchKey(x) = [Loose(x) EXCEPT !.join = IF @ = "hyphen" THEN "space" ELSE @]
  BY DEF MatchKey, Loose
<1>4. /\ MatchKey(x).letters = Loose(x).letters
      /\ MatchKey(x).join = IF Loose(x).join = "hyphen" THEN "space" ELSE Loose(x).join
  <2> DEFINE y == Loose(x)
  <2>1. y \in Words /\ MatchKey(x) = [y EXCEPT !.join = IF @ = "hyphen" THEN "space" ELSE @]
    BY <1>2, <1>3
  <2> HIDE DEF y
  <2>2. /\ MatchKey(x).letters = y.letters
        /\ MatchKey(x).join = IF y.join = "hyphen" THEN "space" ELSE y.join
    BY <2>1 DEF Words
  <2> QED BY <2>2 DEF y
<1> QED BY <1>1, <1>2, <1>4

\* A word is its four parts.
LEMMA FourParts ==
    ASSUME NEW v \in Words, NEW w \in Words, v.letters = w.letters, v.marks = w.marks,
           v.join = w.join, v.article = w.article
    PROVE  v = w
BY DEF Words

\* Words that are alike with hyphens as spaces, but not as they are, differ by a hyphen.
LEMMA HyphenDecides ==
    ASSUME NEW v \in Words, NEW w \in Words, MatchKey(v) = MatchKey(w), Loose(v) # Loose(w)
    PROVE  {v.join, w.join} = {"hyphen", "space"}
<1> DEFINE Spaced(j) == IF j = "hyphen" THEN "space" ELSE j
<1>1. /\ MatchKey(v).letters = v.letters /\ MatchKey(v).join = Spaced(v.join)
      /\ MatchKey(w).letters = w.letters /\ MatchKey(w).join = Spaced(w.join)
  BY KeysAre
<1>2. v.letters = w.letters /\ Spaced(v.join) = Spaced(w.join)
  <2> HIDE DEF Spaced
  <2> QED BY <1>1
<1>3. v.join # w.join
  <2> SUFFICES ASSUME v.join = w.join PROVE FALSE
    OBVIOUS
  <2>1. /\ Loose(v) \in Words /\ Loose(w) \in Words
        /\ Loose(v).letters = Loose(w).letters /\ Loose(v).marks = Loose(w).marks
        /\ Loose(v).join = Loose(w).join
    BY <1>2, KeysAre
  <2>2. Loose(v).article = FALSE /\ Loose(w).article = FALSE
    BY KeysAre
  <2>3. Loose(v) = Loose(w)
    BY <2>1, <2>2, FourParts
  <2> QED BY <2>3
<1>4. v.join \in {"none", "space", "hyphen"} /\ w.join \in {"none", "space", "hyphen"}
  BY DEF Words
<1> QED BY <1>2, <1>3, <1>4

\* Whatever the course, the deck and the model's reply, what a debrief offers can be taken.
THEOREM DebriefOffersTakeable == DebriefSpec => []OffersCanBeTaken
<1> DEFINE Well(d) == d.content \in Seq(Rows) /\ d.words \in Seq(Words)
           Inv == Well(debrief)
<1>1. DebriefInit => Inv
  BY DEF DebriefInit, NoDebrief
<1>2. Inv /\ [DebriefNext]_debrief => Inv'
  BY ReviewAssumption DEF DebriefNext
<1>3. Inv => OffersCanBeTaken
  <2> SUFFICES ASSUME Inv PROVE OffersCanBeTaken
    OBVIOUS
  <2> DEFINE d == debrief
             cards == ResolveToVocab(d.content, d.already, d.words, d.limit)
             new == ResolveNewWords(d.content, d.owned, d.words, d.limit)
  <2>1. PICK ids : cards \in FreshRows(ids, d.already)
    BY CandidatesFresh
  <2>2. new \in FreshWords(d.content, d.owned)
    BY NewWordsFresh
  <2> HIDE DEF cards, new
  <2>3. /\ \A i, j \in DOMAIN cards : cards[i] = cards[j] => i = j
        /\ \A i \in DOMAIN cards : cards[i] \notin d.already
    BY <2>1 DEF FreshRows
  <2>4. /\ \A i, j \in DOMAIN new : PersonalKey(new[i]) = PersonalKey(new[j]) => i = j
        /\ \A i \in DOMAIN new : PersonalKey(new[i]) \notin d.owned
    BY <2>2 DEF FreshWords
  <2>5. ASSUME NEW i \in DOMAIN new PROVE RowOf(d.content, new[i]) = NoRow
    BY <2>2, NoRowOf DEF FreshWords
  <2>6. ASSUME NEW i \in DOMAIN new, NEW m \in FindContentMatch(d.content, new[i])
        PROVE  {d.content[m].fr.join, new[i].join} = {"hyphen", "space"}
    <3>1. m \in DOMAIN d.content /\ MatchKey(d.content[m].fr) = MatchKey(new[i])
      BY <2>6 DEF FindContentMatch
    <3>2. d.content[m].fr \in Words /\ new[i] \in Words
      <4>1. d.content[m] \in Rows
        BY <3>1
      <4>2. new \in Seq(Words)
        BY <2>2 DEF FreshWords
      <4>3. new[i] \in Words
        BY <2>6, <4>2
      <4> QED BY <4>1, <4>3 DEF Rows
    <3>3. Loose(d.content[m].fr) # Loose(new[i])
      BY <2>2, <2>6, <3>1 DEF FreshWords, InCourse
    <3> QED BY <3>1, <3>2, <3>3, HyphenDecides
  <2> QED BY <2>3, <2>4, <2>5, <2>6 DEF OffersCanBeTaken, Debrief, cards, new
<1> QED BY <1>1, <1>2, <1>3, PTL DEF DebriefSpec

=============================================================================
