----------------------------- MODULE VocabProofs -----------------------------
(***************************************************************************)
(* A learner has a card exactly when it is in their reviews, ratings count,*)
(* and the shared row is whole and keeps its accents, for any number of    *)
(* requests, spellings and reviews.                                        *)
(***************************************************************************)
EXTENDS PersonalVocab, TLAPS

\* What a request in flight holds, and the rows it counts on being there.
SlotOk(r) ==
    /\ req[r].at \in {"heal", "gloss"} => row # Nothing /\ req[r].held.fr \in Spellings
    /\ req[r].at \in {"voice", "merge", "store", "find", "add"} => req[r].new.fr \in Spellings
    /\ req[r].at = "store" /\ req[r].held # Nothing => row # Nothing /\ req[r].held.fr \in Spellings
    /\ req[r].at = "add" /\ req[r].held # Nothing => card # Nothing
    /\ req[r].at \in {"healplay", "synth", "remember"} =>
          /\ req[r].goal \in {"shared", "own"}
          /\ RowOf(req[r].goal) # Nothing
          /\ req[r].held.fr \in Spellings
    /\ req[r].at = "review" => review # Blank /\ req[r].seen \in Nat

\* A row that is there has a spelling.
RowsOk ==
    /\ row # Nothing => row.fr \in Spellings
    /\ card # Nothing => card.fr \in Spellings

TypeInv == TypeOK /\ RowsOk /\ \A r \in Reqs : SlotOk(r)

\* A rating in flight was read from the card as it is, unless another was in flight then.
RatingInv ==
    /\ RatingsCount
    /\ review = Blank => answered = 0
    /\ \A r \in Reqs : req[r].at = "review" =>
          /\ req[r].seen <= answered
          /\ ~crossed => req[r].seen = review /\ \A s \in Reqs \ {r} : req[s].at # "review"

\* The request has stored a clip of this spelling that no row has yet.
Unsaved(r, fr) ==
    \/ req[r].at \in {"merge", "store"} /\ req[r].new.audio = "shared" /\ fr = req[r].new.fr
    \/ req[r].at = "remember" /\ req[r].goal = "shared" /\ fr = req[r].held.fr

Dirty(r) == \E fr \in Spellings : Unsaved(r, fr)

\* The row as a request holds it is the row as it is, and what it means to store is better.
HoldsTrue(r) ==
    /\ req[r].at \in {"heal", "gloss"} => req[r].held = row
    /\ req[r].at = "ask" => row = Nothing \/ req[r].typed > row.fr
    /\ req[r].at \in {"voice", "merge", "store"} =>
          /\ row = Nothing \/ req[r].new.fr > row.fr
          /\ req[r].new.en = req[r].new.fr
          /\ req[r].new.ipa \in {req[r].new.fr, Blank}
          /\ req[r].new.audio \in IF req[r].at = "voice" THEN {"none"} ELSE {"none", "shared"}
    /\ req[r].at = "store" => req[r].held = row
    /\ req[r].at \in {"healplay", "synth", "remember"} /\ req[r].goal = "shared" =>
          req[r].held = row
    /\ \A fr \in Spellings : Unsaved(r, fr) => clip = fr

\* As long as no write crossed another request, the row is whole but for a clip that was
\* stored ahead of it.
WholeInv ==
    ~torn =>
        /\ row # Nothing =>
              /\ row.en = row.fr
              /\ row.ipa \in {row.fr, Blank}
              /\ row.audio = "shared" => clip = row.fr \/ \E r \in Reqs : Dirty(r)
        /\ \A r \in Reqs : HoldsTrue(r)

-----------------------------------------------------------------------------
\* Rows and cards are well typed, and stay when they are there.

\* A merged row is a row, with every column that of the new row or the current one.
LEMMA MergedEntry ==
    ASSUME NEW current \in Entry, NEW held \in Entry, NEW new \in Entry
    PROVE  /\ Merged(current, held, new) \in Entry
           /\ \A field \in {"fr", "en", "ipa", "audio"} :
                 Merged(current, held, new)[field] =
                     IF new[field] = held[field] THEN current[field] ELSE new[field]
           /\ held = current => Merged(current, held, new) = new
<1> DEFINE m == Merged(current, held, new)
<1>1. DOMAIN new = {"fr", "en", "ipa", "audio"} BY DEF Entry
<1>2. m = [field \in {"fr", "en", "ipa", "audio"} |->
               IF new[field] = held[field] THEN current[field] ELSE new[field]]
    BY <1>1 DEF Merged
<1>3. m = [fr |-> m.fr, en |-> m.en, ipa |-> m.ipa, audio |-> m.audio] BY <1>2
<1>4. m.fr = IF new.fr = held.fr THEN current.fr ELSE new.fr BY <1>2
<1>5. m.en = IF new.en = held.en THEN current.en ELSE new.en BY <1>2
<1>6. m.ipa = IF new.ipa = held.ipa THEN current.ipa ELSE new.ipa BY <1>2
<1>7. m.audio = IF new.audio = held.audio THEN current.audio ELSE new.audio BY <1>2
<1>8. m \in Entry BY <1>3, <1>4, <1>5, <1>6, <1>7 DEF Entry
<1>9. ASSUME held = current PROVE m = new
    <2>1. m.fr = new.fr /\ m.en = new.en /\ m.ipa = new.ipa /\ m.audio = new.audio
        BY <1>4, <1>5, <1>6, <1>7, <1>9
    <2> QED BY <2>1, <1>8 DEF Entry
<1> QED BY <1>2, <1>8, <1>9

\* The blank row and the idle slot are well typed.
LEMMA NothingIsBlank == Nothing \in Entry /\ Idle \in Request /\ Blank \notin Spellings
BY VocabAssumption DEF Nothing, Entry, Idle, Request, Blank, Spellings

\* One slot moves and no row goes away: what the others hold stays.
LEMMA OthersKeep ==
    ASSUME TypeInv, NEW r \in Reqs, NEW q \in Request, req' = [req EXCEPT ![r] = q],
           row # Nothing => row' # Nothing, card # Nothing => card' # Nothing,
           review # Blank => review' # Blank, SlotOk(r)'
    PROVE  req' \in [Reqs -> Request] /\ \A s \in Reqs : SlotOk(s)'
<1>1. req' \in [Reqs -> Request] BY DEF TypeInv, TypeOK
<1>2. ASSUME NEW s \in Reqs, s # r PROVE SlotOk(s)'
    <2>1. req'[s] = req[s] BY <1>2 DEF TypeInv, TypeOK
    <2>2. SlotOk(s) BY DEF TypeInv
    <2> QED BY <2>1, <2>2 DEF SlotOk, RowOf
<1> QED BY <1>1, <1>2

\* Initially there is nothing to hold.
LEMMA TypeInit == Init => TypeInv
<1> SUFFICES ASSUME Init PROVE TypeInv
    OBVIOUS
<1>1. TypeOK BY NothingIsBlank DEF Init, TypeOK
<1>2. RowsOk BY DEF Init, RowsOk
<1>3. \A r \in Reqs : req[r].at = "idle" BY DEF Init, Idle
<1>4. \A r \in Reqs : SlotOk(r) BY <1>3 DEF SlotOk
<1> QED BY <1>1, <1>2, <1>4 DEF TypeInv

\* A slot that only moves on, its request abandoned or still reading.
LEMMA Reading ==
    ASSUME TypeInv, NEW r \in Reqs, NEW q \in Request, req' = [req EXCEPT ![r] = q],
           UNCHANGED <<wordVars, review, answered>>, crossed' \in BOOLEAN, torn' \in BOOLEAN,
           SlotOk(r)'
    PROVE  TypeInv'
<1>1. req' \in [Reqs -> Request] /\ \A s \in Reqs : SlotOk(s)'
    BY OthersKeep DEF wordVars
<1> QED BY <1>1 DEF TypeInv, TypeOK, RowsOk, wordVars

\* What a lookup found goes back to the caller, or into a slot that is about to add it.
LEMMA FoundSlot ==
    ASSUME NEW found \in Entry, NEW q \in Found(found)
    PROVE  q \in Request /\ (q.at = "idle" \/ (q.at = "find" /\ q.new = found))
BY NothingIsBlank DEF Found, Idle, Request

\* A playing request that is done leaves the row it played spelled as it was.
LEMMA Played ==
    ASSUME TypeInv, NEW r \in Reqs, NEW which \in {"shared", "own"}, RowOf(which) # Nothing,
           NEW new \in Entry, new.fr = RowOf(which).fr, Update(which, new), Wrote(r, Idle),
           UNCHANGED <<clip, review>>
    PROVE  TypeInv'
<1>1. new # Nothing /\ new.fr \in Spellings
    BY NothingIsBlank DEF TypeInv, RowsOk, RowOf, Nothing
<1>2. row' \in {row, new} /\ card' \in {card, new} BY DEF Update
<1>3. RowsOk' /\ row' \in Entry /\ card' \in Entry
    BY <1>1, <1>2 DEF RowsOk, TypeInv, TypeOK
<1>4. /\ row # Nothing => row' # Nothing
      /\ card' # Nothing <=> card # Nothing
    BY <1>1, <1>2 DEF Update, RowOf
<1>5. req' = [req EXCEPT ![r] = Idle] /\ UNCHANGED <<answered, crossed>> /\ torn' \in BOOLEAN
    BY DEF Wrote, TypeInv, TypeOK
<1>6. req'[r].at = "idle" BY <1>5 DEF TypeInv, TypeOK, Idle
<1>7. SlotOk(r)' BY <1>6 DEF SlotOk
<1>8. req' \in [Reqs -> Request] /\ \A s \in Reqs : SlotOk(s)'
    BY <1>4, <1>5, <1>7, NothingIsBlank, OthersKeep
<1> QED BY <1>3, <1>4, <1>5, <1>8 DEF TypeInv, TypeOK

\* Every step keeps rows and slots well typed, and every row a slot counts on.
LEMMA TypeStep == TypeInv /\ [Next]_vars => TypeInv'
<1> SUFFICES ASSUME TypeInv, [Next]_vars PROVE TypeInv'
    OBVIOUS
<1> USE NothingIsBlank
<1>r. /\ req \in [Reqs -> Request] /\ row \in Entry /\ card \in Entry /\ review \in Nat \cup {Blank}
      /\ RowsOk /\ crossed \in BOOLEAN /\ torn \in BOOLEAN /\ answered \in Nat
      /\ \A r \in Reqs : SlotOk(r) /\ req[r] \in Request
    BY DEF TypeInv, TypeOK
<1>1. ASSUME NEW r \in Reqs, NEW typed \in Spellings, Look(r, typed) PROVE TypeInv'
    <2> DEFINE q == IF CachedLookup(typed)
           THEN [Idle EXCEPT !.at = IF row.ipa = Blank THEN "heal" ELSE "gloss", !.held = row]
           ELSE [Idle EXCEPT !.at = "ask", !.typed = typed]
    <2>1. q \in Request BY <1>r DEF Request, Idle
    <2>2. req' = [req EXCEPT ![r] = q] /\ UNCHANGED <<wordVars, review, answered, crossed, torn>>
        BY <1>1 DEF Look, histVars
    <2>3. req'[r] = q BY <2>2, <1>r
    <2>4. row' = row BY <2>2 DEF wordVars
    <2>5. SlotOk(r)'
        <3>1. CASE CachedLookup(typed)
            BY <3>1, <2>3, <2>4, <1>r DEF CachedLookup, SlotOk, RowsOk, Idle
        <3>2. CASE ~CachedLookup(typed)
            BY <3>2, <2>3 DEF SlotOk, Idle
        <3> QED BY <3>1, <3>2
    <2> HIDE DEF q
    <2> QED BY <2>1, <2>2, <2>5, <1>r, Reading
<1>2. ASSUME NEW r \in Reqs, NEW typed \in Spellings, AddClient(r, typed) PROVE TypeInv'
    <2> DEFINE q == [Idle EXCEPT !.at = "add", !.goal = "client", !.held = card,
                                 !.new = Meaning(typed)]
    <2>a. Meaning(typed) \in Entry /\ Meaning(typed).fr = typed BY DEF Entry, Meaning
    <2>1. q \in Request BY <2>a, <1>r DEF Request, Idle
    <2>2. req' = [req EXCEPT ![r] = q] /\ UNCHANGED <<wordVars, review, answered, crossed, torn>>
        BY <1>2 DEF AddClient, histVars
    <2>3. req'[r] = q BY <2>2, <1>r
    <2>4. q.at = "add" /\ q.held = card /\ q.new.fr = typed BY <2>a DEF Idle
    <2> HIDE DEF q
    <2>5. SlotOk(r)' BY <2>2, <2>3, <2>4 DEF SlotOk, wordVars
    <2> QED BY <2>1, <2>2, <2>5, <1>r, Reading
<1>3. ASSUME NEW r \in Reqs, HealIpa(r) PROVE TypeInv'
    <2>1. req[r].at = "heal" /\ row # Nothing /\ req[r].held.fr \in Spellings
        BY <1>3, <1>r DEF HealIpa, SlotOk
    <2>2. CASE /\ row' = [row EXCEPT !.ipa = req[r].held.fr]
               /\ Wrote(r, [req[r] EXCEPT !.at = "gloss", !.held.ipa = req[r].held.fr])
        <3> DEFINE q == [req[r] EXCEPT !.at = "gloss", !.held.ipa = req[r].held.fr]
        <3> DEFINE held == [req[r].held EXCEPT !.ipa = req[r].held.fr]
        <3>a. held \in Entry /\ held.fr = req[r].held.fr BY <2>1, <1>r DEF Request, Entry
        <3>b. q = [req[r] EXCEPT !.at = "gloss", !.held = held] BY <1>r DEF Request
        <3> HIDE DEF held
        <3>1. q \in Request /\ q.at = "gloss" /\ q.held.fr \in Spellings
            BY <2>1, <3>a, <3>b, <1>r DEF Request
        <3>2. row' \in Entry /\ row'.fr = row.fr /\ row.fr \in Spellings
            BY <2>1, <2>2, <1>r DEF Entry, RowsOk
        <3>3. row' # Nothing BY <3>2 DEF Nothing
        <3>4. req' = [req EXCEPT ![r] = q] /\ req'[r] = q /\ UNCHANGED <<clip, card, review, answered, crossed>>
            BY <1>3, <2>2, <1>r DEF HealIpa, Wrote
        <3>5. torn' \in BOOLEAN BY <2>2, <1>r DEF Wrote
        <3> HIDE DEF q
        <3>6. SlotOk(r)' BY <3>1, <3>3, <3>4 DEF SlotOk
        <3>7. req' \in [Reqs -> Request] /\ \A s \in Reqs : SlotOk(s)'
            BY <3>1, <3>3, <3>4, <3>6, OthersKeep
        <3> QED BY <3>2, <3>4, <3>5, <3>7 DEF TypeInv, TypeOK, RowsOk
    <2>3. CASE req' = [req EXCEPT ![r].at = "gloss"] /\ UNCHANGED <<row, answered, crossed, torn>>
        <3> DEFINE q == [req[r] EXCEPT !.at = "gloss"]
        <3>1. q \in Request BY <1>r DEF Request
        <3>2. req' = [req EXCEPT ![r] = q] BY <2>3
        <3>3. UNCHANGED <<wordVars, review, answered, crossed, torn>>
            BY <1>3, <2>3 DEF HealIpa, wordVars
        <3>4. req'[r].at = "gloss" /\ req'[r].held = req[r].held BY <3>2, <1>r DEF Request
        <3>5. SlotOk(r)' BY <2>1, <2>3, <3>4 DEF SlotOk
        <3> HIDE DEF q
        <3> QED BY <3>1, <3>2, <3>3, <3>5, <1>r, Reading
    <2> QED BY <1>3, <2>2, <2>3 DEF HealIpa
<1>4. ASSUME NEW r \in Reqs, HealGloss(r) PROVE TypeInv'
    <2> DEFINE held == req[r].held
    <2>1. held \in Entry /\ held.fr \in Spellings /\ row # Nothing /\ row.fr \in Spellings
        BY <1>4, <1>r DEF HealGloss, SlotOk, Request, RowsOk
    <2>2. CASE held.en # held.fr
        <3>1. PICK q \in Found([held EXCEPT !.en = held.fr]) : Wrote(r, q)
            BY <1>4, <2>2 DEF HealGloss
        <3>2. [held EXCEPT !.en = held.fr] \in Entry /\ [held EXCEPT !.en = held.fr].fr = held.fr
            BY <2>1 DEF Entry
        <3>3. q \in Request /\ (q.at = "idle" \/ (q.at = "find" /\ q.new.fr \in Spellings))
            BY <2>1, <3>2, FoundSlot
        <3>4. row' = [row EXCEPT !.en = held.fr] BY <1>4, <2>2 DEF HealGloss
        <3>5. row' \in Entry /\ row'.fr = row.fr BY <2>1, <3>4, <1>r DEF Entry
        <3>6. row' # Nothing BY <2>1, <3>5 DEF Nothing
        <3>7. req' = [req EXCEPT ![r] = q] /\ req'[r] = q /\ UNCHANGED <<clip, card, review, answered, crossed>>
            BY <1>4, <3>1, <1>r DEF HealGloss, Wrote
        <3>8. torn' \in BOOLEAN BY <3>1, <1>r DEF Wrote
        <3>9. SlotOk(r)' BY <3>3, <3>7 DEF SlotOk
        <3>10. req' \in [Reqs -> Request] /\ \A s \in Reqs : SlotOk(s)'
            BY <3>3, <3>6, <3>7, <3>9, OthersKeep
        <3> QED BY <2>1, <3>5, <3>7, <3>8, <3>10 DEF TypeInv, TypeOK, RowsOk
    <2>3. CASE held.en = held.fr
        <3>1. PICK q \in Found(held) : req' = [req EXCEPT ![r] = q] BY <1>4, <2>3 DEF HealGloss
        <3>2. q \in Request /\ (q.at = "idle" \/ (q.at = "find" /\ q.new.fr \in Spellings))
            BY <2>1, <3>1, FoundSlot
        <3>3. UNCHANGED <<wordVars, review, answered, crossed, torn>>
            BY <1>4, <2>3 DEF HealGloss, wordVars
        <3>4. req'[r] = q BY <3>1, <1>r
        <3>5. SlotOk(r)' BY <3>2, <3>4 DEF SlotOk
        <3> QED BY <3>1, <3>2, <3>3, <3>5, <1>r, Reading
    <2> QED BY <2>2, <2>3
<1>5. ASSUME NEW r \in Reqs, Enrich(r) PROVE TypeInv'
    <2>1. UNCHANGED <<wordVars, review, answered, crossed, torn>> BY <1>5 DEF Enrich, histVars
    <2>2. CASE req' = [req EXCEPT ![r] = Idle]
        <3>1. req'[r].at = "idle" BY <2>2, <1>r DEF Idle
        <3>2. SlotOk(r)' BY <3>1 DEF SlotOk
        <3> QED BY <2>1, <2>2, <3>2, <1>r, Reading
    <2>3. ASSUME NEW fr \in Headwords(req[r].typed),
                 req' = [req EXCEPT ![r] = [Idle EXCEPT !.at = "voice", !.new = Meaning(fr)]]
          PROVE  TypeInv'
        <3> DEFINE q == [Idle EXCEPT !.at = "voice", !.new = Meaning(fr)]
        <3>1. fr \in Spellings BY <1>r, VocabAssumption DEF Headwords, Spellings, Request
        <3>2. Meaning(fr) \in Entry /\ Meaning(fr).fr = fr BY <3>1 DEF Meaning, Entry
        <3>3. q \in Request /\ q.at = "voice" /\ q.new.fr = fr BY <3>2 DEF Idle, Request
        <3>4. req'[r] = q BY <2>3, <1>r
        <3> HIDE DEF q
        <3>5. SlotOk(r)' BY <3>1, <3>3, <3>4 DEF SlotOk
        <3> QED BY <2>1, <2>3, <3>3, <3>5, <1>r, Reading DEF q
    <2> QED BY <1>5, <2>2, <2>3 DEF Enrich
<1>6. ASSUME NEW r \in Reqs, Voice(r) PROVE TypeInv'
    <2>1. req[r].at = "voice" /\ req[r].new.fr \in Spellings BY <1>6, <1>r DEF Voice, SlotOk
    <2>2. UNCHANGED <<row, card, review>> BY <1>6 DEF Voice
    <2>3. ASSUME NEW ipa \in {req[r].new.fr, Blank}, clip' = req[r].new.fr,
                 Wrote(r, [req[r] EXCEPT !.at = "merge", !.new.ipa = ipa, !.new.audio = "shared"])
          PROVE  TypeInv'
        <3> DEFINE new == [req[r].new EXCEPT !.ipa = ipa, !.audio = "shared"]
                   q == [req[r] EXCEPT !.at = "merge", !.new = new]
        <3>1. new \in Entry /\ new.fr = req[r].new.fr BY <2>1, <1>r DEF Entry, Request
        <3>2. q = [req[r] EXCEPT !.at = "merge", !.new.ipa = ipa, !.new.audio = "shared"]
            BY <1>r DEF Request
        <3> HIDE DEF new
        <3>3. q \in Request /\ q.at = "merge" /\ q.new = new BY <3>1, <1>r DEF Request
        <3>4. req' = [req EXCEPT ![r] = q] BY <2>3, <3>2 DEF Wrote
        <3>5. req'[r] = q BY <3>4, <1>r
        <3>6. torn' \in BOOLEAN /\ UNCHANGED <<answered, crossed>> BY <2>3, <1>r DEF Wrote
        <3> HIDE DEF q
        <3>7. SlotOk(r)' BY <2>1, <3>1, <3>3, <3>5 DEF SlotOk
        <3>8. req' \in [Reqs -> Request] /\ \A s \in Reqs : SlotOk(s)'
            BY <2>2, <3>3, <3>4, <3>7, OthersKeep
        <3> QED BY <2>1, <2>2, <2>3, <3>6, <3>8 DEF TypeInv, TypeOK, RowsOk
    <2>4. CASE req' = [req EXCEPT ![r].at = "merge"] /\ UNCHANGED <<clip, answered, crossed, torn>>
        <3> DEFINE q == [req[r] EXCEPT !.at = "merge"]
        <3>1. q \in Request /\ q.at = "merge" /\ q.new = req[r].new BY <1>r DEF Request
        <3>2. req' = [req EXCEPT ![r] = q] BY <2>4
        <3>3. req'[r] = q BY <3>2, <1>r
        <3> HIDE DEF q
        <3>4. SlotOk(r)' BY <2>1, <3>1, <3>3 DEF SlotOk
        <3> QED BY <2>2, <2>4, <3>1, <3>2, <3>4, <1>r, Reading DEF wordVars
    <2> QED BY <1>6, <2>3, <2>4 DEF Voice
<1>7. ASSUME NEW r \in Reqs, MergeRead(r) PROVE TypeInv'
    <2> DEFINE q == [req[r] EXCEPT !.at = "store", !.held = row]
    <2>1. q \in Request /\ q.at = "store" /\ q.new = req[r].new /\ q.held = row
        BY <1>r DEF Request
    <2>2. req' = [req EXCEPT ![r] = q] BY <1>7, <1>r DEF MergeRead
    <2>3. UNCHANGED <<wordVars, review, answered, crossed, torn>> BY <1>7 DEF MergeRead, histVars
    <2>4. req'[r] = q /\ row' = row BY <2>2, <2>3, <1>r DEF wordVars
    <2>5. req[r].new.fr \in Spellings BY <1>7, <1>r DEF MergeRead, SlotOk
    <2> HIDE DEF q
    <2>6. SlotOk(r)' BY <2>1, <2>4, <2>5, <1>r DEF SlotOk, RowsOk
    <2> QED BY <2>1, <2>2, <2>3, <2>6, <1>r, Reading
<1>8. ASSUME NEW r \in Reqs, Store(r) PROVE TypeInv'
    <2> DEFINE held == req[r].held
               new == req[r].new
    <2>1. /\ held \in Entry /\ new \in Entry /\ new.fr \in Spellings
          /\ held # Nothing => row # Nothing /\ held.fr \in Spellings /\ row.fr \in Spellings
        BY <1>8, <1>r DEF Store, SlotOk, Request, RowsOk
    <2>2. row' = IF held = Nothing THEN new ELSE Merged(row, held, new) BY <1>8 DEF Store
    <2>3. row' \in Entry /\ row'.fr \in Spellings
        BY <2>1, <2>2, <1>r, MergedEntry
    <2>4. row' # Nothing BY <2>3 DEF Nothing
    <2>5. PICK q \in Found(new) : Wrote(r, q) BY <1>8 DEF Store
    <2>6. q \in Request /\ (q.at = "idle" \/ (q.at = "find" /\ q.new.fr \in Spellings))
        BY <2>1, <2>5, FoundSlot
    <2>7. req' = [req EXCEPT ![r] = q] /\ req'[r] = q /\ UNCHANGED <<clip, card, review, answered, crossed>>
        BY <1>8, <2>5, <1>r DEF Store, Wrote
    <2>8. torn' \in BOOLEAN BY <2>5, <1>r DEF Wrote
    <2>9. SlotOk(r)' BY <2>6, <2>7 DEF SlotOk
    <2>10. req' \in [Reqs -> Request] /\ \A s \in Reqs : SlotOk(s)'
        BY <2>4, <2>6, <2>7, <2>9, OthersKeep
    <2> QED BY <2>3, <2>7, <2>8, <2>10 DEF TypeInv, TypeOK, RowsOk
<1>9. ASSUME NEW r \in Reqs, AddFound(r) PROVE TypeInv'
    <2> DEFINE q == [req[r] EXCEPT !.at = "add", !.held = card]
    <2>1. q \in Request /\ q.at = "add" /\ q.new = req[r].new /\ q.held = card
        BY <1>r DEF Request
    <2>2. req' = [req EXCEPT ![r] = q] BY <1>9, <1>r DEF AddFound
    <2>3. UNCHANGED <<wordVars, review, answered, crossed, torn>> BY <1>9 DEF AddFound, histVars
    <2>4. req'[r] = q /\ card' = card BY <2>2, <2>3, <1>r DEF wordVars
    <2>5. req[r].new.fr \in Spellings BY <1>9, <1>r DEF AddFound, SlotOk
    <2> HIDE DEF q
    <2>6. SlotOk(r)' BY <2>1, <2>4, <2>5 DEF SlotOk
    <2> QED BY <2>1, <2>2, <2>3, <2>6, <1>r, Reading
<1>10. ASSUME NEW r \in Reqs, CommitAdd(r) PROVE TypeInv'
    <2> DEFINE held == req[r].held
               new == req[r].new
               looked == IF req[r].goal = "client" THEN row ELSE new
    <2>1. /\ held \in Entry /\ new \in Entry /\ looked \in Entry /\ new.fr \in Spellings
          /\ held # Nothing => card # Nothing /\ card.fr \in Spellings
        BY <1>10, <1>r DEF CommitAdd, SlotOk, Request, RowsOk
    <2>2. card' = IF held = Nothing THEN [new EXCEPT !.ipa = looked.ipa, !.audio = looked.audio]
                  ELSE Kept(held, new, looked)
        BY <1>10 DEF CommitAdd
    <2>3. card' \in Entry /\ card'.fr \in Spellings
        BY <2>1, <2>2, <1>r DEF Kept, Entry
    <2>4. card' # Nothing BY <2>3 DEF Nothing
    <2>5. review' \in Nat /\ review' # Blank BY <1>10, <1>r DEF CommitAdd, Seeded, Blank
    <2>6. req' = [req EXCEPT ![r] = Idle] /\ req'[r].at = "idle" /\ UNCHANGED <<row, clip, answered, crossed>>
        BY <1>10, <1>r DEF CommitAdd, Wrote, Idle
    <2>7. torn' \in BOOLEAN BY <1>10, <1>r DEF CommitAdd, Wrote
    <2>8. SlotOk(r)' BY <2>6 DEF SlotOk
    <2>9. req' \in [Reqs -> Request] /\ \A s \in Reqs : SlotOk(s)'
        BY <2>4, <2>5, <2>6, <2>8, OthersKeep
    <2> QED BY <2>3, <2>4, <2>5, <2>6, <2>7, <2>9 DEF TypeInv, TypeOK, RowsOk
<1>11. ASSUME NEW r \in Reqs, StartReview(r) PROVE TypeInv'
    <2> DEFINE q == [Idle EXCEPT !.at = "review", !.seen = review]
    <2>1. q \in Request /\ q.at = "review" /\ q.seen = review BY <1>r DEF Idle, Request
    <2>2. req' = [req EXCEPT ![r] = q] /\ UNCHANGED <<wordVars, review, answered, torn>>
        BY <1>11 DEF StartReview
    <2>3. req'[r] = q BY <2>2, <1>r
    <2>4. review # Blank /\ crossed' \in BOOLEAN BY <1>11, <1>r DEF StartReview
    <2> HIDE DEF q
    <2>5. SlotOk(r)' BY <2>1, <2>2, <2>3, <2>4, <1>r DEF SlotOk
    <2> QED BY <2>1, <2>2, <2>4, <2>5, <1>r, Reading
<1>12. ASSUME NEW r \in Reqs, CommitReview(r) PROVE TypeInv'
    <2>1. review # Blank /\ req[r].seen \in Nat BY <1>12, <1>r DEF CommitReview, SlotOk
    <2>2. review' \in Nat /\ review' # Blank /\ answered' \in Nat
        BY <2>1, <1>12, <1>r DEF CommitReview, Blank
    <2>3. req' = [req EXCEPT ![r] = Idle] /\ UNCHANGED <<row, clip, card, crossed, torn>>
        BY <1>12 DEF CommitReview, wordVars
    <2>4. req'[r].at = "idle" BY <2>3, <1>r DEF Idle
    <2>5. SlotOk(r)' BY <2>4 DEF SlotOk
    <2>6. req' \in [Reqs -> Request] /\ \A s \in Reqs : SlotOk(s)'
        BY <2>2, <2>3, <2>5, OthersKeep
    <2>7. card # Nothing BY <2>1 DEF TypeInv, TypeOK
    <2> QED BY <2>2, <2>3, <2>6, <2>7 DEF TypeInv, TypeOK, RowsOk
<1>13. ASSUME NEW r \in Reqs, NEW which \in {"shared", "own"}, Play(r, which) PROVE TypeInv'
    <2> DEFINE held == RowOf(which)
    <2>1. held \in Entry /\ held # Nothing /\ held.fr \in Spellings
        BY <1>13, <1>r DEF Play, RowOf, RowsOk
    <2>2. PICK at \in {"synth", "healplay"} :
              req' = [req EXCEPT ![r] = [Idle EXCEPT !.at = at, !.goal = which, !.held = held]]
        BY <1>13 DEF Play
    <2> DEFINE q == [Idle EXCEPT !.at = at, !.goal = which, !.held = held]
    <2>3. q \in Request /\ q.at = at /\ q.goal = which /\ q.held = held BY <2>1 DEF Idle, Request
    <2>4. req'[r] = q BY <2>2, <1>r
    <2>5. UNCHANGED <<wordVars, review, answered, crossed, torn>> BY <1>13 DEF Play, histVars
    <2>6. RowOf(which)' = held BY <2>5 DEF RowOf, wordVars
    <2> HIDE DEF q, held
    <2>7. SlotOk(r)' BY <2>1, <2>3, <2>4, <2>6 DEF SlotOk, RowOf
    <2> QED BY <2>2, <2>3, <2>5, <2>7, <1>r, Reading DEF q
<1>14. ASSUME NEW r \in Reqs, HealPlay(r) PROVE TypeInv'
    <2> DEFINE which == req[r].goal
               new == [RowOf(which) EXCEPT !.ipa = req[r].held.fr]
    <2>1. which \in {"shared", "own"} /\ RowOf(which) # Nothing /\ req[r].held.fr \in Spellings
        BY <1>14, <1>r DEF HealPlay, SlotOk
    <2>2. new \in Entry /\ new.fr = RowOf(which).fr BY <2>1, <1>r DEF RowOf, Entry
    <2>3. Update(which, new) /\ Wrote(r, Idle) /\ UNCHANGED <<clip, review>>
        BY <1>14 DEF HealPlay
    <2> HIDE DEF new, which
    <2> QED BY <2>1, <2>2, <2>3, Played
<1>15. ASSUME NEW r \in Reqs, Synthesize(r) PROVE TypeInv'
    <2> DEFINE q == [req[r] EXCEPT !.at = "remember"]
    <2>1. q \in Request /\ q.at = "remember" /\ q.goal = req[r].goal /\ q.held = req[r].held
        BY <1>r DEF Request
    <2>2. req' = [req EXCEPT ![r] = q] /\ UNCHANGED <<row, card, review, answered, crossed>>
        BY <1>15 DEF Synthesize, Wrote
    <2>3. req'[r] = q /\ torn' \in BOOLEAN BY <2>2, <1>15, <1>r DEF Synthesize, Wrote
    <2>4. /\ q.goal \in {"shared", "own"} /\ RowOf(q.goal) # Nothing /\ req[r].held.fr \in Spellings
        BY <1>15, <1>r, <2>1 DEF Synthesize, SlotOk
    <2>5. clip' \in Spellings \cup {Blank}
        BY <1>15, <2>4 DEF Synthesize, TypeInv, TypeOK
    <2> HIDE DEF q
    <2>6. SlotOk(r)' BY <2>1, <2>2, <2>3, <2>4 DEF SlotOk, RowOf
    <2>7. req' \in [Reqs -> Request] /\ \A s \in Reqs : SlotOk(s)'
        BY <2>1, <2>2, <2>6, OthersKeep
    <2> QED BY <2>2, <2>3, <2>5, <2>7 DEF TypeInv, TypeOK, RowsOk
<1>16. ASSUME NEW r \in Reqs, Remember(r) PROVE TypeInv'
    <2> DEFINE which == req[r].goal
               held == req[r].held
    <2>1. which \in {"shared", "own"} /\ RowOf(which) # Nothing /\ held \in Entry /\ held.fr \in Spellings
        BY <1>16, <1>r DEF Remember, SlotOk, Request
    <2>2. PICK ipa \in {held.fr, held.ipa} :
              Update(which, Merged(RowOf(which), held, [held EXCEPT !.audio = which, !.ipa = ipa]))
        BY <1>16 DEF Remember
    <2> DEFINE new == [held EXCEPT !.audio = which, !.ipa = ipa]
               merged == Merged(RowOf(which), held, new)
    <2>3. new \in Entry /\ new.fr = held.fr BY <2>1 DEF Entry
    <2>4. RowOf(which) \in Entry BY <2>1, <1>r DEF RowOf
    <2> HIDE DEF new, held, which
    <2>5. merged \in Entry /\ merged.fr = RowOf(which).fr
        BY <2>1, <2>3, <2>4, MergedEntry
    <2>6. Wrote(r, Idle) /\ UNCHANGED <<clip, review>> BY <1>16 DEF Remember
    <2>7. Update(which, merged) BY <2>2 DEF new
    <2> HIDE DEF merged
    <2> QED BY <2>1, <2>5, <2>6, <2>7, Played
<1>17. ASSUME NEW r \in Reqs, Die(r) PROVE TypeInv'
    <2>1. req' = [req EXCEPT ![r] = Idle] /\ UNCHANGED <<wordVars, review, answered, crossed>>
        BY <1>17 DEF Die
    <2>2. torn' \in BOOLEAN BY <1>17, <1>r DEF Die
    <2>3. req'[r].at = "idle" BY <2>1, <1>r DEF Idle
    <2>4. SlotOk(r)' BY <2>3 DEF SlotOk
    <2> QED BY <2>1, <2>2, <2>4, <1>r, Reading
<1>18. CASE UNCHANGED vars
    BY <1>18 DEF vars, TypeInv, TypeOK, RowsOk, SlotOk, RowOf
<1> QED
    BY <1>1, <1>2, <1>3, <1>4, <1>5, <1>6, <1>7, <1>8, <1>9, <1>10, <1>11, <1>12, <1>13,
       <1>14, <1>15, <1>16, <1>17, <1>18 DEF Next

\* Rows, clips and slots are well typed, and the learner has a card of the word exactly
\* when it is in their reviews, whatever failed or raced while it was added.
THEOREM TypeCorrect == Spec => []TypeOK
<1>1. TypeInv => TypeOK BY DEF TypeInv
<1> QED BY TypeInit, TypeStep, <1>1, PTL DEF Spec
-----------------------------------------------------------------------------
\* Reviews: what is rated, and what adding a word again leaves alone.

\* Everything but reviews and the commit of an added word leaves the review card alone.
LEMMA RatingsAlone ==
    ASSUME NEW r \in Reqs, req \in [Reqs -> Request],
           \/ \E typed \in Spellings : Look(r, typed) \/ AddClient(r, typed)
           \/ HealIpa(r) \/ HealGloss(r) \/ Enrich(r) \/ Voice(r) \/ MergeRead(r) \/ Store(r)
           \/ AddFound(r) \/ Die(r)
           \/ \E which \in {"shared", "own"} : Play(r, which)
           \/ HealPlay(r) \/ Synthesize(r) \/ Remember(r)
    PROVE  /\ UNCHANGED <<review, answered, crossed>>
           /\ req'[r].at # "review"
           /\ \A s \in Reqs \ {r} : req'[s] = req[s]
<1> DEFINE Goal == /\ UNCHANGED <<review, answered, crossed>>
                   /\ req'[r].at # "review"
                   /\ \A s \in Reqs \ {r} : req'[s] = req[s]
<1> USE DEF histVars, Wrote
<1>r. req[r] \in Request OBVIOUS
<1>1. ASSUME NEW typed \in Spellings, Look(r, typed) \/ AddClient(r, typed) PROVE Goal
    BY <1>1 DEF Look, AddClient, Idle
<1>2. CASE HealIpa(r)
    <2>1. \/ Wrote(r, [req[r] EXCEPT !.at = "gloss", !.held.ipa = req[r].held.fr])
          \/ req' = [req EXCEPT ![r].at = "gloss"] /\ UNCHANGED <<answered, crossed>>
        BY <1>2 DEF HealIpa
    <2>2. review' = review BY <1>2 DEF HealIpa
    <2>3. CASE Wrote(r, [req[r] EXCEPT !.at = "gloss", !.held.ipa = req[r].held.fr])
        BY <2>2, <2>3, <1>r DEF Request
    <2>4. CASE req' = [req EXCEPT ![r].at = "gloss"] /\ UNCHANGED <<answered, crossed>>
        BY <2>2, <2>4, <1>r DEF Request
    <2> QED BY <2>1, <2>3, <2>4
<1>3. CASE HealGloss(r) \/ Store(r)
    <2>3. UNCHANGED <<review, answered, crossed>> BY <1>3 DEF HealGloss, Store
    <2>1. \E found : \E q \in Found(found) : req' = [req EXCEPT ![r] = q]
        BY <1>3 DEF HealGloss, Store
    <2>2. PICK found : \E q \in Found(found) : req' = [req EXCEPT ![r] = q] BY <2>1
    <2>4. req' = [req EXCEPT ![r] = Idle] \/ req' = [req EXCEPT ![r] = [Idle EXCEPT !.at = "find", !.new = found]]
        BY <2>2 DEF Found
    <2>5. CASE req' = [req EXCEPT ![r] = Idle] BY <2>3, <2>5 DEF Idle
    <2>6. CASE req' = [req EXCEPT ![r] = [Idle EXCEPT !.at = "find", !.new = found]]
        BY <2>3, <2>6 DEF Idle
    <2> QED BY <2>4, <2>5, <2>6
<1>4. CASE Enrich(r)
    <2>1. UNCHANGED <<review, answered, crossed>> BY <1>4 DEF Enrich
    <2>2. CASE req' = [req EXCEPT ![r] = Idle] BY <2>1, <2>2 DEF Idle
    <2>3. ASSUME NEW fr, req' = [req EXCEPT ![r] = [Idle EXCEPT !.at = "voice", !.new = Meaning(fr)]]
          PROVE  Goal
        BY <2>1, <2>3 DEF Idle
    <2> QED BY <1>4, <2>2, <2>3 DEF Enrich
<1>5. CASE Voice(r)
    <2>1. PICK new \in {req[r].new, [req[r].new EXCEPT !.ipa = req[r].new.fr, !.audio = "shared"],
                        [req[r].new EXCEPT !.ipa = Blank, !.audio = "shared"]} :
              req' = [req EXCEPT ![r] = [req[r] EXCEPT !.at = "merge", !.new = new]]
        BY <1>5, <1>r DEF Voice, Request
    <2>2. UNCHANGED <<review, answered, crossed>> BY <1>5 DEF Voice
    <2> QED BY <2>1, <2>2, <1>r DEF Request
<1>6. CASE MergeRead(r) \/ AddFound(r)
    BY <1>6, <1>r DEF MergeRead, AddFound, Request
<1>7. ASSUME NEW which \in {"shared", "own"}, Play(r, which) PROVE Goal
    BY <1>7 DEF Play, Idle
<1>8. CASE HealPlay(r) \/ Remember(r) \/ Die(r)
    <2>1. req' = [req EXCEPT ![r] = Idle] BY <1>8 DEF HealPlay, Remember, Die
    <2>2. UNCHANGED <<review, answered, crossed>> BY <1>8 DEF HealPlay, Remember, Die
    <2> QED BY <2>1, <2>2 DEF Idle
<1>9. CASE Synthesize(r)
    BY <1>9, <1>r DEF Synthesize, Request
<1> QED BY <1>1, <1>2, <1>3, <1>4, <1>5, <1>6, <1>7, <1>8, <1>9

\* Initially nothing is rated.
LEMMA RatingInit == Init => RatingInv
BY DEF Init, RatingInv, RatingsCount, Idle

\* Every step keeps the count of ratings.
LEMMA RatingStep == TypeInv /\ RatingInv /\ [Next]_vars => RatingInv'
<1> SUFFICES ASSUME TypeInv, RatingInv, [Next]_vars PROVE RatingInv'
    OBVIOUS
<1>r. /\ req \in [Reqs -> Request] /\ review \in Nat \cup {Blank} /\ answered \in Nat
      /\ crossed \in BOOLEAN
      /\ \A s \in Reqs : req[s].at = "review" => review # Blank /\ req[s].seen \in Nat
    BY DEF TypeInv, TypeOK, SlotOk
<1>1. ASSUME NEW r \in Reqs, CommitAdd(r) PROVE RatingInv'
    <2>1. req'[r].at # "review" /\ \A s \in Reqs \ {r} : req'[s] = req[s]
        BY <1>1, <1>r DEF CommitAdd, Wrote, Idle
    <2>2. review' = Seeded /\ UNCHANGED <<answered, crossed>> BY <1>1 DEF CommitAdd, Wrote
    <2> QED BY <2>1, <2>2, <1>r DEF RatingInv, RatingsCount, Seeded, Blank
<1>2. ASSUME NEW r \in Reqs, StartReview(r) PROVE RatingInv'
    <2>1. /\ req'[r].at = "review" /\ req'[r].seen = review
          /\ \A s \in Reqs \ {r} : req'[s] = req[s]
        BY <1>2, <1>r DEF StartReview, Idle
    <2>2. /\ review # Blank /\ UNCHANGED <<review, answered>>
          /\ crossed' = (crossed \/ \E s \in Reqs : req[s].at = "review")
        BY <1>2 DEF StartReview
    <2>3. req[r].at # "review" BY <1>2 DEF StartReview, Idle
    <2> QED BY <2>1, <2>2, <2>3, <1>r DEF RatingInv, RatingsCount, Blank
<1>3. ASSUME NEW r \in Reqs, CommitReview(r) PROVE RatingInv'
    <2>1. req'[r].at # "review" /\ \A s \in Reqs \ {r} : req'[s] = req[s]
        BY <1>3, <1>r DEF CommitReview, Idle
    <2>2. /\ req[r].at = "review" /\ review' = req[r].seen + 1 /\ answered' = answered + 1
          /\ crossed' = crossed
        BY <1>3 DEF CommitReview
    <2> QED BY <2>1, <2>2, <1>r DEF RatingInv, RatingsCount, Blank
<1>4. ASSUME NEW r \in Reqs, UNCHANGED <<review, answered, crossed>>, req'[r].at # "review",
             \A s \in Reqs \ {r} : req'[s] = req[s]
      PROVE  RatingInv'
    BY <1>4 DEF RatingInv, RatingsCount
<1>5. CASE UNCHANGED vars
    BY <1>5 DEF vars, RatingInv, RatingsCount
<1> QED BY <1>1, <1>2, <1>3, <1>4, <1>5, <1>r, RatingsAlone DEF Next

\* Every rating that was answered moved the card once, unless two reviews of it were in
\* flight at once; and no rating ever moved it twice.
THEOREM RatingsAreCounted == Spec => []RatingsCount
<1>1. RatingInv => RatingsCount BY DEF RatingInv
<1> QED BY TypeInit, TypeStep, RatingInit, RatingStep, <1>1, PTL DEF Spec
\* No step clobbers the card or resets its reviews.
LEMMA CardStep == TypeInv /\ [Next]_vars => KeepsCard \/ UNCHANGED vars
<1> SUFFICES ASSUME TypeInv, Next PROVE KeepsCard
    BY DEF vars
<1>r. /\ row \in Entry /\ card \in Entry /\ review \in Nat \cup {Blank}
      /\ req \in [Reqs -> Request]
      /\ \A r \in Reqs : SlotOk(r) /\ req[r] \in Request
    BY DEF TypeInv, TypeOK
<1>1. ASSUME NEW r \in Reqs, CommitAdd(r) PROVE KeepsCard
    <2>1. review' = Seeded BY <1>1 DEF CommitAdd
    <2>2. CASE req[r].held = Nothing
        <3>1. card = Nothing BY <1>1, <2>2 DEF CommitAdd
        <3> QED BY <2>1, <3>1, <1>r DEF KeepsCard, Seeded, Blank
    <2>3. CASE req[r].held # Nothing
        <3>1. PICK looked : card' = Kept(req[r].held, req[r].new, looked)
            BY <1>1, <2>3 DEF CommitAdd
        <3>2. card'.fr = card.fr /\ card'.en = card.en BY <3>1, <1>r DEF Kept, Entry
        <3>3. card.audio # "none" => card'.audio # "none" BY <3>1, <1>r DEF Kept, Entry
        <3> QED BY <2>1, <3>2, <3>3, <1>r DEF KeepsCard, Seeded, Blank
    <2> QED BY <2>2, <2>3
<1>2. ASSUME NEW r \in Reqs, CommitReview(r) PROVE KeepsCard
    <2>1. req[r].seen \in Nat /\ review' = req[r].seen + 1 /\ card' = card
        BY <1>2, <1>r DEF CommitReview, SlotOk, wordVars
    <2> QED BY <2>1 DEF KeepsCard
<1>3. ASSUME NEW r \in Reqs, HealPlay(r) PROVE KeepsCard
    <2>1. card' = card \/ card' = [card EXCEPT !.ipa = req[r].held.fr]
        BY <1>3 DEF HealPlay, Update, RowOf
    <2>2. review' = review BY <1>3 DEF HealPlay
    <2> QED BY <2>1, <2>2, <1>r DEF KeepsCard, Entry, Blank
<1>4. ASSUME NEW r \in Reqs, Remember(r) PROVE KeepsCard
    <2> DEFINE held == req[r].held
    <2>1. PICK ipa \in {held.fr, held.ipa} :
              Update(req[r].goal, Merged(RowOf(req[r].goal), held,
                                         [held EXCEPT !.audio = req[r].goal, !.ipa = ipa]))
        BY <1>4 DEF Remember
    <2>2. review' = review BY <1>4 DEF Remember
    <2>3. CASE req[r].goal = "shared"
        BY <2>1, <2>2, <2>3, <1>r DEF Update, KeepsCard, Blank
    <2>4. CASE req[r].goal = "own"
        <3> DEFINE new == [held EXCEPT !.audio = "own", !.ipa = ipa]
        <3>1. held \in Entry /\ held.fr \in Spellings BY <1>4, <1>r DEF Remember, SlotOk, Request
        <3>2. new \in Entry /\ new.fr = held.fr /\ new.en = held.en /\ new.audio = "own"
            BY <3>1 DEF Entry
        <3>3. card' = Merged(card, held, new) BY <2>1, <2>4 DEF Update, RowOf
        <3> HIDE DEF held, new
        <3>4. card'.fr = card.fr /\ card'.en = card.en
              /\ (card.audio # "none" => card'.audio # "none")
            BY <3>1, <3>2, <3>3, <1>r, MergedEntry
        <3> QED BY <2>2, <3>4, <1>r DEF KeepsCard, Blank
    <2> QED BY <1>4, <1>r, <2>3, <2>4 DEF Remember, SlotOk
<1>5. ASSUME UNCHANGED <<card, review>> PROVE KeepsCard
    BY <1>5, <1>r DEF KeepsCard, Blank
<1>6. ASSUME NEW r \in Reqs,
             \/ \E typed \in Spellings : Look(r, typed) \/ AddClient(r, typed)
             \/ HealIpa(r) \/ HealGloss(r) \/ Enrich(r) \/ Voice(r) \/ MergeRead(r)
             \/ Store(r) \/ AddFound(r) \/ StartReview(r) \/ Synthesize(r) \/ Die(r)
             \/ \E which \in {"shared", "own"} : Play(r, which)
      PROVE  UNCHANGED <<card, review>>
    BY <1>6 DEF Look, AddClient, HealIpa, HealGloss, Enrich, Voice, MergeRead, Store, AddFound,
                StartReview, Synthesize, Die, Play, wordVars
<1> QED BY <1>1, <1>2, <1>3, <1>4, <1>5, <1>6 DEF Next

\* Adding a word again, whatever races, keeps its card and its reviews.
THEOREM CardStays == Spec => CardIsKept
BY TypeInit, TypeStep, CardStep, PTL DEF Spec, CardIsKept
-----------------------------------------------------------------------------
\* The shared row: as long as nothing is torn, what is written comes from the row as it is.

\* A step that writes neither row nor clip, and drops no clip that was stored ahead.
LEMMA WholeRead ==
    ASSUME WholeInv, NEW r \in Reqs, UNCHANGED <<row, clip>>, torn => torn',
           \A s \in Reqs \ {r} : req'[s] = req[s],
           ~torn' => HoldsTrue(r)' /\ (Dirty(r) => Dirty(r)')
    PROVE  WholeInv'
<1> SUFFICES ASSUME ~torn' PROVE WholeInv'
    BY DEF WholeInv
<1>1. ~torn OBVIOUS
<1>2. ASSUME NEW s \in Reqs PROVE HoldsTrue(s)' /\ (Dirty(s) => Dirty(s)')
    <2>1. CASE s = r BY <2>1
    <2>2. CASE s # r
        <3>1. req'[s] = req[s] /\ HoldsTrue(s) BY <1>1, <2>2 DEF WholeInv
        <3>2. HoldsTrue(s)' BY <3>1 DEF HoldsTrue, Unsaved
        <3>3. Dirty(s) => Dirty(s)' BY <3>1 DEF Dirty, Unsaved
        <3> QED BY <3>2, <3>3
    <2> QED BY <2>1, <2>2
<1> QED BY <1>1, <1>2 DEF WholeInv

\* A write that tears nothing is alone: no other request holds anything.
LEMMA WholeWrite ==
    ASSUME TypeInv, NEW r \in Reqs, NEW q, Wrote(r, q), ~torn'
    PROVE  /\ ~torn
           /\ req'[r] = q
           /\ \A s \in Reqs \ {r} : HoldsTrue(s)' /\ ~Dirty(s)
<1>1. req' = [req EXCEPT ![r] = q] /\ ~torn /\ ~Others(r) BY DEF Wrote
<1>2. \A s \in Reqs \ {r} : req'[s] = req[s] /\ req[s].at \in {"idle", "review"}
    BY <1>1 DEF Others, TypeInv, TypeOK
<1>3. \A s \in Reqs \ {r} : HoldsTrue(s)' BY <1>2 DEF HoldsTrue, Unsaved
<1>4. \A s \in Reqs \ {r} : ~Dirty(s) BY <1>2 DEF Dirty, Unsaved
<1>5. req'[r] = q BY <1>1 DEF TypeInv, TypeOK
<1> QED BY <1>1, <1>3, <1>4, <1>5

\* Initially there is no row.
LEMMA WholeInit == Init => WholeInv
<1> SUFFICES ASSUME Init PROVE WholeInv
    OBVIOUS
<1>1. \A r \in Reqs : req[r].at = "idle" BY DEF Init, Idle
<1>2. \A r \in Reqs : HoldsTrue(r) BY <1>1 DEF HoldsTrue, Unsaved
<1> QED BY <1>2 DEF Init, WholeInv

\* A lookup goes on with the row as it was read.
LEMMA WholeLook ==
    ASSUME TypeInv, WholeInv, NEW r \in Reqs, NEW typed \in Spellings, Look(r, typed)
    PROVE  WholeInv'
<1>1. UNCHANGED <<row, clip, torn>> BY DEF Look, wordVars, histVars
<1>2. req[r].at = "idle" BY DEF Look, Idle
<1>3. ~Dirty(r) BY <1>2 DEF Dirty, Unsaved
<1>4. /\ req'[r] = IF CachedLookup(typed)
           THEN [Idle EXCEPT !.at = IF row.ipa = Blank THEN "heal" ELSE "gloss", !.held = row]
           ELSE [Idle EXCEPT !.at = "ask", !.typed = typed]
      /\ \A s \in Reqs \ {r} : req'[s] = req[s]
    BY DEF Look, TypeInv, TypeOK
<1>5. CASE CachedLookup(typed)
    <2>1. req'[r].at \in {"heal", "gloss"} /\ req'[r].held = row BY <1>4, <1>5 DEF Idle
    <2>2. HoldsTrue(r)' BY <1>1, <2>1 DEF HoldsTrue, Unsaved
    <2> QED BY <1>1, <1>3, <1>4, <2>2, WholeRead
<1>6. CASE ~CachedLookup(typed)
    <2>1. req'[r].at = "ask" /\ req'[r].typed = typed BY <1>4, <1>6 DEF Idle
    <2>2. row = Nothing \/ typed > row.fr
        BY <1>6, VocabAssumption DEF CachedLookup, Spellings, TypeInv, RowsOk
    <2>3. HoldsTrue(r)' BY <1>1, <2>1, <2>2 DEF HoldsTrue, Unsaved
    <2> QED BY <1>1, <1>3, <1>4, <2>3, WholeRead
<1> QED BY <1>5, <1>6

\* A play goes on with the row as it was read.
LEMMA WholePlay ==
    ASSUME TypeInv, WholeInv, NEW r \in Reqs, NEW which \in {"shared", "own"}, Play(r, which)
    PROVE  WholeInv'
<1>1. UNCHANGED <<row, clip, torn>> BY DEF Play, wordVars, histVars
<1>2. req[r].at = "idle" BY DEF Play, Idle
<1>3. ~Dirty(r) BY <1>2 DEF Dirty, Unsaved
<1>4. PICK at \in {"synth", "healplay"} :
          req' = [req EXCEPT ![r] = [Idle EXCEPT !.at = at, !.goal = which, !.held = RowOf(which)]]
    BY DEF Play
<1>5. \A s \in Reqs \ {r} : req'[s] = req[s] BY <1>4 DEF TypeInv, TypeOK
<1>6. req'[r].at = at /\ req'[r].goal = which /\ req'[r].held = RowOf(which)
    BY <1>4 DEF Idle, TypeInv, TypeOK
<1>7. HoldsTrue(r)' BY <1>1, <1>6 DEF HoldsTrue, Unsaved, RowOf
<1> QED BY <1>1, <1>3, <1>5, <1>7, WholeRead
\* What a lookup is about to store is voiced first.
LEMMA WholeVoice ==
    ASSUME TypeInv, WholeInv, NEW r \in Reqs, Voice(r)
    PROVE  WholeInv'
<1> SUFFICES ASSUME ~torn' PROVE WholeInv'
    BY DEF WholeInv
<1>r. req[r] \in Request /\ req \in [Reqs -> Request] /\ row' = row /\ req[r].at = "voice"
    BY DEF TypeInv, TypeOK, Voice
<1>f. req[r].new.fr \in Spellings BY <1>r DEF TypeInv, SlotOk
<1>1. ASSUME NEW ipa \in {req[r].new.fr, Blank}, clip' = req[r].new.fr,
             Wrote(r, [req[r] EXCEPT !.at = "merge", !.new.ipa = ipa, !.new.audio = "shared"])
      PROVE  WholeInv'
    <2> DEFINE new == [req[r].new EXCEPT !.ipa = ipa, !.audio = "shared"]
    <2>1. ~torn /\ \A s \in Reqs \ {r} : HoldsTrue(s)' /\ ~Dirty(s) BY <1>1, WholeWrite
    <2>2. HoldsTrue(r) BY <2>1 DEF WholeInv
    <2>3. req'[r] = [req[r] EXCEPT !.at = "merge", !.new = new]
        BY <1>1, <1>r DEF Wrote, Request
    <2>4. new.fr = req[r].new.fr /\ new.en = req[r].new.en /\ new.ipa = ipa /\ new.audio = "shared"
        BY <1>r DEF Request, Entry
    <2> HIDE DEF new
    <2>5. req'[r].at = "merge" /\ req'[r].new = new BY <2>3, <1>r DEF Request
    <2>6. HoldsTrue(r)' BY <1>1, <1>r, <2>2, <2>4, <2>5 DEF HoldsTrue, Unsaved
    <2>7. Dirty(r)' BY <1>f, <2>4, <2>5 DEF Dirty, Unsaved
    <2> QED BY <1>r, <2>1, <2>6, <2>7 DEF WholeInv
<1>2. CASE req' = [req EXCEPT ![r].at = "merge"] /\ UNCHANGED <<clip, answered, crossed, torn>>
    <2>1. HoldsTrue(r) BY <1>2 DEF WholeInv
    <2>2. /\ req'[r].at = "merge" /\ req'[r].new = req[r].new
          /\ \A s \in Reqs \ {r} : req'[s] = req[s]
        BY <1>2, <1>r DEF Request
    <2>3. ~Dirty(r) BY <1>r DEF Dirty, Unsaved
    <2>4. req[r].new.audio = "none" BY <1>r, <2>1 DEF HoldsTrue
    <2>5. HoldsTrue(r)' BY <1>2, <1>r, <2>1, <2>2, <2>4 DEF HoldsTrue, Unsaved
    <2> QED BY <1>2, <1>r, <2>2, <2>3, <2>5, WholeRead
<1> QED BY <1>1, <1>2 DEF Voice
\* Every step that tears nothing leaves the row whole.
LEMMA WholeStep == TypeInv /\ WholeInv /\ [Next]_vars => WholeInv'
<1> SUFFICES ASSUME TypeInv, WholeInv, [Next]_vars, ~torn' PROVE WholeInv'
    BY DEF WholeInv
<1>r. /\ req \in [Reqs -> Request] /\ row \in Entry /\ RowsOk
      /\ \A r \in Reqs : SlotOk(r) /\ req[r] \in Request
    BY DEF TypeInv, TypeOK
<1>w. ~torn => \A r \in Reqs : HoldsTrue(r) BY DEF WholeInv
<1>1. ASSUME NEW r \in Reqs, NEW typed \in Spellings, Look(r, typed) PROVE WholeInv'
    BY <1>1, WholeLook
<1>2. ASSUME NEW r \in Reqs, UNCHANGED <<row, clip, torn>>, ~Dirty(r),
             req'[r].at \in {"idle", "find", "add", "review"},
             \A s \in Reqs \ {r} : req'[s] = req[s]
      PROVE  WholeInv'
    <2>1. HoldsTrue(r)' BY <1>2 DEF HoldsTrue, Unsaved
    <2> QED BY <1>2, <2>1, WholeRead
<1>3. ASSUME NEW r \in Reqs, NEW typed \in Spellings,
             AddClient(r, typed) \/ AddFound(r) \/ StartReview(r) \/ CommitReview(r)
      PROVE  WholeInv'
    <2>1. req[r].at \in {"idle", "find", "review"}
        BY <1>3 DEF AddClient, AddFound, StartReview, CommitReview, Idle
    <2>2. ~Dirty(r) BY <2>1 DEF Dirty, Unsaved
    <2>3. UNCHANGED <<row, clip, torn>>
        BY <1>3 DEF AddClient, AddFound, StartReview, CommitReview, wordVars, histVars
    <2>4. /\ req'[r].at \in {"idle", "find", "add", "review"}
          /\ \A s \in Reqs \ {r} : req'[s] = req[s]
        <3>1. CASE AddClient(r, typed) BY <3>1, <1>r DEF AddClient, Idle
        <3>2. CASE AddFound(r) BY <3>2, <1>r DEF AddFound, Request
        <3>3. CASE StartReview(r) BY <3>3, <1>r DEF StartReview, Idle
        <3>4. CASE CommitReview(r) BY <3>4, <1>r DEF CommitReview, Idle
        <3> QED BY <1>3, <3>1, <3>2, <3>3, <3>4
    <2> QED BY <1>2, <2>2, <2>3, <2>4
<1>4. ASSUME NEW r \in Reqs, HealIpa(r) PROVE WholeInv'
    <2> DEFINE held == req[r].held
    <2>1. /\ req[r].at = "heal" /\ row # Nothing /\ held \in Entry /\ held.fr \in Spellings
          /\ clip' = clip
        BY <1>4, <1>r DEF HealIpa, SlotOk, Request
    <2>2. ~Dirty(r) BY <2>1 DEF Dirty, Unsaved
    <2>3. CASE /\ row' = [row EXCEPT !.ipa = held.fr]
               /\ Wrote(r, [req[r] EXCEPT !.at = "gloss", !.held.ipa = held.fr])
        <3>1. ~torn /\ \A s \in Reqs \ {r} : HoldsTrue(s)' /\ ~Dirty(s) BY <2>3, WholeWrite
        <3>2. held = row BY <1>w, <2>1, <3>1 DEF HoldsTrue
        <3>3. req'[r].at = "gloss" /\ req'[r].held = [held EXCEPT !.ipa = held.fr]
            BY <2>3, <1>r DEF Wrote, Request
        <3>4. row'.en = row.en /\ row'.fr = row.fr /\ row'.ipa = row.fr /\ row'.audio = row.audio
            BY <2>1, <2>3, <3>2 DEF Entry
        <3> HIDE DEF held
        <3>5. HoldsTrue(r)' BY <2>3, <3>2, <3>3 DEF HoldsTrue, Unsaved
        <3>6. ~\E s \in Reqs : Dirty(s) BY <2>2, <3>1
        <3>7. row.en = row.fr /\ (row.audio = "shared" => clip = row.fr)
            BY <2>1, <3>1, <3>6 DEF WholeInv
        <3> QED BY <2>1, <3>1, <3>4, <3>5, <3>7 DEF WholeInv
    <2>4. CASE req' = [req EXCEPT ![r].at = "gloss"] /\ UNCHANGED <<row, answered, crossed, torn>>
        <3>1. /\ req'[r].at = "gloss" /\ req'[r].held = req[r].held
              /\ \A s \in Reqs \ {r} : req'[s] = req[s]
            BY <2>4, <1>r DEF Request
        <3>2. HoldsTrue(r)' BY <1>w, <2>1, <2>4, <3>1 DEF HoldsTrue, Unsaved
        <3> QED BY <2>1, <2>2, <2>4, <3>1, <3>2, WholeRead
    <2> QED BY <1>4, <2>3, <2>4 DEF HealIpa
<1>5. ASSUME NEW r \in Reqs, HealGloss(r) PROVE WholeInv'
    <2> DEFINE held == req[r].held
    <2>1. /\ req[r].at = "gloss" /\ row # Nothing /\ held \in Entry
        BY <1>5, <1>r DEF HealGloss, SlotOk, Request
    <2>2. ~torn
        BY <1>5 DEF HealGloss, Wrote
    <2>3. held = row /\ row.en = row.fr BY <1>w, <2>1, <2>2 DEF HoldsTrue, WholeInv
    <2>4. UNCHANGED <<row, clip, torn>> BY <1>5, <2>3 DEF HealGloss
    <2>5. \/ req' = [req EXCEPT ![r] = Idle]
          \/ req' = [req EXCEPT ![r] = [Idle EXCEPT !.at = "find", !.new = held]]
        BY <1>5, <2>3 DEF HealGloss, Found
    <2>6. req'[r].at \in {"idle", "find"} /\ \A s \in Reqs \ {r} : req'[s] = req[s]
        <3>1. CASE req' = [req EXCEPT ![r] = Idle] BY <3>1, <1>r DEF Idle
        <3>2. CASE req' = [req EXCEPT ![r] = [Idle EXCEPT !.at = "find", !.new = held]]
            BY <3>2, <1>r DEF Idle
        <3> QED BY <2>5, <3>1, <3>2
    <2>7. ~Dirty(r) BY <2>1 DEF Dirty, Unsaved
    <2> QED BY <1>2, <2>4, <2>6, <2>7
<1>6. ASSUME NEW r \in Reqs, Enrich(r) PROVE WholeInv'
    <2>1. UNCHANGED <<row, clip, torn>> /\ req[r].at = "ask" BY <1>6 DEF Enrich, wordVars, histVars
    <2>2. ~Dirty(r) BY <2>1 DEF Dirty, Unsaved
    <2>3. CASE req' = [req EXCEPT ![r] = Idle]
        <3>1. req'[r].at = "idle" /\ \A s \in Reqs \ {r} : req'[s] = req[s]
            BY <2>3, <1>r DEF Idle
        <3> QED BY <1>2, <2>1, <2>2, <3>1
    <2>4. ASSUME NEW fr \in Headwords(req[r].typed),
                 req' = [req EXCEPT ![r] = [Idle EXCEPT !.at = "voice", !.new = Meaning(fr)]]
          PROVE  WholeInv'
        <3>1. fr \in Spellings /\ fr >= req[r].typed /\ req[r].typed \in Spellings
            BY <1>r, VocabAssumption DEF Headwords, Spellings, Request
        <3>2. row = Nothing \/ req[r].typed > row.fr BY <1>w, <2>1 DEF HoldsTrue
        <3>3. row = Nothing \/ fr > row.fr
            BY <3>1, <3>2, <1>r, VocabAssumption DEF RowsOk, Spellings
        <3>4. /\ req'[r].at = "voice" /\ req'[r].new = Meaning(fr)
              /\ \A s \in Reqs \ {r} : req'[s] = req[s]
            BY <2>4, <1>r DEF Idle
        <3>5. /\ Meaning(fr).fr = fr /\ Meaning(fr).en = fr /\ Meaning(fr).ipa = Blank
              /\ Meaning(fr).audio = "none"
            BY DEF Meaning
        <3>6. HoldsTrue(r)' BY <2>1, <3>3, <3>4, <3>5 DEF HoldsTrue, Unsaved
        <3> QED BY <2>1, <2>2, <3>4, <3>6, WholeRead
    <2> QED BY <1>6, <2>3, <2>4 DEF Enrich
<1>7. ASSUME NEW r \in Reqs, MergeRead(r) PROVE WholeInv'
    <2>1. UNCHANGED <<row, clip, torn>> /\ req[r].at = "merge" BY <1>7 DEF MergeRead, wordVars, histVars
    <2>2. /\ req'[r].at = "store" /\ req'[r].new = req[r].new /\ req'[r].held = row
          /\ \A s \in Reqs \ {r} : req'[s] = req[s]
        BY <1>7, <1>r DEF MergeRead, Request
    <2>3. HoldsTrue(r)' BY <1>w, <2>1, <2>2 DEF HoldsTrue, Unsaved
    <2>4. Dirty(r) => Dirty(r)' BY <2>1, <2>2 DEF Dirty, Unsaved
    <2> QED BY <2>1, <2>2, <2>3, <2>4, WholeRead
<1>8. ASSUME NEW r \in Reqs, Store(r) PROVE WholeInv'
    <2> DEFINE new == req[r].new
    <2>1. PICK q \in Found(new) : Wrote(r, q) BY <1>8 DEF Store
    <2>2. /\ ~torn /\ req'[r] = q
          /\ \A s \in Reqs \ {r} : HoldsTrue(s)' /\ ~Dirty(s)
        BY <2>1, WholeWrite
    <2>3. /\ req[r].at = "store" /\ req[r].held = row /\ clip' = clip
          /\ new \in Entry /\ new.fr \in Spellings
        BY <1>w, <1>8, <1>r, <2>2 DEF Store, HoldsTrue, SlotOk, Request
    <2>4. row' = new
        BY <1>8, <1>r, <2>3, MergedEntry DEF Store
    <2>5. /\ new.en = new.fr /\ new.ipa \in {new.fr, Blank}
          /\ new.audio = "shared" => clip = new.fr
        BY <1>w, <2>2, <2>3 DEF HoldsTrue, Unsaved
    <2>6. req'[r].at \in {"idle", "find"} BY <2>1, <2>2, FoundSlot, <2>3
    <2>7. HoldsTrue(r)' BY <2>6 DEF HoldsTrue, Unsaved
    <2> QED BY <2>2, <2>3, <2>4, <2>5, <2>7 DEF WholeInv
<1>9. ASSUME NEW r \in Reqs, CommitAdd(r) PROVE WholeInv'
    <2>1. UNCHANGED <<row, clip>> /\ req[r].at = "add" /\ (torn => torn')
        BY <1>9 DEF CommitAdd, Wrote
    <2>2. ~Dirty(r) BY <2>1 DEF Dirty, Unsaved
    <2>3. req'[r].at = "idle" /\ \A s \in Reqs \ {r} : req'[s] = req[s]
        BY <1>9, <1>r DEF CommitAdd, Wrote, Idle
    <2>4. HoldsTrue(r)' BY <2>3 DEF HoldsTrue, Unsaved
    <2> QED BY <2>1, <2>2, <2>3, <2>4, WholeRead
<1>10. ASSUME NEW r \in Reqs, NEW which \in {"shared", "own"}, Play(r, which) PROVE WholeInv'
    BY <1>10, WholePlay
<1>11. ASSUME NEW r \in Reqs, Wrote(r, Idle), clip' = clip, row' = row, ~Dirty(r) PROVE WholeInv'
    <2>1. req'[r].at = "idle" /\ (torn => torn') /\ \A s \in Reqs \ {r} : req'[s] = req[s]
        BY <1>11, <1>r DEF Wrote, Idle
    <2>2. HoldsTrue(r)' BY <2>1 DEF HoldsTrue, Unsaved
    <2> QED BY <1>11, <2>1, <2>2, WholeRead
<1>12. ASSUME NEW r \in Reqs, Wrote(r, Idle), clip' = clip,
              row'.en = row'.fr, row'.ipa \in {row'.fr, Blank},
              row'.audio = "shared" => clip = row'.fr
       PROVE  WholeInv'
    <2>1. req'[r].at = "idle" /\ \A s \in Reqs \ {r} : HoldsTrue(s)'
        BY <1>12, WholeWrite DEF Idle
    <2>2. HoldsTrue(r)' BY <2>1 DEF HoldsTrue, Unsaved
    <2> QED BY <1>12, <2>1, <2>2 DEF WholeInv
<1>13. ASSUME NEW r \in Reqs, HealPlay(r) PROVE WholeInv'
    <2>1. /\ req[r].at = "healplay" /\ Wrote(r, Idle) /\ clip' = clip
          /\ req[r].goal \in {"shared", "own"}
        BY <1>13, <1>r DEF HealPlay, SlotOk
    <2>2. ~Dirty(r) BY <2>1 DEF Dirty, Unsaved
    <2>3. CASE req[r].goal = "own"
        <3>1. row' = row BY <1>13, <2>3 DEF HealPlay, Update
        <3> QED BY <1>11, <2>1, <2>2, <3>1
    <2>4. CASE req[r].goal = "shared"
        <3>1. ~torn /\ \A s \in Reqs \ {r} : ~Dirty(s) BY <2>1, WholeWrite
        <3>2. req[r].held = row /\ row # Nothing
            BY <1>w, <1>r, <2>1, <2>4, <3>1 DEF HoldsTrue, SlotOk, RowOf
        <3>3. row' = [row EXCEPT !.ipa = row.fr] BY <1>13, <2>4, <3>2 DEF HealPlay, Update, RowOf
        <3>4. row'.en = row.en /\ row'.fr = row.fr /\ row'.ipa = row.fr /\ row'.audio = row.audio
            BY <3>3, <1>r DEF Entry
        <3>5. row.en = row.fr /\ (row.audio = "shared" => clip = row.fr)
            BY <2>2, <3>1, <3>2 DEF WholeInv
        <3> QED BY <1>12, <2>1, <3>4, <3>5
    <2> QED BY <2>1, <2>3, <2>4
<1>14. ASSUME NEW r \in Reqs, Synthesize(r) PROVE WholeInv'
    <2>1. /\ req[r].at = "synth" /\ Wrote(r, [req[r] EXCEPT !.at = "remember"]) /\ row' = row
          /\ req[r].goal \in {"shared", "own"} /\ req[r].held.fr \in Spellings
        BY <1>14, <1>r DEF Synthesize, SlotOk
    <2>2. ~torn /\ \A s \in Reqs \ {r} : HoldsTrue(s)' /\ ~Dirty(s) BY <2>1, WholeWrite
    <2>3. ~Dirty(r) BY <2>1 DEF Dirty, Unsaved
    <2>4. req'[r].at = "remember" /\ req'[r].goal = req[r].goal /\ req'[r].held = req[r].held
        BY <2>1, <1>r DEF Wrote, Request
    <2>5. HoldsTrue(r) BY <1>w, <2>2
    <2>6. row # Nothing => /\ row.en = row.fr /\ row.ipa \in {row.fr, Blank}
                           /\ row.audio = "shared" => clip = row.fr
        BY <2>2, <2>3 DEF WholeInv
    <2>7. CASE req[r].goal = "own"
        <3>1. clip' = clip BY <1>14, <2>7 DEF Synthesize
        <3>2. HoldsTrue(r)' BY <2>4, <2>7 DEF HoldsTrue, Unsaved
        <3> QED BY <2>1, <2>2, <2>6, <3>1, <3>2 DEF WholeInv
    <2>8. CASE req[r].goal = "shared"
        <3>1. clip' = req[r].held.fr /\ req[r].held = row
            BY <1>14, <2>1, <2>5, <2>8 DEF Synthesize, HoldsTrue
        <3>2. HoldsTrue(r)' BY <2>1, <2>4, <2>8, <3>1 DEF HoldsTrue, Unsaved
        <3> QED BY <2>1, <2>2, <2>6, <3>1, <3>2 DEF WholeInv
    <2> QED BY <2>1, <2>7, <2>8
<1>15. ASSUME NEW r \in Reqs, Remember(r) PROVE WholeInv'
    <2>1. /\ req[r].at = "remember" /\ Wrote(r, Idle) /\ clip' = clip
          /\ req[r].goal \in {"shared", "own"}
        BY <1>15, <1>r DEF Remember, SlotOk
    <2>2. CASE req[r].goal = "own"
        <3>1. row' = row BY <1>15, <2>2 DEF Remember, Update
        <3>2. ~Dirty(r) BY <2>1, <2>2 DEF Dirty, Unsaved
        <3> QED BY <1>11, <2>1, <3>1, <3>2
    <2>3. CASE req[r].goal = "shared"
        <3>1. ~torn BY <2>1, WholeWrite
        <3>2. /\ req[r].held = row /\ row # Nothing /\ row.fr \in Spellings
              /\ clip = row.fr
            BY <1>w, <1>r, <2>1, <2>3, <3>1 DEF HoldsTrue, Unsaved, SlotOk, RowOf
        <3>3. PICK ipa \in {row.fr, row.ipa} :
                  row' = Merged(row, row, [row EXCEPT !.audio = "shared", !.ipa = ipa])
            BY <1>15, <2>3, <3>2 DEF Remember, Update, RowOf
        <3> DEFINE new == [row EXCEPT !.audio = "shared", !.ipa = ipa]
        <3>4. new \in Entry /\ new.fr = row.fr /\ new.en = row.en /\ new.ipa = ipa
            BY <1>r, <3>2 DEF Entry
        <3>5. row' = Merged(row, row, new) BY <3>3
        <3> HIDE DEF new
        <3>6. row' = new BY <3>4, <3>5, <1>r, MergedEntry
        <3>7. row.en = row.fr /\ row.ipa \in {row.fr, Blank} BY <3>1, <3>2 DEF WholeInv
        <3> QED BY <1>12, <2>1, <3>2, <3>4, <3>6, <3>7
    <2> QED BY <2>1, <2>2, <2>3
<1>16. ASSUME NEW r \in Reqs, Die(r) PROVE WholeInv'
    <2>1. UNCHANGED <<row, clip>> /\ (torn => torn') BY <1>16 DEF Die, wordVars
    <2>2. ~Dirty(r) BY <1>16 DEF Die, Dirty, Unsaved
    <2>3. req'[r].at = "idle" /\ \A s \in Reqs \ {r} : req'[s] = req[s]
        BY <1>16, <1>r DEF Die, Idle
    <2>4. HoldsTrue(r)' BY <2>3 DEF HoldsTrue, Unsaved
    <2> QED BY <2>1, <2>2, <2>3, <2>4, WholeRead
<1>17. ASSUME NEW r \in Reqs, Voice(r) PROVE WholeInv'
    BY <1>17, WholeVoice
<1>18. CASE UNCHANGED vars
    BY <1>18 DEF vars, WholeInv, HoldsTrue, Dirty, Unsaved
<1>19. 0 \in Spellings BY VocabAssumption DEF Spellings
<1> QED
    BY <1>1, <1>3, <1>4, <1>5, <1>6, <1>7, <1>8, <1>9, <1>10, <1>13, <1>14, <1>15, <1>16,
       <1>17, <1>18, <1>19 DEF Next
\* Every step that tears nothing leaves the row its accents.
LEMMA AccentsStep == TypeInv /\ WholeInv /\ [Next]_vars => KeepsAccents \/ UNCHANGED vars
<1> SUFFICES ASSUME TypeInv, WholeInv, Next, ~torn' PROVE row'.fr >= row.fr
    BY DEF KeepsAccents
<1>r. /\ row \in Entry /\ RowsOk /\ req \in [Reqs -> Request] /\ row.fr \in Int
      /\ \A r \in Reqs : SlotOk(r) /\ req[r] \in Request
    BY VocabAssumption DEF TypeInv, TypeOK, Entry, Spellings, Blank
<1>1. ASSUME NEW r \in Reqs, Store(r) PROVE row'.fr >= row.fr
    <2> DEFINE new == req[r].new
    <2>1. ~torn BY <1>1 DEF Store, Wrote
    <2>2. /\ req[r].held = row /\ new \in Entry /\ new.fr \in Spellings
          /\ row = Nothing \/ new.fr > row.fr
        BY <1>1, <1>r, <2>1 DEF WholeInv, HoldsTrue, Store, SlotOk, Request
    <2>3. row' = new BY <1>1, <1>r, <2>2, MergedEntry DEF Store
    <2>4. CASE row = Nothing
        BY <2>2, <2>3, <2>4, VocabAssumption DEF Nothing, Spellings, Blank
    <2>5. CASE new.fr > row.fr
        BY <1>r, <2>2, <2>3, <2>5, VocabAssumption DEF Spellings
    <2> QED BY <2>2, <2>4, <2>5
<1>2. ASSUME NEW r \in Reqs, HealIpa(r) \/ HealGloss(r) \/ HealPlay(r) PROVE row'.fr = row.fr
    <2>1. \/ row' = row
          \/ row' = [row EXCEPT !.ipa = req[r].held.fr]
          \/ row' = [row EXCEPT !.en = req[r].held.fr]
        <3>1. CASE HealIpa(r) BY <3>1 DEF HealIpa
        <3>2. CASE HealGloss(r) BY <3>2 DEF HealGloss
        <3>3. CASE HealPlay(r) BY <3>3 DEF HealPlay, Update, RowOf
        <3> QED BY <1>2, <3>1, <3>2, <3>3
    <2> QED BY <2>1, <1>r DEF Entry
<1>3. ASSUME NEW r \in Reqs, Remember(r) PROVE row'.fr = row.fr
    <2> DEFINE held == req[r].held
               goal == req[r].goal
    <2>1. PICK ipa \in {held.fr, held.ipa} :
              Update(goal, Merged(RowOf(goal), held, [held EXCEPT !.audio = goal, !.ipa = ipa]))
        BY <1>3 DEF Remember
    <2>2. CASE goal = "own" BY <2>1, <2>2 DEF Update
    <2>3. CASE goal = "shared"
        <3> DEFINE new == [held EXCEPT !.audio = "shared", !.ipa = ipa]
        <3>1. held \in Entry /\ held.fr \in Spellings BY <1>3, <1>r DEF Remember, SlotOk, Request
        <3>2. new \in Entry /\ new.fr = held.fr BY <3>1 DEF Entry
        <3>3. row' = Merged(row, held, new) BY <2>1, <2>3 DEF Update, RowOf
        <3> HIDE DEF held, new
        <3> QED BY <3>1, <3>2, <3>3, <1>r, MergedEntry
    <2> QED BY <1>3, <1>r, <2>2, <2>3 DEF Remember, SlotOk
<1>4. ASSUME NEW r \in Reqs,
             \/ \E typed \in Spellings : Look(r, typed) \/ AddClient(r, typed)
             \/ Enrich(r) \/ Voice(r) \/ MergeRead(r) \/ AddFound(r) \/ CommitAdd(r)
             \/ StartReview(r) \/ CommitReview(r) \/ Synthesize(r) \/ Die(r)
             \/ \E which \in {"shared", "own"} : Play(r, which)
      PROVE  row' = row
    BY <1>4 DEF Look, AddClient, Enrich, Voice, MergeRead, AddFound, CommitAdd, StartReview,
                CommitReview, Synthesize, Die, Play, wordVars
<1> QED BY <1>1, <1>2, <1>3, <1>4, <1>r DEF Next

\* A re-lookup never mixes spellings: between requests the shared row is whole, unless two
\* requests used the word at once or one died between the object store and its commit.
THEOREM RowStaysWhole == Spec => []RowIsWhole
<1>1. WholeInv => RowIsWhole
    <2> SUFFICES ASSUME WholeInv, Quiet, ~torn, row # Nothing
                 PROVE  /\ row.en = row.fr
                        /\ row.ipa \in {row.fr, Blank}
                        /\ row.audio = "shared" => clip = row.fr
        BY DEF RowIsWhole
    <2>1. \A r \in Reqs : ~Dirty(r) BY DEF Quiet, Dirty, Unsaved
    <2> QED BY <2>1 DEF WholeInv
<1> QED BY TypeInit, TypeStep, WholeInit, WholeStep, <1>1, PTL DEF Spec

\* With the same exceptions, the shared row never loses an accent.
THEOREM AccentsStay == Spec => SpellingKeepsAccents
BY TypeInit, TypeStep, WholeInit, WholeStep, AccentsStep, PTL DEF Spec, SpellingKeepsAccents
=============================================================================
