---------------------------- MODULE PersonalVocab ----------------------------
(***************************************************************************)
(* One word of the learners' own vocabulary: the dictionary row and the    *)
(* pronunciation clip that everybody shares (content/lookup), one          *)
(* learner's card of the word (content/personal) and its review card       *)
(* (srs/service), under the requests of content/personal_api and srs/api.  *)
(*                                                                         *)
(* The spellings of a word that share its key, with and without accents,   *)
(* are numbered by their accents; a meaning, an IPA and a clip are those   *)
(* of a spelling.  The state of a review card is how many ratings it has   *)
(* had.  The clip a card gets of its own is left out: it pronounces the    *)
(* spelling of that card, which never changes.  Requests interleave at     *)
(* every await, as in Progress; the object store is no part of their       *)
(* transactions.                                                           *)
(***************************************************************************)
EXTENDS Integers

CONSTANTS
    Reqs,        \* request slots
    MaxAccents,  \* bound: the spellings of the word
    MaxRatings   \* bound: how many reviews are answered

ASSUME VocabAssumption == MaxAccents \in Nat /\ MaxRatings \in Nat

VARIABLES
    row,       \* the vocab_lookup row of the word, shared
    clip,      \* the spelling the stored clip of the shared row pronounces
    card,      \* the learner's user_vocab row
    review,    \* the ratings its srs_cards row has had, Blank for no row
    req,       \* what each slot is doing
    answered,  \* history: the ratings that were committed
    crossed,   \* history: two reviews of the card were in flight at once
    torn       \* history: a row or clip was written while another request used one, or a
               \* request died between storing a clip and its commit

vars == <<row, clip, card, review, req, answered, crossed, torn>>
wordVars == <<row, clip, card>>
histVars == <<answered, crossed, torn>>

Spellings == 0..MaxAccents
Blank == -1

\* A row of either table: spelling, meaning, IPA, and under which key its clip is.
Entry == [fr : Spellings \cup {Blank}, en : Spellings \cup {Blank},
          ipa : Spellings \cup {Blank}, audio : {"none", "shared", "own"}]

Nothing == [fr |-> Blank, en |-> Blank, ipa |-> Blank, audio |-> "none"]

\* A spelling with its meaning, not voiced yet.
Meaning(fr) == [fr |-> fr, en |-> fr, ipa |-> Blank, audio |-> "none"]

Idle == [at |-> "idle", goal |-> "found", typed |-> 0,
         held |-> Nothing, new |-> Nothing, seen |-> Blank]

Init ==
    /\ row = Nothing
    /\ clip = Blank
    /\ card = Nothing
    /\ review = Blank
    /\ req = [r \in Reqs |-> Idle]
    /\ answered = 0
    /\ crossed = FALSE
    /\ torn = FALSE

Others(r) == \E s \in Reqs \ {r} : req[s].at \notin {"idle", "review"}

\* A write to a row or a clip; the slot goes on as q.
Wrote(r, q) ==
    /\ req' = [req EXCEPT ![r] = q]
    /\ torn' = (torn \/ Others(r))
    /\ UNCHANGED <<answered, crossed>>

-----------------------------------------------------------------------------
\* Looking a word up (preview, from-word)

\* Better accents typed than the row has make it a miss.
CachedLookup(typed) == row # Nothing /\ typed <= row.fr

Look(r, typed) ==
    /\ req[r] = Idle
    /\ req' = [req EXCEPT ![r] =
           IF CachedLookup(typed)
           THEN [Idle EXCEPT !.at = IF row.ipa = Blank THEN "heal" ELSE "gloss", !.held = row]
           ELSE [Idle EXCEPT !.at = "ask", !.typed = typed]]
    /\ UNCHANGED <<wordVars, review, histVars>>

\* What becomes of the row _lookup returns: preview answers it, from-word goes on.
Found(found) == {Idle, [Idle EXCEPT !.at = "find", !.new = found]}

\* heal_ipa: one column is written, of whatever row there is by then.
HealIpa(r) ==
    /\ req[r].at = "heal"
    /\ \/ /\ row' = [row EXCEPT !.ipa = req[r].held.fr]
          /\ Wrote(r, [req[r] EXCEPT !.at = "gloss", !.held.ipa = req[r].held.fr])
       \/ /\ req' = [req EXCEPT ![r].at = "gloss"]     \* a hiccup of the TTS
          /\ UNCHANGED <<row, answered, crossed, torn>>
    /\ UNCHANGED <<clip, card, review>>

\* heal_gloss: the meaning the dictionary has for the spelling that was read.
HealGloss(r) ==
    LET held == req[r].held IN
    /\ req[r].at = "gloss"
    /\ IF held.en # held.fr
       THEN /\ row' = [row EXCEPT !.en = held.fr]
            /\ \E q \in Found([held EXCEPT !.en = held.fr]) : Wrote(r, q)
       ELSE /\ \E q \in Found(held) : req' = [req EXCEPT ![r] = q]
            /\ UNCHANGED <<row, answered, crossed, torn>>
    /\ UNCHANGED <<clip, card, review>>

\* The spellings _headword may settle on: no accent is lost.
Headwords(typed) == typed..MaxAccents

\* The model, or the dictionary, knows no meaning; or a spelling and its meaning.
Enrich(r) ==
    /\ req[r].at = "ask"
    /\ \/ req' = [req EXCEPT ![r] = Idle]
       \/ \E fr \in Headwords(req[r].typed) :
            req' = [req EXCEPT ![r] = [Idle EXCEPT !.at = "voice", !.new = Meaning(fr)]]
    /\ UNCHANGED <<wordVars, review, histVars>>

\* The clip is synthesized and stored, with or without an IPA, or left for later.
Voice(r) ==
    LET fr == req[r].new.fr IN
    /\ req[r].at = "voice"
    /\ \/ /\ clip' = fr
          /\ \E ipa \in {fr, Blank} :
              Wrote(r, [req[r] EXCEPT !.at = "merge", !.new.ipa = ipa, !.new.audio = "shared"])
       \/ /\ req' = [req EXCEPT ![r].at = "merge"]
          /\ UNCHANGED <<clip, answered, crossed, torn>>
    /\ UNCHANGED <<row, card, review>>

\* session.merge reads the row ...
MergeRead(r) ==
    /\ req[r].at = "merge"
    /\ req' = [req EXCEPT ![r].at = "store", ![r].held = row]
    /\ UNCHANGED <<wordVars, review, histVars>>

\* A plausible slip: what the TTS left blank keeps the old row's value.
Merged_Keeping(current, held, new) ==
    [current EXCEPT !.fr = new.fr, !.en = new.en,
                    !.ipa = IF new.ipa = Blank THEN @ ELSE new.ipa,
                    !.audio = IF new.audio = "none" THEN @ ELSE new.audio]

\* Written are the columns in which the new row differs from the one that was read.
Merged(current, held, new) ==
    [field \in DOMAIN new |-> IF new[field] = held[field] THEN current[field] ELSE new[field]]

\* ... and the flush inserts or updates.  An INSERT that lost a race fails: see Die.
Store(r) ==
    LET held == req[r].held  new == req[r].new IN
    /\ req[r].at = "store"
    /\ held = Nothing => row = Nothing
    /\ row' = IF held = Nothing THEN new ELSE Merged(row, held, new)
    /\ \E q \in Found(new) : Wrote(r, q)
    /\ UNCHANGED <<clip, card, review>>

-----------------------------------------------------------------------------
\* The learner's card and its reviews

\* add_personal reads the card, for a spelling the client sends or one looked up.
AddClient(r, typed) ==
    /\ req[r] = Idle
    /\ req' = [req EXCEPT ![r] = [Idle EXCEPT !.at = "add", !.goal = "client", !.held = card,
                                              !.new = Meaning(typed)]]
    /\ UNCHANGED <<wordVars, review, histVars>>

AddFound(r) ==
    /\ req[r].at = "find"
    /\ req' = [req EXCEPT ![r].at = "add", ![r].held = card]
    /\ UNCHANGED <<wordVars, review, histVars>>

\* A plausible slip: adding a word again starts its reviews over.
Seeded_Anew == 0

\* seed_cards: a card that is there is left alone.
Seeded == IF review = Blank THEN 0 ELSE review

\* A plausible slip: adding a word again replaces what its card says.
Kept_Replaced(held, new, looked) == [new EXCEPT !.ipa = looked.ipa, !.audio = looked.audio]

\* An existing card keeps everything, and takes the shared clip if it had none.
Kept(held, new, looked) ==
    [card EXCEPT !.audio = IF held.audio = "none" /\ looked.audio # "none" THEN looked.audio
                           ELSE @]

\* From the INSERT of the card, or the first write after it was found, to the commit.
\* The client's card takes IPA and clip from the shared row of that moment.
CommitAdd(r) ==
    LET held == req[r].held
        new == req[r].new
        looked == IF req[r].goal = "client" THEN row ELSE new
    IN
    /\ req[r].at = "add"
    /\ held = Nothing => card = Nothing
    /\ card' = IF held = Nothing THEN [new EXCEPT !.ipa = looked.ipa, !.audio = looked.audio]
               ELSE Kept(held, new, looked)
    /\ review' = Seeded
    /\ Wrote(r, Idle)
    /\ UNCHANGED <<row, clip>>

\* post_review reads the card in autocommit, and its first write is in record_activity.
StartReview(r) ==
    /\ req[r] = Idle
    /\ review # Blank
    /\ answered < MaxRatings
    /\ req' = [req EXCEPT ![r] = [Idle EXCEPT !.at = "review", !.seen = review]]
    /\ crossed' = (crossed \/ \E s \in Reqs : req[s].at = "review")
    /\ UNCHANGED <<wordVars, review, answered, torn>>

CommitReview(r) ==
    /\ req[r].at = "review"
    /\ review' = req[r].seen + 1
    /\ answered' = answered + 1
    /\ req' = [req EXCEPT ![r] = Idle]
    /\ UNCHANGED <<wordVars, crossed, torn>>

-----------------------------------------------------------------------------
\* Playing the shared row or the card (_serve_audio)

RowOf(which) == IF which = "shared" THEN row ELSE card

Update(which, new) ==
    IF which = "shared" THEN row' = new /\ UNCHANGED card ELSE card' = new /\ UNCHANGED row

\* A clip is served, and a missing IPA healed; or there is no clip, or the store has lost it.
Play(r, which) ==
    LET held == RowOf(which) IN
    /\ req[r] = Idle
    /\ held # Nothing
    /\ \E at \in {"synth"} \cup (IF held.audio # "none" /\ held.ipa = Blank THEN {"healplay"} ELSE {}) :
           req' = [req EXCEPT ![r] = [Idle EXCEPT !.at = at, !.goal = which, !.held = held]]
    /\ UNCHANGED <<wordVars, review, histVars>>

HealPlay(r) ==
    LET which == req[r].goal IN
    /\ req[r].at = "healplay"
    /\ Update(which, [RowOf(which) EXCEPT !.ipa = req[r].held.fr])
    /\ Wrote(r, Idle)
    /\ UNCHANGED <<clip, review>>

Synthesize(r) ==
    /\ req[r].at = "synth"
    /\ clip' = IF req[r].goal = "shared" THEN req[r].held.fr ELSE clip
    /\ Wrote(r, [req[r] EXCEPT !.at = "remember"])
    /\ UNCHANGED <<row, card, review>>

\* A fresh IPA replaces whatever was there; the TTS may have none.
Remember(r) ==
    LET which == req[r].goal  held == req[r].held IN
    /\ req[r].at = "remember"
    /\ \E ipa \in {held.fr, held.ipa} :
        Update(which, Merged(RowOf(which), held, [held EXCEPT !.audio = which, !.ipa = ipa]))
    /\ Wrote(r, Idle)
    /\ UNCHANGED <<clip, review>>

\* A request fails, its INSERT loses a race, or its client goes: its session is rolled
\* back, what it put into the object store stays.
Die(r) ==
    /\ req[r] # Idle
    /\ req' = [req EXCEPT ![r] = Idle]
    /\ torn' = \/ torn
               \/ req[r].at = "remember"
               \/ req[r].at \in {"merge", "store"} /\ req[r].new.audio = "shared"
    /\ UNCHANGED <<wordVars, review, answered, crossed>>

Next ==
    \E r \in Reqs :
        \/ \E typed \in Spellings : Look(r, typed) \/ AddClient(r, typed)
        \/ HealIpa(r)
        \/ HealGloss(r)
        \/ Enrich(r)
        \/ Voice(r)
        \/ MergeRead(r)
        \/ Store(r)
        \/ AddFound(r)
        \/ CommitAdd(r)
        \/ StartReview(r)
        \/ CommitReview(r)
        \/ \E which \in {"shared", "own"} : Play(r, which)
        \/ HealPlay(r)
        \/ Synthesize(r)
        \/ Remember(r)
        \/ Die(r)

Spec == Init /\ [][Next]_vars

-----------------------------------------------------------------------------
\* Properties

Request ==
    [at : {"idle", "heal", "gloss", "ask", "voice", "merge", "store", "find", "add", "review",
           "healplay", "synth", "remember"},
     goal : {"found", "client", "shared", "own"}, typed : Spellings,
     held : Entry, new : Entry, seen : Nat \cup {Blank}]

\* Rows, clips and slots are well typed; the learner has a card of the word exactly when
\* it is in their reviews, whatever failed or raced while it was added.
TypeOK ==
    /\ row \in Entry /\ card \in Entry
    /\ clip \in Spellings \cup {Blank}
    /\ req \in [Reqs -> Request]
    /\ answered \in Nat /\ review \in Nat \cup {Blank}
    /\ crossed \in BOOLEAN /\ torn \in BOOLEAN
    /\ card # Nothing <=> review # Blank

Quiet == \A r \in Reqs : req[r].at \in {"idle", "review"}

\* "A re-lookup must not keep the old spelling's IPA/clip" (content/lookup.py:98): between
\* requests the shared row's meaning, IPA and clip are those of its spelling, after any
\* sequence of lookups, re-lookups, healings and plays with a TTS that may fail, unless
\* two requests used the word at once or one died between the object store and its commit.
RowIsWhole ==
    Quiet /\ ~torn /\ row # Nothing =>
        /\ row.en = row.fr
        /\ row.ipa \in {row.fr, Blank}
        /\ row.audio = "shared" => clip = row.fr

KeepsAccents == ~torn' => row'.fr >= row.fr

\* The shared row never loses an accent (QA 890, cached_lookup), with the same exceptions.
SpellingKeepsAccents == [][KeepsAccents]_vars

KeepsCard ==
    /\ card # Nothing => /\ card'.fr = card.fr /\ card'.en = card.en
                         /\ card.audio # "none" => card'.audio # "none"
    /\ review # Blank => review' >= review \/ review' > 0

\* "Re-adding a word never clobbers it or resets its review progress" (content/personal.py
\* add_personal), whatever races: the card keeps spelling and meaning, a card that can be
\* heard stays so, and one that was rated never is new again.
CardIsKept == [][KeepsCard]_vars

\* Every rating that was answered moved the card once, unless two reviews of it were in
\* flight at once; and no rating ever moved it twice (srs/service.py review_card).
RatingsCount ==
    review # Blank => review <= answered /\ (~crossed => review = answered)

=============================================================================
