----------------------------- MODULE VocabReview -----------------------------
(***************************************************************************)
(* The debrief of a spoken session (app/speech/vocab_review): the words a  *)
(* model found in the transcript are matched against the course, and what  *)
(* is in neither the course nor the learner's deck is offered as new.      *)
(* Operators, and the specification of one debrief.                        *)
(*                                                                         *)
(* A word is its letters without accents, what marks them, how its parts   *)
(* are joined, and whether an article leads it.  Case, punctuation and the *)
(* two apostrophes are left out.                                           *)
(***************************************************************************)
EXTENDS Integers, Sequences, SequencesExt

CONSTANTS
    Letters,  \* spellings without accents, joins and articles
    RowIds,   \* ids of the rows of the course
    NoRow,    \* no row of the course
    Debriefs  \* what there may be to debrief: a course, a deck and a model's words

Words == [letters : Letters, marks : {"none", "accent", "ligature"},
          join : {"none", "space", "hyphen"}, article : BOOLEAN]

Rows == [id : RowIds, fr : Words]

ASSUME ReviewAssumption ==
    /\ NoRow \notin Rows
    /\ \A d \in Debriefs : d.content \in Seq(Rows) /\ d.words \in Seq(Words) /\ d.limit \in Nat

VARIABLE debrief    \* the debrief of the session, once it has one

Norm(w) == [w EXCEPT !.article = FALSE]

Deaccent(w) == [w EXCEPT !.marks = "none"]

\* _match_key: hyphens as spaces.
MatchKey(w) ==
    LET n == Deaccent(Norm(w))
    IN [n EXCEPT !.join = IF @ = "hyphen" THEN "space" ELSE @]

\* slugify: either join is an underscore, and so is a ligature, which has no accent to lose.
PersonalKey(w) == <<w.letters, w.marks = "ligature", w.join # "none">>

\* The dictionaries of resolve_to_vocab keep the first row of a key.
FirstRow(content, Key(_), k) ==
    IF \E i \in DOMAIN content : Key(content[i].fr) = k
    THEN content[CHOOSE i \in DOMAIN content :
                    /\ Key(content[i].fr) = k
                    /\ \A j \in 1..(i - 1) : Key(content[j].fr) # k]
    ELSE NoRow

Loose(w) == Deaccent(Norm(w))

\* The accents decide if there is a row with the same; else they do not matter.
RowOf(content, w) ==
    LET exact == FirstRow(content, Norm, Norm(w))
    IN IF exact # NoRow THEN exact ELSE FirstRow(content, Loose, Loose(w))

\* One word more: its row is picked if there is room and it is new.
PickRow(content, already, limit, picked, w) ==
    LET row == RowOf(content, w)
    IN IF /\ Len(picked) < limit
          /\ row # NoRow
          /\ row.id \notin already
          /\ \A i \in DOMAIN picked : picked[i] # row.id
       THEN Append(picked, row.id) ELSE picked

\* The rows of the course, first come first offered, that are not in review yet.
ResolveToVocab(content, already, words, limit) ==
    LET Pick(picked, w) == PickRow(content, already, limit, picked, w)
    IN FoldLeft(Pick, <<>>, words)

InCourse_AsSpelled(content, w) == \E i \in DOMAIN content : Norm(content[i].fr) = Norm(w)

InCourse(content, w) == \E i \in DOMAIN content : Loose(content[i].fr) = Loose(w)

\* One word more: it is new if it has no row, no card, and none before it would share its card.
PickNew(content, owned, limit, out, w) ==
    IF /\ Len(out) < limit
       /\ ~InCourse(content, w)
       /\ PersonalKey(Norm(w)) \notin owned
       /\ \A i \in DOMAIN out : PersonalKey(out[i]) # PersonalKey(Norm(w))
    THEN Append(out, Norm(w)) ELSE out

\* The words that have no row and no card, one for each key a card of theirs would get.
ResolveNewWords(content, owned, words, limit) ==
    LET Pick(out, w) == PickNew(content, owned, limit, out, w)
    IN FoldLeft(Pick, <<>>, words)

\* find_content_match, for which from-word refuses a word.
FindContentMatch(content, w) == {i \in DOMAIN content : MatchKey(content[i].fr) = MatchKey(w)}

\* session_vocab_review, within its budget: extract_review_words hands on what the model
\* replied, up to ten words, or none for a transcript without text.
Debrief(content, already, owned, words, limit) ==
    [candidates |-> ResolveToVocab(content, already, words, limit),
     new_words |-> ResolveNewWords(content, owned, words, limit)]

NoDebrief == [content |-> <<>>, already |-> {}, owned |-> {}, words |-> <<>>, limit |-> 1]

DebriefInit == debrief = NoDebrief

DebriefNext == debrief = NoDebrief /\ debrief' \in Debriefs

DebriefSpec == DebriefInit /\ [][DebriefNext]_debrief

-----------------------------------------------------------------------------
\* Properties

\* Whatever the model replied, what a debrief offers can be taken: a row once, that is not
\* in review; a word in one of the two lists; a new word once for each key a card of it
\* would get, that is not in the deck.  And from-word does not refuse a new word ("the
\* intended Speaking UI flow never offers these", personal_api.py:228), except a word that
\* differs from one of the course by a hyphen: resolve_new_words compares words by
\* _deaccent(_norm), find_content_match by _match_key.
OffersCanBeTaken ==
    LET d == debrief
        offer == Debrief(d.content, d.already, d.owned, d.words, d.limit)
        cards == offer.candidates
        new == offer.new_words
    IN /\ \A i, j \in DOMAIN cards : cards[i] = cards[j] => i = j
       /\ \A i \in DOMAIN cards : cards[i] \notin d.already
       /\ \A i, j \in DOMAIN new :
              PersonalKey(new[i]) = PersonalKey(new[j]) => i = j
       /\ \A i \in DOMAIN new :
              /\ PersonalKey(new[i]) \notin d.owned
              /\ RowOf(d.content, new[i]) = NoRow
              /\ \A m \in FindContentMatch(d.content, new[i]) :
                     {d.content[m].fr.join, new[i].join} = {"hyphen", "space"}

=============================================================================
