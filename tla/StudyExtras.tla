----------------------------- MODULE StudyExtras -----------------------------
(***************************************************************************)
(* The study extras of one card of one learner (app/content/vocab_extra,   *)
(* vocab_extra_api and the generators of forms.py): the table of word      *)
(* forms, generated once, and the rolling history of example sentences.    *)
(*                                                                         *)
(* A request reads the row in autocommit, calls the model, and only then   *)
(* takes the write lock: billing the call flushes before the row is looked *)
(* up again.  A word that does not inflect is not billed, so there the     *)
(* second look at the row is not under the lock.                           *)
(***************************************************************************)
EXTENDS Integers, Sequences, SequencesExt

CONSTANTS
    Slots,      \* request slots
    Keys,       \* sentences up to case
    Tables,     \* form tables the model may answer with
    NoTable,    \* the empty table: "this word has no useful form table"
    Null,       \* forms never generated
    Count,      \* sentences asked for at a time
    MAX_EXAMPLE_HISTORY,
    MaxPresses  \* bound: the answers to a press that are stored

ASSUME StudyExtrasAssumption ==
    /\ Count \in Nat \ {0} /\ MAX_EXAMPLE_HISTORY \in Nat \ {0} /\ MaxPresses \in Nat
    /\ NoTable \notin Tables
    /\ Null \notin Tables \cup {NoTable}

VARIABLES
    inflects,  \* the card's part of speech is one of _INFLECTING_POS
    row,       \* the vocab_extra row
    extras,    \* what each slot is doing
    told,      \* history: every sentence stored so far, newest first, none twice
    presses,   \* history: how many answers were stored
    lost,      \* history: an answer was stored over one its request had not read
    twice      \* history: two requests have generated the forms at once

cardVars == <<inflects, row, extras, told, presses, lost, twice>>

\* A sentence is its key and the case it happens to be in.
Sentences == Keys \X {"lower", "mixed"}

Row == [exists : BOOLEAN, forms : Tables \cup {NoTable, Null}, examples : Seq(Sentences)]
NoRow == [exists |-> FALSE, forms |-> Null, examples |-> <<>>]

\* "loaded": the row was there when the request read it; "stale": examples were stored since.
CardSlot == [at : {"idle", "forms", "insert", "examples"}, loaded : BOOLEAN,
             history : Seq(Sentences), stale : BOOLEAN]
CardIdle == [at |-> "idle", loaded |-> FALSE, history |-> <<>>, stale |-> FALSE]

CardInit ==
    /\ inflects \in BOOLEAN
    /\ row = NoRow
    /\ extras = [r \in Slots |-> CardIdle]
    /\ told = <<>>
    /\ presses = 0
    /\ lost = FALSE
    /\ twice = FALSE

-----------------------------------------------------------------------------
\* forms.py

\* _parse_examples and the cut to n: up to Count sentences, or none if the reply cannot
\* be parsed; nothing keeps the model from repeating one.
Replies == UNION {[1..n -> Sentences] : n \in 0..Count}

Kept(shown, x) == IF \E i \in DOMAIN shown : shown[i][1] = x[1] THEN shown ELSE Append(shown, x)

Distinct(s) == FoldLeft(Kept, <<>>, s)

Capped(s) == SubSeq(s, 1, IF Len(s) < MAX_EXAMPLE_HISTORY THEN Len(s) ELSE MAX_EXAMPLE_HISTORY)

\* merge_examples: newest first, one sentence per lower-cased text, capped.  The slip puts
\* the old ones first.
Merge_OldFirst(history, fresh) == Capped(Distinct(history \o fresh))

Merge(history, fresh) == Capped(Distinct(fresh \o history))

\* generate_forms and _parse_forms: a word that does not inflect has the empty table, and
\* so has one the model's reply on which cannot be parsed.
Answers == IF inflects THEN Tables \cup {NoTable} ELSE {NoTable}

-----------------------------------------------------------------------------
\* The other requests hold an older history than what is stored now.
CardEnds(r, written) ==
    extras' = [s \in Slots |-> IF s = r THEN CardIdle
                              ELSE IF written /\ extras[s].at = "examples"
                                   THEN [extras[s] EXCEPT !.stale = TRUE] ELSE extras[s]]

Generating == {r \in Slots : extras[r].at \in {"forms", "insert"}}

\* card_forms: forms generated before, be they empty, are served from the row.
ReadForForms_Empty(r) ==
    /\ extras[r].at = "idle"
    /\ row.forms \in {Null, NoTable}
    /\ extras' = [extras EXCEPT ![r] = [CardIdle EXCEPT !.at = "forms", !.loaded = row.exists]]
    /\ twice' = (twice \/ Generating # {})
    /\ UNCHANGED <<row, told, presses, lost>>

ReadForForms(r) ==
    /\ extras[r].at = "idle"
    /\ row.forms = Null
    /\ extras' = [extras EXCEPT ![r] = [CardIdle EXCEPT !.at = "forms", !.loaded = row.exists]]
    /\ twice' = (twice \/ Generating # {})
    /\ UNCHANGED <<row, told, presses, lost>>

\* The billed call holds the write lock from before the second look at the row: whichever
\* row is there gets the forms, else one is inserted.
StoreForms(r) ==
    /\ extras[r].at = "forms"
    /\ inflects \/ row.exists
    /\ \E t \in Answers : row' = [row EXCEPT !.exists = TRUE, !.forms = t]
    /\ CardEnds(r, FALSE)
    /\ UNCHANGED <<told, presses, lost, twice>>

\* An unbilled request saw no row outside the lock ...
WillInsert(r) ==
    /\ extras[r].at = "forms"
    /\ ~inflects /\ ~row.exists
    /\ extras' = [extras EXCEPT ![r].at = "insert"]
    /\ UNCHANGED <<row, told, presses, lost, twice>>

\* ... and the unique key lets its INSERT through only if there is none still.
InsertForms(r) ==
    /\ extras[r].at = "insert"
    /\ ~row.exists
    /\ row' = [NoRow EXCEPT !.exists = TRUE, !.forms = NoTable]
    /\ CardEnds(r, FALSE)
    /\ UNCHANGED <<told, presses, lost, twice>>

\* card_examples up to the model call: the history is read here.
ReadForExamples(r) ==
    /\ extras[r].at = "idle"
    /\ presses < MaxPresses
    /\ extras' = [extras EXCEPT ![r] = [CardIdle EXCEPT !.at = "examples", !.loaded = row.exists,
                                                       !.history = row.examples]]
    /\ UNCHANGED <<row, told, presses, lost, twice>>

\* The merged list is written under the lock as a whole; a row loaded before is not
\* loaded again, and written only if the list differs from what was loaded.
StoreExamples(r) ==
    /\ extras[r].at = "examples"
    /\ presses < MaxPresses
    /\ \E fresh \in Replies :
         LET merged == Merge(extras[r].history, fresh)
             written == ~(extras[r].loaded /\ merged = extras[r].history)
         IN /\ row' = [row EXCEPT !.exists = TRUE, !.examples = IF written THEN merged ELSE @]
            /\ told' = Distinct(fresh \o told)
            /\ lost' = (lost \/ extras[r].stale)
            /\ CardEnds(r, written)
    /\ presses' = presses + 1
    /\ UNCHANGED twice

\* A provider that fails, a row that is locked or there already: nothing is kept.
Dies(r) ==
    /\ extras[r].at # "idle"
    /\ extras' = [extras EXCEPT ![r] = CardIdle]
    /\ UNCHANGED <<row, told, presses, lost, twice>>

CardNext ==
    /\ UNCHANGED inflects
    /\ \E r \in Slots :
        \/ ReadForForms(r) \/ StoreForms(r) \/ WillInsert(r) \/ InsertForms(r)
        \/ ReadForExamples(r) \/ StoreExamples(r) \/ Dies(r)

CardSpec == CardInit /\ [][CardNext]_cardVars

-----------------------------------------------------------------------------
\* Every variable stays in its set.
CardTypeOK ==
    /\ inflects \in BOOLEAN
    /\ row \in Row
    /\ extras \in [Slots -> CardSlot]
    /\ told \in Seq(Sentences)
    /\ presses \in 0..MaxPresses
    /\ lost \in BOOLEAN /\ twice \in BOOLEAN

\* "prepended to a small rolling history so past sentences stay visible"
\* (vocab_extra_api.py:112): as long as no press was stored over one it had not read, the
\* card shows the newest MAX_EXAMPLE_HISTORY of all the sentences it was ever told.
PastStaysVisible == ~lost => row.examples = Capped(told)

\* "generated once and cached" (vocab_extra_api.py:80): forms once stored, the empty table
\* too, are never replaced, except by a request that was generating them at the same time;
\* and neither storing the forms nor storing examples touches the other column.
FormsAreStable ==
    [][/\ row.forms # Null /\ row'.forms # row.forms => twice
       /\ row.forms # row'.forms => row'.examples = row.examples]_cardVars

=============================================================================
