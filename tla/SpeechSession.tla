---------------------------- MODULE SpeechSession ----------------------------
(***************************************************************************)
(* One learner's speaking practice (app/speech): spoken turns and openers  *)
(* append to conversations, and of any examiner line the learner may play  *)
(* the audio and toggle the English subtitle, both made on demand.         *)
(*                                                                         *)
(* The turns of all conversations are one table in the order of their      *)
(* commits.  A request is one step per await up to its write.  The daily   *)
(* budget is UsageMeter's; here a request may be refused at any time.      *)
(* Speech-to-text and text-to-speech are configured.                       *)
(***************************************************************************)
EXTENDS Integers, Sequences, FiniteSets

CONSTANTS
    Reqs,        \* request slots
    Sessions,    \* session ids the client makes up; NoSession for an empty one
    NoSession,
    HistoryMax,  \* _HISTORY_MAX_TURNS
    TrimBlock,   \* _HISTORY_TRIM_BLOCK
    MaxTurns,    \* bound: the turns of the learner
    Touched,     \* bound: the turns whose audio or subtitle is asked for
    MaxPaid      \* bound: no subtitle is asked for of a line paid this often

ASSUME SpeechAssumption ==
    /\ NoSession \in Sessions
    /\ TrimBlock \in Nat \ {0}
    /\ HistoryMax \in Nat
    /\ TrimBlock <= HistoryMax
    /\ MaxTurns \in Nat
    /\ Touched \subseteq 1..MaxTurns
    /\ MaxPaid \in Nat

VARIABLES
    turns,   \* the speech_turns rows
    clips,   \* the object store: the turns whose reply it has, 0 for the canned line
    req,     \* what each slot is doing
    paid,    \* history: the calls that gave a line its English
    raced    \* history: lines two requests translated at once

vars == <<turns, clips, req, paid, raced>>

\* What the examiner says: an authored greeting or opener, a line of the model, or
\* nothing (the model's answer was blank).
Lines == {"authored", "model", "blank"}

\* reply_en: NULL, the empty string, or English.
Subtitles == {"null", "blank", "english"}

Turn == [sess : Sessions, line : Lines, keyed : BOOLEAN, en : Subtitles]

\* "n" turns were counted, and the prompt holds those after "from" up to "to".
Request == [at : {"idle", "counted", "asking", "opening", "voiced", "translating",
                  "voicing", "put"},
            sess : Sessions, n : Nat, from : Nat, to : Nat, of : Nat, seen : Subtitles]

Idle == [at |-> "idle", sess |-> NoSession, n |-> 0, from |-> 0, to |-> 0, of |-> 0,
         seen |-> "null"]

Init ==
    /\ turns = << >>
    /\ clips = {}
    /\ req = [r \in Reqs |-> Idle]
    /\ paid = [t \in Touched |-> 0]
    /\ raced = {}

-----------------------------------------------------------------------------
\* The prompt

\* The turns _recent_history selects: those of the conversation, or without a session
\* id all of the learner's.
InScope(s) == {i \in DOMAIN turns : s = NoSession \/ turns[i].sess = s}

\* How many of n turns are left out: none up to the cap, then whole blocks.
Cut_Late(n) ==
    LET over == n - HistoryMax
    IN IF over <= 0 THEN 0 ELSE (over \div TrimBlock) * TrimBlock

Cut(n) ==
    LET over == n - HistoryMax
    IN IF over <= 0 THEN 0 ELSE ((over - 1) \div TrimBlock + 1) * TrimBlock

\* A request takes a free slot, or moves on.
Moves(r, m) == req' = [req EXCEPT ![r] = m]

\* speech_turn: the turns are counted in one statement and read in the next.
CountTurns(r, s) ==
    /\ req[r].at = "idle"
    /\ Moves(r, [Idle EXCEPT !.at = "counted", !.sess = s, !.n = Cardinality(InScope(s))])
    /\ UNCHANGED <<turns, clips, paid, raced>>

ReadTurns(r) ==
    /\ req[r].at = "counted"
    /\ Moves(r, [req[r] EXCEPT !.at = "asking", !.from = Cut(req[r].n),
                               !.to = Cardinality(InScope(req[r].sess))])
    /\ UNCHANGED <<turns, clips, paid, raced>>

-----------------------------------------------------------------------------
\* Appending

Appends(r, line, keyed) ==
    /\ Len(turns) < MaxTurns
    /\ turns' = Append(turns, [sess |-> req[r].sess, line |-> line, keyed |-> keyed, en |-> "null"])
    /\ Moves(r, Idle)
    /\ UNCHANGED <<clips, paid, raced>>

\* A topic without authored openers: the model is asked for one.
AskOpener(r, s) ==
    /\ req[r].at = "idle"
    /\ Moves(r, [Idle EXCEPT !.at = "opening", !.sess = s])
    /\ UNCHANGED <<turns, clips, paid, raced>>

\* The examiner's answer, to a spoken turn or as an opener; its audio is made later.
Reply(r, line) ==
    /\ req[r].at \in {"asking", "opening"}
    /\ line \in {"model", "blank"}
    /\ Appends(r, line, FALSE)

\* The clip of an authored line is made once and found again by its text.
VoiceCanned(r, s) ==
    /\ req[r].at = "idle"
    /\ clips' = clips \cup {0}
    /\ Moves(r, [Idle EXCEPT !.at = "voiced", !.sess = s])
    /\ UNCHANGED <<turns, paid, raced>>

OpenAuthored(r) ==
    /\ req[r].at = "voiced"
    /\ Appends(r, "authored", TRUE)

-----------------------------------------------------------------------------
\* Subtitles and audio on demand

\* A stored subtitle, an authored line and a blank one are answered at once.
NeedsModel_Always(t) == turns[t].line = "model"

NeedsModel(t) == turns[t].line = "model" /\ turns[t].en # "english"

LoadLine(r, t) ==
    /\ req[r].at = "idle"
    /\ t \in Touched \cap DOMAIN turns
    /\ NeedsModel(t)
    /\ paid[t] < MaxPaid
    /\ Moves(r, [Idle EXCEPT !.at = "translating", !.of = t, !.seen = turns[t].en])
    /\ UNCHANGED <<turns, clips, paid, raced>>

Others(r, t) == {s \in Reqs \ {r} : req[s].at = "translating" /\ req[s].of = t}

\* The call is billed and the answer stored, if it is not what the row had.
StoreSubtitle(r, en) ==
    LET t == req[r].of IN
    /\ req[r].at = "translating"
    /\ en \in {"blank", "english"}
    /\ turns' = IF en = req[r].seen THEN turns ELSE [turns EXCEPT ![t].en = en]
    /\ paid' = IF en = "english" THEN [paid EXCEPT ![t] = @ + 1] ELSE paid
    /\ raced' = IF Others(r, t) # {} THEN raced \cup {t} ELSE raced
    /\ Moves(r, Idle)
    /\ UNCHANGED clips

\* speech_audio of a turn without a key and with something to say.
LoadAudio(r, t) ==
    /\ req[r].at = "idle"
    /\ t \in Touched \cap DOMAIN turns
    /\ ~turns[t].keyed
    /\ turns[t].line # "blank"
    /\ Moves(r, [Idle EXCEPT !.at = "voicing", !.of = t])
    /\ UNCHANGED <<turns, clips, paid, raced>>

PutClip(r) ==
    /\ req[r].at = "voicing"
    /\ clips' = clips \cup {req[r].of}
    /\ Moves(r, [req[r] EXCEPT !.at = "put"])
    /\ UNCHANGED <<turns, paid, raced>>

KeyClip(r) ==
    /\ req[r].at = "put"
    /\ turns' = [turns EXCEPT ![req[r].of].keyed = TRUE]
    /\ Moves(r, Idle)
    /\ UNCHANGED <<clips, paid, raced>>

\* The request ends without a write: over budget, silence, audio that cannot be
\* decoded, a failed call, a death before the commit.
GivesUp(r) ==
    /\ req[r].at # "idle"
    /\ Moves(r, Idle)
    /\ UNCHANGED <<turns, clips, paid, raced>>

Next == \E r \in Reqs :
    \/ \E s \in Sessions : CountTurns(r, s) \/ AskOpener(r, s) \/ VoiceCanned(r, s)
    \/ ReadTurns(r) \/ OpenAuthored(r)
    \/ \E line \in Lines : Reply(r, line)
    \/ \E t \in Touched : LoadLine(r, t) \/ LoadAudio(r, t)
    \/ \E en \in Subtitles : StoreSubtitle(r, en)
    \/ PutClip(r) \/ KeyClip(r) \/ GivesUp(r)

Spec == Init /\ [][Next]_vars

-----------------------------------------------------------------------------
\* Properties

\* The clip a turn's reply_audio_key names.
ClipOf(t) == IF turns[t].line = "authored" THEN 0 ELSE t

\* Values are of their types, and a key is committed only once its clip is stored:
\* GET /speech/audio answers 404 to a key without a clip, for good.
TypeOK ==
    /\ turns \in Seq(Turn) /\ Len(turns) <= MaxTurns
    /\ clips \in SUBSET (0..MaxTurns)
    /\ req \in [Reqs -> Request]
    /\ paid \in [Touched -> Nat]
    /\ raced \in SUBSET Touched
    /\ \A t \in DOMAIN turns : turns[t].keyed => ClipOf(t) \in clips

\* "Past the cap the oldest turns go a block at a time, so the cache breaks once per
\* block" (api.py:56-57): of the turns a prompt was counted for it leaves out whole
\* blocks, no more than it must, and what is left fits the cap.
PromptFits ==
    \A r \in Reqs : req[r].at = "asking" =>
        LET left == req[r].n - req[r].from IN
        /\ req[r].from % TrimBlock = 0
        /\ 0 <= left /\ left <= HistoryMax
        /\ req[r].from > 0 => left > HistoryMax - TrimBlock
        /\ req[r].n <= req[r].to

\* "a line is translated (and billed) once however often it is toggled, and a canned
\* opener never costs anything at all" (api.py:506-507): so it is of every line two
\* requests never translated at once, and the English paid for is there.
LinePaidOnce ==
    \A t \in Touched :
        /\ paid[t] > 0 => t \in DOMAIN turns /\ turns[t].line = "model"
        /\ t \notin raced => /\ paid[t] <= 1
                             /\ paid[t] = 1 => turns[t].en = "english"

=============================================================================
